-------------------------------- MODULE Rfs --------------------------------
(***************************************************************************)
(* The remote file system: one server process, its accept loop and its     *)
(* handler threads, and the client processes, joined by their connections. *)
(***************************************************************************)
EXTENDS RfsServer, RfsClient

CONSTANTS
  Concurrent, \* FALSE: a client starts once the one before it has exited,
              \* as the commands of test_rfs.sh do
  Leftovers   \* what an earlier run of the server may have left on the disk

ASSUME RfsAssumption ==
  /\ Concurrent \in BOOLEAN
  /\ Leftovers \subseteq [Kinds -> [Names -> Seq(Stored) \cup {None}]]

vars == <<serverVars, clientVars, conn, disk>>

Init ==
  /\ ServerInit /\ ClientInit /\ ConnInit
  /\ \E before \in Leftovers : DiskInit(before)

TypeOK == ServerTypeOK /\ ClientTypeOK /\ ConnTypeOK /\ DiskTypeOK

(***************************************************************************)
(* Why the types are kept: whoever is looked at has sent a request, a      *)
(* handler that opens a path has read one, and one that reads or writes    *)
(* through a descriptor has opened it.                                     *)
(***************************************************************************)
RequestsKnown ==
  /\ \A c \in Clients : req[c] = None => up[c] = <<>> /\ cpc[c] \in {"idle", "done"}
  /\ buf.of # None => req[buf.of] # None
  /\ mpc \in {"recv", "parse"} => cur \in Clients

PathsKnown == \A c \in Clients :
  /\ pc[c] \in {"w_check", "w_openmeta", "w_openfile", "g_open", "r_openfile", "l_open"}
       => path[c] # None
  /\ pc[c] = "r_openmeta" => path[c] \in Paths

OpenKnown == \A c \in Clients :
  /\ pc[c] = "w_writemeta" => mfd[c] \in Inodes
  /\ pc[c] = "w_store" => fd[c] \in Inodes
  /\ pc[c] \in {"g_read", "l_read"} => fd[c] \in Inodes \cup {Empty}

TypeInv == TypeOK /\ RequestsKnown /\ PathsKnown /\ OpenKnown

(***************************************************************************)
(* The processes side by side.                                             *)
(***************************************************************************)
Main       == MainStep /\ UNCHANGED clientVars
Handler(c) == HandlerStep(c) /\ UNCHANGED clientVars
Client(c)  == ClientStep(c) /\ UNCHANGED <<serverVars, disk>>

MayStart(c) ==
  Concurrent \/ \A d \in Clients \ {c} : cpc[d] \in {"idle", "done"}

\* A user starts ./client; connect fails once nobody listens.
Launch(c) ==
  /\ MayStart(c)
  /\ IF mpc = "dead" THEN ConnectRefused(c) ELSE Connect(c)
  /\ UNCHANGED <<serverVars, disk>>

Kill(c) == Killed(c) /\ UNCHANGED <<serverVars, disk>>

\* Every client has exited and the server is gone, or waits in accept.
Finished ==
  /\ \A c \in Clients : At(c, "done") /\ ~Working(c)
  /\ mpc = "dead" \/ (mpc = "accept" /\ backlog = <<>>)
  /\ UNCHANGED vars

Next ==
  \/ Main
  \/ \E c \in Clients : Handler(c) \/ Client(c) \/ Launch(c) \/ Kill(c)
  \/ Finished

Spec == Init /\ [][Next]_vars

\* The scheduler runs every process and thread that can run; nobody has to
\* start a client, or to kill one.
Fairness ==
  /\ WF_vars(Main)
  /\ \A c \in Clients : WF_vars(Handler(c)) /\ WF_vars(Client(c))

FairSpec == Spec /\ Fairness

(***************************************************************************)
(* One conversation, one message at a time.  The messages have no framing: *)
(* a recv takes what is there.  That is harmless because on every          *)
(* connection at most one text is under way, in either direction, even     *)
(* when the server answers another command than the one that was sent.     *)
(***************************************************************************)
LockStep == \A c \in Clients : Len(up[c]) + Len(down[c]) <= 1

(***************************************************************************)
(* Why: the right to send goes to and fro.  A client that is about to send *)
(* (ClientTurn) and a handler that will send before it receives            *)
(* (ServerTurn) exclude each other, and neither exists while a text is     *)
(* under way.  An end of file is taken for a text by either side, so the   *)
(* ends of a closed connection count too.                                  *)
(***************************************************************************)
Sending == {"start", "w_perm", "w_ack", "reply",
  "g_path", "g_open", "g_read", "g_send",
  "r_path", "r_check", "r_recheck", "r_openmeta", "r_unlinkmeta",
  "r_path2", "r_openfile", "r_unlinkfile",
  "l_path", "l_open", "l_read", "l_send"}

ClientTurn(c) == cpc[c] \in {"send", "source", "confirm"}
ServerTurn(c) == pc[c] \in Sending \/ (mpc = "parse" /\ cur = c)

TurnsTaken == \A c \in Clients :
  /\ Len(up[c]) <= 1 /\ Len(down[c]) <= 1
  /\ up[c] # <<>> => down[c] = <<>> /\ ~ClientTurn(c) /\ ~ServerTurn(c)
  /\ down[c] # <<>> => ~ClientTurn(c) /\ ~ServerTurn(c)
  /\ ~(ClientTurn(c) /\ ServerTurn(c))
  /\ cli[c] = "closed" => cpc[c] = "done" /\ down[c] = <<>>
  /\ srv[c] = "closed" => up[c] = <<>> /\ ~Working(c) /\ ~ServerTurn(c)
  /\ cpc[c] = "idle" => srv[c] = "none" /\ up[c] = <<>> /\ down[c] = <<>>

\* Connections are accepted once each, and have no handler before.
QueueOrdered ==
  /\ \A c \in Clients : srv[c] \in {"none", "queued"} => pc[c] = "none"
  /\ \A i \in DOMAIN backlog : srv[backlog[i]] = "queued"
  /\ \A i, j \in DOMAIN backlog : i # j => backlog[i] # backlog[j]
  /\ mpc \in {"recv", "parse"} => pc[cur] = "none" /\ srv[cur] \notin {"none", "queued"}

TurnInv == TypeInv /\ TurnsTaken /\ QueueOrdered

(***************************************************************************)
(* Descriptors.  A handler thread that has ended leaves descriptors open   *)
(* in the server only on these paths of the code: handle_rm leaves the     *)
(* meta descriptor after unlink succeeded (serverHandler.c:364-423) and    *)
(* the data descriptor likewise (404-422); handle_ls leaves its one unless *)
(* send fails (456-471); handle_get leaves it when read finds nothing      *)
(* (261-265).  handle_write leaves none, on any path.                      *)
(***************************************************************************)
LeaksKnown == \A c \in Clients : pc[c] = "done" =>
  /\ mfd[c] # None => op[c] = "RM"
  /\ fd[c] # None => \/ op[c] = "RM" /\ out[c] = Note("removed")
                     \/ op[c] = "LS"
                     \/ op[c] = "GET" /\ out[c] = <<>>

(***************************************************************************)
(* Headers.  Whatever the interleaving of the handlers, and in spite of    *)
(* locks that exclude nobody, a meta file is empty or holds the number of  *)
(* some WRITE, save one case: a digit over the "-1" of another handler     *)
(* (serverHandler.c:104-105), which leaves 01 or 11, both of them read as  *)
(* writable.  No other text ever gets into the meta tree.                  *)
(***************************************************************************)
Headers == {<<>>, <<"0">>, <<"1">>, <<"-", "1">>, <<"0", "1">>, <<"1", "1">>}
HeadersReadable ==
  \A c \in Clients \cup Names : data[<<c, "meta">>] \in Headers

(***************************************************************************)
(* A handler works on the request its own client sent: the command it ran, *)
(* the path and the permission it used are those of the request line, not  *)
(* what the accept loop has put in the shared buffer since.                *)
(***************************************************************************)
RequestIntegrity == \A c \in Clients :
  /\ op[c] # None => op[c] = req[c].cmd
  /\ path[c] # None => path[c] = req[c].path
  /\ op[c] = "WRITE" /\ pc[c] \notin {"start", "w_perm"} => perm[c] = req[c].perm

\* The handler of c runs the request of c, so far.
Faithful(c) == op[c] = req[c].cmd /\ path[c] = req[c].path

(***************************************************************************)
(* The header of a read-only file stays what it is: no handler that runs   *)
(* its own client's request changes it (handle_write and handle_rm both    *)
(* look at the permission first, serverHandler.c:47, 309).                 *)
(***************************************************************************)
ReadOnlyStable ==
  [][\A n \in Names, c \in Clients :
       HandlerStep(c) /\ Faithful(c) /\ PermissionOf(n) = 0
         => PermissionOf(n)' = 0]_vars

(***************************************************************************)
(* Every session ends: a client that has connected exits, whatever the     *)
(* other clients, the accept loop and a dying server do; and a handler     *)
(* thread that was started returns, or ends with the process.              *)
(***************************************************************************)
EverySessionEnds == \A c \in Clients : (cpc[c] # "idle") ~> (cpc[c] = "done")
EveryHandlerEnds ==
  \A c \in Clients : (pc[c] = "start") ~> (pc[c] \in {"done", "killed"})

(***************************************************************************)
(* The server is never killed by a signal: neither SIGPIPE nor the         *)
(* strcmp(NULL) of server.c:124.  With clients that run to their end it    *)
(* holds even when handlers run the wrong commands, since no handler sends *)
(* more than one text after its client has closed.                         *)
(***************************************************************************)
ServerSurvives == why # "signal"

(***************************************************************************)
(* Files.  When no handler is at work, each file of the store is empty, or *)
(* holds one text from its first to its last cell: what one WRITE sent, or *)
(* what was there before.  handle_write opens, locks and writes each file  *)
(* by itself (serverHandler.c:139-187).                                    *)
(***************************************************************************)
NobodyWorks == \A c \in Clients : ~Working(c)
StoredAt(n) == data[link["file"][n]]

FilesWhole == NobodyWorks => \A n \in Names : Exists("file", n) =>
  StoredAt(n) \in {<<>>} \cup {PbEncode(Source[c]) : c \in Clients}
                      \cup {before["file"][n] : before \in Leftovers}

(***************************************************************************)
(* A file that is there and empty, when the server waits with no handler   *)
(* at work, was emptied by a user that failed: handle_write takes the end  *)
(* of a connection for an empty file (serverHandler.c:168-179).  Handlers  *)
(* that ran another request than their client's are the other cause.       *)
(***************************************************************************)
EmptiedByFailure == NobodyWorks /\ mpc = "accept" =>
  \A n \in Names : Exists("file", n) /\ StoredAt(n) = <<>> =>
    \E c \in Clients : status[c] = "fail" \/ (op[c] # None /\ ~Faithful(c))

(***************************************************************************)
(* STOP is graceful: the handlers that it ends have done all their work,   *)
(* and would only have closed their connection.  main does not wait for    *)
(* them (server.c:124-128, 156); what makes it true of users in order is   *)
(* that a client exits after the last word of its handler only.            *)
(***************************************************************************)
GracefulStop ==
  [][why = "alive" /\ why' = "stop"
       => \A c \in Clients : Working(c) => pc[c] = "close"]_vars

(***************************************************************************)
(* What a signal has as its cause, when there are clients that fail or are *)
(* killed: one of them has left early.  That is how a handler comes to     *)
(* send twice into a closed connection, and the accept loop to a request   *)
(* that is not there and a strcmp(NULL) (server.c:116-124).                *)
(***************************************************************************)
SignalHasCause == why = "signal" =>
  \E c \in BadLocal \cup Killable : status[c] = "fail"

=============================================================================
