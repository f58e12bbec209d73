----------------------------- MODULE RfsClient -----------------------------
(***************************************************************************)
(* The client process: client.c connects and runs one command, with the    *)
(* exchange of messages that clientHandler.c has for it.                   *)
(***************************************************************************)
EXTENDS Connection

CONSTANTS
  Plan,     \* Plan[c]: the requests client c may be started with
  Source,   \* Source[c]: the contents of the local file c sends by WRITE
  BadLocal, \* clients whose local path cannot be opened
  Killable  \* clients that may be killed from outside

ASSUME ClientAssumption ==
  /\ Plan \in [Clients -> SUBSET Request]
  /\ Source \in [Clients -> Text]
  /\ BadLocal \subseteq Clients
  /\ Killable \subseteq Clients

VARIABLES
  cpc,      \* where client c is
  local,    \* the local file that a GET of c writes
  answer,   \* the final message c printed as "Answer from server"
  status    \* exit status: "running", "ok" (0), "fail" (not 0)

clientVars == <<cpc, local, answer, status>>

ClientPCs == {"idle", "send", "ack", "source", "open", "fetch", "confirm",
              "result", "close", "done"}

ClientTypeOK ==
  /\ cpc \in [Clients -> ClientPCs]
  /\ local \in [Clients -> Text]
  /\ answer \in [Clients -> Text]
  /\ status \in [Clients -> {"running", "ok", "fail"}]

ClientInit ==
  /\ cpc = [c \in Clients |-> "idle"]
  /\ local = [c \in Clients |-> <<>>]
  /\ answer = [c \in Clients |-> <<>>]
  /\ status = [c \in Clients |-> "running"]

At(c, label) == cpc[c] = label
Move(c, label) == cpc' = [cpc EXCEPT ![c] = label]

\* The command function returns, and main closes the socket.
Return(c, s) == Move(c, "close") /\ status' = [status EXCEPT ![c] = s]

(***************************************************************************)
(* main                                                                    *)
(***************************************************************************)
Connect(c) ==
  /\ At(c, "idle")
  /\ \E r \in Plan[c] : CliConnect(c, r)
  /\ Move(c, "send")
  /\ UNCHANGED <<local, answer, status>>

\* No server listens any more.
ConnectRefused(c) ==
  /\ At(c, "idle")
  /\ Move(c, "done") /\ status' = [status EXCEPT ![c] = "fail"]
  /\ UNCHANGED <<conn, local, answer>>

\* Slip: client_rm returns without waiting for the result.
SendRequestHasty(c) ==
  /\ At(c, "send") /\ CliSend(c, Note("request"))
  /\ IF req[c].cmd \in {"STOP", "SKIP", "RM"}
       THEN Return(c, "ok")
       ELSE /\ Move(c, CASE req[c].cmd = "WRITE" -> "ack"
                         [] req[c].cmd = "GET"   -> "open"
                         [] OTHER                -> "result")
            /\ UNCHANGED status
  /\ UNCHANGED <<local, answer>>

\* client_close does not look at its send: HELP exits 0, a malformed command 1.
ExitsAfter(c, sent) == IF req[c].cmd = "SKIP" THEN {"ok", "fail"} ELSE {sent}

SendRequest(c) ==
  /\ At(c, "send")
  /\ \/ /\ CliSend(c, Note("request"))
        /\ IF req[c].cmd \in {"STOP", "SKIP"}
             THEN \E s \in ExitsAfter(c, "ok") : Return(c, s)
             ELSE /\ Move(c, CASE req[c].cmd = "WRITE" -> "ack"
                               [] req[c].cmd = "GET"   -> "open"
                               [] OTHER                -> "result")
                  /\ UNCHANGED status
     \/ /\ CliSendError(c)
        /\ \E s \in ExitsAfter(c, "fail") : Return(c, s)
        /\ UNCHANGED conn
  /\ UNCHANGED <<local, answer>>

CloseSocket(c) ==
  /\ At(c, "close")
  /\ CliClose(c)
  /\ Move(c, "done")
  /\ UNCHANGED <<local, answer, status>>

\* The process is killed: the kernel closes its socket.
Killed(c) ==
  /\ c \in Killable
  /\ ~At(c, "idle") /\ ~At(c, "done")
  /\ CliClose(c)
  /\ Move(c, "done") /\ status' = [status EXCEPT ![c] = "fail"]
  /\ UNCHANGED <<local, answer>>

(***************************************************************************)
(* client_write                                                            *)
(***************************************************************************)
\* Whatever recv returns, an end of file included, is an acknowledgement.
AwaitAck(c) ==
  /\ At(c, "ack")
  /\ \/ CliRecv(c) /\ Move(c, "source") /\ UNCHANGED status
     \/ CliEof(c) /\ Move(c, "source") /\ UNCHANGED <<conn, status>>
     \/ CliRecvError(c) /\ Return(c, "fail") /\ UNCHANGED conn
  /\ UNCHANGED <<local, answer>>

\* Only now is the local file opened; an empty one counts as unreadable.
SendFile(c) ==
  /\ At(c, "source")
  /\ \/ /\ c \notin BadLocal /\ Source[c] # <<>>
        /\ CliSend(c, Source[c])
        /\ Move(c, "result") /\ UNCHANGED status
     \/ /\ c \in BadLocal \/ Source[c] = <<>> \/ CliSendError(c)
        /\ Return(c, "fail") /\ UNCHANGED conn
  /\ UNCHANGED <<local, answer>>

(***************************************************************************)
(* client_get                                                              *)
(***************************************************************************)
\* The local file is created or truncated before anything is received.
OpenLocal(c) ==
  /\ At(c, "open")
  /\ IF c \in BadLocal
       THEN Return(c, "fail") /\ UNCHANGED local
       ELSE local' = [local EXCEPT ![c] = <<>>] /\ Move(c, "fetch") /\ UNCHANGED status
  /\ UNCHANGED <<conn, answer>>

Fetch(c) ==
  /\ At(c, "fetch")
  /\ \/ /\ CliRecv(c)
        /\ local' = [local EXCEPT ![c] = Head(down[c])]
        /\ Move(c, "confirm") /\ UNCHANGED status
     \/ /\ CliEof(c) \/ CliRecvError(c)
        /\ Return(c, "fail") /\ UNCHANGED <<conn, local>>
  /\ UNCHANGED answer

Confirm(c) ==
  /\ At(c, "confirm")
  /\ \/ CliSend(c, Note("fetched")) /\ Move(c, "result") /\ UNCHANGED status
     \/ CliSendError(c) /\ Return(c, "fail") /\ UNCHANGED conn
  /\ UNCHANGED <<local, answer>>

(***************************************************************************)
(* The last recv of client_write, client_get, client_rm and client_ls: an  *)
(* end of file is an answer too, and client_ls does not mind an error.     *)
(***************************************************************************)
\* What is printed is the buffer, up to the first zero byte.  client_write and
\* client_get have cleared theirs; client_rm and client_ls have not, so that
\* anything may follow what was received.
Printed(c, text) ==
  \E rest \in {<<>>} \cup (IF req[c].cmd \in {"RM", "LS"} THEN {Note("stale")} ELSE {}) :
    answer' = [answer EXCEPT ![c] = text \o rest]

AwaitResult(c) ==
  /\ At(c, "result")
  /\ \/ CliRecv(c) /\ Printed(c, Head(down[c])) /\ Return(c, "ok")
     \/ CliEof(c) /\ Printed(c, <<>>) /\ Return(c, "ok") /\ UNCHANGED conn
     \/ /\ CliRecvError(c)
        /\ IF req[c].cmd = "LS"
             THEN Printed(c, <<>>) /\ Return(c, "ok")
             ELSE UNCHANGED answer /\ Return(c, "fail")
        /\ UNCHANGED conn
  /\ UNCHANGED local

\* Every step the program takes by itself once it runs.
ClientStep(c) ==
  \/ SendRequest(c) \/ CloseSocket(c)
  \/ AwaitAck(c) \/ SendFile(c)
  \/ OpenLocal(c) \/ Fetch(c) \/ Confirm(c)
  \/ AwaitResult(c)

=============================================================================
