------------------------------ MODULE Transfer ------------------------------
(***************************************************************************)
(* One file on its way to the server and back, byte by byte: what WRITE    *)
(* and GET do with a text that TCP delivers in parts, that is longer than  *)
(* a buffer, or that fills one.  Users come one at a time, each when the   *)
(* handler of the one before has ended; requests arrive whole, permission  *)
(* is given, and the only failure is that of an empty or absent file.      *)
(*                                                                         *)
(* A byte is a character, or one half of a fixed message of the program.   *)
(***************************************************************************)
EXTENDS Polybius, Integers

CONSTANTS
  Chars,    \* the characters of the local files
  Texts,    \* the local files
  Size,     \* BUFFER_SIZE of clientHandler.c and serverHandler.c
  Absent    \* no file

ASSUME TransferAssumption ==
  /\ Size \in Nat \ {0} /\ Size % 2 = 0
  /\ Texts \subseteq Seq(Chars)

VARIABLES
  parts,    \* TCP may deliver what one send sent to several recvs
  command,  \* what the current user, or the last one, asked for
  cpc, spc, \* where the client and the handler are
  up, down, \* bytes sent and not yet received
  source,   \* the local file of the last WRITE
  stored,   \* the bytes of the remote file, ciphered
  local,    \* the local file that GETs write
  answer,   \* what the client printed
  status    \* its exit status

ends == <<cpc, spc, up, down>>
vars == <<parts, command, ends, source, stored, local, answer, status>>

\* Every fixed message has more than one byte, and fits the buffers.
Received == <<"Message ", "received">>
Written  == <<"Write ", "Success">>
Fetched  == <<"successfully ", "received">>
Got      == <<"Get ", "Success">>

Least(m, n) == IF m < n THEN m ELSE n
Cut(s, n)   == SubSeq(s, 1, Least(n, Len(s)))

\* recv() > 0: what it may take of a queue that is not empty, and what it leaves.
Takes(q) == LET most == Least(Size, Len(q))
            IN {Cut(q, n) : n \in IF parts THEN 1..most ELSE {most}}
After(q, taken) == SubSeq(q, Len(taken) + 1, Len(q))

\* A buffer filled to the last byte has no zero behind it: strlen goes on into
\* what follows in memory, here for no byte or one.
AsString(bytes) == IF Len(bytes) < Size THEN {bytes} ELSE {bytes, Append(bytes, "?")}

\* write() at the start of a file
Overlay(old, new) == new \o SubSeq(old, Len(new) + 1, Len(old))

Init ==
  /\ parts \in BOOLEAN
  /\ command = "RM" /\ cpc = "idle" /\ spc = "idle"
  /\ up = <<>> /\ down = <<>>
  /\ source = Absent /\ stored = Absent /\ local = Absent
  /\ answer = <<>> /\ status = "ok"

(***************************************************************************)
(* A user starts a client, and the server is there; it may have been       *)
(* started again since a crash.  Neither end has anything left of before.  *)
(***************************************************************************)
Over == cpc = "idle" /\ spc \in {"idle", "crashed"}

Begin(cmd, cstep, sstep) ==
  /\ Over
  /\ command' = cmd /\ cpc' = cstep /\ spc' = sstep
  /\ up' = <<>> /\ down' = <<>> /\ answer' = <<>> /\ status' = "running"
  /\ UNCHANGED parts

Write(t) ==
  /\ Begin("WRITE", "ack", "ack")
  /\ source' = t
  /\ UNCHANGED <<stored, local>>

\* client_get empties the local file before it hears from the server.
\* Slip: it writes over what is there.
GetKeeping ==
  /\ Begin("GET", "fetch", "read")
  /\ local' = IF local = Absent THEN <<>> ELSE local
  /\ UNCHANGED <<source, stored>>

Get ==
  /\ Begin("GET", "fetch", "read")
  /\ local' = <<>>
  /\ UNCHANGED <<source, stored>>

\* No file moves: the whole session at one stroke.
RemoveFile ==
  /\ Begin("RM", "idle", "idle")
  /\ stored' = Absent
  /\ UNCHANGED <<source, local>>

(***************************************************************************)
(* The client.                                                             *)
(***************************************************************************)
ServerGone == spc \in {"idle", "crashed"}

Exit(code) == cpc' = "idle" /\ status' = code

\* The acknowledgement, then the file, as far as one read gets; a read that
\* gets nothing is a failure.
\* Slip: the client does not wait.
AwaitAckHasty ==
  /\ cpc = "ack"
  /\ \/ source = <<>> /\ Exit("failed") /\ UNCHANGED up
     \/ /\ source # <<>> /\ cpc' = "result"
        /\ up' = up \o Cut(source, Size)
        /\ UNCHANGED status
  /\ UNCHANGED <<parts, command, spc, down, source, stored, local, answer>>

AwaitAck ==
  /\ cpc = "ack" /\ down # <<>>
  /\ \E ack \in Takes(down) : down' = After(down, ack)
  /\ \/ source = <<>> /\ Exit("failed") /\ UNCHANGED up
     \/ /\ source # <<>> /\ cpc' = "result"
        /\ up' = up \o Cut(source, Size)
        /\ UNCHANGED status
  /\ UNCHANGED <<parts, command, spc, source, stored, local, answer>>

\* recv() > 0, the text is written, and the server told so.
Fetch ==
  /\ cpc = "fetch" /\ down # <<>>
  /\ \E text \in Takes(down) :
       /\ down' = After(down, text)
       /\ local' = Overlay(local, text)
  /\ up' = up \o Fetched
  /\ cpc' = "result"
  /\ UNCHANGED <<parts, command, spc, source, stored, answer, status>>

FetchNothing ==
  /\ cpc = "fetch" /\ down = <<>> /\ ServerGone
  /\ Exit("failed")
  /\ UNCHANGED <<parts, command, spc, up, down, source, stored, local, answer>>

\* The client prints what the last recv takes, whatever it is.  There always
\* is something: data queued before a FIN or a reset is still delivered.
AwaitResult ==
  /\ cpc = "result" /\ down # <<>>
  /\ \E text \in Takes(down) : down' = After(down, text) /\ answer' = text
  /\ Exit("ok")
  /\ UNCHANGED <<parts, command, spc, up, source, stored, local>>

(***************************************************************************)
(* The handler.                                                            *)
(***************************************************************************)
\* handle_write acknowledges, and opens the file.
\* Slip: without O_TRUNC.
OpenFileKeeping ==
  /\ spc = "ack"
  /\ down' = down \o Received
  /\ stored' = IF stored = Absent THEN <<>> ELSE stored
  /\ spc' = "store"
  /\ UNCHANGED <<parts, command, cpc, up, source, local, answer, status>>

OpenFile ==
  /\ spc = "ack"
  /\ down' = down \o Received
  /\ stored' = <<>>
  /\ spc' = "store"
  /\ UNCHANGED <<parts, command, cpc, up, source, local, answer, status>>

\* One recv is the whole file, and success is reported.
\* Slip: the recv waits for a full buffer.
StoreInsisting ==
  /\ spc = "store" /\ Len(up) >= Size
  /\ up' = After(up, Cut(up, Size))
  /\ \E message \in AsString(Cut(up, Size)) : stored' = Overlay(stored, pbEncode(message))
  /\ down' = down \o Written
  /\ spc' = "idle"
  /\ UNCHANGED <<parts, command, cpc, source, local, answer, status>>

Store ==
  /\ spc = "store" /\ up # <<>>
  /\ \E bytes \in Takes(up) :
       /\ up' = After(up, bytes)
       /\ \E message \in AsString(bytes) : stored' = Overlay(stored, pbEncode(message))
  /\ down' = down \o Written
  /\ spc' = "idle"
  /\ UNCHANGED <<parts, command, cpc, source, local, answer, status>>

\* recv() = 0 is taken for an empty file.
StoreNothing ==
  /\ spc = "store" /\ up = <<>> /\ cpc = "idle"
  /\ down' = down \o Written
  /\ spc' = "idle"
  /\ UNCHANGED <<parts, command, cpc, up, source, stored, local, answer, status>>

\* open fails, or read finds nothing: the handler returns without a word.
ReadNothing ==
  /\ spc = "read" /\ stored \in {Absent, <<>>}
  /\ spc' = "idle"
  /\ UNCHANGED <<parts, command, cpc, up, down, source, stored, local, answer, status>>

\* handle_get reads once, and takes what it has read for a string.  pbDecode
\* returns NULL for an odd length, and strlen(NULL) ends the server.
Read ==
  /\ spc = "read" /\ stored \notin {Absent, <<>>}
  /\ \E cipher \in AsString(Cut(stored, Size)) :
       \/ /\ Decodable(cipher)
          /\ down' = down \o pbDecode(cipher) /\ spc' = "confirm"
       \/ /\ ~Decodable(cipher)
          /\ spc' = "crashed" /\ UNCHANGED down
  /\ UNCHANGED <<parts, command, cpc, up, source, stored, local, answer, status>>

Confirm ==
  /\ spc = "confirm" /\ up # <<>>
  /\ \E ack \in Takes(up) : up' = After(up, ack)
  /\ down' = down \o Got
  /\ spc' = "idle"
  /\ UNCHANGED <<parts, command, cpc, source, stored, local, answer, status>>

Client == AwaitAck \/ Fetch \/ FetchNothing \/ AwaitResult
Server == OpenFile \/ Store \/ StoreNothing \/ ReadNothing \/ Read \/ Confirm
User   == (\E t \in Texts : Write(t)) \/ Get \/ RemoveFile

Next == User \/ Client \/ Server

Spec == Init /\ [][Next]_vars

\* Client and server are processes that run when they can; no user has to come.
FairSpec == Spec /\ WF_vars(Client) /\ WF_vars(Server)

\* The file is short enough for every buffer it passes, ciphered or not.
Short == source # Absent /\ 2 * Len(source) < Size

(***************************************************************************)
(* What is written comes back.  When messages arrive as they were sent, a  *)
(* GET that succeeds leaves the text of the last WRITE, whole and in upper *)
(* case, in the local file, and a WRITE or GET that succeeds prints the    *)
(* server's own last word, not a message that was still under way.         *)
(***************************************************************************)
RoundTrip == Over /\ ~parts /\ Short /\ status = "ok" =>
  /\ command = "GET" => local = Upper(source) /\ answer = Got
  /\ command = "WRITE" => answer = Written

(***************************************************************************)
(* The user is told the truth about a WRITE of one buffer or less: after   *)
(* "Write Success" the remote file is the cipher of the whole local file   *)
(* and of nothing else - when the messages arrive as they were sent.       *)
(***************************************************************************)
SuccessMeansStored ==
  Over /\ ~parts /\ command = "WRITE" /\ answer = Written /\ Len(source) < Size
    => stored = pbEncode(source)

(***************************************************************************)
(* After a GET, whether it succeeded or not and however TCP cut the texts, *)
(* the local copy holds nothing but the beginning of what was last         *)
(* written, or nothing at all: never a rest of an older copy               *)
(* (clientHandler.c:130).                                                  *)
(***************************************************************************)
CopyIsCurrent == Over /\ command = "GET" /\ Short =>
  IsPrefix(local, Upper(source)) /\ (stored = Absent => local = <<>>)

(***************************************************************************)
(* Only a file whose cipher fills the buffer of handle_get can bring down  *)
(* the server: no parts, empty files or characters outside the square can  *)
(* (serverHandler.c:247-251).                                              *)
(***************************************************************************)
CrashOnlyWhenLong == spc = "crashed" => Len(stored) >= Size

(***************************************************************************)
(* No cut of the messages makes client and server wait for each other: the *)
(* user's command ends, and the handler is free for the next.              *)
(***************************************************************************)
SessionsEnd == (status = "running") ~> Over

=============================================================================
