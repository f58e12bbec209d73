---------------------------- MODULE OrderProofs -----------------------------
(***************************************************************************)
(* Proofs for users that run one client after the other, as test_rfs.sh    *)
(* does, each of them to its end: then every handler works on the request  *)
(* of its own client, read-only files stay what they are, and the server   *)
(* implements the store of RemoteFiles, whose requests are atomic.         *)
(***************************************************************************)
EXTENDS DiskProofs, RfsRefinement

\* One client at a time, and none that leaves before its handler has answered:
\* the local files can be opened, and there is something in those to be sent.
Orderly ==
  /\ Concurrent = FALSE /\ Killable = {}
  /\ \A c \in Clients : \A r \in Plan[c] :
       /\ r.cmd \in {"GET", "WRITE"} => c \notin BadLocal
       /\ r.cmd = "WRITE" => Source[c] # <<>>

LEMMA OrderlyFinish == Orderly => ClientsFinish
BY ClientAssumption DEF Orderly, ClientsFinish

(***************************************************************************)
(* The invariant: of the clients that run one at most has not been served, *)
(* and no other one's request gets into the buffer until it has.           *)
(***************************************************************************)
Active(c) == cpc[c] \notin {"idle", "done"}
OneActive == \A c, d \in Clients : Active(c) /\ Active(d) => c = d

\* Connections that wait are over, but for the last one.
QueueDone ==
  /\ \A i \in DOMAIN backlog : i < Len(backlog) => ~Active(backlog[i])
  /\ mpc \in {"recv", "parse"} /\ backlog # <<>> => ~Active(cur)

LineParsed == mpc = "parse" => buf.of = cur

\* What the client does, and what is under way, once it has had an answer.
Synced(c) ==
  /\ pc[c] \in WriteHeard \cup {"g_ack", "reply"} => cli[c] = "open" /\ srv[c] = "open"
  /\ pc[c] \in WriteHeard => \/ cpc[c] = "ack" /\ down[c] # <<>>
                             \/ cpc[c] = "source"
                             \/ cpc[c] = "result" /\ up[c] # <<>>
  /\ pc[c] = "g_ack" => \/ cpc[c] \in {"open", "fetch"} /\ down[c] # <<>>
                        \/ cpc[c] = "confirm"
                        \/ cpc[c] = "result" /\ up[c] # <<>>
  /\ pc[c] = "reply" => cpc[c] = "result" /\ up[c] = <<>> /\ down[c] = <<>>

Serving(c) == Working(c) /\ pc[c] # "close"

\* As long as a handler reads the buffer, the loop waits for a next client.
Untouched(c) == Serving(c) => Intact(c) /\ mpc = "accept" /\ backlog = <<>>

OwnRequest(c) ==
  /\ pc[c] \in {"none", "start"} => op[c] = None /\ path[c] = None
  /\ op[c] # None => op[c] = req[c].cmd
  /\ path[c] # None => path[c] = req[c].path
  /\ op[c] = "WRITE" /\ pc[c] \notin {"start", "w_perm"} => perm[c] = req[c].perm

OrderInv ==
  /\ SurvivalInv /\ LeakInv /\ OneActive /\ QueueDone /\ LineParsed
  /\ \A c \in Clients : Synced(c) /\ Untouched(c) /\ OwnRequest(c)

\* A client that is being served is there.
LEMMA ServedActive ==
  ASSUME OrderInv, NEW c \in Clients, Serving(c)
  PROVE  Active(c) /\ srv[c] = "open" /\ cli[c] = "open"
<1> USE TurnTypes DEF OrderInv, SurvivalInv
<1>1. CASE pc[c] \in Sending \ {"reply"}
  BY <1>1 DEF Polite, Awaits, Unheard, Awaiting, Active
<1>2. CASE pc[c] \in WriteHeard \cup {"g_ack", "reply"}
  BY <1>2 DEF Synced, Active
<1> QED
  BY <1>1, <1>2 DEF Serving, Working, Sending, WriteHeard, HandlerPCs

\* No two handlers are at work.
LEMMA OneServed ==
  ASSUME OrderInv, NEW c \in Clients, NEW d \in Clients, Serving(c), Serving(d)
  PROVE  c = d
BY DEF OrderInv, Untouched, Intact

(***************************************************************************)
(* Handlers.                                                               *)
(***************************************************************************)
\* The pointers a handler was given lead to its own request.
LEMMA OwnLine ==
  ASSUME OrderInv, NEW c \in Clients, Serving(c)
  PROVE  /\ CommandsRead(c) = {req[c].cmd} /\ PathsRead(c) = {req[c].path}
         /\ req[c].cmd = "WRITE" => PermissionRead(c) = req[c].perm
<1>1. buf = [of |-> c, split |-> TRUE] /\ c # None
  BY CommonAssumption DEF OrderInv, Untouched, Intact
<1>2. buf.of = c /\ buf.split
  BY <1>1
<1> QED
  BY <1>1, <1>2 DEF CommandsRead, PathsRead, PermissionRead, Intact

\* What a handler leaves alone.
LEMMA HandlerFrame ==
  ASSUME TurnInv, NEW c \in Clients, HandlerStep(c), ~Sigpipe(c)
  PROVE  /\ UNCHANGED <<buf, backlog, cur, mpc>> /\ \A d \in Clients \ {c} : perm'[d] = perm[d]
         /\ Serving(c)' => Serving(c)
         /\ pc[c] = "close" => pc'[c] = "done" /\ UNCHANGED <<op, path, perm, disk>>
<1> USE HandlerTypes, DiskTypes DEF Serving, Working, Goto, Answer, mainVars, conn
<1> DEFINE Done ==
      /\ UNCHANGED <<buf, backlog, cur, mpc>> /\ \A d \in Clients \ {c} : perm'[d] = perm[d]
      /\ Serving(c)' => Serving(c)
      /\ pc[c] = "close" => pc'[c] = "done" /\ UNCHANGED <<op, path, perm, disk>>
<1> SUFFICES Done
  OBVIOUS
<1>1. (\E m : SrvSend(c, m)) \/ SrvRecv(c) \/ SrvClose(c) \/ SrvSendError(c)
        => UNCHANGED backlog
  BY DEF SrvSend, SrvRecv, SrvClose, SrvSendError
<1>2. Write(c) => Done
  BY <1>1
  DEF Write, WritePermission, WriteAck, WriteCheck, WriteDrain, WriteOpenMeta,
    WriteMeta, WritePath, WriteOpenFile, WriteStore, ReadPath
<1>3. Get(c) => Done
  BY <1>1 DEF Get, GetPath, GetOpen, GetRead, GetSend, GetAck, ReadPath
<1>4. Rm(c) => Done
  BY <1>1
  DEF Rm, RmPath, RmCheck, RmRecheck, RmOpenMeta, RmUnlinkMeta, RmPath2, RmOpenFile,
    RmUnlinkFile, ReadPath
<1>5. Ls(c) => Done
  BY <1>1 DEF Ls, LsPath, LsOpen, LsRead, LsSend, ReadPath
<1>6. Start(c) \/ Reply(c) \/ Close(c) => Done
  BY <1>1 DEF Start, Reply, Close
<1> QED  BY <1>2, <1>3, <1>4, <1>5, <1>6 DEF HandlerStep

\* The first answer is sent to a client that waits for it.
LEMMA AnswersFirst ==
  ASSUME OrderInv, NEW c \in Clients, pc[c] \in Sending \ {"reply"}
  PROVE  /\ srv[c] = "open" /\ cli[c] = "open" /\ up[c] = <<>> /\ down[c] = <<>>
         /\ cpc[c] \in Awaiting(req[c].cmd)
BY DEF OrderInv, SurvivalInv, Polite, Awaits, Unheard, TurnInv, TurnsTaken, ServerTurn

LEMMA FirstAnswer ==
  ASSUME OrderInv, NEW c \in Clients, pc[c] \in Sending \ {"reply"}, NEW m, SrvSend(c, m)
  PROVE  /\ srv'[c] = "open" /\ cli'[c] = "open" /\ down'[c] # <<>> /\ UNCHANGED <<up, req>>
<1>1. srv[c] = "open" /\ cli[c] = "open" /\ down[c] = <<>>  BY AnswersFirst
<1>2. Append(<<>>, m) = <<m>> /\ <<m>> # <<>>
  OBVIOUS
<1>3. ConnTypeOK  BY TurnTypes DEF OrderInv, SurvivalInv
<1> QED  BY <1>1, <1>2, <1>3 DEF SrvSend, ConnTypeOK

\* What is received is the only text there is.
LEMMA TakesAll ==
  ASSUME TurnInv, NEW c \in Clients, SrvRecv(c)
  PROVE  /\ up'[c] = <<>> /\ down[c] = <<>> /\ up[c] # <<>>
         /\ cpc[c] \notin {"source", "confirm"} /\ UNCHANGED <<req, cli, srv, down>>
<1>1. up[c] \in Seq(Text) /\ Len(up[c]) <= 1 /\ up[c] # <<>>
  BY TurnTypes DEF TurnInv, TurnsTaken, ConnTypeOK, SrvRecv
<1>2. Tail(up[c]) = <<>>  BY <1>1
<1> QED
  BY <1>1, <1>2, TurnTypes DEF TurnInv, TurnsTaken, ConnTypeOK, SrvRecv, ClientTurn

LEMMA HandlerOrder ==
  ASSUME OrderInv, NEW c \in Clients, HandlerStep(c), ~Sigpipe(c), UNCHANGED clientVars
  PROVE  Synced(c)' /\ OwnRequest(c)'
<1>1. TurnInv /\ Synced(c) /\ OwnRequest(c) /\ OnPath(c)
  BY DEF OrderInv, LeakInv, Accounted
<1>2. UNCHANGED <<req, cpc>>
  BY <1>1, HandlerPath DEF clientVars
<1> USE <1>1, <1>2, HandlerTypes, DiskTypes, TurnTypes DEF Goto
<1> DEFINE Own == OwnRequest(c)'
           Heard == Synced(c)'
           Same == UNCHANGED <<op, path, perm>>
<1>3. ASSUME Same, pc[c] \notin {"start", "w_perm"}, pc'[c] \notin {"none", "start"}
      PROVE  Own
  BY <1>3 DEF OwnRequest
<1>4. ASSUME pc'[c] \notin WriteHeard \cup {"g_ack", "reply"} PROVE Heard
  BY <1>4 DEF Synced
<1>5. ASSUME pc[c] \in WriteHeard, pc'[c] \in WriteHeard, UNCHANGED conn PROVE Heard
  BY <1>5 DEF Synced, WriteHeard, conn
<1>6. ASSUME Serving(c), ReadPath(c), UNCHANGED <<op, perm>>,
             pc[c] \notin {"start", "w_perm"}, pc'[c] \notin {"none", "start"}
      PROVE  Own
  <2>1. PICK p \in PathsRead(c) : path' = [path EXCEPT ![c] = p]  BY <1>6 DEF ReadPath
  <2>2. path'[c] = req[c].path  BY <1>6, <2>1, OwnLine
  <2> QED  BY <1>6, <2>2 DEF OwnRequest
\* The last answer comes after the first ...
<1>7. ASSUME pc[c] \in WriteHeard \cup {"g_ack"}, pc'[c] = "reply", SrvRecv(c) PROVE Heard
  <2>1. cpc[c] = "result"  BY <1>7, TakesAll DEF Synced
  <2> QED  BY <1>7, <2>1, TakesAll DEF Synced, WriteHeard
<1>8. SrvEof(c) \/ SrvRecvError(c) => pc[c] \notin WriteHeard \cup {"g_ack"}
  BY DEF SrvEof, SrvRecvError, Synced
\* ... or is the only one.
<1>9. ASSUME pc[c] \in Sending \ {"reply"}, op[c] \in {"RM", "LS"}, pc'[c] = "reply",
             UNCHANGED conn PROVE Heard
  <2>1. req[c].cmd \in {"RM", "LS"}
    BY <1>9, CommonAssumption DEF OwnRequest, Commands, Handled
  <2>2. cpc[c] = "result"  BY <1>9, <2>1, AnswersFirst DEF Awaiting
  <2> QED  BY <1>9, <2>2, AnswersFirst DEF conn, Synced, WriteHeard
<1>10. ASSUME pc[c] = "g_send", pc'[c] = "g_ack", NEW m, SrvSend(c, m) PROVE Heard
  <2>1. req[c].cmd = "GET"
    BY <1>10, CommonAssumption DEF OnPath, GetPCs, OwnRequest, Commands, Handled
  <2>2. cpc[c] \in {"open", "fetch"}
    BY <1>10, <2>1, AnswersFirst DEF Awaiting, Sending
  <2> QED  BY <1>10, <2>2, FirstAnswer DEF Synced, WriteHeard, Sending
<1>11. ASSUME pc[c] = "w_ack", pc'[c] = "w_check", NEW m, SrvSend(c, m) PROVE Heard
  <2>1. req[c].cmd = "WRITE"
    BY <1>11, CommonAssumption DEF OnPath, WritePCs, OwnRequest, Commands, Handled
  <2>2. cpc[c] = "ack"
    BY <1>11, <2>1, AnswersFirst DEF Awaiting, Sending
  <2> QED  BY <1>11, <2>2, FirstAnswer DEF Synced, WriteHeard, Sending
<1> DEFINE Done == Heard /\ Own
<1> SUFFICES Done
  OBVIOUS
<1> HIDE DEF Own, Heard
<1> USE DEF WriteHeard, Serving, Working, Sending
<1>12. CASE Start(c)
  <2>1. PICK cmd \in CommandsRead(c) :
          /\ op' = [op EXCEPT ![c] = IF cmd \in Handled THEN cmd ELSE None]
          /\ Goto(c, CASE cmd = "WRITE" -> "w_perm"
                       [] cmd = "GET"   -> "g_path"
                       [] cmd = "RM"    -> "r_path"
                       [] cmd = "LS"    -> "l_path"
                       [] OTHER         -> "close")
    BY <1>12 DEF Start
  <2>2. pc[c] = "start" /\ UNCHANGED <<perm, path>>  BY <1>12 DEF Start
  <2>3. cmd = req[c].cmd  BY <2>1, <2>2, OwnLine
  <2>4. /\ pc'[c] \in {"w_perm", "g_path", "r_path", "l_path", "close"}
        /\ cmd = "WRITE" => pc'[c] = "w_perm"
        /\ op'[c] \in {cmd, None}
    BY <2>1
  <2>5. "WRITE" # None  BY CommonAssumption DEF Commands, Handled
  <2>6. Own
    BY <2>2, <2>3, <2>4, <2>5 DEF Own, OwnRequest
  <2> QED  BY <1>4, <2>4, <2>6
<1>13. CASE Reply(c)  BY <1>3, <1>4, <1>13 DEF Reply
<1>14. CASE Close(c)  BY <1>3, <1>4, <1>14 DEF Close
<1>15. CASE Write(c)
  <2>1. CASE WritePermission(c)
    <3>1. pc[c] = "w_perm" /\ pc'[c] = "w_ack" /\ UNCHANGED <<op, path>>
          /\ perm'[c] = PermissionRead(c)
      BY <2>1 DEF WritePermission
    <3>2. op[c] = "WRITE" /\ req[c].cmd = "WRITE"
      BY <3>1, CommonAssumption DEF OnPath, WritePCs, OwnRequest, Commands, Handled
    <3>3. Own  BY <3>1, <3>2, OwnLine DEF Own, OwnRequest
    <3> QED  BY <1>4, <3>1, <3>3
  <2>2. CASE WriteAck(c)
    <3>1. CASE Goto(c, "close")  BY <1>3, <1>4, <2>2, <3>1 DEF WriteAck
    <3>2. CASE SrvSend(c, Note("received")) /\ ReadPath(c) /\ Goto(c, "w_check")
      BY <1>6, <1>11, <2>2, <3>2 DEF WriteAck
    <3> QED  BY <2>2, <3>1, <3>2, AnswersFirst DEF WriteAck, SrvSendError
  <2>3. CASE WriteCheck(c)  BY <1>3, <1>5, <2>3 DEF WriteCheck
  <2>4. CASE WriteDrain(c)  BY <1>3, <1>7, <1>8, <2>4 DEF WriteDrain, Answer
  <2>5. CASE WriteOpenMeta(c)  BY <1>3, <1>4, <1>5, <2>5 DEF WriteOpenMeta
  <2>6. CASE WriteMeta(c)  BY <1>3, <1>5, <2>6 DEF WriteMeta
  <2>7. CASE WritePath(c)  BY <1>5, <1>6, <2>7 DEF WritePath
  <2>8. CASE WriteOpenFile(c)  BY <1>3, <1>4, <1>5, <2>8 DEF WriteOpenFile
  <2>9. CASE WriteStore(c)  BY <1>3, <1>7, <1>8, <2>9 DEF WriteStore, Answer
  <2> QED  BY <1>15, <2>1, <2>2, <2>3, <2>4, <2>5, <2>6, <2>7, <2>8, <2>9 DEF Write
<1>16. CASE Get(c)
  <2>1. CASE GetPath(c)  BY <1>4, <1>6, <2>1 DEF GetPath
  <2>2. CASE GetOpen(c)  BY <1>3, <1>4, <2>2 DEF GetOpen
  <2>3. CASE GetRead(c)  BY <1>3, <1>4, <2>3 DEF GetRead
  <2>4. CASE GetSend(c)  BY <1>3, <1>4, <1>10, <2>4 DEF GetSend
  <2>5. CASE GetAck(c)  BY <1>3, <1>7, <1>8, <2>5 DEF GetAck, Answer
  <2> QED  BY <1>16, <2>1, <2>2, <2>3, <2>4, <2>5 DEF Get
<1>17. CASE Rm(c)
  <2>0. pc[c] \in RmPCs => op[c] = "RM"  BY DEF OnPath
  <2>1. CASE RmPath(c)  BY <1>4, <1>6, <2>1 DEF RmPath
  <2>2. CASE RmCheck(c)  BY <1>3, <1>4, <1>9, <2>0, <2>2 DEF RmCheck, Answer, RmPCs
  <2>3. CASE RmRecheck(c)  BY <1>3, <1>4, <1>9, <2>0, <2>3 DEF RmRecheck, Answer, RmPCs
  <2>4. CASE RmOpenMeta(c)  BY <1>3, <1>4, <2>4 DEF RmOpenMeta
  <2>5. CASE RmUnlinkMeta(c)  BY <1>3, <1>4, <2>5 DEF RmUnlinkMeta
  <2>6. CASE RmPath2(c)  BY <1>4, <1>6, <2>6 DEF RmPath2
  <2>7. CASE RmOpenFile(c)  BY <1>3, <1>4, <2>7 DEF RmOpenFile
  <2>8. CASE RmUnlinkFile(c)
    BY <1>3, <1>4, <1>9, <2>0, <2>8 DEF RmUnlinkFile, Answer, RmPCs
  <2> QED  BY <1>17, <2>1, <2>2, <2>3, <2>4, <2>5, <2>6, <2>7, <2>8 DEF Rm
<1>18. CASE Ls(c)
  <2>0. pc[c] \in LsPCs => op[c] = "LS"  BY DEF OnPath
  <2>1. CASE LsPath(c)  BY <1>4, <1>6, <2>1 DEF LsPath
  <2>2. CASE LsOpen(c)  BY <1>3, <1>4, <1>9, <2>0, <2>2 DEF LsOpen, Answer, LsPCs
  <2>3. CASE LsRead(c)  BY <1>3, <1>4, <2>3 DEF LsRead
  <2>4. CASE LsSend(c)  BY <1>3, <1>4, <2>4 DEF LsSend
  <2> QED  BY <1>18, <2>1, <2>2, <2>3, <2>4 DEF Ls
<1> QED
  BY <1>12, <1>13, <1>14, <1>15, <1>16, <1>17, <1>18 DEF HandlerStep, Sigpipe

(***************************************************************************)
(* Clients.                                                                *)
(***************************************************************************)
\* The first text under way is there when it has been sent.
LEMMA SaysSomething ==
  ASSUME ConnTypeOK, NEW c \in Clients, NEW m \in Text, CliSend(c, m), srv[c] = "open",
         cli[c] = "open"
  PROVE  up'[c] # <<>> /\ cli'[c] = "open" /\ srv'[c] = "open"
<1>1. up' = [up EXCEPT ![c] = Append(up[c], m)] /\ UNCHANGED <<cli, srv>>
  BY DEF CliSend
<1>2. up[c] \in Seq(Text)  BY DEF ConnTypeOK
<1>3. Append(up[c], m) # <<>>  BY <1>2
<1> QED  BY <1>1, <1>3 DEF ConnTypeOK

\* A client that is served goes on until its last answer.
LEMMA ClientSynced ==
  ASSUME OrderInv, Orderly, NEW c \in Clients, ClientStep(c), UNCHANGED serverVars
  PROVE  Synced(c)'
<1>1. /\ TurnInv /\ Synced(c) /\ OwnRequest(c) /\ OnPath(c) /\ Asked(c)
      /\ ConnTypeOK /\ cpc \in [Clients -> ClientPCs]
  BY TurnTypes DEF OrderInv, LeakInv, Accounted, SurvivalInv, Polite
<1>2. pc' = pc  BY DEF serverVars, handlerVars
<1>3. Note("fetched") \in Text /\ Source[c] \in Text
  BY NoteText, ClientAssumption DEF Notes
<1> DEFINE Done == Synced(c)'
           Step(label) ==
             CASE label = "ack"     -> AwaitAck(c)
               [] label = "source"  -> SendFile(c)
               [] label = "open"    -> OpenLocal(c)
               [] label = "fetch"   -> Fetch(c)
               [] label = "confirm" -> Confirm(c)
               [] label = "result"  -> AwaitResult(c)
               [] OTHER             -> TRUE
<1> SUFFICES Done
  OBVIOUS
<1>4. Step(cpc[c])
  BY DEF ClientStep, SendRequest, CloseSocket, AwaitAck, SendFile, OpenLocal, Fetch,
    Confirm, AwaitResult, At
<1>5. pc[c] \in WriteHeard \cup {"g_ack", "reply"} =>
        /\ cli[c] = "open" /\ srv[c] = "open"
        /\ ~CliEof(c) /\ ~CliRecvError(c) /\ ~CliSendError(c)
        /\ up[c] # <<>> => down[c] = <<>>
        /\ req[c] # None => req[c] \in Plan[c]
  BY <1>1 DEF Synced, CliEof, CliRecvError, CliSendError, TurnInv, TurnsTaken, Asked
<1>6. CliRecv(c) => down[c] # <<>> /\ UNCHANGED <<cli, srv, up>>
  BY DEF CliRecv
<1> USE <1>1, <1>2
<1>7. CASE pc[c] \notin WriteHeard \cup {"g_ack", "reply"}
  BY <1>7 DEF Synced
<1>8. CASE pc[c] \in WriteHeard
  <2>1. req[c].cmd = "WRITE"
    BY <1>8, CommonAssumption
    DEF OnPath, WritePCs, WriteHeard, OwnRequest, Commands, Handled
  <2>2. cpc[c] \in {"ack", "source", "result"}  BY <1>8 DEF Synced
  <2>3. req[c] \in Plan[c]
    BY <1>5, <1>8, <2>2 DEF TurnInv, TypeInv, RequestsKnown
  <2>4. c \notin BadLocal /\ Source[c] # <<>>  BY <2>1, <2>3 DEF Orderly
  <2>5. CASE cpc[c] = "ack"
    <3>1. CliRecv(c) /\ cpc'[c] = "source"
      BY <1>4, <1>5, <1>8, <2>5 DEF AwaitAck, Move
    <3> QED  BY <1>5, <1>6, <1>8, <3>1 DEF Synced, WriteHeard
  <2>6. CASE cpc[c] = "source"
    <3>1. CliSend(c, Source[c]) /\ cpc'[c] = "result"
      BY <1>4, <1>5, <1>8, <2>4, <2>6 DEF SendFile, Move
    <3> QED  BY <1>3, <1>5, <1>8, <3>1, SaysSomething DEF Synced, WriteHeard
  <2>7. CASE cpc[c] = "result"
    BY <1>4, <1>5, <1>6, <1>8, <2>7 DEF AwaitResult, Synced
  <2> QED  BY <2>2, <2>5, <2>6, <2>7
<1>9. CASE pc[c] = "g_ack"
  <2>1. req[c].cmd = "GET"
    BY <1>9, CommonAssumption DEF OnPath, GetPCs, OwnRequest, Commands, Handled
  <2>2. cpc[c] \in {"open", "fetch", "confirm", "result"}  BY <1>9 DEF Synced
  <2>3. req[c] \in Plan[c]
    BY <1>5, <1>9, <2>2 DEF TurnInv, TypeInv, RequestsKnown
  <2>4. c \notin BadLocal  BY <2>1, <2>3 DEF Orderly
  <2>5. CASE cpc[c] = "open"
    <3>1. UNCHANGED conn /\ cpc'[c] = "fetch" /\ down[c] # <<>>
      BY <1>4, <1>9, <2>4, <2>5 DEF OpenLocal, Move, Synced
    <3> QED  BY <1>5, <1>9, <3>1 DEF Synced, WriteHeard, conn
  <2>6. CASE cpc[c] = "fetch"
    <3>1. CliRecv(c) /\ cpc'[c] = "confirm"
      BY <1>4, <1>5, <1>9, <2>6 DEF Fetch, Move
    <3> QED  BY <1>5, <1>6, <1>9, <3>1 DEF Synced, WriteHeard
  <2>7. CASE cpc[c] = "confirm"
    <3>1. CliSend(c, Note("fetched")) /\ cpc'[c] = "result"
      BY <1>4, <1>5, <1>9, <2>7 DEF Confirm, Move
    <3> QED  BY <1>3, <1>5, <1>9, <3>1, SaysSomething DEF Synced, WriteHeard
  <2>8. CASE cpc[c] = "result"
    BY <1>4, <1>5, <1>6, <1>9, <2>8 DEF AwaitResult, Synced
  <2> QED  BY <2>2, <2>5, <2>6, <2>7, <2>8
<1>10. CASE pc[c] = "reply"
  BY <1>4, <1>5, <1>6, <1>10 DEF AwaitResult, Synced
<1> QED  BY <1>7, <1>8, <1>9, <1>10

LEMMA ClientFrame ==
  ASSUME TurnInv, NEW c \in Clients, ClientStep(c)
  PROVE  Active(c) /\ UNCHANGED <<req, backlog>> /\ \A d \in Clients \ {c} : cpc'[d] = cpc[d]
<1> USE TurnTypes DEF Move, Return, At, Active
<1>1. (\E m : CliSend(c, m)) \/ CliRecv(c) \/ CliClose(c) \/ UNCHANGED conn
        => UNCHANGED <<req, backlog>>
  BY DEF CliSend, CliRecv, CliClose, conn
<1> QED
  BY <1>1
  DEF ClientStep, SendRequest, CloseSocket, AwaitAck, SendFile, OpenLocal, Fetch,
    Confirm, AwaitResult

(***************************************************************************)
(* The invariant.                                                          *)
(***************************************************************************)
\* A client that comes finds that everybody else is done.
LEMMA LaunchOrder ==
  ASSUME OrderInv, Orderly, NEW c \in Clients, Launch(c)
  PROVE  /\ OneActive' /\ QueueDone' /\ LineParsed'
         /\ \A d \in Clients : Synced(d)' /\ Untouched(d)' /\ OwnRequest(d)'
<1> USE TurnTypes DEF OrderInv, SurvivalInv, Launch, serverVars, mainVars, handlerVars
<1>1. \A d \in Clients \ {c} : ~Active(d)
  BY DEF Orderly, MayStart, Active
<1>2. cpc[c] = "idle"  BY DEF Connect, ConnectRefused, At
<1>3. \A d \in Clients : ~Active(d) /\ ~Serving(d)
  BY <1>1, <1>2, ServedActive DEF Active
<1>4. /\ srv[c] = "none" /\ pc[c] = "none"
      /\ \A d \in Clients \ {c} : cpc'[d] = cpc[d]
  BY <1>2 DEF TurnInv, TurnsTaken, QueueOrdered, Connect, ConnectRefused, Move
<1>5. OneActive'  BY <1>1, <1>4 DEF OneActive, Active
<1>6. LineParsed'  BY DEF LineParsed
<1>7. \A d \in Clients : Untouched(d)' /\ Synced(d)'
  BY <1>3 DEF Untouched, Serving, Working, Synced, WriteHeard
<1>8. \A d \in Clients : OwnRequest(d)'
  <2>1. \A d \in Clients \ {c} : req'[d] = req[d]
    BY DEF Connect, CliConnect, ConnectRefused, conn, ConnTypeOK
  <2>2. op[c] = None /\ path[c] = None /\ "WRITE" # None
    BY <1>4, CommonAssumption DEF OwnRequest, Commands, Handled
  <2> QED  BY <1>4, <2>1, <2>2 DEF OwnRequest
<1>9. QueueDone'
  <2>1. \A i \in DOMAIN backlog : backlog[i] \in Clients \ {c}
    BY <1>4 DEF TurnInv, QueueOrdered, ConnTypeOK
  <2>2. mpc \in {"recv", "parse"} => cur \in Clients \ {c}
    BY <1>4 DEF TurnInv, QueueOrdered
  <2>3. backlog' = backlog \/ backlog' = Append(backlog, c)
    BY DEF Connect, CliConnect, ConnectRefused, conn
  <2>4. \A i \in DOMAIN backlog' : i < Len(backlog') => i \in DOMAIN backlog /\ backlog'[i] = backlog[i]
    <3>1. backlog \in Seq(Clients)  BY DEF ConnTypeOK
    <3>2. CASE backlog' = backlog  BY <3>1, <3>2
    <3>3. CASE backlog' = Append(backlog, c)  BY <3>1, <3>3
    <3> QED  BY <2>3, <3>2, <3>3
  <2> QED  BY <1>1, <1>4, <2>1, <2>2, <2>4 DEF QueueDone, Active
<1> QED  BY <1>5, <1>6, <1>7, <1>8, <1>9

\* The accept loop serves nobody while it takes a request.
LEMMA MainOrder ==
  ASSUME OrderInv, MainStep, UNCHANGED clientVars
  PROVE  /\ OneActive' /\ QueueDone' /\ LineParsed'
         /\ \A d \in Clients : Synced(d)' /\ Untouched(d)' /\ OwnRequest(d)'
<1> USE TurnTypes DEF OrderInv, SurvivalInv, clientVars
<1>1. OneActive'  BY DEF OneActive, Active
<1>2. \A d \in Clients : ~Serving(d)
  <2>1. mpc # "accept" \/ backlog # <<>>
    BY DEF MainStep, Accept, SrvAccept, RecvCommand, RecvNothing, ParseStop, ParseSkip,
      ParseSpawn, Exit
  <2> QED  BY <2>1 DEF Untouched
<1> DEFINE Done == QueueDone' /\ LineParsed'
                   /\ \A d \in Clients : Synced(d)' /\ Untouched(d)' /\ OwnRequest(d)'
<1>3. ASSUME UNCHANGED <<op, path, perm, req>>,
             \A d \in Clients : /\ pc'[d] \in {pc[d], "killed"}
                                /\ pc'[d] = "killed" => pc[d] \notin {"none", "start", "w_perm"}
      PROVE  \A d \in Clients : Synced(d)' /\ Untouched(d)' /\ OwnRequest(d)'
  BY <1>2, <1>3 DEF Synced, Untouched, OwnRequest, Serving, Working, WriteHeard
<1>4. CASE Exit
  <2>1. UNCHANGED <<op, path, perm, req>> /\ backlog' = <<>> /\ mpc' = "dead"
    BY <1>4 DEF Exit, ServerDies, SrvCloseAll
  <2>2. \A d \in Clients : /\ pc'[d] \in {pc[d], "killed"}
                           /\ pc'[d] = "killed" => pc[d] \notin {"none", "start", "w_perm"}
    BY <1>2, <1>4 DEF Exit, ServerDies, Serving, Working
  <2> QED  BY <1>1, <1>3, <2>1, <2>2 DEF QueueDone, LineParsed
<1>5. ASSUME NEW c \in Clients, Accept(c) PROVE Done
  <2>1. /\ backlog # <<>> /\ backlog \in Seq(Clients) /\ c = backlog[1]
        /\ backlog' = Tail(backlog)
        /\ mpc' = "recv" /\ cur' = c /\ UNCHANGED <<pc, op, path, perm, req>>
    BY <1>5 DEF Accept, SrvAccept, handlerVars, ConnTypeOK
  <2>2. QueueDone'
    <3>1. \A i \in DOMAIN backlog' : /\ i + 1 \in DOMAIN backlog /\ backlog'[i] = backlog[i + 1]
                                     /\ i < Len(backlog') => i + 1 < Len(backlog)
      BY <2>1
    <3>2. backlog' # <<>> => 1 \in DOMAIN backlog /\ 1 < Len(backlog)
      BY <2>1
    <3> QED  BY <2>1, <3>1, <3>2 DEF QueueDone, Active
  <2>3. LineParsed'  BY <2>1 DEF LineParsed
  <2>4. \A d \in Clients : Synced(d)' /\ Untouched(d)' /\ OwnRequest(d)'
    BY <1>2, <2>1 DEF Synced, Untouched, OwnRequest, Serving, Working, WriteHeard
  <2> QED  BY <2>2, <2>3, <2>4
<1>6. CASE RecvCommand
  <2>1. /\ mpc = "recv" /\ mpc' = "parse" /\ buf'.of = cur
        /\ UNCHANGED <<cur, backlog, pc, op, path, perm, req>>
    BY <1>6 DEF RecvCommand, SrvRecv, handlerVars
  <2>2. QueueDone' /\ LineParsed'  BY <2>1 DEF QueueDone, LineParsed, Active
  <2>3. \A d \in Clients : Synced(d)' /\ Untouched(d)' /\ OwnRequest(d)'
    BY <1>2, <2>1 DEF Synced, Untouched, OwnRequest, Serving, Working, WriteHeard
  <2> QED  BY <1>1, <2>2, <2>3
<1>7. CASE ParseStop \/ ParseSkip
  <2>1. /\ mpc' \in {"exit", "accept"}
        /\ UNCHANGED <<backlog, pc, op, path, perm, req>>
    BY <1>7 DEF ParseStop, ParseSkip, SrvClose, handlerVars
  <2>2. QueueDone' /\ LineParsed'  BY <2>1 DEF QueueDone, LineParsed, Active
  <2>3. \A d \in Clients : Synced(d)' /\ Untouched(d)' /\ OwnRequest(d)'
    BY <1>2, <2>1 DEF Synced, Untouched, OwnRequest, Serving, Working, WriteHeard
  <2> QED  BY <1>1, <2>2, <2>3
<1>8. CASE ParseSpawn
  <2>1. cur \in Clients /\ mpc = "parse" /\ mpc' = "accept" /\ req[cur].cmd \in Handled
        /\ buf' = [buf EXCEPT !.split = TRUE] /\ pc' = [pc EXCEPT ![cur] = "start"]
        /\ UNCHANGED <<op, path, perm, conn>> /\ pc[cur] = "none"
    BY <1>8 DEF ParseSpawn, Goto, TurnInv, QueueOrdered
  <2>2. Active(cur)
    BY <2>1 DEF Polite, Awaits, Unheard, Awaiting, Active
  <2>3. backlog = <<>>  BY <2>1, <2>2 DEF QueueDone
  <2>4. buf' = [of |-> cur, split |-> TRUE]
    BY <2>1 DEF LineParsed, TurnInv, TypeInv, TypeOK, ServerTypeOK
  <2>5. QueueDone' /\ LineParsed'
    BY <2>1, <2>3 DEF QueueDone, LineParsed, conn
  <2>6. \A d \in Clients : Untouched(d)'
    BY <1>2, <2>1, <2>3, <2>4 DEF Untouched, Intact, Serving, Working, conn
  <2>7. \A d \in Clients : Synced(d)' /\ OwnRequest(d)'
    BY <2>1, CommonAssumption DEF Synced, OwnRequest, WriteHeard, conn, Commands, Handled
  <2> QED  BY <1>1, <2>5, <2>6, <2>7
<1> QED
  BY <1>1, <1>4, <1>5, <1>6, <1>7, <1>8, NoEmptyConnection DEF MainStep

\* What a process does to its own connection is no matter to the others.
LEMMA OthersOrder ==
  ASSUME OrderInv, NEW c \in Clients, OnlyEndsOf(c), UNCHANGED <<mpc, cur, buf, backlog>>,
         Active(c)' => Active(c), Serving(c)' => Serving(c),
         \A d \in Clients \ {c} : op'[d] = op[d] /\ path'[d] = path[d] /\ perm'[d] = perm[d],
         Synced(c)', OwnRequest(c)'
  PROVE  /\ OneActive' /\ QueueDone' /\ LineParsed'
         /\ \A d \in Clients : Synced(d)' /\ Untouched(d)' /\ OwnRequest(d)'
<1> USE TurnTypes DEF OrderInv, SurvivalInv, OnlyEndsOf
<1>1. \A d \in Clients : (Active(d)' => Active(d)) /\ (Serving(d)' => Serving(d))
  BY DEF Active, Serving, Working
<1>2. OneActive' /\ LineParsed'  BY <1>1 DEF OneActive, LineParsed
<1>3. QueueDone'
  <2>1. \A i \in DOMAIN backlog : backlog[i] \in Clients  BY DEF ConnTypeOK
  <2>2. mpc \in {"recv", "parse"} => cur \in Clients
    OBVIOUS
  <2> QED  BY <1>1, <2>1, <2>2 DEF QueueDone, Active
<1>4. \A d \in Clients : Untouched(d)'  BY <1>1 DEF Untouched, Intact
<1>5. \A d \in Clients \ {c} : Synced(d)' /\ OwnRequest(d)'
  BY DEF Synced, OwnRequest
<1> QED  BY <1>2, <1>3, <1>4, <1>5

LEMMA NextOrder ==
  ASSUME Orderly
  PROVE  OrderInv /\ [Next]_vars => OrderInv'
<1> SUFFICES ASSUME OrderInv, [Next]_vars PROVE OrderInv'
  OBVIOUS
<1> DEFINE Done == /\ OneActive' /\ QueueDone' /\ LineParsed'
                   /\ \A d \in Clients : Synced(d)' /\ Untouched(d)' /\ OwnRequest(d)'
<1> USE DEF OrderInv
<1>1. SurvivalInv' /\ LeakInv' /\ TurnInv /\ ClientsFinish
  BY OrderlyFinish, NextPolite, NextAccounted DEF SurvivalInv
<1>2. ASSUME UNCHANGED vars PROVE Done
  BY <1>2
  DEF vars, serverVars, mainVars, handlerVars, clientVars, conn, OneActive, QueueDone,
    LineParsed, Synced, Untouched, OwnRequest, Active, Serving, Working, Intact
<1>3. ASSUME Main PROVE Done  BY <1>3, MainOrder DEF Main
<1>4. ASSUME NEW c \in Clients, Handler(c) PROVE Done
  <2>1. ~Sigpipe(c)  BY NoSigpipe
  <2>2. Synced(c)' /\ OwnRequest(c)'  BY <1>4, <2>1, HandlerOrder DEF Handler
  <2>3. OnlyEndsOf(c) /\ OnlyOf(c) /\ \A d \in Clients \ {c} : path'[d] = path[d]
    BY <1>1, <1>4, <2>1, HandlerPolite, HandlerAccounted, HandlerPath DEF Handler
  <2>4. Active(c)' => Active(c)  BY <1>4 DEF Handler, clientVars, Active
  <2> QED
    BY <1>1, <1>4, <2>1, <2>2, <2>3, <2>4, HandlerFrame, OthersOrder DEF Handler, OnlyOf
<1>5. ASSUME NEW c \in Clients, Client(c) PROVE Done
  <2>1. Synced(c)' /\ OnlyEndsOf(c) /\ Active(c) /\ UNCHANGED <<backlog, req>>
    BY <1>1, <1>5, ClientSynced, ClientPolite, ClientFrame DEF Client
  <2>2. UNCHANGED <<mpc, cur, buf, pc, op, path, perm>>
    BY <1>5 DEF Client, serverVars, mainVars, handlerVars
  <2>3. OwnRequest(c)'  BY <2>1, <2>2 DEF OwnRequest
  <2> QED  BY <2>1, <2>2, <2>3, OthersOrder DEF Serving, Working
<1>6. ASSUME NEW c \in Clients, Launch(c) PROVE Done  BY <1>6, LaunchOrder
<1>7. ASSUME NEW c \in Clients PROVE ~Kill(c)
  BY DEF Kill, Killed, Orderly
<1>8. Done
  BY <1>2, <1>3, <1>4, <1>5, <1>6, <1>7 DEF Next, Finished
<1> QED  BY <1>1, <1>8

LEMMA InitOrder == Init => OrderInv
<1> SUFFICES ASSUME Init PROVE OrderInv
  OBVIOUS
<1>1. SurvivalInv /\ LeakInv  BY InitPolite, InitAccounted
<1>2. "WRITE" # None  BY CommonAssumption DEF Commands, Handled
<1> QED
  BY <1>1, <1>2
  DEF OrderInv, Init, ServerInit, ClientInit, ConnInit, OneActive, QueueDone, LineParsed,
    Synced, Untouched, OwnRequest, Active, Serving, Working, WriteHeard

\* With one client after the other, each handler reads its own command, path and
\* permission from the one buffer of the accept loop (server.c:108, 142), as often
\* as it reads them: the next request is received only when it no longer does.
THEOREM RequestsKept ==
  ASSUME Orderly
  PROVE  Spec => []RequestIntegrity
<1>1. OrderInv => RequestIntegrity
  BY DEF OrderInv, RequestIntegrity, OwnRequest
<1>2. OrderInv /\ [Next]_vars => OrderInv'  BY NextOrder
<1> QED  BY InitOrder, <1>1, <1>2, PTL DEF Spec

\* A STOP that comes after the last word of every other handler ends none that is
\* still at work, though main waits for nobody (server.c:124-128, 156): the loop
\* takes no request while a handler serves.
THEOREM StopIsGraceful ==
  ASSUME Orderly
  PROVE  Spec => GracefulStop
<1>1. ASSUME OrderInv, [Next]_vars, why = "alive", why' = "stop",
             NEW c \in Clients, Working(c)
      PROVE  pc[c] = "close"
  <2>1. Exit
    <3>1. \A d \in Clients : ~Handler(d)
      BY <1>1, HandlerPolite DEF Handler, OrderInv
    <3>2. UNCHANGED why \/ Main
      BY <1>1, <3>1
      DEF Next, Client, Launch, Kill, Finished, vars, serverVars, mainVars
    <3> QED
      BY <1>1, <3>2
      DEF Main, MainStep, Accept, RecvCommand, RecvNothing, ParseStop, ParseSkip,
        ParseSpawn, ServerDies
  <2> QED  BY <1>1, <2>1 DEF OrderInv, Untouched, Serving, Exit
<1>2. OrderInv /\ [Next]_vars => [why = "alive" /\ why' = "stop"
        => \A c \in Clients : Working(c) => pc[c] = "close"]_vars
  BY <1>1
<1>3. OrderInv /\ [Next]_vars => OrderInv'  BY NextOrder
<1> QED  BY InitOrder, <1>2, <1>3, PTL DEF Spec, GracefulStop

(***************************************************************************)
(* Read-only files.  Between the look at the permission and the last       *)
(* change of the header nobody else is at work, so what was seen is true.  *)
(***************************************************************************)
MetaSeen(c) ==
  /\ pc[c] \in {"w_openmeta", "r_recheck", "r_openmeta"} => PermissionOf(path[c]) # 0
  /\ pc[c] \in {"w_writemeta", "r_unlinkmeta"} =>
       /\ path[c] \in Paths /\ mfd[c] # None
       /\ link["meta"][path[c]] = mfd[c] /\ data[mfd[c]] = <<>>

ReadOnlyInv == OrderInv /\ InodeInv /\ \A c \in Clients : MetaSeen(c)

ReadOnlyKept == \A n \in Names : PermissionOf(n) = 0 => PermissionOf(n)' = 0

\* A header that has been emptied is none.
LEMMA EmptiedHeader ==
  ASSUME NEW p, Exists("meta", p) => data[link["meta"][p]] = <<>>
  PROVE  PermissionOf(p) # 0
BY DEF PermissionOf, HeaderValue

\* Each header has an inode of its own.
LEMMA OtherHeaders ==
  ASSUME DiskTypeOK, LinksApart, NEW p \in Paths, PermissionOf(p) # 0,
         NEW i \in Inodes, i = link["meta"][p] \/ \A q \in Paths : link["meta"][q] # i,
         \A q \in Paths \ {p} : link'["meta"][q] = link["meta"][q],
         \A j \in Inodes \ {i} : data'[j] = data[j]
  PROVE  ReadOnlyKept
<1> SUFFICES ASSUME NEW n \in Names, PermissionOf(n) = 0 PROVE PermissionOf(n)' = 0
  BY DEF ReadOnlyKept
<1>1. n \in Paths \ {p} /\ "meta" \in Kinds  BY DEF Paths, Kinds
<1>2. Exists("meta", n)  BY DEF PermissionOf
<1>3. link["meta"][n] \in Inodes /\ link["meta"][n] # i
  BY <1>1, <1>2 DEF Exists, LinksApart, DiskTypeOK
<1>4. Exists("meta", n)' /\ data'[link'["meta"][n]] = data[link["meta"][n]]
  BY <1>1, <1>2, <1>3 DEF Exists
<1> QED  BY <1>2, <1>4 DEF PermissionOf

\* What is done to data files leaves the headers alone.
LEMMA SameHeaders ==
  ASSUME DiskTypeOK, LinkKinds, link'["meta"] = link["meta"],
         \A i \in Inodes : i[2] = "meta" => data'[i] = data[i]
  PROVE  ReadOnlyKept
<1> SUFFICES ASSUME NEW n \in Names, PermissionOf(n) = 0 PROVE PermissionOf(n)' = 0
  BY DEF ReadOnlyKept
<1>1. n \in Paths /\ "meta" \in Kinds  BY DEF Paths, Kinds
<1>2. Exists("meta", n)  BY DEF PermissionOf
<1>3. link["meta"][n] \in Inodes /\ link["meta"][n][2] = "meta"
  BY <1>1, <1>2 DEF Exists, LinkKinds, DiskTypeOK
<1> QED  BY <1>2, <1>3 DEF PermissionOf, Exists

LEMMA HandlerMeta ==
  ASSUME InodeInv, NEW c \in Clients, MetaSeen(c), HandlerStep(c), ~Sigpipe(c)
  PROVE  MetaSeen(c)' /\ ReadOnlyKept
<1>1. /\ TurnInv /\ LinksApart /\ LinkKinds /\ Unlinked(c) /\ OwnKinds(c)
      /\ "meta" \in Kinds /\ "file" \in Kinds
  BY DEF InodeInv, HeaderInv, LeakInv, Kinds
<1> USE <1>1, HandlerTypes, DiskTypes
<1> DEFINE Done == MetaSeen(c)' /\ ReadOnlyKept
           Later == {"w_openmeta", "w_writemeta", "r_recheck", "r_openmeta", "r_unlinkmeta"}
<1> SUFFICES Done
  OBVIOUS
<1>2. ASSUME UNCHANGED disk, pc'[c] \notin Later PROVE Done
  BY <1>2, SameHeaders DEF MetaSeen, disk
<1>3. ASSUME UNCHANGED <<disk, path>>, pc'[c] \in {"w_openmeta", "r_recheck", "r_openmeta"},
             PermissionOf(path[c]) # 0
      PROVE  Done
  <2>1. PermissionOf(path[c])' # 0  BY <1>3 DEF PermissionOf, Exists, disk
  <2>2. ReadOnlyKept  BY <1>3, SameHeaders DEF disk
  <2> QED  BY <1>3, <2>1, <2>2 DEF MetaSeen
<1>4. ASSUME path[c] \in Paths, UNCHANGED path, OpenTrunc("meta", path[c], <<c, "meta">>),
             mfd' = [mfd EXCEPT ![c] = Opened("meta", path[c], <<c, "meta">>)],
             PermissionOf(path[c]) # 0, pc[c] \in BeforeMeta,
             pc'[c] \in {"w_writemeta", "r_unlinkmeta"}
      PROVE  Done
  <2> DEFINE i == Opened("meta", path[c], <<c, "meta">>)
  <2>1. \A q \in Paths : link["meta"][q] # <<c, "meta">>  BY <1>4 DEF Unlinked
  <2>2. <<c, "meta">> \in Inodes /\ i \in Inodes /\ i # None
    <3>1. <<c, "meta">> \in Inodes  BY DEF Inodes
    <3>2. i \in Inodes  BY <1>4, <3>1, DiskType
    <3> QED  BY <3>1, <3>2, CommonAssumption DEF Inodes
  <2>3. i = link["meta"][path[c]] \/ \A q \in Paths : link["meta"][q] # i
    BY <2>1 DEF Opened
  <2>4. /\ link' = [link EXCEPT !["meta"][path[c]] = i] /\ data' = [data EXCEPT ![i] = <<>>]
        /\ mfd'[c] = i
    BY <1>4 DEF OpenTrunc
  <2> HIDE DEF i
  <2>5. /\ link'["meta"][path[c]] = i /\ data'[i] = <<>>
        /\ \A q \in Paths \ {path[c]} : link'["meta"][q] = link["meta"][q]
        /\ \A j \in Inodes \ {i} : data'[j] = data[j]
    BY <1>4, <2>2, <2>4 DEF DiskTypeOK
  <2>6. ReadOnlyKept  BY <1>4, <2>2, <2>3, <2>5, OtherHeaders
  <2> QED  BY <1>4, <2>2, <2>4, <2>5, <2>6 DEF MetaSeen
<1>5. ASSUME pc[c] \in {"w_writemeta", "r_unlinkmeta"}
      PROVE  /\ path[c] \in Paths /\ mfd[c] \in Inodes
             /\ mfd[c] = link["meta"][path[c]] /\ PermissionOf(path[c]) # 0
  BY <1>5, EmptiedHeader DEF MetaSeen
<1>6. ASSUME OpenTrunc("file", path[c], <<c, "file">>), path[c] \in Paths,
             pc'[c] \notin Later
      PROVE  Done
  <2> DEFINE i == Opened("file", path[c], <<c, "file">>)
  <2>1. i[2] = "file"  BY <1>6, OpenKinds
  <2>2. link' = [link EXCEPT !["file"][path[c]] = i] /\ data' = [data EXCEPT ![i] = <<>>]
    BY <1>6 DEF OpenTrunc
  <2> HIDE DEF i
  <2>3. link'["meta"] = link["meta"] /\ \A j \in Inodes : j[2] = "meta" => data'[j] = data[j]
    BY <2>1, <2>2 DEF DiskTypeOK
  <2> QED  BY <1>6, <2>3, SameHeaders DEF MetaSeen
<1> HIDE DEF Done
<1>7. CASE Start(c)  BY <1>2, <1>7 DEF Start, Goto
<1>8. CASE Reply(c)  BY <1>2, <1>8 DEF Reply, Goto
<1>9. CASE Close(c)  BY <1>2, <1>9 DEF Close, Goto
<1>10. CASE Write(c)
  <2> USE DEF Goto
  <2>1. CASE WritePermission(c)  BY <1>2, <2>1 DEF WritePermission
  <2>2. CASE WriteAck(c)  BY <1>2, <2>2 DEF WriteAck
  <2>3. CASE WriteCheck(c)
    <3>1. CASE PermissionOf(path[c]) = 0  BY <1>2, <2>3, <3>1 DEF WriteCheck
    <3>2. CASE PermissionOf(path[c]) # 0  BY <1>3, <2>3, <3>2 DEF WriteCheck
    <3> QED  BY <3>1, <3>2
  <2>4. CASE WriteDrain(c)  BY <1>2, <2>4 DEF WriteDrain, Answer
  <2>5. CASE WriteOpenMeta(c)
    <3>1. CASE path[c] = Empty  BY <1>2, <2>5, <3>1 DEF WriteOpenMeta
    <3>2. CASE path[c] # Empty
      <4>1. path[c] \in Paths /\ PermissionOf(path[c]) # 0
        BY <2>5, <3>2 DEF WriteOpenMeta, PathsKnown, MetaSeen
      <4> QED  BY <1>4, <2>5, <3>2, <4>1 DEF WriteOpenMeta, BeforeMeta
    <3> QED  BY <3>1, <3>2
  <2>6. CASE WriteMeta(c)
    <3>1. pc[c] = "w_writemeta" /\ pc'[c] = "w_path" /\ UNCHANGED link
      BY <2>6 DEF WriteMeta, WriteStart
    <3>2. \A j \in Inodes \ {mfd[c]} : data'[j] = data[j]
      BY <2>6 DEF WriteMeta, WriteStart, DiskTypeOK
    <3>3. ReadOnlyKept  BY <1>5, <3>1, <3>2, OtherHeaders
    <3> QED  BY <3>1, <3>3 DEF Done, MetaSeen
  <2>7. CASE WritePath(c)  BY <1>2, <2>7 DEF WritePath
  <2>8. CASE WriteOpenFile(c)
    <3>1. CASE path[c] = Empty  BY <1>2, <2>8, <3>1 DEF WriteOpenFile
    <3>2. CASE path[c] # Empty  BY <1>6, <2>8, <3>2 DEF WriteOpenFile, PathsKnown
    <3> QED  BY <3>1, <3>2
  <2>9. CASE WriteStore(c)
    <3>1. CASE UNCHANGED disk  BY <1>2, <2>9, <3>1 DEF WriteStore, Answer
    <3>2. CASE WriteStart(fd[c], PbEncode(Head(up[c])))
      <4>1. fd[c][2] = "file" /\ pc'[c] \notin Later
        BY <2>9, <3>2 DEF WriteStore, Answer, OwnKinds
      <4>2. UNCHANGED link /\ \A j \in Inodes : j[2] = "meta" => data'[j] = data[j]
        BY <3>2, <4>1 DEF WriteStart, DiskTypeOK
      <4> QED  BY <4>1, <4>2, SameHeaders DEF Done, MetaSeen
    <3> QED  BY <2>9, <3>1, <3>2 DEF WriteStore
  <2> QED  BY <1>10, <2>1, <2>2, <2>3, <2>4, <2>5, <2>6, <2>7, <2>8, <2>9 DEF Write
<1>11. CASE Get(c)
  <2> USE DEF Goto
  <2>1. CASE GetPath(c)  BY <1>2, <2>1 DEF GetPath
  <2>2. CASE GetOpen(c)  BY <1>2, <2>2 DEF GetOpen
  <2>3. CASE GetRead(c)  BY <1>2, <2>3 DEF GetRead
  <2>4. CASE GetSend(c)  BY <1>2, <2>4 DEF GetSend
  <2>5. CASE GetAck(c)  BY <1>2, <2>5 DEF GetAck, Answer
  <2> QED  BY <1>11, <2>1, <2>2, <2>3, <2>4, <2>5 DEF Get
<1>12. CASE Rm(c)
  <2> USE DEF Goto
  <2>1. CASE RmPath(c)  BY <1>2, <2>1 DEF RmPath
  <2>2. CASE RmCheck(c)
    <3>1. CASE PermissionOf(path[c]) = 0  BY <1>2, <2>2, <3>1 DEF RmCheck, Answer
    <3>2. CASE PermissionOf(path[c]) # 0  BY <1>3, <2>2, <3>2 DEF RmCheck
    <3> QED  BY <3>1, <3>2
  <2>3. CASE RmRecheck(c)
    <3>1. CASE PermissionOf(path[c]) = -1  BY <1>2, <2>3, <3>1 DEF RmRecheck, Answer
    <3>2. CASE PermissionOf(path[c]) # -1  BY <1>3, <2>3, <3>2 DEF RmRecheck, MetaSeen
    <3> QED  BY <3>1, <3>2
  <2>4. CASE RmOpenMeta(c)
    <3>1. path[c] \in Paths /\ PermissionOf(path[c]) # 0
      BY <2>4 DEF RmOpenMeta, PathsKnown, MetaSeen
    <3> QED  BY <1>4, <2>4, <3>1 DEF RmOpenMeta, BeforeMeta
  <2>5. CASE RmUnlinkMeta(c)
    <3>1. CASE Exists("meta", path[c])
      <4>1. pc[c] = "r_unlinkmeta" /\ pc'[c] = "r_path2" /\ UNCHANGED data
        BY <2>5, <3>1 DEF RmUnlinkMeta, Unlink
      <4>2. \A q \in Paths \ {path[c]} : link'["meta"][q] = link["meta"][q]
        BY <2>5, <3>1 DEF RmUnlinkMeta, Unlink, DiskTypeOK
      <4>3. ReadOnlyKept  BY <1>5, <4>1, <4>2, OtherHeaders
      <4> QED  BY <4>1, <4>3 DEF Done, MetaSeen
    <3>2. CASE ~Exists("meta", path[c])  BY <1>2, <2>5, <3>2 DEF RmUnlinkMeta
    <3> QED  BY <3>1, <3>2
  <2>6. CASE RmPath2(c)  BY <1>2, <2>6 DEF RmPath2
  <2>7. CASE RmOpenFile(c)
    <3>1. CASE path[c] = Empty  BY <1>2, <2>7, <3>1 DEF RmOpenFile
    <3>2. CASE path[c] # Empty  BY <1>6, <2>7, <3>2 DEF RmOpenFile, PathsKnown
    <3> QED  BY <3>1, <3>2
  <2>8. CASE RmUnlinkFile(c)
    <3>1. CASE Exists("file", path[c])
      <4>1. pc'[c] = "reply" /\ UNCHANGED data /\ link'["meta"] = link["meta"]
        BY <2>8, <3>1 DEF RmUnlinkFile, Unlink, Answer, DiskTypeOK
      <4> QED  BY <4>1, SameHeaders DEF Done, MetaSeen
    <3>2. CASE ~Exists("file", path[c])  BY <1>2, <2>8, <3>2 DEF RmUnlinkFile
    <3> QED  BY <3>1, <3>2
  <2> QED  BY <1>12, <2>1, <2>2, <2>3, <2>4, <2>5, <2>6, <2>7, <2>8 DEF Rm
<1>13. CASE Ls(c)
  <2> USE DEF Goto
  <2>1. CASE LsPath(c)  BY <1>2, <2>1 DEF LsPath
  <2>2. CASE LsOpen(c)  BY <1>2, <2>2 DEF LsOpen, Answer
  <2>3. CASE LsRead(c)  BY <1>2, <2>3 DEF LsRead
  <2>4. CASE LsSend(c)  BY <1>2, <2>4 DEF LsSend
  <2> QED  BY <1>13, <2>1, <2>2, <2>3, <2>4 DEF Ls
<1> QED
  BY <1>7, <1>8, <1>9, <1>10, <1>11, <1>12, <1>13 DEF HandlerStep

\* A handler takes steps from its start to its end.
LEMMA HandlerIsWorking ==
  ASSUME NEW c \in Clients, HandlerStep(c)
  PROVE  Working(c)
<1>1. Write(c) => Working(c)
  BY DEF Write, WritePermission, WriteAck, WriteCheck, WriteDrain, WriteOpenMeta,
    WriteMeta, WritePath, WriteOpenFile, WriteStore, Working
<1>2. Get(c) => Working(c)
  BY DEF Get, GetPath, GetOpen, GetRead, GetSend, GetAck, Working
<1>3. Rm(c) => Working(c)
  BY DEF Rm, RmPath, RmCheck, RmRecheck, RmOpenMeta, RmUnlinkMeta, RmPath2, RmOpenFile,
    RmUnlinkFile, Working
<1>4. Ls(c) => Working(c)  BY DEF Ls, LsPath, LsOpen, LsRead, LsSend, Working
<1>5. Start(c) \/ Reply(c) \/ Sigpipe(c) \/ Close(c) => Working(c)
  BY DEF Start, Reply, Sigpipe, Close, Working
<1> QED  BY <1>1, <1>2, <1>3, <1>4, <1>5 DEF HandlerStep

LEMMA NextReadOnly ==
  ASSUME Orderly
  PROVE  ReadOnlyInv /\ [Next]_vars => ReadOnlyInv'
<1> SUFFICES ASSUME ReadOnlyInv, [Next]_vars PROVE ReadOnlyInv'
  OBVIOUS
<1> USE DEF ReadOnlyInv
<1>1. OrderInv' /\ InodeInv' /\ TurnInv
  BY NextOrder, NextInodes DEF OrderInv, SurvivalInv
<1> DEFINE Done == \A c \in Clients : MetaSeen(c)'
<1>2. ASSUME NEW c \in Clients, UNCHANGED <<disk, path>>, pc'[c] = pc[c], mfd'[c] = mfd[c]
      PROVE  MetaSeen(c)'
  BY <1>2 DEF MetaSeen, PermissionOf, Exists, disk
<1>3. ASSUME NEW c \in Clients, pc'[c] \in {"none", "start", "done", "killed"}
      PROVE  MetaSeen(c)'
  BY <1>3 DEF MetaSeen
<1>4. ASSUME UNCHANGED <<pc, path, mfd, disk>> PROVE Done
  BY <1>2, <1>4
<1>5. ASSUME NEW reason, ServerDies(reason) PROVE Done
  <2>1. \A c \in Clients : pc'[c] \in {"none", "done", "killed"}
    BY <1>5 DEF ServerDies, Working
  <2> QED  BY <1>3, <2>1
<1>6. ASSUME Main PROVE Done
  <2>1. CASE RecvNothing \/ Exit  BY <1>5, <2>1 DEF RecvNothing, Exit
  <2>2. CASE ParseSpawn
    <3>1. pc \in [Clients -> HandlerPCs] /\ UNCHANGED <<disk, path, mfd>>
          /\ pc' = [pc EXCEPT ![cur] = "start"]
      BY <1>1, <2>2, HandlerTypes DEF ParseSpawn, Goto
    <3>2. \A c \in Clients : pc'[c] \in {pc[c], "start"}
      BY <3>1
    <3> QED  BY <1>2, <1>3, <3>1, <3>2
  <2>3. CASE (\E c \in Clients : Accept(c)) \/ RecvCommand \/ ParseStop \/ ParseSkip
    BY <1>4, <2>3 DEF Accept, RecvCommand, ParseStop, ParseSkip, handlerVars
  <2> QED  BY <1>6, <2>1, <2>2, <2>3 DEF Main, MainStep
<1>7. ASSUME NEW d \in Clients, Handler(d) PROVE Done
  <2>1. CASE Sigpipe(d)  BY <1>5, <2>1 DEF Sigpipe
  <2>2. CASE ~Sigpipe(d)
    <3>1. HandlerStep(d) /\ MetaSeen(d)' /\ OnlyOf(d)
          /\ \A c \in Clients \ {d} : path'[c] = path[c]
      BY <1>1, <1>7, <2>2, HandlerMeta, HandlerAccounted, HandlerPath
      DEF Handler, OrderInv
    <3>2. CASE Serving(d)
      <4>1. ASSUME NEW c \in Clients \ {d} PROVE MetaSeen(c)'
        <5>1. ~Serving(c) /\ pc'[c] = pc[c]  BY <3>1, <3>2, OneServed DEF OnlyOf
        <5> QED  BY <5>1 DEF Serving, Working, MetaSeen
      <4> QED  BY <3>1, <4>1
    <3>3. CASE ~Serving(d)
      <4>1. Working(d)
        BY <1>7, HandlerIsWorking DEF Handler
      <4>2. pc[d] = "close"  BY <3>3, <4>1 DEF Serving
      <4>3. UNCHANGED disk  BY <1>1, <2>2, <3>1, <4>2, HandlerFrame
      <4>4. ASSUME NEW c \in Clients \ {d} PROVE MetaSeen(c)'
        <5>1. pc'[c] = pc[c] /\ mfd'[c] = mfd[c] /\ path'[c] = path[c]
          BY <3>1 DEF OnlyOf
        <5> QED  BY <4>3, <5>1 DEF MetaSeen, PermissionOf, Exists, disk
      <4> QED  BY <3>1, <4>4
    <3> QED  BY <3>2, <3>3
  <2> QED  BY <2>1, <2>2
<1>8. ASSUME NEW c \in Clients, Client(c) \/ Launch(c) \/ Kill(c) PROVE Done
  BY <1>4, <1>8 DEF Client, Launch, Kill, serverVars, handlerVars
<1>9. ASSUME Finished \/ UNCHANGED vars PROVE Done
  BY <1>4, <1>9 DEF Finished, vars, serverVars, handlerVars
<1>10. Done
  BY <1>6, <1>7, <1>8, <1>9 DEF Next
<1> QED  BY <1>1, <1>10

LEMMA InitReadOnly == ASSUME LeftoverHeaders PROVE Init => ReadOnlyInv
<1> SUFFICES ASSUME Init PROVE ReadOnlyInv
  OBVIOUS
<1>1. OrderInv /\ InodeInv  BY InitOrder, InitInodes
<1> QED  BY <1>1 DEF ReadOnlyInv, MetaSeen, Init, ServerInit

\* With one client after the other, handle_write and handle_rm leave the header of
\* a file alone that is read-only when they look at it (serverHandler.c:47, 309),
\* and it is still what they saw when they get to change it.
THEOREM ReadOnlyHeadersStay ==
  ASSUME Orderly, LeftoverHeaders
  PROVE  Spec => ReadOnlyStable
<1>1. Init => ReadOnlyInv  BY InitReadOnly
<1>2. ReadOnlyInv /\ [Next]_vars => ReadOnlyInv'  BY NextReadOnly
<1>3. ReadOnlyInv /\ [Next]_vars =>
        [\A n \in Names, c \in Clients :
           HandlerStep(c) /\ Faithful(c) /\ PermissionOf(n) = 0
             => PermissionOf(n)' = 0]_vars
  <2> SUFFICES ASSUME ReadOnlyInv, NEW n \in Names, NEW c \in Clients, HandlerStep(c),
                      PermissionOf(n) = 0
               PROVE  PermissionOf(n)' = 0
    OBVIOUS
  <2>1. CASE Sigpipe(c)
    BY <2>1 DEF Sigpipe, ServerDies, PermissionOf, Exists, disk
  <2>2. CASE ~Sigpipe(c)
    BY <2>2, HandlerMeta DEF ReadOnlyInv, ReadOnlyKept
  <2> QED  BY <2>1, <2>2
<1> QED  BY <1>1, <1>2, <1>3, PTL DEF Spec, ReadOnlyStable

(***************************************************************************)
(* The refinement of RemoteFiles.  Two more assumptions on the users and   *)
(* the disk: client.c:101 takes no permission but 0 and 1, and a header    *)
(* that was there before is empty or one of the two.                       *)
(***************************************************************************)
NumbersSent == \A c \in Clients : \A r \in Plan[c] : r.cmd = "WRITE" => r.perm \in {0, 1}

Plain == {<<>>, <<"0">>, <<"1">>}
PlainLeftovers ==
  \A before \in Leftovers, n \in Names : before["meta"][n] \in Plain \cup {None}

(***************************************************************************)
(* The invariant of the refinement: what is under way between a handler    *)
(* and its client is what the abstract store has answered, and the files   *)
(* of the request's name are where the handler's work has brought them.    *)
(***************************************************************************)
\* Somebody has stopped the server, and nothing else ends it.
Stopping == mpc = "exit" \/ why = "stop"
DeadStopped == mpc = "dead" => why = "stop"

PlainHeaders == \A i \in Inodes : i[2] = "meta" => data[i] \in Plain

\* A handler exists for a request it can handle, and has the right path once
\* it has read it.
Asks(c) == req[c] # None /\ req[c].cmd \in Handled
Commanded(c) ==
  /\ pc[c] # "none" => Asks(c)
  /\ pc[c] \notin {"none", "start"} => op[c] = req[c].cmd
  /\ pc[c] \notin {"none", "start", "w_perm", "w_ack", "g_path", "r_path", "l_path"}
       => path[c] = req[c].path

\* A client is on the path of its own command.
ClientPath(c) ==
  /\ cpc[c] \in {"ack", "source"} => req[c].cmd = "WRITE"
  /\ cpc[c] \in {"open", "fetch", "confirm"} => req[c].cmd = "GET"
  /\ cpc[c] = "result" => req[c].cmd \in Handled
  /\ cpc[c] \in {"close", "done"} => status[c] # "running"
  /\ cpc[c] = "idle" => req[c] = None

\* A client that nobody will answer any more.
CutOff(c) == srv[c] = "closed" \/ cli[c] \notin {"none", "open"} \/ cpc[c] \in {"close", "done"}

\* What may stand behind the text that a client prints (client_rm, client_ls).
Endings(c) == IF req[c] # None /\ req[c].cmd \in {"RM", "LS"} THEN {<<>>, Note("stale")} ELSE {<<>>}

\* Before the outcome of a request is decided its client has been told nothing,
\* and is lost only because the server is stopping.
Unserved(c) == pc[c] \in Deciding =>
  /\ out[c] = <<>> /\ local[c] = <<>> /\ answer[c] \in Endings(c)
  /\ pc[c] \notin {"w_check", "w_openmeta"} => down[c] = <<>>
  /\ Asks(c) /\ CutOff(c) => Stopping

\* The text of an ended handler is under way to its client, or has been printed.
Told(c) ==
  \/ cpc[c] = "result" /\ down[c] = <<out[c]>>
  \/ cpc[c] = "result" /\ op[c] = "LS" /\ down[c] = <<>> /\ out[c] = <<>>
  \/ /\ cpc[c] \in {"close", "done"} /\ status[c] = "ok"
     /\ \E rest \in Endings(c) : answer[c] = out[c] \o rest

\* A GET whose handler has ended found no file, or has stored what it got.
Fetched(c) ==
  \/ /\ local[c] = <<>> /\ down[c] = <<>>
     /\ \/ cpc[c] \in {"open", "fetch"}
        \/ cpc[c] \in {"close", "done"} /\ status[c] = "fail"
  \/ /\ local[c] # <<>>
     /\ \/ cpc[c] = "result" /\ down[c] # <<>>
        \/ cpc[c] \in {"close", "done"} /\ status[c] = "ok"

\* After the outcome is decided, the texts under way agree with it.
Served(c) ==
  /\ pc[c] \in WriteHeard /\ cpc[c] = "result" => up[c] = <<Source[c]>>
  /\ pc[c] \in {"g_send", "g_ack"} => out[c] # <<>>
  /\ pc[c] = "g_ack" => /\ down[c] # <<>> => down[c] = <<out[c]>>
                        /\ cpc[c] \in {"confirm", "result"} => local[c] = out[c]
  /\ pc[c] = "reply" /\ op[c] = "GET" => local[c] # <<>>
  /\ pc[c] \in {"close", "done", "killed"} =>
       IF op[c] = "GET" THEN Fetched(c) ELSE Told(c)

\* What a handler has already done to the two files of its name, or found there.
FilesSeen(c) == LET n == req[c].path IN
  /\ pc[c] \in {"w_path", "w_openfile", "w_store"} =>
       Exists("meta", n) /\ data[link["meta"][n]] = HeaderToString(perm[c])
  /\ pc[c] = "w_store" =>
       Exists("file", n) /\ fd[c] = link["file"][n] /\ data[fd[c]] = <<>>
  /\ pc[c] = "g_read" => Exists("file", n) /\ fd[c] = link["file"][n]
  /\ pc[c] = "l_read" => Exists("meta", n) /\ fd[c] = link["meta"][n]
  /\ pc[c] = "r_openmeta" => PermissionOf(n) # -1
  /\ pc[c] \in {"r_path2", "r_openfile", "r_unlinkfile"} => ~Exists("meta", n)
  /\ pc[c] = "r_unlinkfile" => Exists("file", n)

RefInv ==
  /\ ReadOnlyInv /\ DeadStopped /\ PlainHeaders
  /\ \A c \in Clients : Commanded(c) /\ ClientPath(c) /\ Unserved(c) /\ Served(c) /\ FilesSeen(c)

\* The exit status that the mapping shows.
ExitOf(c) == IF At(c, "done") THEN status[c] ELSE "running"

\* What users other than c, and whoever stops the server, see of a step of c.
Apart(c) ==
  /\ req' = req /\ (Stopping' <=> Stopping)
  /\ \A d \in Clients : SeenBy(d)' = SeenBy(d) /\ ExitOf(d)' = ExitOf(d)
  /\ \A d \in Clients \ {c} : PhaseOf(d)' = PhaseOf(d) /\ ReplyOf(d)' = ReplyOf(d)

\* The store that the mapping shows does not change.
StoreKept == \A m \in Names : HeaderOf(m)' = HeaderOf(m) /\ ContentOf(m)' = ContentOf(m)

\* Nobody sees a difference.
LEMMA AllSame ==
  ASSUME StoreKept, req' = req, Stopping' <=> Stopping,
         \A d \in Clients : /\ PhaseOf(d)' = PhaseOf(d) /\ ReplyOf(d)' = ReplyOf(d)
                            /\ SeenBy(d)' = SeenBy(d) /\ ExitOf(d)' = ExitOf(d)
  PROVE  UNCHANGED Files!vars
<1>1. [n \in Names |-> HeaderOf(n)]' = [n \in Names |-> HeaderOf(n)]
  BY DEF StoreKept
<1>2. [n \in Names |-> ContentOf(n)]' = [n \in Names |-> ContentOf(n)]
  BY DEF StoreKept
<1>3. [d \in Clients |-> PhaseOf(d)]' = [d \in Clients |-> PhaseOf(d)]
  OBVIOUS
<1>4. [d \in Clients |-> ReplyOf(d)]' = [d \in Clients |-> ReplyOf(d)]
  OBVIOUS
<1>5. [d \in Clients |-> SeenBy(d)]' = [d \in Clients |-> SeenBy(d)]
  OBVIOUS
<1>6. [d \in Clients |-> IF At(d, "done") THEN status[d] ELSE "running"]'
      = [d \in Clients |-> IF At(d, "done") THEN status[d] ELSE "running"]
  BY DEF ExitOf
<1>7. (mpc = "exit" \/ why = "stop")' = (mpc = "exit" \/ why = "stop")
  BY DEF Stopping
<1> QED  BY <1>1, <1>2, <1>3, <1>4, <1>5, <1>6, <1>7 DEF Files!vars

\* A step of c of which c does not see anything either.
LEMMA Stutters ==
  ASSUME NEW c \in Clients, Apart(c), StoreKept, PhaseOf(c)' = PhaseOf(c), ReplyOf(c)' = ReplyOf(c)
  PROVE  UNCHANGED Files!vars
BY AllSame DEF Apart

\* A step of c that shows one abstract step, in which the request is served.
LEMMA Serves ==
  ASSUME NEW c \in Clients, NEW n \in Names, Apart(c),
         PhaseOf(c)' = "served", NEW text, ReplyOf(c)' = text,
         NEW h, HeaderOf(n)' = h, NEW t, ContentOf(n)' = t,
         \A m \in Names \ {n} : HeaderOf(m)' = HeaderOf(m) /\ ContentOf(m)' = ContentOf(m)
  PROVE  Files!Serve(c, text, h, t, n)
<1>1. [m \in Names |-> HeaderOf(m)]' = [[m \in Names |-> HeaderOf(m)] EXCEPT ![n] = h]
  OBVIOUS
<1>2. [m \in Names |-> ContentOf(m)]' = [[m \in Names |-> ContentOf(m)] EXCEPT ![n] = t]
  OBVIOUS
<1>3. [d \in Clients |-> PhaseOf(d)]' = [[d \in Clients |-> PhaseOf(d)] EXCEPT ![c] = "served"]
  BY DEF Apart
<1>4. [d \in Clients |-> ReplyOf(d)]' = [[d \in Clients |-> ReplyOf(d)] EXCEPT ![c] = text]
  BY DEF Apart
<1>5. [d \in Clients |-> SeenBy(d)]' = [d \in Clients |-> SeenBy(d)]
  BY DEF Apart
<1>6. [d \in Clients |-> IF At(d, "done") THEN status[d] ELSE "running"]'
      = [d \in Clients |-> IF At(d, "done") THEN status[d] ELSE "running"]
  BY DEF Apart, ExitOf
<1>7. (mpc = "exit" \/ why = "stop")' = (mpc = "exit" \/ why = "stop")
  BY DEF Apart, Stopping
<1>8. req' = req
  BY DEF Apart
<1> QED  BY <1>1, <1>2, <1>3, <1>4, <1>5, <1>6, <1>7, <1>8 DEF Files!Serve

(***************************************************************************)
(* What the mapping shows, when c is the only one that changes anything.   *)
(***************************************************************************)
HeaderAt(m)  == IF Exists("meta", m) THEN HeaderName(data[link["meta"][m]]) ELSE "none"
ContentAt(m) == IF Exists("file", m) THEN PbDecode(data[link["file"][m]]) ELSE None
Changing(c)  == Storing(c) \/ Removing(c)

HeaderSeen(c, m) ==
  IF Storing(c) /\ req[c].path = m THEN HeaderName(HeaderToString(perm[c]))
  ELSE IF Removing(c) /\ req[c].path = m THEN "none" ELSE HeaderAt(m)
ContentSeen(c, m) ==
  IF Storing(c) /\ req[c].path = m THEN PbDecode(PbEncode(Source[c]))
  ELSE IF Removing(c) /\ req[c].path = m THEN None ELSE ContentAt(m)

\* While no other client changes anything, what is shown depends on c alone: now ...
LEMMA View ==
  ASSUME NEW c \in Clients, \A d \in Clients \ {c} : ~Changing(d), req[c] # None, NEW m
  PROVE  HeaderOf(m) = HeaderSeen(c, m) /\ ContentOf(m) = ContentSeen(c, m)
<1>1. CASE Changing(c) /\ req[c].path = m
  <2>1. ChangerOf(m) = {c}  BY <1>1 DEF ChangerOf, Changing
  <2>2. (CHOOSE d \in ChangerOf(m) : TRUE) = c /\ ChangerOf(m) # {}  BY <2>1
  <2>3. ~(Storing(c) /\ Removing(c))  BY DEF Storing, Removing
  <2> QED
    BY <1>1, <2>1, <2>2, <2>3 DEF HeaderOf, ContentOf, HeaderSeen, ContentSeen, Changing
<1>2. CASE ~(Changing(c) /\ req[c].path = m)
  <2>1. ChangerOf(m) = {}  BY <1>2 DEF ChangerOf, Changing
  <2> QED
    BY <1>2, <2>1
    DEF HeaderOf, ContentOf, HeaderSeen, ContentSeen, Changing, HeaderAt, ContentAt
<1> QED  BY <1>1, <1>2

\* ... and after the step.
LEMMA ViewAfter ==
  ASSUME NEW c \in Clients, \A d \in Clients \ {c} : ~Changing(d)', req'[c] # None, NEW m
  PROVE  HeaderOf(m)' = HeaderSeen(c, m)' /\ ContentOf(m)' = ContentSeen(c, m)'
<1>1. CASE Changing(c)' /\ req'[c].path = m
  <2>1. ChangerOf(m)' = {c}  BY <1>1 DEF ChangerOf, Changing
  <2>2. (CHOOSE d \in ChangerOf(m)' : TRUE) = c /\ ChangerOf(m)' # {}  BY <2>1
  <2>3. ~(Storing(c)' /\ Removing(c)')  BY DEF Storing, Removing
  <2> QED
    BY <1>1, <2>1, <2>2, <2>3 DEF HeaderOf, ContentOf, HeaderSeen, ContentSeen, Changing
<1>2. CASE ~(Changing(c)' /\ req'[c].path = m)
  <2>1. ChangerOf(m)' = {}  BY <1>2 DEF ChangerOf, Changing
  <2> QED
    BY <1>2, <2>1
    DEF HeaderOf, ContentOf, HeaderSeen, ContentSeen, Changing, HeaderAt, ContentAt
<1> QED  BY <1>1, <1>2

\* What is done to the file of path n in tree k, through inode i.
OneFile(k, n, i) ==
  /\ i \in Inodes /\ i[2] = k /\ \A q \in Paths \ {n} : link[k][q] # i
  /\ \A j \in Kinds, q \in Paths : j # k \/ q # n => link'[j][q] = link[j][q]
  /\ \A j \in Inodes \ {i} : data'[j] = data[j]

\* Only one header, or only one content, is touched.
LEMMA OtherFiles ==
  ASSUME DiskTypeOK, LinkKinds, NEW k \in Kinds, NEW n \in Paths, NEW i, OneFile(k, n, i),
         NEW m \in Paths
  PROVE  /\ m # n \/ k = "file" => HeaderAt(m)' = HeaderAt(m)
         /\ m # n \/ k = "meta" => ContentAt(m)' = ContentAt(m)
<1>0. \A j \in Kinds : j # k \/ m # n =>
        /\ link'[j][m] = link[j][m]
        /\ link[j][m] # None => data'[link[j][m]] = data[link[j][m]]
  <2> SUFFICES ASSUME NEW j \in Kinds, j # k \/ m # n
               PROVE  /\ link'[j][m] = link[j][m]
                      /\ link[j][m] # None => data'[link[j][m]] = data[link[j][m]]
    OBVIOUS
  <2>1. link'[j][m] = link[j][m]  BY DEF OneFile
  <2>2. ASSUME link[j][m] # None PROVE link[j][m] \in Inodes \ {i}
    <3>1. link[j][m] \in Inodes /\ link[j][m][2] = j  BY <2>2 DEF DiskTypeOK, LinkKinds
    <3> QED  BY <3>1 DEF OneFile
  <2> QED  BY <2>1, <2>2 DEF OneFile
<1>1. "meta" \in Kinds /\ "file" \in Kinds  BY DEF Kinds
<1>2. m # n \/ k = "file" => HeaderAt(m)' = HeaderAt(m)
  BY <1>0, <1>1 DEF HeaderAt, Exists
<1>3. m # n \/ k = "meta" => ContentAt(m)' = ContentAt(m)
  BY <1>0, <1>1 DEF ContentAt, Exists
<1> QED  BY <1>2, <1>3

(***************************************************************************)
(* A step of the one handler at work, and what the mapping shows of it.    *)
(***************************************************************************)
\* One step of a handler that is at work, with all that is known of it.
AtWork(c) ==
  /\ RefInv /\ Serving(c) /\ OnlyOf(c) /\ UNCHANGED <<req, mpc, why, clientVars>>

\* The facts about such a handler that the proofs below need.
LEMMA AtWorkFacts ==
  ASSUME NEW c \in Clients, AtWork(c)
  PROVE  /\ TurnInv /\ DiskTypeOK /\ LinkKinds /\ LinksApart /\ Unlinked(c) /\ OwnKinds(c)
         /\ OrderInv /\ MetaSeen(c) /\ PlainHeaders
         /\ Commanded(c) /\ Unserved(c) /\ Served(c) /\ FilesSeen(c) /\ OwnRequest(c)
         /\ req[c] \in Request /\ req[c].path \in Names /\ req[c].path \in Paths
         /\ req[c].cmd \in Handled
         /\ req[c].path # Empty /\ srv[c] = "open" /\ cli[c] = "open" /\ Active(c)
         /\ \A d \in Clients \ {c} : ~Changing(d) /\ ~Changing(d)'
<1>1. /\ TurnInv /\ DiskTypeOK /\ LinkKinds /\ LinksApart /\ Unlinked(c) /\ OwnKinds(c)
      /\ OrderInv /\ MetaSeen(c) /\ PlainHeaders /\ OwnRequest(c)
      /\ Commanded(c) /\ Unserved(c) /\ Served(c) /\ FilesSeen(c)
  BY DiskTypes DEF AtWork, RefInv, ReadOnlyInv, InodeInv, HeaderInv, LeakInv, OrderInv
<1>2. req[c] \in Request /\ req[c].cmd \in Handled
  BY <1>1, TurnTypes DEF AtWork, Serving, Working, Commanded, Asks, ConnTypeOK
<1>3. req[c].path \in Names  BY <1>2 DEF Request
<1>4. srv[c] = "open" /\ cli[c] = "open" /\ Active(c)
  BY <1>1, ServedActive DEF AtWork
<1>5. \A d \in Clients \ {c} : ~Serving(d)  BY <1>1, OneServed DEF AtWork
<1>6. \A d \in Clients \ {c} : ~Changing(d) /\ ~Changing(d)'
  BY <1>5 DEF AtWork, OnlyOf, Serving, Working, Changing, Storing, Removing
<1> QED  BY <1>1, <1>2, <1>3, <1>4, <1>6, CommonAssumption DEF Paths

\* The others see nothing of it, and its phase follows from its place.
LEMMA AtWorkApart ==
  ASSUME NEW c \in Clients, AtWork(c)
  PROVE  Apart(c) /\ PhaseOf(c) = (IF pc[c] \in Deciding THEN "asked" ELSE "served")
         /\ PhaseOf(c)' = (IF pc'[c] \in Deciding THEN "asked" ELSE "served")
<1>1. UNCHANGED <<req, mpc, why, cpc, local, answer, status>>
  BY DEF AtWork, clientVars
<1>2. (Stopping' <=> Stopping) /\ \A d \in Clients : SeenBy(d)' = SeenBy(d) /\ ExitOf(d)' = ExitOf(d)
  BY <1>1 DEF Stopping, SeenBy, ExitOf, At
<1>3. ASSUME NEW d \in Clients \ {c}
      PROVE  PhaseOf(d)' = PhaseOf(d) /\ ReplyOf(d)' = ReplyOf(d)
  <2>1. pc'[d] = pc[d] /\ op'[d] = op[d] /\ out'[d] = out[d]
    BY DEF AtWork, OnlyOf
  <2> QED  BY <1>1, <2>1 DEF PhaseOf, ReplyOf, At, Storing, Removing
<1>4. cpc[c] \notin {"idle", "done"}  BY AtWorkFacts DEF Active
<1> QED  BY <1>1, <1>2, <1>3, <1>4 DEF Apart, PhaseOf, At

\* A handler that leaves the disk alone shows the same store, if it stays in or out
\* of a change.
LEMMA Quiet ==
  ASSUME NEW c \in Clients, AtWork(c), UNCHANGED disk, perm'[c] = perm[c] \/ ~Storing(c),
         Storing(c)' <=> Storing(c), Removing(c)' <=> Removing(c)
  PROVE  StoreKept
<1>1. req[c] # None /\ \A d \in Clients \ {c} : ~Changing(d) /\ ~Changing(d)'
  BY AtWorkFacts, CommonAssumption
<1>2. req' = req  BY DEF AtWork
<1> SUFFICES ASSUME NEW m \in Names
             PROVE  HeaderOf(m)' = HeaderOf(m) /\ ContentOf(m)' = ContentOf(m)
  BY DEF StoreKept
<1>3. /\ HeaderOf(m) = HeaderSeen(c, m) /\ ContentOf(m) = ContentSeen(c, m)
      /\ HeaderOf(m)' = HeaderSeen(c, m)' /\ ContentOf(m)' = ContentSeen(c, m)'
  BY <1>1, <1>2, View, ViewAfter
<1>4. HeaderAt(m)' = HeaderAt(m) /\ ContentAt(m)' = ContentAt(m)
  BY DEF HeaderAt, ContentAt, Exists, disk
<1> QED  BY <1>2, <1>3, <1>4 DEF HeaderSeen, ContentSeen

\* What is done to one file shows at no other name.
LEMMA OthersStay ==
  ASSUME NEW c \in Clients, AtWork(c), NEW k \in Kinds, NEW i, OneFile(k, req[c].path, i),
         NEW m \in Names, m # req[c].path
  PROVE  HeaderOf(m)' = HeaderOf(m) /\ ContentOf(m)' = ContentOf(m)
<1>1. req[c] # None /\ \A d \in Clients \ {c} : ~Changing(d) /\ ~Changing(d)'
  BY AtWorkFacts, CommonAssumption
<1>2. req' = req  BY DEF AtWork
<1>3. /\ HeaderOf(m) = HeaderSeen(c, m) /\ ContentOf(m) = ContentSeen(c, m)
      /\ HeaderOf(m)' = HeaderSeen(c, m)' /\ ContentOf(m)' = ContentSeen(c, m)'
  BY <1>1, <1>2, View, ViewAfter
<1>4. m \in Paths  BY DEF Paths
<1>5. HeaderAt(m)' = HeaderAt(m) /\ ContentAt(m)' = ContentAt(m)
  BY <1>4, AtWorkFacts, OtherFiles
<1> QED  BY <1>2, <1>3, <1>5 DEF HeaderSeen, ContentSeen

\* While a change is under way, its end is shown.
LEMMA Changes ==
  ASSUME NEW c \in Clients, AtWork(c), NEW k \in Kinds, NEW i, OneFile(k, req[c].path, i),
         \/ Storing(c) /\ Storing(c)' /\ perm'[c] = perm[c]
         \/ Removing(c) /\ Removing(c)'
  PROVE  StoreKept
<1>1. req[c] # None /\ \A d \in Clients \ {c} : ~Changing(d) /\ ~Changing(d)'
  BY AtWorkFacts, CommonAssumption
<1>2. req' = req  BY DEF AtWork
<1> SUFFICES ASSUME NEW m \in Names
             PROVE  HeaderOf(m)' = HeaderOf(m) /\ ContentOf(m)' = ContentOf(m)
  BY DEF StoreKept
<1>3. CASE m # req[c].path  BY <1>3, OthersStay
<1>4. CASE m = req[c].path
  <2>1. /\ HeaderOf(m) = HeaderSeen(c, m) /\ ContentOf(m) = ContentSeen(c, m)
        /\ HeaderOf(m)' = HeaderSeen(c, m)' /\ ContentOf(m)' = ContentSeen(c, m)'
    BY <1>1, <1>2, View, ViewAfter
  <2>2. ~(Storing(c) /\ Removing(c)) /\ ~(Storing(c)' /\ Removing(c)')
    BY DEF Storing, Removing
  <2> QED  BY <1>2, <1>4, <2>1, <2>2 DEF HeaderSeen, ContentSeen
<1> QED  BY <1>3, <1>4

\* What is shown for the name of a request before and after a change.
LEMMA Shown ==
  ASSUME NEW c \in Clients, AtWork(c)
  PROVE  LET n == req[c].path IN
         /\ HeaderOf(n) = HeaderSeen(c, n) /\ ContentOf(n) = ContentSeen(c, n)
         /\ HeaderOf(n)' = HeaderSeen(c, n)' /\ ContentOf(n)' = ContentSeen(c, n)'
<1>1. req[c] # None /\ \A d \in Clients \ {c} : ~Changing(d) /\ ~Changing(d)'
  BY AtWorkFacts, CommonAssumption
<1>2. req' = req  BY DEF AtWork
<1> QED  BY <1>1, <1>2, View, ViewAfter

(***************************************************************************)
(* The accesses to the disk.                                               *)
(***************************************************************************)
\* open with O_CREAT and O_TRUNC: the file is there, and empty.
LEMMA OpensOne ==
  ASSUME DiskTypeOK, LinkKinds, LinksApart, NEW k \in Kinds, NEW n \in Paths, NEW c \in Clients,
         OpenTrunc(k, n, <<c, k>>), \A q \in Paths : link[k][q] # <<c, k>>
  PROVE  LET i == Opened(k, n, <<c, k>>) IN
         /\ OneFile(k, n, i) /\ link'[k][n] = i /\ data'[i] = <<>> /\ i # None /\ i # Empty
<1> DEFINE i == Opened(k, n, <<c, k>>)
<1>1. <<c, k>> \in Inodes /\ <<c, k>>[2] = k  BY DEF Inodes
<1>2. i \in Inodes  BY <1>1, DiskType
<1>3. i[2] = k  BY <1>1 DEF Opened, LinkKinds
<1>4. \A q \in Paths \ {n} : link[k][q] # i  BY DEF Opened, LinksApart
<1>5. link' = [link EXCEPT ![k][n] = i] /\ data' = [data EXCEPT ![i] = <<>>]
  BY DEF OpenTrunc
<1>6. i # None /\ i # Empty  BY <1>2, CommonAssumption DEF Inodes
<1> HIDE DEF i
<1>7. OneFile(k, n, i) /\ link'[k][n] = i /\ data'[i] = <<>>
  BY <1>2, <1>3, <1>4, <1>5 DEF OneFile, DiskTypeOK
<1> QED  BY <1>6, <1>7 DEF i

\* The write that follows: the file holds what was written.
LEMMA WritesOne ==
  ASSUME DiskTypeOK, LinkKinds, LinksApart, NEW k \in Kinds, NEW n \in Paths, Exists(k, n),
         data[link[k][n]] = <<>>, NEW s \in Seq(Stored), WriteStart(link[k][n], s)
  PROVE  /\ OneFile(k, n, link[k][n]) /\ UNCHANGED link /\ data'[link[k][n]] = s
         /\ Exists(k, n)'
<1> DEFINE i == link[k][n]
<1>1. i \in Inodes /\ i # None /\ i[2] = k  BY DEF Exists, DiskTypeOK, LinkKinds
<1>2. \A q \in Paths \ {n} : link[k][q] # i  BY <1>1 DEF LinksApart
<1>3. data' = [data EXCEPT ![i] = Overlay(<<>>, s)] /\ link' = link
  BY <1>1 DEF WriteStart, DiskTypeOK
<1>4. Overlay(<<>>, s) = s
  <2>1. <<>> \in Seq(Stored) /\ Len(<<>>) <= Len(s)
    OBVIOUS
  <2> QED  BY <2>1, OverlayShorter
<1> HIDE DEF i
<1>5. OneFile(k, n, i) /\ data'[i] = s  BY <1>1, <1>2, <1>3, <1>4 DEF OneFile, DiskTypeOK
<1> QED  BY <1>3, <1>5 DEF i, Exists

\* unlink: the file is gone.
LEMMA UnlinksOne ==
  ASSUME DiskTypeOK, LinkKinds, LinksApart, NEW k \in Kinds, NEW n \in Paths, Exists(k, n),
         Unlink(k, n)
  PROVE  OneFile(k, n, link[k][n]) /\ UNCHANGED data /\ ~Exists(k, n)'
<1> DEFINE i == link[k][n]
<1>1. i \in Inodes /\ i # None /\ i[2] = k  BY DEF Exists, DiskTypeOK, LinkKinds
<1>2. \A q \in Paths \ {n} : link[k][q] # i  BY <1>1 DEF LinksApart
<1>3. link' = [link EXCEPT ![k][n] = None] /\ data' = data  BY DEF Unlink
<1> HIDE DEF i
<1>4. OneFile(k, n, i) /\ link'[k][n] = None  BY <1>1, <1>2, <1>3 DEF OneFile, DiskTypeOK
<1> QED  BY <1>3, <1>4 DEF i, Exists

\* Headers stay plain.
LEMMA PlainStays ==
  ASSUME PlainHeaders, NEW k \in Kinds, NEW n, NEW i, OneFile(k, n, i),
         k = "meta" => data'[i] \in Plain
  PROVE  PlainHeaders'
<1> SUFFICES ASSUME NEW j \in Inodes, j[2] = "meta" PROVE data'[j] \in Plain
  BY DEF PlainHeaders
<1>1. CASE j = i  BY <1>1 DEF OneFile
<1>2. CASE j # i  BY <1>2 DEF OneFile, PlainHeaders
<1> QED  BY <1>1, <1>2

(***************************************************************************)
(* The step that decides the outcome of a request.                         *)
(***************************************************************************)
\* One of the four abstract steps that serve a request.
Decides(c) == Files!Write(c) \/ Files!Get(c) \/ Files!Rm(c) \/ Files!Ls(c)
Silent(c)  == StoreKept /\ PhaseOf(c)' = PhaseOf(c) /\ ReplyOf(c)' = ReplyOf(c)

\* The cipher, there and back, is upper case: what Upper says in RemoteFiles.
LEMMA UpperText == \A t \in Text : PbDecode(PbEncode(t)) = Files!Upper(t)
<1> SUFFICES ASSUME NEW t \in Text PROVE PbDecode(PbEncode(t)) = Files!Upper(t)
  OBVIOUS
<1>1. \A i \in DOMAIN t : t[i] = [sym |-> t[i].sym, case |-> t[i].case]
  <2> TAKE i \in DOMAIN t
  <2>1. t[i] \in Cell  BY DEF Text
  <2> QED  BY <2>1 DEF Cell
<1>2. \A i \in DOMAIN t :
        [t[i] EXCEPT !.case = "upper"] = [sym |-> t[i].sym, case |-> "upper"]
  BY <1>1
<1>3. DOMAIN PbEncode(t) = DOMAIN t /\ \A i \in DOMAIN t : PbEncode(t)[i] = t[i].sym
  BY DEF PbEncode
<1> QED  BY <1>2, <1>3 DEF PbDecode, Files!Upper

\* The header shown for the name of a request is what getPermission reads there.
LEMMA HeaderMeans ==
  ASSUME NEW c \in Clients, AtWork(c), ~Changing(c)
  PROVE  LET n == req[c].path IN
         /\ HeaderOf(n) = "readonly" <=> PermissionOf(n) = 0
         /\ HeaderOf(n) = "writable" <=> PermissionOf(n) = 1
         /\ PermissionOf(n) \in {-1, 0, 1}
         /\ HeaderOf(n) = "none" <=> ~Exists("meta", n)
         /\ Exists("meta", n) =>
              /\ data[link["meta"][n]] \in Plain
              /\ HeaderOf(n) = "blank" <=> data[link["meta"][n]] = <<>>
         /\ ContentOf(n) = ContentAt(n)
<1> DEFINE n == req[c].path
<1>1. HeaderOf(n) = HeaderAt(n) /\ ContentOf(n) = ContentAt(n)
  BY Shown DEF HeaderSeen, ContentSeen, Changing
<1>2. n \in Paths /\ PlainHeaders /\ DiskTypeOK /\ LinkKinds  BY AtWorkFacts
<1> HIDE DEF n
<1>3. Exists("meta", n) => data[link["meta"][n]] \in Plain
  BY <1>2 DEF Exists, PlainHeaders, DiskTypeOK, LinkKinds, Kinds
<1>4. \A s \in Plain :
        /\ HeaderName(s) = "readonly" <=> HeaderValue(s) = 0
        /\ HeaderName(s) = "writable" <=> HeaderValue(s) = 1
        /\ HeaderValue(s) \in {-1, 0, 1}
        /\ HeaderName(s) = "blank" <=> s = <<>>
        /\ HeaderName(s) # "none"
  BY DEF Plain, HeaderName, HeaderValue
<1>5. CASE Exists("meta", n)
  BY <1>1, <1>3, <1>4, <1>5 DEF HeaderAt, PermissionOf, n
<1>6. CASE ~Exists("meta", n)
  BY <1>1, <1>6 DEF HeaderAt, PermissionOf, n
<1> QED  BY <1>5, <1>6

\* A step that shows only a reply serves the request and leaves the store alone.
LEMMA Answered ==
  ASSUME NEW c \in Clients, AtWork(c), pc'[c] \notin Deciding, StoreKept,
         NEW text, ReplyOf(c)' = text
  PROVE  LET n == req[c].path IN Files!Serve(c, text, HeaderOf(n), ContentOf(n), n)
<1>1. req[c].path \in Names /\ Apart(c) /\ PhaseOf(c)' = "served"
  BY AtWorkFacts, AtWorkApart
<1> QED  BY <1>1, Serves DEF StoreKept

\* What the mapping shows, at the request of c.
LEMMA Mapped ==
  ASSUME NEW c \in Clients, AtWork(c), pc[c] \in Deciding
  PROVE  LET n == req[c].path IN
         /\ [m \in Names |-> HeaderOf(m)][n] = HeaderOf(n)
         /\ [m \in Names |-> ContentOf(m)][n] = ContentOf(n)
         /\ \A cmd : Files!Asked(c, cmd) <=> req[c].cmd = cmd
<1>1. req[c].path \in Names /\ PhaseOf(c) = "asked"  BY AtWorkFacts, AtWorkApart
<1> QED  BY <1>1 DEF Files!Asked

\* Each command: what its abstract step asks of the step that serves it.
LEMMA DecidesWrite ==
  ASSUME NEW c \in Clients, AtWork(c), pc[c] \in Deciding, req[c].cmd = "WRITE"
  PROVE  LET n == req[c].path IN
         /\ HeaderOf(n) = "readonly"
            /\ Files!Serve(c, Note("denied"), HeaderOf(n), ContentOf(n), n) => Decides(c)
         /\ HeaderOf(n) # "readonly"
            /\ Files!Serve(c, Note("written"), HeaderName(HeaderToString(req[c].perm)),
                           PbDecode(PbEncode(Source[c])), n) => Decides(c)
<1>1. Source[c] \in Text  BY ClientAssumption
<1>2. PbDecode(PbEncode(Source[c])) = Files!Upper(Source[c])  BY <1>1, UpperText
<1>3. HeaderName(HeaderToString(req[c].perm))
        = IF req[c].perm = 0 THEN "readonly" ELSE "writable"
  <2>1. req[c].perm \in {-1, 0, 1}  BY AtWorkFacts DEF Request
  <2> QED  BY <2>1 DEF HeaderName, HeaderToString
<1> QED
  BY <1>2, <1>3, Mapped DEF Decides, Files!Write, Files!Note, Note

LEMMA DecidesGet ==
  ASSUME NEW c \in Clients, AtWork(c), pc[c] \in Deciding, req[c].cmd = "GET"
  PROVE  LET n == req[c].path IN
         Files!Serve(c, IF ContentOf(n) = None THEN <<>> ELSE ContentOf(n),
                     HeaderOf(n), ContentOf(n), n) => Decides(c)
BY Mapped DEF Decides, Files!Get

LEMMA DecidesRm ==
  ASSUME NEW c \in Clients, AtWork(c), pc[c] \in Deciding, req[c].cmd = "RM"
  PROVE  LET n == req[c].path IN
         /\ HeaderOf(n) = "readonly"
            /\ Files!Serve(c, Note("locked"), HeaderOf(n), ContentOf(n), n) => Decides(c)
         /\ HeaderOf(n) = "writable"
            /\ Files!Serve(c, Note("removed"), "none", None, n) => Decides(c)
         /\ HeaderOf(n) \notin {"readonly", "writable"}
            /\ Files!Serve(c, Note("absent"), HeaderOf(n), ContentOf(n), n) => Decides(c)
<1> DEFINE n == req[c].path
<1>1. HeaderOf(n) = "readonly" /\ Files!Serve(c, Note("locked"), HeaderOf(n), ContentOf(n), n)
        => Files!Rm(c)
  BY Mapped DEF Files!Rm, Files!Note, Note
<1>2. HeaderOf(n) = "writable" /\ Files!Serve(c, Note("removed"), "none", None, n) => Files!Rm(c)
  BY Mapped DEF Files!Rm, Files!Note, Note
<1>3. HeaderOf(n) \notin {"readonly", "writable"}
        /\ Files!Serve(c, Note("absent"), HeaderOf(n), ContentOf(n), n) => Files!Rm(c)
  BY Mapped DEF Files!Rm, Files!Note, Note
<1> QED  BY <1>1, <1>2, <1>3 DEF Decides

LEMMA DecidesLs ==
  ASSUME NEW c \in Clients, AtWork(c), pc[c] \in Deciding, req[c].cmd = "LS",
         NEW text, HeaderOf(req[c].path) \in {"none", "blank", "readonly", "writable"},
         text = CASE HeaderOf(req[c].path) = "none"     -> Note("nofile")
                  [] HeaderOf(req[c].path) = "blank"    -> <<>>
                  [] HeaderOf(req[c].path) = "readonly" -> HeaderText(<<"0">>)
                  [] OTHER                              -> HeaderText(<<"1">>)
  PROVE  LET n == req[c].path IN
         Files!Serve(c, text, HeaderOf(n), ContentOf(n), n) => Decides(c)
<1> DEFINE n == req[c].path
<1>1. /\ Files!HeaderText(<<"0">>) = HeaderText(<<"0">>)
      /\ Files!HeaderText(<<"1">>) = HeaderText(<<"1">>)
      /\ Files!Note("nofile") = Note("nofile")
  BY DEF Files!HeaderText, HeaderText, Files!Note, Note
<1>2. Files!Serve(c, text, HeaderOf(n), ContentOf(n), n) => Files!Ls(c)
  <2> HIDE DEF n
  <2> SUFFICES ASSUME Files!Serve(c, text, HeaderOf(n), ContentOf(n), n) PROVE Files!Ls(c)
    OBVIOUS
  <2>1. Files!Asked(c, "LS") /\ [m \in Names |-> HeaderOf(m)][req[c].path] = HeaderOf(n)
        /\ [m \in Names |-> ContentOf(m)][req[c].path] = ContentOf(n)
    BY Mapped DEF n
  <2>2. text = CASE HeaderOf(n) = "none"     -> Files!Note("nofile")
                 [] HeaderOf(n) = "blank"    -> <<>>
                 [] HeaderOf(n) = "readonly" -> Files!HeaderText(<<"0">>)
                 [] OTHER                    -> Files!HeaderText(<<"1">>)
    BY <1>1 DEF n
  <2> QED  BY <2>1, <2>2 DEF Files!Ls, n
<1> QED  BY <1>2 DEF Decides

\* The part of the invariant about the disk and the path is kept, and the step shows
\* nothing, or serves the request.
Effect(c) ==
  /\ PlainHeaders' /\ Commanded(c)' /\ FilesSeen(c)'
  /\ Silent(c) \/ Decides(c)

\* Nothing is decided yet ...
LEMMA StillAsked ==
  ASSUME NEW c \in Clients, AtWork(c), UNCHANGED disk, pc[c] \in Deciding, pc'[c] \in Deciding
  PROVE  Silent(c) /\ PlainHeaders'
<1>1. ~Storing(c) /\ ~Removing(c) /\ ~Storing(c)' /\ ~Removing(c)'
  BY DEF Deciding, Storing, Removing
<1>2. StoreKept  BY <1>1, Quiet
<1>3. PhaseOf(c)' = PhaseOf(c)  BY AtWorkApart
<1>4. ReplyOf(c)' = ReplyOf(c)
  <2>1. pc[c] # "w_drain" /\ pc'[c] # "w_drain"  BY DEF Deciding
  <2>2. ReplyOf(c) = <<>>  BY <1>1, <2>1 DEF ReplyOf
  <2>3. ReplyOf(c)' = <<>>  BY <1>1, <2>1 DEF ReplyOf, Deciding
  <2> QED  BY <2>2, <2>3
<1>5. PlainHeaders'  BY AtWorkFacts DEF PlainHeaders, disk
<1> QED  BY <1>2, <1>3, <1>4, <1>5 DEF Silent

\* ... everything has been decided and done ...
LEMMA StillServed ==
  ASSUME NEW c \in Clients, AtWork(c), UNCHANGED <<disk, perm>>,
         pc[c] \notin Deciding, pc'[c] \notin Deciding,
         Storing(c)' <=> Storing(c), Removing(c)' <=> Removing(c), ReplyOf(c)' = ReplyOf(c)
  PROVE  Silent(c) /\ PlainHeaders'
<1>1. StoreKept  BY Quiet
<1>2. PhaseOf(c)' = PhaseOf(c)  BY AtWorkApart
<1>3. PlainHeaders'  BY AtWorkFacts DEF PlainHeaders, disk
<1> QED  BY <1>1, <1>2, <1>3 DEF Silent

\* ... or a step that changes nothing decides.
LEMMA NowServed ==
  ASSUME NEW c \in Clients, AtWork(c), UNCHANGED disk, pc[c] \in Deciding,
         pc'[c] \notin Deciding, ~Storing(c)', ~Removing(c)'
  PROVE  /\ StoreKept /\ PlainHeaders'
         /\ \A text : ReplyOf(c)' = text =>
              Files!Serve(c, text, HeaderOf(req[c].path), ContentOf(req[c].path), req[c].path)
<1>1. ~Storing(c) /\ ~Removing(c)  BY DEF Deciding, Storing, Removing
<1>2. StoreKept  BY <1>1, Quiet
<1>3. PlainHeaders'  BY AtWorkFacts DEF PlainHeaders, disk
<1> QED  BY <1>2, <1>3, Answered

\* The handler has read its command and path before, or reads its path now.
LEMMA SameCommand ==
  ASSUME NEW c \in Clients, AtWork(c), UNCHANGED <<op, path>>, pc[c] # "start",
         pc[c] \notin {"w_perm", "w_ack", "g_path", "r_path", "l_path"}
           \/ pc'[c] \in {"w_perm", "w_ack"}
  PROVE  Commanded(c)'
<1>1. Commanded(c) /\ pc[c] # "none" /\ req' = req
  BY AtWorkFacts DEF AtWork, Serving, Working
<1> QED  BY <1>1 DEF Commanded, Asks

LEMMA OwnPath ==
  ASSUME NEW c \in Clients, AtWork(c), UNCHANGED op, ReadPath(c), pc[c] # "start"
  PROVE  Commanded(c)' /\ path'[c] = req[c].path
<1>1. Commanded(c) /\ pc[c] # "none" /\ req' = req /\ OrderInv /\ Serving(c)
  BY AtWorkFacts DEF AtWork, Serving, Working
<1>2. PICK p \in PathsRead(c) : path' = [path EXCEPT ![c] = p]  BY DEF ReadPath
<1>3. p = req[c].path  BY <1>1, OwnLine
<1>4. path \in [Clients -> Paths \cup {Empty, None}]  
  BY AtWorkFacts DEF TurnInv, TypeInv, TypeOK, ServerTypeOK
<1> QED  BY <1>1, <1>2, <1>3, <1>4 DEF Commanded, Asks

\* Types, and what is fixed while the handler works.
LEMMA AtWorkTypes ==
  ASSUME NEW c \in Clients, AtWork(c)
  PROVE  /\ pc \in [Clients -> HandlerPCs] /\ op \in [Clients -> Handled \cup {None}]
         /\ perm \in [Clients -> {-1, 0, 1}] /\ path \in [Clients -> Paths \cup {Empty, None}]
         /\ fd \in [Clients -> Inodes \cup {None, Empty}] /\ out \in [Clients -> Text]
         /\ mfd \in [Clients -> Inodes \cup {None}]
         /\ OnPath(c) /\ req' = req /\ UNCHANGED <<local, cpc>>
         /\ pc[c] \notin {"none", "start"} => op[c] = req[c].cmd
         /\ pc[c] \notin {"none", "start", "w_perm", "w_ack", "g_path", "r_path", "l_path"}
              => path[c] = req[c].path
<1>1. TurnInv  BY AtWorkFacts
<1> QED
  BY <1>1, AtWorkFacts
  DEF TurnInv, TypeInv, TypeOK, ServerTypeOK, AtWork, OrderInv, LeakInv, Accounted,
    Commanded, clientVars

\* The steps of handle_client and handle_get.
LEMMA StartEffect ==
  ASSUME NEW c \in Clients, AtWork(c), Start(c)
  PROVE  Effect(c)
<1>1. PICK cmd \in CommandsRead(c) :
        /\ op' = [op EXCEPT ![c] = IF cmd \in Handled THEN cmd ELSE None]
        /\ Goto(c, CASE cmd = "WRITE" -> "w_perm"
                     [] cmd = "GET"   -> "g_path"
                     [] cmd = "RM"    -> "r_path"
                     [] cmd = "LS"    -> "l_path"
                     [] OTHER         -> "close")
  BY DEF Start
<1>2. pc[c] = "start" /\ UNCHANGED <<path, disk>>  BY DEF Start
<1>3. cmd = req[c].cmd /\ req[c].cmd \in Handled /\ req' = req /\ Commanded(c)
  BY <1>1, AtWorkFacts, OwnLine DEF AtWork
<1>4. op'[c] = req[c].cmd /\ pc'[c] \in {"w_perm", "g_path", "r_path", "l_path"}
  BY <1>1, <1>3, AtWorkTypes DEF Goto, Handled
<1>5. Silent(c) /\ PlainHeaders'  BY <1>2, <1>4, StillAsked DEF Deciding
<1>6. Commanded(c)'  BY <1>2, <1>3, <1>4 DEF Commanded, Asks
<1>7. FilesSeen(c)'  BY <1>4 DEF FilesSeen
<1> QED  BY <1>5, <1>6, <1>7 DEF Effect

LEMMA GetEffect ==
  ASSUME NEW c \in Clients, AtWork(c), Get(c)
  PROVE  Effect(c)
<1> DEFINE n == req[c].path
<1> USE AtWorkTypes DEF Goto, Answer
<1>0. /\ FilesSeen(c) /\ Unserved(c) /\ Served(c) /\ Synced(c) /\ TurnInv /\ DiskTypeOK
      /\ n # Empty /\ n \in Paths /\ srv[c] = "open" /\ cli[c] = "open" /\ n # None
  BY AtWorkFacts, CommonAssumption DEF OrderInv, Paths
<1> DEFINE Done == Effect(c)
<1> SUFFICES Done
  OBVIOUS
<1>1. pc[c] \in GetPCs => op[c] = "GET" /\ req[c].cmd = "GET"
  BY DEF OnPath, GetPCs
<1>2. CASE GetPath(c)
  <2>1. pc[c] = "g_path" /\ pc'[c] = "g_open" /\ UNCHANGED <<op, disk>> /\ ReadPath(c)
    BY <1>2 DEF GetPath
  <2>2. Silent(c) /\ PlainHeaders'  BY <2>1, StillAsked DEF Deciding
  <2>3. FilesSeen(c)'  BY <2>1 DEF FilesSeen
  <2> QED  BY <2>1, <2>2, <2>3, OwnPath DEF Effect
<1>3. CASE GetOpen(c)
  <2>1. pc[c] = "g_open" /\ UNCHANGED <<op, path, disk, out>> /\ path[c] = n
    BY <1>3 DEF GetOpen
  <2>2. Commanded(c)'  BY <2>1, SameCommand
  <2>3. CASE Exists("file", n)
    <3>1. pc'[c] = "g_read" /\ fd'[c] = link["file"][n]
      BY <1>0, <1>3, <2>1, <2>3 DEF GetOpen, CanRead, Target
    <3>2. Silent(c) /\ PlainHeaders'  BY <2>1, <3>1, StillAsked DEF Deciding
    <3>3. FilesSeen(c)'
      BY <2>1, <2>3, <3>1 DEF FilesSeen, Exists, disk
    <3> QED  BY <2>2, <3>2, <3>3 DEF Effect
  <2>4. CASE ~Exists("file", n)
    <3>1. pc'[c] = "close"
      BY <1>0, <1>3, <2>1, <2>4 DEF GetOpen, CanRead
    <3>2. /\ PlainHeaders'
          /\ \A text : ReplyOf(c)' = text => Files!Serve(c, text, HeaderOf(n), ContentOf(n), n)
      BY <2>1, <3>1, NowServed DEF Deciding, Storing, Removing
    <3>3. ReplyOf(c)' = <<>>
      BY <1>0, <1>1, <2>1, <3>1
      DEF ReplyOf, Storing, Removing, Deciding, GetPCs, Unserved
    <3>4. ContentOf(n) = None
      BY <2>1, <2>4, HeaderMeans DEF Changing, Storing, Removing, ContentAt
    <3>5. Decides(c)
      BY <1>1, <2>1, <3>2, <3>3, <3>4, DecidesGet DEF Deciding, GetPCs
    <3>6. FilesSeen(c)'  BY <3>1 DEF FilesSeen
    <3> QED  BY <2>2, <3>2, <3>5, <3>6 DEF Effect
  <2> QED  BY <2>3, <2>4
<1>4. CASE GetRead(c)
  <2>1. pc[c] = "g_read" /\ UNCHANGED <<op, path, disk, fd>> /\ path[c] = n
    BY <1>4 DEF GetRead
  <2>2. Commanded(c)'  BY <2>1, SameCommand
  <2>3. Exists("file", n) /\ fd[c] = link["file"][n]  BY <1>0, <2>1 DEF FilesSeen
  <2>4. fd[c] \in Inodes
    BY <1>0, <2>3 DEF Exists, DiskTypeOK, Kinds
  <2>5. Contents(fd[c]) = data[fd[c]] /\ data[fd[c]] \in Seq(Stored)
    BY <1>0, <2>4, CommonAssumption DEF Contents, DiskTypeOK, Inodes
  <2>6. ContentOf(n) = PbDecode(data[fd[c]])
    BY <2>1, <2>3, HeaderMeans DEF Changing, Storing, Removing, ContentAt
  <2>7. PbDecode(data[fd[c]]) \in Text  BY <2>5, StoredText
  <2>8. ContentOf(n) # None  BY <2>6, <2>7, NoTextAssumption
  <2>9. pc'[c] \in {"g_send", "close"}  BY <1>4 DEF GetRead
  <2>10. /\ PlainHeaders'
         /\ \A text : ReplyOf(c)' = text => Files!Serve(c, text, HeaderOf(n), ContentOf(n), n)
    BY <2>1, <2>9, NowServed DEF Deciding, Storing, Removing
  <2>11. ReplyOf(c)' = ContentOf(n)
    <3>1. CASE data[fd[c]] # <<>>
      <4>1. pc'[c] = "g_send" /\ out'[c] = PbDecode(data[fd[c]])
        BY <1>4, <2>5, <3>1 DEF GetRead
      <4> QED
        BY <2>6, <4>1 DEF ReplyOf, Storing, Removing, Deciding
    <3>2. CASE data[fd[c]] = <<>>
      <4>1. pc'[c] = "close"  BY <1>4, <2>5, <3>2 DEF GetRead
      <4>2. local[c] = <<>>  BY <1>0, <2>1 DEF Unserved, Deciding
      <4>3. PbDecode(<<>>) = <<>>
        BY DEF PbDecode
      <4> QED
        BY <1>1, <2>1, <2>6, <3>2, <4>1, <4>2, <4>3
        DEF ReplyOf, Storing, Removing, Deciding, GetPCs
    <3> QED  BY <3>1, <3>2
  <2>12. Decides(c)
    BY <1>1, <2>1, <2>8, <2>10, <2>11, DecidesGet DEF Deciding, GetPCs
  <2>13. FilesSeen(c)'  BY <2>9 DEF FilesSeen
  <2> QED  BY <2>2, <2>10, <2>12, <2>13 DEF Effect
<1>5. CASE GetSend(c)
  <2>1. pc[c] = "g_send" /\ UNCHANGED <<op, path, disk, out, perm>>
    BY <1>5 DEF GetSend
  <2>2. pc'[c] = "g_ack"  BY <1>0, <1>5 DEF GetSend, SrvSendError
  <2>3. Commanded(c)'  BY <2>1, SameCommand
  <2>4. ReplyOf(c)' = ReplyOf(c)
    BY <2>1, <2>2 DEF ReplyOf, Storing, Removing, Deciding
  <2>5. Silent(c) /\ PlainHeaders'
    BY <2>1, <2>2, <2>4, StillServed DEF Deciding, Storing, Removing
  <2>6. FilesSeen(c)'  BY <2>2 DEF FilesSeen
  <2> QED  BY <2>3, <2>5, <2>6 DEF Effect
<1>6. CASE GetAck(c)
  <2>1. pc[c] = "g_ack" /\ UNCHANGED <<op, path, disk, perm>>
    BY <1>6 DEF GetAck
  <2>2. SrvRecv(c) /\ pc'[c] = "reply"
    BY <1>0, <1>6 DEF GetAck, SrvEof, SrvRecvError
  <2>3. cpc[c] = "result"
    BY <1>0, <2>1, <2>2, TakesAll DEF Synced
  <2>4. local[c] = out[c]  BY <1>0, <2>1, <2>3 DEF Served
  <2>5. Commanded(c)'  BY <2>1, SameCommand
  <2>6. ReplyOf(c)' = ReplyOf(c)
    BY <1>1, <2>1, <2>2, <2>4 DEF ReplyOf, Storing, Removing, Deciding, GetPCs
  <2>7. Silent(c) /\ PlainHeaders'
    BY <2>1, <2>2, <2>6, StillServed DEF Deciding, Storing, Removing
  <2>8. FilesSeen(c)'  BY <2>2 DEF FilesSeen
  <2> QED  BY <2>5, <2>7, <2>8 DEF Effect
<1> QED  BY <1>2, <1>3, <1>4, <1>5, <1>6 DEF Get

\* The steps of handle_ls.
LEMMA LsEffect ==
  ASSUME NEW c \in Clients, AtWork(c), Ls(c)
  PROVE  Effect(c)
<1> DEFINE n == req[c].path
<1> USE AtWorkTypes DEF Goto, Answer
<1>0. /\ FilesSeen(c) /\ Unserved(c) /\ DiskTypeOK
      /\ n # Empty /\ n \in Paths /\ srv[c] = "open" /\ cli[c] = "open" /\ n # None
  BY AtWorkFacts, CommonAssumption DEF Paths
<1> DEFINE Done == Effect(c)
<1> SUFFICES Done
  OBVIOUS
<1>1. pc[c] \in LsPCs => op[c] = "LS" /\ req[c].cmd = "LS"
  BY DEF OnPath, LsPCs
<1>2. CASE LsPath(c)
  <2>1. pc[c] = "l_path" /\ pc'[c] = "l_open" /\ UNCHANGED <<op, disk>> /\ ReadPath(c)
    BY <1>2 DEF LsPath
  <2>2. Silent(c) /\ PlainHeaders'  BY <2>1, StillAsked DEF Deciding
  <2>3. FilesSeen(c)'  BY <2>1 DEF FilesSeen
  <2> QED  BY <2>1, <2>2, <2>3, OwnPath DEF Effect
<1>3. CASE LsOpen(c)
  <2>1. pc[c] = "l_open" /\ UNCHANGED <<op, path, disk>> /\ path[c] = n
    BY <1>3 DEF LsOpen
  <2>2. Commanded(c)'  BY <2>1, SameCommand
  <2>3. CASE Exists("meta", n)
    <3>1. pc'[c] = "l_read" /\ fd'[c] = link["meta"][n]
      BY <1>0, <1>3, <2>1, <2>3 DEF LsOpen, CanRead, Target
    <3>2. Silent(c) /\ PlainHeaders'  BY <2>1, <3>1, StillAsked DEF Deciding
    <3>3. FilesSeen(c)'
      BY <2>1, <2>3, <3>1 DEF FilesSeen, Exists, disk
    <3> QED  BY <2>2, <3>2, <3>3 DEF Effect
  <2>4. CASE ~Exists("meta", n)
    <3>1. pc'[c] = "reply" /\ out'[c] = Note("nofile")
      BY <1>0, <1>3, <2>1, <2>4 DEF LsOpen, CanRead
    <3>2. /\ PlainHeaders'
          /\ \A text : ReplyOf(c)' = text => Files!Serve(c, text, HeaderOf(n), ContentOf(n), n)
      BY <2>1, <3>1, NowServed DEF Deciding, Storing, Removing
    <3>3. ReplyOf(c)' = Note("nofile")
      BY <1>1, <2>1, <3>1 DEF ReplyOf, Storing, Removing, Deciding, LsPCs
    <3>4. HeaderOf(n) = "none"
      BY <2>1, <2>4, HeaderMeans DEF Changing, Storing, Removing
    <3>5. Decides(c)
      BY <1>1, <2>1, <3>2, <3>3, <3>4, DecidesLs DEF Deciding, LsPCs
    <3>6. FilesSeen(c)'  BY <3>1 DEF FilesSeen
    <3> QED  BY <2>2, <3>2, <3>5, <3>6 DEF Effect
  <2> QED  BY <2>3, <2>4
<1>4. CASE LsRead(c)
  <2>1. pc[c] = "l_read" /\ UNCHANGED <<op, path, disk, fd>> /\ path[c] = n
    BY <1>4 DEF LsRead
  <2>2. Commanded(c)'  BY <2>1, SameCommand
  <2>3. Exists("meta", n) /\ fd[c] = link["meta"][n]  BY <1>0, <2>1 DEF FilesSeen
  <2>4. fd[c] \in Inodes
    BY <1>0, <2>3 DEF Exists, DiskTypeOK, Kinds
  <2>5. Contents(fd[c]) = data[fd[c]]
    BY <1>0, <2>4, CommonAssumption DEF Contents, Inodes
  <2>6. data[fd[c]] \in Plain /\ HeaderOf(n) = HeaderName(data[fd[c]])
    <3>1. ~Changing(c)  BY <2>1 DEF Changing, Storing, Removing
    <3>2. HeaderOf(n) = HeaderAt(n)  BY <3>1, Shown DEF HeaderSeen, Changing
    <3> QED  BY <2>3, <3>1, <3>2, HeaderMeans DEF HeaderAt
  <2>7. pc'[c] \in {"l_send", "close"}  BY <1>4 DEF LsRead
  <2>8. /\ PlainHeaders'
        /\ \A text : ReplyOf(c)' = text => Files!Serve(c, text, HeaderOf(n), ContentOf(n), n)
    BY <2>1, <2>7, NowServed DEF Deciding, Storing, Removing
  <2>9. ReplyOf(c)' = out'[c]
    BY <1>1, <2>1, <2>7 DEF ReplyOf, Storing, Removing, Deciding, LsPCs
  <2>10. CASE data[fd[c]] = <<>>
    <3>1. out'[c] = <<>>
      BY <1>0, <1>4, <2>1, <2>5, <2>10 DEF LsRead, Unserved, Deciding
    <3>2. HeaderOf(n) = "blank"  BY <2>6, <2>10 DEF HeaderName
    <3>3. Decides(c)
      BY <1>1, <2>1, <2>8, <2>9, <3>1, <3>2, DecidesLs DEF Deciding, LsPCs
    <3> QED  BY <2>2, <2>7, <2>8, <3>3 DEF Effect, FilesSeen
  <2>11. CASE data[fd[c]] = <<"0">>
    <3>1. out'[c] = HeaderText(<<"0">>)
      BY <1>4, <2>5, <2>11 DEF LsRead
    <3>2. HeaderOf(n) = "readonly"  BY <2>6, <2>11 DEF HeaderName
    <3>3. Decides(c)
      BY <1>1, <2>1, <2>8, <2>9, <3>1, <3>2, DecidesLs DEF Deciding, LsPCs
    <3> QED  BY <2>2, <2>7, <2>8, <3>3 DEF Effect, FilesSeen
  <2>12. CASE data[fd[c]] = <<"1">>
    <3>1. out'[c] = HeaderText(<<"1">>)
      BY <1>4, <2>5, <2>12 DEF LsRead
    <3>2. HeaderOf(n) = "writable"  BY <2>6, <2>12 DEF HeaderName
    <3>3. Decides(c)
      BY <1>1, <2>1, <2>8, <2>9, <3>1, <3>2, DecidesLs DEF Deciding, LsPCs
    <3> QED  BY <2>2, <2>7, <2>8, <3>3 DEF Effect, FilesSeen
  <2> QED  BY <2>6, <2>10, <2>11, <2>12 DEF Plain
<1>5. CASE LsSend(c)
  <2>1. pc[c] = "l_send" /\ pc'[c] = "close" /\ UNCHANGED <<op, path, disk, out, perm>>
    BY <1>5 DEF LsSend
  <2>2. Commanded(c)'  BY <2>1, SameCommand
  <2>3. ReplyOf(c)' = ReplyOf(c)
    BY <1>1, <2>1 DEF ReplyOf, Storing, Removing, Deciding, LsPCs
  <2>4. Silent(c) /\ PlainHeaders'
    BY <2>1, <2>3, StillServed DEF Deciding, Storing, Removing
  <2>5. FilesSeen(c)'  BY <2>1 DEF FilesSeen
  <2> QED  BY <2>2, <2>4, <2>5 DEF Effect
<1> QED  BY <1>2, <1>3, <1>4, <1>5 DEF Ls

\* The steps of handle_rm: its first open begins the removal, and serves the request.
LEMMA RmEffect ==
  ASSUME NEW c \in Clients, AtWork(c), Rm(c)
  PROVE  Effect(c)
<1> DEFINE n == req[c].path
<1> USE AtWorkTypes DEF Goto, Answer
<1>0. /\ FilesSeen(c) /\ MetaSeen(c) /\ Unlinked(c) /\ DiskTypeOK /\ LinkKinds /\ LinksApart
      /\ PlainHeaders /\ n # Empty /\ n \in Paths /\ n \in Names /\ n # None
      /\ "meta" \in Kinds /\ "file" \in Kinds
  BY AtWorkFacts, CommonAssumption DEF Paths, Kinds
<1> DEFINE Done == Effect(c)
<1> SUFFICES Done
  OBVIOUS
<1>1. pc[c] \in RmPCs => op[c] = "RM" /\ req[c].cmd = "RM"
  BY DEF OnPath, RmPCs
<1>2. CASE RmPath(c)
  <2>1. pc[c] = "r_path" /\ pc'[c] = "r_check" /\ UNCHANGED <<op, disk>> /\ ReadPath(c)
    BY <1>2 DEF RmPath
  <2>2. Silent(c) /\ PlainHeaders'  BY <2>1, StillAsked DEF Deciding
  <2>3. FilesSeen(c)'  BY <2>1 DEF FilesSeen
  <2> QED  BY <2>1, <2>2, <2>3, OwnPath DEF Effect
<1>3. ASSUME pc[c] \in {"r_check", "r_recheck"}, UNCHANGED <<op, path, disk>>,
             pc'[c] \in {"r_recheck", "r_openmeta"},
             pc'[c] = "r_openmeta" => PermissionOf(n) # -1
      PROVE  Done
  <2>1. Commanded(c)'  BY <1>3, SameCommand
  <2>2. Silent(c) /\ PlainHeaders'  BY <1>3, StillAsked DEF Deciding
  <2>3. FilesSeen(c)'
    BY <1>3 DEF FilesSeen, PermissionOf, Exists, disk
  <2> QED  BY <2>1, <2>2, <2>3 DEF Effect
<1>4. ASSUME pc[c] \in {"r_check", "r_recheck"}, UNCHANGED <<op, path, disk>>,
             pc'[c] = "reply", NEW text, out'[c] = text
      PROVE  /\ Files!Serve(c, text, HeaderOf(n), ContentOf(n), n)
             /\ PlainHeaders' /\ Commanded(c)' /\ FilesSeen(c)'
  <2>1. Commanded(c)'  BY <1>4, SameCommand
  <2>2. /\ PlainHeaders'
        /\ \A t : ReplyOf(c)' = t => Files!Serve(c, t, HeaderOf(n), ContentOf(n), n)
    BY <1>4, NowServed DEF Deciding, Storing, Removing
  <2>3. ReplyOf(c)' = text
    BY <1>1, <1>4 DEF ReplyOf, Storing, Removing, Deciding, RmPCs
  <2> QED  BY <1>4, <2>1, <2>2, <2>3 DEF FilesSeen
<1>5. CASE RmCheck(c)
  <2>1. pc[c] = "r_check" /\ UNCHANGED <<op, path, disk>> /\ path[c] = n
    BY <1>5 DEF RmCheck
  <2>2. CASE PermissionOf(n) = 0
    <3>1. pc'[c] = "reply" /\ out'[c] = Note("locked")
      BY <1>5, <2>1, <2>2 DEF RmCheck
    <3>2. HeaderOf(n) = "readonly"
      BY <2>1, <2>2, HeaderMeans DEF Changing, Storing, Removing
    <3>3. Decides(c)
      BY <1>1, <1>4, <2>1, <3>1, <3>2, DecidesRm DEF Deciding, RmPCs
    <3> QED  BY <1>4, <2>1, <3>1, <3>3 DEF Effect
  <2>3. CASE PermissionOf(n) # 0
    <3>1. pc'[c] = "r_recheck"  BY <1>5, <2>1, <2>3 DEF RmCheck
    <3> QED  BY <1>3, <2>1, <3>1
  <2> QED  BY <2>2, <2>3
<1>6. CASE RmRecheck(c)
  <2>1. pc[c] = "r_recheck" /\ UNCHANGED <<op, path, disk>> /\ path[c] = n
    BY <1>6 DEF RmRecheck
  <2>2. CASE PermissionOf(n) = -1
    <3>1. pc'[c] = "reply" /\ out'[c] = Note("absent")
      BY <1>6, <2>1, <2>2 DEF RmRecheck
    <3>2. HeaderOf(n) \notin {"readonly", "writable"}
      BY <2>1, <2>2, HeaderMeans DEF Changing, Storing, Removing
    <3>3. Decides(c)
      BY <1>1, <1>4, <2>1, <3>1, <3>2, DecidesRm DEF Deciding, RmPCs
    <3> QED  BY <1>4, <2>1, <3>1, <3>3 DEF Effect
  <2>3. CASE PermissionOf(n) # -1
    <3>1. pc'[c] = "r_openmeta"  BY <1>6, <2>1, <2>3 DEF RmRecheck
    <3> QED  BY <1>3, <2>1, <2>3, <3>1
  <2> QED  BY <2>2, <2>3
<1>7. CASE RmOpenMeta(c)
  <2>1. /\ pc[c] = "r_openmeta" /\ pc'[c] = "r_unlinkmeta" /\ UNCHANGED <<op, path>>
        /\ path[c] = n /\ OpenTrunc("meta", n, <<c, "meta">>)
    BY <1>7 DEF RmOpenMeta
  <2>2. Commanded(c)'  BY <2>1, SameCommand
  <2> DEFINE i == Opened("meta", n, <<c, "meta">>)
  <2>3. OneFile("meta", n, i) /\ data'[i] = <<>>
    BY <1>0, <2>1, OpensOne DEF Unlinked, BeforeMeta
  <2> HIDE DEF i
  <2>4. PlainHeaders'  BY <1>0, <2>3, PlainStays DEF Plain
  <2>5. HeaderOf(n) = "writable"
    <3>1. PermissionOf(n) # -1 /\ PermissionOf(n) # 0
      BY <1>0, <2>1 DEF FilesSeen, MetaSeen
    <3> QED  BY <2>1, <3>1, HeaderMeans DEF Changing, Storing, Removing
  <2>6. HeaderOf(n)' = "none" /\ ContentOf(n)' = None
    BY <2>1, Shown DEF HeaderSeen, ContentSeen, Storing, Removing
  <2>7. ReplyOf(c)' = Note("removed")
    BY <2>1 DEF ReplyOf, Storing, Removing, Deciding
  <2>8. PhaseOf(c)' = "served"  BY <2>1, AtWorkApart DEF Deciding
  <2>9. \A m \in Names \ {n} : HeaderOf(m)' = HeaderOf(m) /\ ContentOf(m)' = ContentOf(m)
    BY <1>0, <2>3, OthersStay
  <2>10. Files!Serve(c, Note("removed"), "none", None, n)
    BY <1>0, <2>6, <2>7, <2>8, <2>9, AtWorkApart, Serves
  <2>11. Decides(c)
    BY <1>1, <2>1, <2>5, <2>10, DecidesRm DEF Deciding, RmPCs
  <2>12. FilesSeen(c)'  BY <2>1 DEF FilesSeen
  <2> QED  BY <2>2, <2>4, <2>11, <2>12 DEF Effect
<1>8. ASSUME Removing(c), UNCHANGED <<op, path>>, NEW k \in Kinds, NEW i, OneFile(k, n, i),
             k = "meta" => data'[i] \in Plain,
             \/ Removing(c)'
             \/ pc'[c] = "reply" /\ ReplyOf(c)' = Note("removed") /\ StoreKept
      PROVE  PlainHeaders' /\ Commanded(c)' /\ Silent(c)
  <2>1. Commanded(c)'  BY <1>8, SameCommand DEF Removing
  <2>2. PlainHeaders'  BY <1>0, <1>8, PlainStays
  <2>3. StoreKept  BY <1>8, Changes
  <2>4. PhaseOf(c)' = PhaseOf(c)
    BY <1>8, AtWorkApart DEF Removing, Deciding
  <2>5. ReplyOf(c) = Note("removed")
    BY <1>8 DEF ReplyOf, Storing, Removing, Deciding
  <2>6. Removing(c)' => ReplyOf(c)' = Note("removed")
    BY DEF ReplyOf, Storing, Removing, Deciding
  <2> QED  BY <1>8, <2>1, <2>2, <2>3, <2>4, <2>5, <2>6 DEF Silent
<1>9. CASE RmUnlinkMeta(c)
  <2>1. pc[c] = "r_unlinkmeta" /\ UNCHANGED <<op, path>> /\ path[c] = n
    BY <1>9 DEF RmUnlinkMeta
  <2>2. Exists("meta", n) /\ data[link["meta"][n]] = <<>>
    BY <1>0, <2>1 DEF MetaSeen, Exists
  <2>3. Unlink("meta", n) /\ pc'[c] = "r_path2"
    BY <1>9, <2>1, <2>2 DEF RmUnlinkMeta
  <2>4. OneFile("meta", n, link["meta"][n]) /\ UNCHANGED data /\ ~Exists("meta", n)'
    BY <1>0, <2>2, <2>3, UnlinksOne
  <2>5. PlainHeaders' /\ Commanded(c)' /\ Silent(c)
    BY <1>0, <1>8, <2>1, <2>2, <2>3, <2>4 DEF Removing, Plain
  <2>6. FilesSeen(c)'  BY <2>3, <2>4 DEF FilesSeen
  <2> QED  BY <2>5, <2>6 DEF Effect
<1>10. CASE RmPath2(c)
  <2>1. pc[c] = "r_path2" /\ pc'[c] = "r_openfile" /\ UNCHANGED <<op, disk, perm>> /\ ReadPath(c)
    BY <1>10 DEF RmPath2
  <2>2. ReplyOf(c)' = ReplyOf(c)
    BY <2>1 DEF ReplyOf, Storing, Removing, Deciding
  <2>3. Silent(c) /\ PlainHeaders'
    BY <2>1, <2>2, StillServed DEF Deciding, Storing, Removing
  <2>4. FilesSeen(c)'
    BY <1>0, <2>1 DEF FilesSeen, Exists, disk
  <2> QED  BY <2>1, <2>3, <2>4, OwnPath DEF Effect
<1>11. CASE RmOpenFile(c)
  <2>1. pc[c] = "r_openfile" /\ UNCHANGED <<op, path>> /\ path[c] = n
    BY <1>11 DEF RmOpenFile
  <2>2. OpenTrunc("file", n, <<c, "file">>) /\ pc'[c] = "r_unlinkfile"
    BY <1>0, <1>11, <2>1 DEF RmOpenFile
  <2> DEFINE i == Opened("file", n, <<c, "file">>)
  <2>3. OneFile("file", n, i) /\ link'["file"][n] = i /\ i # None
    BY <1>0, <2>1, <2>2, OpensOne DEF Unlinked, BeforeFile
  <2> HIDE DEF i
  <2>4. PlainHeaders' /\ Commanded(c)' /\ Silent(c)
    BY <1>0, <1>8, <2>1, <2>2, <2>3 DEF Removing
  <2>5. Exists("file", n)' /\ link'["meta"][n] = link["meta"][n]
    BY <1>0, <2>3 DEF Exists, OneFile
  <2>6. FilesSeen(c)'
    BY <1>0, <2>1, <2>2, <2>5 DEF FilesSeen, Exists
  <2> QED  BY <2>4, <2>6 DEF Effect
<1>12. CASE RmUnlinkFile(c)
  <2>1. pc[c] = "r_unlinkfile" /\ UNCHANGED <<op, path>> /\ path[c] = n
    BY <1>12 DEF RmUnlinkFile
  <2>2. Exists("file", n) /\ ~Exists("meta", n)
    BY <1>0, <2>1 DEF FilesSeen
  <2>3. Unlink("file", n) /\ pc'[c] = "reply" /\ out'[c] = Note("removed")
    BY <1>12, <2>1, <2>2 DEF RmUnlinkFile
  <2>4. OneFile("file", n, link["file"][n]) /\ UNCHANGED data /\ ~Exists("file", n)'
    BY <1>0, <2>2, <2>3, UnlinksOne
  <2>5. HeaderAt(n)' = HeaderAt(n)
    BY <1>0, <2>4, OtherFiles
  <2>6. HeaderOf(n)' = HeaderOf(n) /\ ContentOf(n)' = ContentOf(n)
    BY <2>1, <2>2, <2>3, <2>4, <2>5, Shown
    DEF HeaderSeen, ContentSeen, Storing, Removing, HeaderAt, ContentAt
  <2>7. StoreKept
    BY <1>0, <2>4, <2>6, OthersStay DEF StoreKept
  <2>8. ReplyOf(c)' = Note("removed")
    BY <1>1, <2>1, <2>3 DEF ReplyOf, Storing, Removing, Deciding, RmPCs
  <2>9. PlainHeaders' /\ Commanded(c)' /\ Silent(c)
    BY <1>0, <1>8, <2>1, <2>3, <2>4, <2>7, <2>8 DEF Removing
  <2>10. FilesSeen(c)'  BY <2>3 DEF FilesSeen
  <2> QED  BY <2>9, <2>10 DEF Effect
<1> QED
  BY <1>2, <1>5, <1>6, <1>7, <1>9, <1>10, <1>11, <1>12 DEF Rm

\* The steps of handle_write: its first open begins the change, and serves the request.
LEMMA WriteEffect ==
  ASSUME NumbersSent, NEW c \in Clients, AtWork(c), Write(c)
  PROVE  Effect(c)
<1> DEFINE n == req[c].path
<1> USE AtWorkTypes DEF Goto, Answer
<1>0. /\ FilesSeen(c) /\ MetaSeen(c) /\ Unlinked(c) /\ DiskTypeOK /\ LinkKinds /\ LinksApart
      /\ PlainHeaders /\ n # Empty /\ n \in Paths /\ n \in Names /\ n # None
      /\ "meta" \in Kinds /\ "file" \in Kinds /\ Synced(c) /\ Served(c) /\ TurnInv
      /\ srv[c] = "open" /\ cli[c] = "open" /\ OwnRequest(c)
  BY AtWorkFacts, CommonAssumption DEF Paths, Kinds, OrderInv
<1> DEFINE Done == Effect(c)
<1> SUFFICES Done
  OBVIOUS
<1>1. pc[c] \in WritePCs => op[c] = "WRITE" /\ req[c].cmd = "WRITE"
  BY DEF OnPath, WritePCs
<1>2. pc[c] \in WritePCs \ {"w_perm"} => perm[c] = req[c].perm /\ perm[c] \in {0, 1}
  <2> SUFFICES ASSUME pc[c] \in WritePCs \ {"w_perm"}
               PROVE  perm[c] = req[c].perm /\ perm[c] \in {0, 1}
    OBVIOUS
  <2>1. perm[c] = req[c].perm  BY <1>0, <1>1 DEF OwnRequest, WritePCs
  <2>2. req[c] \in Plan[c]
    BY AtWorkFacts, CommonAssumption DEF OrderInv, SurvivalInv, Polite, Asked, AtWork
  <2> QED  BY <1>1, <2>1, <2>2 DEF NumbersSent
<1>3. CASE WritePermission(c)
  <2>1. pc[c] = "w_perm" /\ pc'[c] = "w_ack" /\ UNCHANGED <<op, path, disk>>
    BY <1>3 DEF WritePermission
  <2>2. Silent(c) /\ PlainHeaders'  BY <2>1, StillAsked DEF Deciding
  <2>3. FilesSeen(c)'  BY <2>1 DEF FilesSeen
  <2> QED  BY <2>1, <2>2, <2>3, SameCommand DEF Effect
<1>4. CASE WriteAck(c)
  <2>1. pc[c] = "w_ack" /\ pc'[c] = "w_check" /\ UNCHANGED <<op, disk>> /\ ReadPath(c)
    BY <1>0, <1>4 DEF WriteAck, SrvSendError
  <2>2. Silent(c) /\ PlainHeaders'  BY <2>1, StillAsked DEF Deciding
  <2>3. FilesSeen(c)'  BY <2>1 DEF FilesSeen
  <2> QED  BY <2>1, <2>2, <2>3, OwnPath DEF Effect
<1>5. CASE WriteCheck(c)
  <2>1. pc[c] = "w_check" /\ UNCHANGED <<op, path, disk>> /\ path[c] = n
    BY <1>5 DEF WriteCheck
  <2>2. Commanded(c)'  BY <2>1, SameCommand
  <2>3. CASE PermissionOf(n) = 0
    <3>1. pc'[c] = "w_drain"  BY <1>5, <2>1, <2>3 DEF WriteCheck
    <3>2. /\ PlainHeaders'
          /\ \A text : ReplyOf(c)' = text => Files!Serve(c, text, HeaderOf(n), ContentOf(n), n)
      BY <2>1, <3>1, NowServed DEF Deciding, Storing, Removing
    <3>3. ReplyOf(c)' = Note("denied")
      BY <3>1 DEF ReplyOf, Storing, Removing, Deciding
    <3>4. HeaderOf(n) = "readonly"
      BY <2>1, <2>3, HeaderMeans DEF Changing, Storing, Removing
    <3>5. Decides(c)
      BY <1>1, <2>1, <3>2, <3>3, <3>4, DecidesWrite DEF Deciding, WritePCs
    <3>6. FilesSeen(c)'  BY <3>1 DEF FilesSeen
    <3> QED  BY <2>2, <3>2, <3>5, <3>6 DEF Effect
  <2>4. CASE PermissionOf(n) # 0
    <3>1. pc'[c] = "w_openmeta"  BY <1>5, <2>1, <2>4 DEF WriteCheck
    <3>2. Silent(c) /\ PlainHeaders'  BY <2>1, <3>1, StillAsked DEF Deciding
    <3>3. FilesSeen(c)'  BY <3>1 DEF FilesSeen
    <3> QED  BY <2>2, <3>2, <3>3 DEF Effect
  <2> QED  BY <2>3, <2>4
<1>6. CASE WriteDrain(c)
  <2>1. pc[c] = "w_drain" /\ UNCHANGED <<op, path, disk, perm>>
    BY <1>6 DEF WriteDrain
  <2>2. pc'[c] = "reply" /\ out'[c] = Note("denied")
    BY <1>0, <1>6 DEF WriteDrain, SrvRecvError
  <2>3. Commanded(c)'  BY <2>1, SameCommand
  <2>4. ReplyOf(c)' = Note("denied")
    BY <1>1, <2>1, <2>2 DEF ReplyOf, Storing, Removing, Deciding, WritePCs
  <2>5. ReplyOf(c) = Note("denied")
    BY <2>1 DEF ReplyOf, Storing, Removing, Deciding
  <2>6. Silent(c) /\ PlainHeaders'
    BY <2>1, <2>2, <2>4, <2>5, StillServed DEF Deciding, Storing, Removing
  <2>7. FilesSeen(c)'  BY <2>2 DEF FilesSeen
  <2> QED  BY <2>3, <2>6, <2>7 DEF Effect
<1>7. CASE WriteOpenMeta(c)
  <2>1. pc[c] = "w_openmeta" /\ UNCHANGED <<op, path, perm>> /\ path[c] = n
    BY <1>7 DEF WriteOpenMeta
  <2>2. OpenTrunc("meta", n, <<c, "meta">>) /\ pc'[c] = "w_writemeta"
    BY <1>0, <1>7, <2>1 DEF WriteOpenMeta
  <2>3. Commanded(c)'  BY <2>1, SameCommand
  <2> DEFINE i == Opened("meta", n, <<c, "meta">>)
  <2>4. OneFile("meta", n, i) /\ data'[i] = <<>>
    BY <1>0, <2>1, <2>2, OpensOne DEF Unlinked, BeforeMeta
  <2> HIDE DEF i
  <2>5. PlainHeaders'  BY <1>0, <2>4, PlainStays DEF Plain
  <2>6. HeaderOf(n) # "readonly"
    <3>1. PermissionOf(n) # 0  BY <1>0, <2>1 DEF MetaSeen
    <3> QED  BY <2>1, <3>1, HeaderMeans DEF Changing, Storing, Removing
  <2>7. /\ HeaderOf(n)' = HeaderName(HeaderToString(req[c].perm))
        /\ ContentOf(n)' = PbDecode(PbEncode(Source[c]))
    <3>1. perm'[c] = req[c].perm  BY <1>2, <2>1 DEF WritePCs
    <3> QED  BY <2>2, <3>1, Shown DEF HeaderSeen, ContentSeen, Storing, Removing
  <2>8. ReplyOf(c)' = Note("written")
    BY <2>2 DEF ReplyOf, Storing, Removing, Deciding
  <2>9. PhaseOf(c)' = "served"  BY <2>2, AtWorkApart DEF Deciding
  <2>10. \A m \in Names \ {n} : HeaderOf(m)' = HeaderOf(m) /\ ContentOf(m)' = ContentOf(m)
    BY <1>0, <2>4, OthersStay
  <2>11. Files!Serve(c, Note("written"), HeaderName(HeaderToString(req[c].perm)),
                     PbDecode(PbEncode(Source[c])), n)
    BY <1>0, <2>7, <2>8, <2>9, <2>10, AtWorkApart, Serves
  <2>12. Decides(c)
    BY <1>1, <2>1, <2>6, <2>11, DecidesWrite DEF Deciding, WritePCs
  <2>13. FilesSeen(c)'  BY <2>2 DEF FilesSeen
  <2> QED  BY <2>3, <2>5, <2>12, <2>13 DEF Effect
<1>8. ASSUME Storing(c), UNCHANGED <<op, path, perm>>, NEW k \in Kinds, NEW i, OneFile(k, n, i),
             k = "meta" => data'[i] \in Plain,
             \/ Storing(c)'
             \/ pc'[c] = "reply" /\ ReplyOf(c)' = Note("written") /\ StoreKept
      PROVE  PlainHeaders' /\ Commanded(c)' /\ Silent(c)
  <2>1. Commanded(c)'  BY <1>8, SameCommand DEF Storing
  <2>2. PlainHeaders'  BY <1>0, <1>8, PlainStays
  <2>3. StoreKept  BY <1>8, Changes
  <2>4. PhaseOf(c)' = PhaseOf(c)
    BY <1>8, AtWorkApart DEF Storing, Deciding
  <2>5. ReplyOf(c) = Note("written")
    BY <1>8 DEF ReplyOf, Storing, Removing, Deciding
  <2>6. Storing(c)' => ReplyOf(c)' = Note("written")
    BY DEF ReplyOf, Storing, Removing, Deciding
  <2> QED  BY <1>8, <2>1, <2>2, <2>3, <2>4, <2>5, <2>6 DEF Silent
<1>9. CASE WriteMeta(c)
  <2>1. /\ pc[c] = "w_writemeta" /\ pc'[c] = "w_path" /\ UNCHANGED <<op, path, perm>>
        /\ path[c] = n
    BY <1>9 DEF WriteMeta
  <2>2. mfd[c] = link["meta"][n] /\ Exists("meta", n) /\ data[link["meta"][n]] = <<>>
    BY <1>0, <2>1 DEF MetaSeen, Exists
  <2>3. HeaderToString(perm[c]) \in Seq(Stored) /\ HeaderToString(perm[c]) \in Plain
    BY <1>2, <2>1, HeaderStored DEF WritePCs, HeaderToString, Plain
  <2>4. WriteStart(link["meta"][n], HeaderToString(perm[c]))
    BY <1>9, <2>2 DEF WriteMeta
  <2>5. /\ OneFile("meta", n, link["meta"][n]) /\ UNCHANGED link
        /\ data'[link["meta"][n]] = HeaderToString(perm[c]) /\ Exists("meta", n)'
    BY <1>0, <2>2, <2>3, <2>4, WritesOne
  <2>6. PlainHeaders' /\ Commanded(c)' /\ Silent(c)
    BY <1>0, <1>8, <2>1, <2>3, <2>5 DEF Storing
  <2>7. FilesSeen(c)'  BY <2>1, <2>5 DEF FilesSeen
  <2> QED  BY <2>6, <2>7 DEF Effect
<1>10. CASE WritePath(c)
  <2>1. /\ pc[c] = "w_path" /\ pc'[c] = "w_openfile" /\ UNCHANGED <<op, disk, perm>>
        /\ ReadPath(c)
    BY <1>10 DEF WritePath
  <2>2. ReplyOf(c)' = ReplyOf(c)
    BY <2>1 DEF ReplyOf, Storing, Removing, Deciding
  <2>3. Silent(c) /\ PlainHeaders'
    BY <2>1, <2>2, StillServed DEF Deciding, Storing, Removing
  <2>4. FilesSeen(c)'
    BY <1>0, <2>1 DEF FilesSeen, Exists, disk
  <2> QED  BY <2>1, <2>3, <2>4, OwnPath DEF Effect
<1>11. CASE WriteOpenFile(c)
  <2>1. pc[c] = "w_openfile" /\ UNCHANGED <<op, path, perm>> /\ path[c] = n
    BY <1>11 DEF WriteOpenFile
  <2> DEFINE i == Opened("file", n, <<c, "file">>)
  <2>2. OpenTrunc("file", n, <<c, "file">>) /\ pc'[c] = "w_store" /\ fd'[c] = i
    BY <1>0, <1>11, <2>1 DEF WriteOpenFile
  <2>3. OneFile("file", n, i) /\ link'["file"][n] = i /\ data'[i] = <<>> /\ i # None
    BY <1>0, <2>1, <2>2, OpensOne DEF Unlinked, BeforeFile
  <2> HIDE DEF i
  <2>4. PlainHeaders' /\ Commanded(c)' /\ Silent(c)
    BY <1>0, <1>8, <2>1, <2>2, <2>3 DEF Storing
  <2>5. Exists("file", n)' /\ link'["meta"][n] = link["meta"][n]
    BY <1>0, <2>3 DEF Exists, OneFile
  <2>6. Exists("meta", n) /\ data[link["meta"][n]] = HeaderToString(perm[c])
    BY <1>0, <2>1 DEF FilesSeen
  <2>7. link["meta"][n] \in Inodes \ {i}
    BY <1>0, <2>3, <2>6 DEF Exists, LinkKinds, DiskTypeOK, OneFile
  <2>8. Exists("meta", n)' /\ data'[link'["meta"][n]] = HeaderToString(perm[c])
    BY <2>3, <2>5, <2>6, <2>7 DEF Exists, OneFile
  <2>9. FilesSeen(c)'
    BY <2>1, <2>2, <2>3, <2>5, <2>8 DEF FilesSeen
  <2> QED  BY <2>4, <2>9 DEF Effect
<1>12. CASE WriteStore(c)
  <2>1. pc[c] = "w_store" /\ UNCHANGED <<op, path, perm>> /\ path[c] = n
    BY <1>12 DEF WriteStore
  <2>2. /\ SrvRecv(c) /\ WriteStart(fd[c], PbEncode(Head(up[c])))
        /\ pc'[c] = "reply" /\ out'[c] = Note("written")
    BY <1>0, <1>12 DEF WriteStore, SrvEof, SrvRecvError
  <2>3. cpc[c] = "result"
    BY <1>0, <2>1, <2>2, TakesAll DEF Synced, WriteHeard
  <2>4. Head(up[c]) = Source[c]
    <3>1. up[c] = <<Source[c]>>  BY <1>0, <2>1, <2>3 DEF Served, WriteHeard
    <3> QED  BY <3>1
  <2>5. /\ Exists("meta", n) /\ data[link["meta"][n]] = HeaderToString(perm[c])
        /\ Exists("file", n) /\ fd[c] = link["file"][n] /\ data[fd[c]] = <<>>
    BY <1>0, <2>1 DEF FilesSeen
  <2>6. PbEncode(Source[c]) \in Seq(Stored)  BY ClientAssumption, PbEncodeStored
  <2>7. /\ OneFile("file", n, link["file"][n]) /\ UNCHANGED link
        /\ data'[link["file"][n]] = PbEncode(Source[c]) /\ Exists("file", n)'
    BY <1>0, <2>2, <2>4, <2>5, <2>6, WritesOne
  <2>8. HeaderAt(n)' = HeaderAt(n)
    BY <1>0, <2>7, OtherFiles
  <2>9. HeaderOf(n)' = HeaderOf(n) /\ ContentOf(n)' = ContentOf(n)
    <3>1. Storing(c) /\ ~Storing(c)' /\ ~Removing(c)' /\ n' = n
      BY <1>0, <2>1, <2>2 DEF Storing, Removing
    <3>2. HeaderSeen(c, n) = HeaderName(HeaderToString(perm[c]))
          /\ ContentSeen(c, n) = PbDecode(PbEncode(Source[c]))
      BY <3>1 DEF HeaderSeen, ContentSeen
    <3>3. HeaderSeen(c, n)' = HeaderAt(n)' /\ ContentSeen(c, n)' = ContentAt(n)'
      BY <3>1 DEF HeaderSeen, ContentSeen
    <3>4. HeaderAt(n) = HeaderName(HeaderToString(perm[c]))  BY <2>5 DEF HeaderAt
    <3>5. ContentAt(n)' = PbDecode(PbEncode(Source[c]))  BY <2>7 DEF ContentAt
    <3> QED  BY <2>8, <3>2, <3>3, <3>4, <3>5, Shown
  <2>10. StoreKept
    BY <1>0, <2>7, <2>9, OthersStay DEF StoreKept
  <2>11. ReplyOf(c)' = Note("written")
    BY <1>1, <2>1, <2>2 DEF ReplyOf, Storing, Removing, Deciding, WritePCs
  <2>12. PlainHeaders' /\ Commanded(c)' /\ Silent(c)
    BY <1>0, <1>8, <2>1, <2>2, <2>7, <2>10, <2>11 DEF Storing
  <2>13. FilesSeen(c)'  BY <2>2 DEF FilesSeen
  <2> QED  BY <2>12, <2>13 DEF Effect
<1> QED
  BY <1>3, <1>4, <1>5, <1>6, <1>7, <1>9, <1>10, <1>11, <1>12 DEF Write

\* Every step of a handler.
LEMMA HandlerEffect ==
  ASSUME NumbersSent, NEW c \in Clients, AtWork(c), HandlerStep(c), ~Sigpipe(c)
  PROVE  Effect(c)
<1>1. ~Close(c)  BY DEF AtWork, Serving, Close
<1>2. CASE Reply(c)
  <2>1. pc[c] = "reply" /\ pc'[c] = "close" /\ UNCHANGED <<op, path, perm, out, local, disk>>
    BY <1>2, AtWorkTypes DEF Reply, Goto
  <2>2. Commanded(c)'  BY <2>1, SameCommand
  <2>3. ReplyOf(c)' = ReplyOf(c)
    BY <2>1 DEF ReplyOf, Storing, Removing, Deciding
  <2>4. Silent(c) /\ PlainHeaders'
    BY <2>1, <2>3, StillServed DEF Deciding, Storing, Removing
  <2>5. FilesSeen(c)'  BY <2>1 DEF FilesSeen
  <2> QED  BY <2>2, <2>4, <2>5 DEF Effect
<1> QED
  BY <1>1, <1>2, StartEffect, WriteEffect, GetEffect, RmEffect, LsEffect DEF HandlerStep

(***************************************************************************)
(* What is said meanwhile.                                                 *)
(***************************************************************************)
\* Where the client is while its handler works, and what is under way.
LEMMA TalkFacts ==
  ASSUME NEW c \in Clients, AtWork(c)
  PROVE  /\ UNCHANGED <<req, mpc, why, cpc, local, answer, status>>
         /\ cpc[c] \notin {"close", "done"} /\ OrderInv /\ TurnInv /\ ConnTypeOK
         /\ srv[c] = "open" /\ cli[c] = "open" /\ Unserved(c) /\ Served(c) /\ Synced(c)
         /\ pc[c] \in Sending \ {"reply"} =>
              /\ up[c] = <<>> /\ down[c] = <<>> /\ cpc[c] \in Awaiting(req[c].cmd)
<1>1. OrderInv /\ TurnInv  BY AtWorkFacts
<1>2. UNCHANGED <<req, mpc, why, cpc, local, answer, status>>
  BY DEF AtWork, clientVars
<1>3. pc[c] \in Sending \ {"reply"} =>
        /\ up[c] = <<>> /\ down[c] = <<>> /\ cpc[c] \in Awaiting(req[c].cmd)
  BY <1>1, AnswersFirst
<1>4. cpc[c] \notin {"close", "done"}
  <2>1. pc[c] \in (Sending \ {"reply"}) \cup WriteHeard \cup {"g_ack", "reply"}
    BY AtWorkTypes DEF AtWork, Serving, Working, HandlerPCs, Sending, WriteHeard
  <2>2. Synced(c)  BY <1>1 DEF OrderInv
  <2> QED  BY <1>3, <2>1, <2>2 DEF Synced, Awaiting
<1> QED  BY <1>1, <1>2, <1>3, <1>4, AtWorkFacts, TurnTypes DEF OrderInv

\* A request that has not been served ...
LEMMA StaysUnserved ==
  ASSUME NEW c \in Clients, AtWork(c), pc[c] \in Deciding, pc'[c] \in Deciding, UNCHANGED out,
         UNCHANGED conn \/ (pc'[c] = "w_check" /\ srv'[c] = "open" /\ cli'[c] = "open"),
         pc'[c] \notin {"w_check", "w_openmeta"} => pc[c] \notin {"w_check", "w_openmeta"}
  PROVE  Unserved(c)'
<1>1. ~CutOff(c)'  BY TalkFacts DEF CutOff, conn
<1>2. Endings(c)' = Endings(c)  BY TalkFacts DEF Endings
<1> QED  BY <1>1, <1>2, TalkFacts DEF Unserved, conn

LEMMA NoneUnserved == ASSUME NEW c, pc'[c] \notin Deciding PROVE Unserved(c)'
BY DEF Unserved, Deciding

\* ... and one that has.
LEMMA StaysServed ==
  ASSUME NEW c \in Clients, AtWork(c), pc'[c] \notin {"reply", "g_send", "g_ack", "close", "done", "killed"},
         pc'[c] \in WriteHeard => cpc[c] # "result" \/ (pc[c] \in WriteHeard /\ up'[c] = up[c])
  PROVE  Served(c)'
BY TalkFacts DEF Served, WriteHeard

\* A text that is sent is the only one under way.
LEMMA SpokenOnce ==
  ASSUME NEW c \in Clients, AtWork(c), down[c] = <<>>, NEW m, SrvSend(c, m)
  PROVE  down'[c] = <<m>> /\ srv'[c] = "open" /\ cli'[c] = "open" /\ up'[c] = up[c]
<1>1. Append(<<>>, m) = <<m>>
  OBVIOUS
<1> QED  BY <1>1, TalkFacts DEF SrvSend, ConnTypeOK

\* The last text of a handler reaches the client that waits for it.
LEMMA LastSpoken ==
  ASSUME NEW c \in Clients, AtWork(c), UNCHANGED <<op, out>>, pc'[c] = "close",
         down'[c] = <<out[c]>>, cpc[c] = "result", op[c] = "GET" => local[c] # <<>>
  PROVE  Unserved(c)' /\ Served(c)'
<1>1. Unserved(c)'  BY NoneUnserved DEF Deciding
<1>2. Told(c)' /\ (op'[c] = "GET" => Fetched(c)')
  <2>1. <<out[c]>> # <<>>
    OBVIOUS
  <2> QED  BY <2>1, TalkFacts DEF Told, Fetched
<1> QED  BY <1>1, <1>2 DEF Served, WriteHeard

\* What is not empty on the disk is not empty when it is decoded.
LEMMA ReadSomething ==
  \A s \in Seq(Stored) : s # <<>> => PbDecode(s) # <<>>
<1> SUFFICES ASSUME NEW s \in Seq(Stored), s # <<>> PROVE PbDecode(s) # <<>>
  OBVIOUS
<1>1. 1 \in DOMAIN s  OBVIOUS
<1>2. DOMAIN PbDecode(s) = DOMAIN s  BY DEF PbDecode
<1>3. DOMAIN <<>> = {}
  OBVIOUS
<1> QED  BY <1>1, <1>2, <1>3

\* The conversation of handle_get.
LEMMA GetTalk ==
  ASSUME NEW c \in Clients, AtWork(c), Get(c)
  PROVE  Unserved(c)' /\ Served(c)'
<1> USE AtWorkTypes DEF Goto, Answer
<1> DEFINE Done == Unserved(c)' /\ Served(c)'
<1> SUFFICES Done
  OBVIOUS
<1>1. pc[c] \in GetPCs => op[c] = "GET" /\ req[c].cmd = "GET"
  BY DEF OnPath, GetPCs
<1>2. CASE GetPath(c)
  <2>1. /\ pc[c] = "g_path" /\ pc'[c] = "g_open" /\ UNCHANGED <<conn, out>>
    BY <1>2 DEF GetPath
  <2> QED  BY <2>1, StaysUnserved, StaysServed DEF Deciding, WriteHeard
<1>3. ASSUME pc[c] \in {"g_open", "g_read"}, pc'[c] = "close", UNCHANGED <<conn, op>> PROVE Done
  <2>1. Unserved(c)'  BY <1>3, NoneUnserved DEF Deciding
  <2>2. cpc[c] \in {"open", "fetch"} /\ down[c] = <<>> /\ local[c] = <<>>
    BY <1>1, <1>3, TalkFacts DEF GetPCs, Awaiting, Sending, Unserved, Deciding
  <2>3. Fetched(c)' /\ op'[c] = "GET"
    BY <1>1, <1>3, <2>2, TalkFacts DEF Fetched, conn, GetPCs
  <2> QED  BY <1>3, <2>1, <2>3 DEF Served, WriteHeard
<1>4. CASE GetOpen(c)
  <2>1. pc[c] = "g_open" /\ pc'[c] \in {"g_read", "close"} /\ UNCHANGED <<conn, op, out>>
    BY <1>4 DEF GetOpen
  <2>2. CASE pc'[c] = "close"  BY <1>3, <2>1, <2>2
  <2>3. CASE pc'[c] = "g_read"
    BY <2>1, <2>3, StaysUnserved, StaysServed DEF Deciding, WriteHeard
  <2> QED  BY <2>1, <2>2, <2>3
<1>5. CASE GetRead(c)
  <2>1. pc[c] = "g_read" /\ pc'[c] \in {"g_send", "close"} /\ UNCHANGED <<conn, op>>
    BY <1>5 DEF GetRead
  <2>2. CASE pc'[c] = "close"  BY <1>3, <2>1, <2>2
  <2>3. CASE pc'[c] = "g_send"
    <3>1. out'[c] = PbDecode(Contents(fd[c])) /\ Contents(fd[c]) # <<>>
      BY <1>5, <2>3 DEF GetRead
    <3>2. Contents(fd[c]) \in Seq(Stored)
      <4>1. DiskTypeOK /\ fd[c] \in Inodes \cup {Empty}
        BY <2>1, AtWorkFacts DEF TurnInv, TypeInv, OpenKnown
      <4> QED  BY <4>1 DEF Contents, DiskTypeOK
    <3>3. out'[c] # <<>>  BY <3>1, <3>2, ReadSomething
    <3>4. Unserved(c)'  BY <2>3, NoneUnserved DEF Deciding
    <3> QED  BY <2>3, <3>3, <3>4 DEF Served, WriteHeard
  <2> QED  BY <2>1, <2>2, <2>3
<1>6. CASE GetSend(c)
  <2>1. pc[c] = "g_send" /\ pc'[c] = "g_ack" /\ UNCHANGED <<op, out>> /\ SrvSend(c, out[c])
    BY <1>6, TalkFacts DEF GetSend, SrvSendError
  <2>2. cpc[c] \in {"open", "fetch"} /\ down[c] = <<>> /\ out[c] # <<>>
    BY <1>1, <2>1, TalkFacts DEF GetPCs, Awaiting, Sending, Served
  <2>3. down'[c] = <<out[c]>>  BY <2>1, <2>2, SpokenOnce
  <2>4. Unserved(c)'  BY <2>1, NoneUnserved DEF Deciding
  <2> QED  BY <2>1, <2>2, <2>3, <2>4, TalkFacts DEF Served, WriteHeard
<1>7. CASE GetAck(c)
  <2>1. pc[c] = "g_ack" /\ pc'[c] = "reply" /\ UNCHANGED op /\ SrvRecv(c)
    BY <1>7, TalkFacts DEF GetAck, SrvEof, SrvRecvError
  <2>2. cpc[c] = "result"
    BY <2>1, TalkFacts, TakesAll DEF Synced
  <2>3. local[c] # <<>>  BY <2>1, <2>2, TalkFacts DEF Served
  <2>4. Unserved(c)'  BY <2>1, NoneUnserved DEF Deciding
  <2> QED  BY <2>1, <2>3, <2>4, TalkFacts DEF Served, WriteHeard
<1> QED  BY <1>2, <1>4, <1>5, <1>6, <1>7 DEF Get

\* Steps without a word.
LEMMA SaysNothing ==
  ASSUME NEW c \in Clients, AtWork(c), UNCHANGED conn,
         pc[c] \in WriteHeard <=> pc'[c] \in WriteHeard,
         \/ /\ pc[c] \in Deciding /\ pc'[c] \in Deciding /\ UNCHANGED out
            /\ pc'[c] \notin {"w_check", "w_openmeta"} => pc[c] \notin {"w_check", "w_openmeta"}
         \/ pc'[c] \notin Deciding,
         pc'[c] \notin {"g_send", "g_ack", "close", "done", "killed"},
         pc'[c] = "reply" => op'[c] # "GET"
  PROVE  Unserved(c)' /\ Served(c)'
<1>1. Unserved(c)'
  BY StaysUnserved, NoneUnserved
<1>2. Served(c)'
  BY TalkFacts DEF Served, WriteHeard, conn
<1> QED  BY <1>1, <1>2

\* The conversation of handle_write.
LEMMA WriteTalk ==
  ASSUME NEW c \in Clients, AtWork(c), Write(c)
  PROVE  Unserved(c)' /\ Served(c)'
<1> USE AtWorkTypes DEF Goto, Answer
<1> DEFINE Done == Unserved(c)' /\ Served(c)'
<1> SUFFICES Done
  OBVIOUS
<1>1. pc[c] \in WritePCs => op[c] = "WRITE" /\ req[c].cmd = "WRITE"
  BY DEF OnPath, WritePCs
<1>2. pc[c] \in WritePCs \ {"w_perm"} => path[c] # Empty \/ pc[c] = "w_ack"
  BY AtWorkFacts DEF WritePCs
<1>3. CASE WritePermission(c)
  <2>1. pc[c] = "w_perm" /\ pc'[c] = "w_ack" /\ UNCHANGED <<conn, out>>
    BY <1>3 DEF WritePermission
  <2> QED  BY <2>1, SaysNothing DEF Deciding, WriteHeard
<1>4. CASE WriteAck(c)
  <2>1. /\ pc[c] = "w_ack" /\ pc'[c] = "w_check" /\ UNCHANGED out
        /\ SrvSend(c, Note("received"))
    BY <1>4, TalkFacts DEF WriteAck, SrvSendError
  <2>2. cpc[c] = "ack" /\ down[c] = <<>>
    BY <1>1, <2>1, TalkFacts DEF WritePCs, Awaiting, Sending
  <2>3. srv'[c] = "open" /\ cli'[c] = "open"  BY <2>1, <2>2, SpokenOnce
  <2> QED  BY <2>1, <2>2, <2>3, StaysUnserved, StaysServed DEF Deciding, WriteHeard
<1>5. CASE WriteCheck(c)
  <2>1. /\ pc[c] = "w_check" /\ pc'[c] \in {"w_drain", "w_openmeta"} /\ UNCHANGED <<conn, out>>
    BY <1>5 DEF WriteCheck
  <2> QED  BY <2>1, SaysNothing DEF Deciding, WriteHeard
<1>6. CASE WriteOpenMeta(c)
  <2>1. /\ pc[c] = "w_openmeta" /\ pc'[c] = "w_writemeta" /\ UNCHANGED <<conn, out>>
    BY <1>2, <1>6 DEF WriteOpenMeta, WritePCs
  <2> QED  BY <2>1, SaysNothing DEF Deciding, WriteHeard
<1>7. CASE WriteMeta(c)
  <2>1. /\ pc[c] = "w_writemeta" /\ pc'[c] = "w_path" /\ UNCHANGED <<conn, out>>
    BY <1>7 DEF WriteMeta
  <2> QED  BY <2>1, SaysNothing DEF Deciding, WriteHeard
<1>8. CASE WritePath(c)
  <2>1. /\ pc[c] = "w_path" /\ pc'[c] = "w_openfile" /\ UNCHANGED <<conn, out>>
    BY <1>8 DEF WritePath
  <2> QED  BY <2>1, SaysNothing DEF Deciding, WriteHeard
<1>9. CASE WriteOpenFile(c)
  <2>1. /\ pc[c] = "w_openfile" /\ pc'[c] = "w_store" /\ UNCHANGED <<conn, out>>
    BY <1>2, <1>9 DEF WriteOpenFile, WritePCs
  <2> QED  BY <2>1, SaysNothing DEF Deciding, WriteHeard
<1>10. CASE WriteDrain(c) \/ WriteStore(c)
  <2>1. pc[c] \in {"w_drain", "w_store"} /\ UNCHANGED op
    BY <1>10 DEF WriteDrain, WriteStore
  <2>2. pc'[c] = "reply"
    BY <1>10, TalkFacts DEF WriteDrain, WriteStore, SrvRecvError
  <2>3. op'[c] # "GET"  BY <1>1, <2>1 DEF WritePCs
  <2> QED  BY <2>2, <2>3, NoneUnserved DEF Served, WriteHeard, Deciding
<1> QED
  BY <1>3, <1>4, <1>5, <1>6, <1>7, <1>8, <1>9, <1>10 DEF Write

\* The conversations of handle_rm and handle_ls.
LEMMA RmTalk ==
  ASSUME NEW c \in Clients, AtWork(c), Rm(c)
  PROVE  Unserved(c)' /\ Served(c)'
<1> USE AtWorkTypes DEF Goto, Answer
<1>1. pc[c] \in RmPCs => op[c] = "RM" /\ req[c].cmd = "RM"
  BY DEF OnPath, RmPCs
<1>2. pc[c] = "r_openfile" => path[c] # Empty
  BY AtWorkFacts
<1>3. /\ pc[c] = "r_unlinkmeta" => Exists("meta", path[c])
      /\ pc[c] = "r_unlinkfile" => Exists("file", path[c])
  BY AtWorkFacts DEF MetaSeen, FilesSeen, Exists
<1>4. pc[c] \in RmPCs /\ pc'[c] \in (RmPCs \cup {"reply"}) \ {"r_path"} /\ UNCHANGED <<conn, op>>
  BY <1>2, <1>3
  DEF Rm, RmPath, RmCheck, RmRecheck, RmOpenMeta, RmUnlinkMeta, RmPath2, RmOpenFile,
    RmUnlinkFile, RmPCs
<1>5. pc'[c] \in Deciding => pc[c] \in Deciding /\ UNCHANGED out
  BY DEF Rm, RmPath, RmCheck, RmRecheck, RmOpenMeta, RmUnlinkMeta, RmPath2, RmOpenFile,
    RmUnlinkFile, Deciding
<1> QED
  BY <1>1, <1>4, <1>5, SaysNothing DEF RmPCs, WriteHeard

LEMMA LsTalk ==
  ASSUME NEW c \in Clients, AtWork(c), Ls(c)
  PROVE  Unserved(c)' /\ Served(c)'
<1> USE AtWorkTypes DEF Goto, Answer
<1>1. pc[c] \in LsPCs => op[c] = "LS" /\ req[c].cmd = "LS"
  BY DEF OnPath, LsPCs
<1>2. CASE LsPath(c) \/ LsOpen(c) \/ (LsRead(c) /\ pc'[c] = "l_send")
  <2>1. /\ pc[c] \in LsPCs /\ pc'[c] \in {"l_open", "l_read", "l_send", "reply"}
        /\ UNCHANGED <<conn, op>>
        /\ pc'[c] \in {"l_open", "l_read"} => pc[c] \in Deciding /\ UNCHANGED out
    BY <1>2 DEF LsPath, LsOpen, LsRead, LsPCs, Deciding
  <2> QED  BY <1>1, <2>1, SaysNothing DEF LsPCs, WriteHeard, Deciding
<1>3. CASE LsRead(c) /\ pc'[c] # "l_send"
  <2>1. pc[c] = "l_read" /\ pc'[c] = "close" /\ UNCHANGED <<conn, op, out>>
    BY <1>3 DEF LsRead
  <2>2. cpc[c] = "result" /\ down[c] = <<>> /\ out[c] = <<>>
    BY <1>1, <2>1, TalkFacts DEF LsPCs, Awaiting, Sending, Unserved, Deciding
  <2>3. Told(c)' /\ op'[c] # "GET"
    BY <1>1, <2>1, <2>2, TalkFacts DEF Told, conn, LsPCs
  <2> QED  BY <2>1, <2>3, NoneUnserved DEF Served, WriteHeard, Deciding
<1>4. CASE LsSend(c)
  <2>1. pc[c] = "l_send" /\ pc'[c] = "close" /\ UNCHANGED <<op, out>> /\ SrvSend(c, out[c])
    BY <1>4, TalkFacts DEF LsSend, SrvSendError
  <2>2. cpc[c] = "result" /\ down[c] = <<>> /\ op[c] # "GET"
    BY <1>1, <2>1, TalkFacts DEF LsPCs, Awaiting, Sending
  <2> QED  BY <2>1, <2>2, SpokenOnce, LastSpoken
<1> QED  BY <1>2, <1>3, <1>4 DEF Ls

\* Every step of a handler leaves the conversation as the invariant has it.
LEMMA HandlerTalk ==
  ASSUME NEW c \in Clients, AtWork(c), HandlerStep(c), ~Sigpipe(c)
  PROVE  Unserved(c)' /\ Served(c)'
<1>1. ~Close(c)  BY DEF AtWork, Serving, Close
<1>2. CASE Reply(c)
  <2>1. pc[c] = "reply" /\ pc'[c] = "close" /\ UNCHANGED <<op, out>> /\ SrvSend(c, out[c])
    BY <1>2, AtWorkTypes, TalkFacts DEF Reply, Goto, SrvSendError
  <2>2. /\ cpc[c] = "result" /\ down[c] = <<>>
        /\ op[c] = "GET" => local[c] # <<>>
    BY <2>1, TalkFacts DEF Synced, Served
  <2> QED  BY <2>1, <2>2, SpokenOnce, LastSpoken
<1>3. CASE Start(c)
  <2>1. PICK cmd \in CommandsRead(c) : Goto(c, CASE cmd = "WRITE" -> "w_perm"
                     [] cmd = "GET"   -> "g_path"
                     [] cmd = "RM"    -> "r_path"
                     [] cmd = "LS"    -> "l_path"
                     [] OTHER         -> "close")
    BY <1>3 DEF Start
  <2>2. pc[c] = "start" /\ UNCHANGED <<out, conn>>  BY <1>3 DEF Start
  <2>3. cmd = req[c].cmd /\ req[c].cmd \in Handled
    BY <2>1, AtWorkFacts, OwnLine DEF AtWork
  <2>4. pc'[c] \in {"w_perm", "g_path", "r_path", "l_path"}
    BY <2>1, <2>3, AtWorkTypes DEF Goto, Handled
  <2> QED  BY <2>2, <2>4, SaysNothing DEF WriteHeard, Deciding
<1> QED
  BY <1>1, <1>2, <1>3, GetTalk, WriteTalk, RmTalk, LsTalk DEF HandlerStep

\* A step that leaves the disk, and who changes it, as they are.
LEMMA StillStore ==
  ASSUME UNCHANGED <<disk, perm>>,
         \A d \in Clients : /\ Storing(d)' <=> Storing(d)
                            /\ Removing(d)' <=> Removing(d)
                            /\ Changing(d) => req'[d] = req[d]
  PROVE  StoreKept
<1> SUFFICES ASSUME NEW m \in Names
             PROVE  HeaderOf(m)' = HeaderOf(m) /\ ContentOf(m)' = ContentOf(m)
  BY DEF StoreKept
<1>1. ChangerOf(m)' = ChangerOf(m)
  BY DEF ChangerOf, Changing
<1>2. UNCHANGED <<link, data>>  BY DEF disk
<1>3. PICK d : d = CHOOSE e \in ChangerOf(m) : TRUE
  OBVIOUS
<1>4. /\ ChangerOf(m) # {} => d \in Clients
      /\ d = CHOOSE e \in ChangerOf(m)' : TRUE
  BY <1>1, <1>3 DEF ChangerOf
<1>5. CASE ChangerOf(m) = {}
  BY <1>1, <1>2, <1>5 DEF HeaderOf, ContentOf, Exists
<1>6. CASE ChangerOf(m) # {}
  <2>1. d \in Clients /\ (Storing(d)' <=> Storing(d))  BY <1>4, <1>6
  <2>2. /\ HeaderOf(m) = IF Storing(d) THEN HeaderName(HeaderToString(perm[d])) ELSE "none"
        /\ ContentOf(m) = IF Storing(d) THEN PbDecode(PbEncode(Source[d])) ELSE None
    BY <1>3, <1>6 DEF HeaderOf, ContentOf
  <2>3. /\ HeaderOf(m)' = IF Storing(d)' THEN HeaderName(HeaderToString(perm'[d])) ELSE "none"
        /\ ContentOf(m)' = IF Storing(d)' THEN PbDecode(PbEncode(Source[d])) ELSE None
    BY <1>1, <1>4, <1>6 DEF HeaderOf, ContentOf
  <2> QED  BY <2>1, <2>2, <2>3
<1> QED  BY <1>5, <1>6

\* What belongs to client d and its handler.
Same(d) ==
  /\ pc'[d] = pc[d] /\ op'[d] = op[d] /\ path'[d] = path[d] /\ out'[d] = out[d]
  /\ req'[d] = req[d] /\ cpc'[d] = cpc[d] /\ local'[d] = local[d]
  /\ answer'[d] = answer[d] /\ status'[d] = status[d]
  /\ cli'[d] = cli[d] /\ srv'[d] = srv[d] /\ up'[d] = up[d] /\ down'[d] = down[d]

\* The parts of the invariant about a conversation ...
Talked(d) == Commanded(d) /\ ClientPath(d) /\ Unserved(d) /\ Served(d)

\* ... are kept where nothing of the client and its handler changes ...
LEMMA SameTalk ==
  ASSUME NEW d, Talked(d), Same(d), Stopping => Stopping'
  PROVE  Talked(d)'
<1>1. Commanded(d)'  BY DEF Talked, Same, Commanded, Asks
<1>2. ClientPath(d)'  BY DEF Talked, Same, ClientPath
<1>3. Unserved(d)'
  <2>1. (Asks(d)' <=> Asks(d)) /\ (CutOff(d)' <=> CutOff(d)) /\ Endings(d)' = Endings(d)
    BY DEF Same, Asks, CutOff, Endings
  <2> QED  BY <2>1 DEF Talked, Same, Unserved, Deciding
<1>4. Served(d)'
  <2>1. (Told(d)' <=> Told(d)) /\ (Fetched(d)' <=> Fetched(d))
    BY DEF Same, Told, Fetched, Endings
  <2> QED  BY <2>1 DEF Talked, Same, Served, WriteHeard
<1> QED  BY <1>1, <1>2, <1>3, <1>4 DEF Talked

\* ... and nothing new is shown of them.
LEMMA SameSeen ==
  ASSUME NEW d, Same(d)
  PROVE  /\ PhaseOf(d)' = PhaseOf(d) /\ ReplyOf(d)' = ReplyOf(d)
         /\ SeenBy(d)' = SeenBy(d) /\ ExitOf(d)' = ExitOf(d)
<1>1. PhaseOf(d)' = PhaseOf(d)  BY DEF Same, PhaseOf, At, Deciding
<1>2. ReplyOf(d)' = ReplyOf(d)
  BY DEF Same, ReplyOf, Storing, Removing, Deciding
<1>3. SeenBy(d)' = SeenBy(d) /\ ExitOf(d)' = ExitOf(d)
  BY DEF Same, SeenBy, ExitOf, At
<1> QED  BY <1>1, <1>2, <1>3

\* The same for the files.
LEMMA SameFiles ==
  ASSUME NEW d, FilesSeen(d), UNCHANGED <<disk, perm>>, pc'[d] = pc[d], fd'[d] = fd[d],
         req'[d] = req[d]
  PROVE  FilesSeen(d)'
BY DEF FilesSeen, PermissionOf, Exists, disk

\* What the refinement adds to the invariant of read-only headers.
RefRest == DeadStopped /\ PlainHeaders /\ \A c \in Clients : Talked(c) /\ FilesSeen(c)

LEMMA RefParts == RefInv <=> ReadOnlyInv /\ RefRest
BY DEF RefInv, RefRest, Talked

\* A handler's step is one of the abstract steps, or shows nothing.
LEMMA HandlerRef ==
  ASSUME NumbersSent, RefInv, NEW c \in Clients, Handler(c)
  PROVE  RefRest' /\ (Decides(c) \/ UNCHANGED Files!vars)
<1>1. /\ OrderInv /\ TurnInv /\ SurvivalInv /\ HandlerStep(c) /\ UNCHANGED clientVars
      /\ RefRest /\ ReadOnlyInv /\ LeakInv
  BY RefParts DEF RefInv, ReadOnlyInv, OrderInv, SurvivalInv, Handler
<1>2. ~Sigpipe(c)  BY <1>1, NoSigpipe
<1>3. OnlyEndsOf(c) /\ OnlyOf(c) /\ req' = req /\ \A d \in Clients \ {c} : path'[d] = path[d]
  BY <1>1, <1>2, HandlerPolite, HandlerAccounted, HandlerPath DEF SurvivalInv, LeakInv
<1>4. UNCHANGED <<mpc, why>>  BY <1>1, HandlerPolite
<1>5. DeadStopped' /\ (Stopping' <=> Stopping)
  BY <1>1, <1>4 DEF RefRest, DeadStopped, Stopping
<1>6. \A d \in Clients \ {c} : Same(d)
  BY <1>1, <1>3 DEF OnlyEndsOf, OnlyOf, Same, clientVars
<1>7. \A d \in Clients \ {c} : Talked(d)'
  BY <1>1, <1>5, <1>6, SameTalk DEF RefRest
<1>8. ClientPath(c)'
  BY <1>1, <1>3 DEF RefRest, Talked, ClientPath, clientVars
<1>9. CASE Serving(c)
  <2>1. AtWork(c)  BY <1>1, <1>3, <1>4, <1>9 DEF AtWork
  <2>2. Effect(c) /\ Unserved(c)' /\ Served(c)'
    BY <1>1, <1>2, <2>1, HandlerEffect, HandlerTalk
  <2>3. \A d \in Clients \ {c} : FilesSeen(d)'
    <3>1. \A d \in Clients \ {c} : ~Serving(d) /\ pc'[d] = pc[d]
      BY <1>1, <1>3, <1>9, OneServed DEF OnlyOf
    <3> QED  BY <3>1 DEF Serving, Working, FilesSeen
  <2>4. RefRest'
    BY <1>5, <1>7, <1>8, <2>2, <2>3 DEF RefRest, Talked, Effect
  <2>5. Silent(c) => UNCHANGED Files!vars
    BY <2>1, AtWorkApart, Stutters DEF Silent
  <2> QED  BY <2>2, <2>4, <2>5 DEF Effect
<1>10. CASE ~Serving(c)
  <2>1. Working(c) /\ pc[c] = "close"
    BY <1>1, <1>10, HandlerIsWorking DEF Serving
  <2>2. Close(c)
    <3>1. ~Write(c)
      BY <2>1 DEF Write, WritePermission, WriteAck, WriteCheck, WriteDrain, WriteOpenMeta,
        WriteMeta, WritePath, WriteOpenFile, WriteStore
    <3>2. ~Get(c)  BY <2>1 DEF Get, GetPath, GetOpen, GetRead, GetSend, GetAck
    <3>3. ~Rm(c)
      BY <2>1 DEF Rm, RmPath, RmCheck, RmRecheck, RmOpenMeta, RmUnlinkMeta, RmPath2,
        RmOpenFile, RmUnlinkFile
    <3>4. ~Ls(c)  BY <2>1 DEF Ls, LsPath, LsOpen, LsRead, LsSend
    <3> QED  BY <1>1, <2>1, <3>1, <3>2, <3>3, <3>4 DEF HandlerStep, Start, Reply, Sigpipe
  <2>3. /\ pc'[c] = "done" /\ UNCHANGED <<op, perm, path, fd, out, disk, down, req>>
        /\ UNCHANGED <<cpc, local, answer, status>>
    BY <1>1, <2>2, HandlerTypes DEF Close, Goto, SrvClose, clientVars
  <2>4. Talked(c)'
    <3>1. Commanded(c)'
      BY <1>1, <2>1, <2>3 DEF RefRest, Talked, Commanded, Asks
    <3>2. Unserved(c)'  BY <2>3, NoneUnserved DEF Deciding
    <3>3. (Told(c)' <=> Told(c)) /\ (Fetched(c)' <=> Fetched(c))
      BY <2>3 DEF Told, Fetched, Endings
    <3>4. Served(c)'
      BY <1>1, <2>1, <2>3, <3>3 DEF RefRest, Talked, Served, WriteHeard
    <3> QED  BY <1>8, <3>1, <3>2, <3>4 DEF Talked
  <2>5. PlainHeaders'  BY <1>1, <2>3 DEF RefRest, PlainHeaders, disk
  <2>6. \A d \in Clients : FilesSeen(d)'
    <3>1. FilesSeen(c)'  BY <2>3 DEF FilesSeen
    <3>2. ASSUME NEW d \in Clients \ {c} PROVE FilesSeen(d)'
      BY <1>1, <1>3, <2>3, SameFiles DEF RefRest, OnlyOf
    <3> QED  BY <3>1, <3>2
  <2>7. StoreKept
    <3>1. /\ ~Storing(c) /\ ~Removing(c) /\ ~Storing(c)' /\ ~Removing(c)'
      BY <2>1, <2>3 DEF Storing, Removing
    <3>2. \A d \in Clients \ {c} : (Storing(d)' <=> Storing(d)) /\ (Removing(d)' <=> Removing(d))
      BY <1>3 DEF OnlyOf, Storing, Removing
    <3> QED  BY <1>3, <2>3, <3>1, <3>2, StillStore
  <2>8. /\ PhaseOf(c)' = PhaseOf(c) /\ ReplyOf(c)' = ReplyOf(c)
        /\ SeenBy(c)' = SeenBy(c) /\ ExitOf(c)' = ExitOf(c)
    <3>1. PhaseOf(c)' = PhaseOf(c)  BY <2>1, <2>3 DEF PhaseOf, At, Deciding
    <3>2. ReplyOf(c)' = ReplyOf(c)
      BY <2>1, <2>3 DEF ReplyOf, Storing, Removing, Deciding
    <3> QED  BY <2>3, <3>1, <3>2 DEF SeenBy, ExitOf, At
  <2>9. UNCHANGED Files!vars
    BY <1>3, <1>5, <1>6, <2>7, <2>8, SameSeen, AllSame
  <2> QED  BY <1>5, <1>7, <2>4, <2>5, <2>6, <2>9 DEF RefRest
<1> QED  BY <1>9, <1>10

(***************************************************************************)
(* The accept loop shows nothing, unless it has been told to stop.         *)
(***************************************************************************)
\* A handler is where it was, or begins.
Begins(d) == \/ pc'[d] = pc[d]
             \/ pc[d] = "none" /\ pc'[d] = "start" /\ Asks(d)
             \/ pc[d] = "close" /\ pc'[d] = "killed"

\* What the loop leaves alone.
MainKeeps ==
  /\ UNCHANGED <<disk, perm, op, path, out, req, down, clientVars>>
  /\ \A d \in Clients : Begins(d) /\ (Asks(d) /\ CutOff(d)' => CutOff(d) \/ Stopping')
  /\ Stopping => Stopping'
  /\ mpc' = "dead" => why' = "stop"

\* In the steps of the loop nobody is served.
LEMMA MainAlone ==
  ASSUME OrderInv, MainStep
  PROVE  \A d \in Clients : ~Serving(d)
<1>1. mpc # "accept" \/ backlog # <<>>
  BY DEF MainStep, Accept, SrvAccept, RecvCommand, RecvNothing, ParseStop, ParseSkip,
    ParseSpawn, Exit
<1> QED  BY <1>1 DEF OrderInv, Untouched

\* The line that the loop cuts is the request of the connection it looks at.
LEMMA LineKnown ==
  ASSUME OrderInv, mpc = "parse"
  PROVE  cur \in Clients /\ req[cur] # None /\ pc[cur] = "none"
<1>1. buf.of = cur /\ TurnInv  BY DEF OrderInv, LineParsed, SurvivalInv
<1>2. cur \in Clients  BY <1>1 DEF TurnInv, TypeInv, RequestsKnown
<1> QED
  BY <1>1, <1>2, CommonAssumption DEF TurnInv, TypeInv, RequestsKnown, QueueOrdered

\* The loop changes nothing that is shown, but for a STOP.
LEMMA MainShown ==
  ASSUME RefInv, MainStep, UNCHANGED clientVars
  PROVE  /\ MainKeeps
         /\ \/ Stopping' <=> Stopping
            \/ \E c \in Clients : req[c] # None /\ req[c].cmd = "STOP" /\ Stopping'
<1>1. /\ OrderInv /\ SurvivalInv /\ TurnInv /\ ConnTypeOK /\ RefRest
      /\ pc \in [Clients -> HandlerPCs]
  BY RefParts, TurnTypes, HandlerTypes DEF RefInv, ReadOnlyInv, OrderInv, SurvivalInv
<1>2. \A d \in Clients : ~Serving(d)  BY <1>1, MainAlone
<1> USE <1>1 DEF clientVars
<1> DEFINE Stops == \/ Stopping' <=> Stopping
                    \/ \E c \in Clients : req[c] # None /\ req[c].cmd = "STOP" /\ Stopping'
<1>3. ASSUME NEW c \in Clients, Accept(c) PROVE MainKeeps /\ Stops
  <2>1. /\ mpc = "accept" /\ mpc' = "recv" /\ why' = why
        /\ srv' = [srv EXCEPT ![c] = "open"]
        /\ UNCHANGED <<disk, perm, op, path, out, req, down, pc, cli>>
    BY <1>3 DEF Accept, SrvAccept, handlerVars
  <2>2. \A d \in Clients : CutOff(d)' => CutOff(d)
    BY <2>1 DEF CutOff, ConnTypeOK
  <2> QED  BY <2>1, <2>2 DEF MainKeeps, Begins, Stopping
<1>4. CASE RecvCommand
  <2>1. /\ mpc = "recv" /\ mpc' = "parse" /\ why' = why
        /\ UNCHANGED <<disk, perm, op, path, out, req, down, pc, cli, srv>>
    BY <1>4 DEF RecvCommand, SrvRecv, handlerVars
  <2>2. \A d \in Clients : CutOff(d)' => CutOff(d)
    BY <2>1 DEF CutOff
  <2> QED  BY <2>1, <2>2 DEF MainKeeps, Begins, Stopping
<1>5. ASSUME mpc = "parse", SrvClose(cur), UNCHANGED <<why, cur, buf, handlerVars, disk>>,
             req[cur].cmd \notin Handled, Stopping => Stopping', mpc' # "dead"
      PROVE  MainKeeps
  <2>1. UNCHANGED <<disk, perm, op, path, out, req, down, pc>>
    BY <1>5 DEF SrvClose, handlerVars
  <2>2. \A d \in Clients \ {cur} : CutOff(d)' => CutOff(d)
    BY <1>5, LineKnown DEF CutOff, SrvClose, ConnTypeOK
  <2>3. ~Asks(cur)  BY <1>5 DEF Asks
  <2> QED  BY <1>5, <2>1, <2>2, <2>3 DEF MainKeeps, Begins
<1>6. CASE ParseStop
  <2>1. /\ mpc = "parse" /\ mpc' = "exit" /\ req[cur].cmd = "STOP" /\ SrvClose(cur)
        /\ UNCHANGED <<why, cur, buf, handlerVars, disk>>
    BY <1>6 DEF ParseStop
  <2> QED  BY <1>5, <2>1, LineKnown DEF Stopping, Handled
<1>7. CASE ParseSkip
  <2>1. /\ mpc = "parse" /\ mpc' = "accept" /\ req[cur].cmd = "SKIP" /\ SrvClose(cur)
        /\ UNCHANGED <<why, cur, buf, handlerVars, disk>>
    BY <1>7 DEF ParseSkip
  <2> QED  BY <1>5, <2>1 DEF Stopping, Handled
<1>8. CASE ParseSpawn
  <2>1. /\ mpc = "parse" /\ mpc' = "accept" /\ why' = why /\ req[cur].cmd \in Handled
        /\ pc' = [pc EXCEPT ![cur] = "start"]
        /\ UNCHANGED <<disk, perm, op, path, out, conn>>
    BY <1>8 DEF ParseSpawn, Goto
  <2>2. \A d \in Clients : Begins(d)
    BY <2>1, LineKnown DEF Begins, Asks
  <2>3. \A d \in Clients : CutOff(d)' => CutOff(d)
    BY <2>1 DEF CutOff, conn
  <2> QED  BY <2>1, <2>2, <2>3 DEF MainKeeps, Stopping, conn
<1>9. CASE Exit
  <2>1. /\ mpc = "exit" /\ mpc' = "dead" /\ why' = "stop"
        /\ UNCHANGED <<disk, perm, op, path, out, req, down>>
        /\ \A d \in Clients : pc'[d] = IF Working(d) THEN "killed" ELSE pc[d]
    BY <1>9 DEF Exit, ServerDies, SrvCloseAll
  <2>2. \A d \in Clients : Begins(d)
    BY <1>2, <2>1 DEF Begins, Serving
  <2> QED  BY <2>1, <2>2 DEF MainKeeps, Stopping
<1> QED
  BY <1>3, <1>4, <1>6, <1>7, <1>8, <1>9, NoEmptyConnection DEF MainStep

\* A step of the loop, or the end of the server, is a Stop, or shows nothing.
LEMMA MainRef ==
  ASSUME RefInv, Main
  PROVE  RefRest' /\ ((\E c \in Clients : Files!Stop(c)) \/ UNCHANGED Files!vars)
<1>1. /\ OrderInv /\ RefRest /\ MainStep /\ UNCHANGED clientVars
      /\ \A d \in Clients : ~Serving(d)
  BY RefParts, MainAlone DEF RefInv, ReadOnlyInv, Main
<1>2. /\ MainKeeps
      /\ \/ Stopping' <=> Stopping
         \/ \E c \in Clients : req[c] # None /\ req[c].cmd = "STOP" /\ Stopping'
  BY <1>1, MainShown
<1>3. UNCHANGED <<disk, perm, op, path, out, req, down, cpc, local, answer, status>>
  BY <1>2 DEF MainKeeps, clientVars
<1>4. DeadStopped'  BY <1>2 DEF MainKeeps, DeadStopped
<1>5. PlainHeaders'  BY <1>1, <1>3 DEF RefRest, PlainHeaders, disk
<1>6. ASSUME NEW d \in Clients
      PROVE  /\ Talked(d)' /\ FilesSeen(d)'
             /\ PhaseOf(d)' = PhaseOf(d) /\ ReplyOf(d)' = ReplyOf(d)
             /\ SeenBy(d)' = SeenBy(d) /\ ExitOf(d)' = ExitOf(d)
             /\ ~Storing(d) /\ ~Storing(d)' /\ ~Removing(d) /\ ~Removing(d)'
  <2>1. Begins(d) /\ (Asks(d) /\ CutOff(d)' => CutOff(d) \/ Stopping') /\ (Stopping => Stopping')
    BY <1>2 DEF MainKeeps
  <2>2. pc[d] \in {"none", "done", "killed", "close"} \/ pc[d] \notin HandlerPCs
    BY <1>1 DEF Serving, Working
  <2>3. pc[d] \in HandlerPCs
    BY <1>1, HandlerTypes DEF OrderInv, SurvivalInv
  <2>4. pc[d] \in {"none", "done", "killed", "close"}
    BY <2>2, <2>3
  <2>5. Talked(d)  BY <1>1 DEF RefRest
  <2>6. Commanded(d)'
    BY <1>3, <2>1, <2>4, <2>5 DEF Talked, Commanded, Begins, Asks
  <2>7. ClientPath(d)'  BY <1>3, <2>5 DEF Talked, ClientPath
  <2>8. Unserved(d)'
    <3>1. pc'[d] \in Deciding => pc[d] = "none"
      BY <2>1, <2>4 DEF Begins, Deciding
    <3>2. Endings(d)' = Endings(d) /\ (Asks(d)' <=> Asks(d))
      BY <1>3 DEF Endings, Asks
    <3>3. pc'[d] \notin Deciding => Unserved(d)'  BY NoneUnserved
    <3> QED
      BY <1>3, <2>1, <2>5, <3>1, <3>2, <3>3 DEF Talked, Unserved, Deciding
  <2>9. Served(d)'
    <3>1. (Told(d)' <=> Told(d)) /\ (Fetched(d)' <=> Fetched(d))
      BY <1>3 DEF Told, Fetched, Endings
    <3> QED
      BY <1>3, <2>1, <2>4, <2>5, <3>1 DEF Talked, Served, Begins, WriteHeard
  <2>10. FilesSeen(d)'
    BY <2>1, <2>4 DEF FilesSeen, Begins
  <2>11. PhaseOf(d)' = PhaseOf(d)
    BY <1>3, <2>1 DEF PhaseOf, Begins, Deciding, At
  <2>12. ~Storing(d) /\ ~Storing(d)' /\ ~Removing(d) /\ ~Removing(d)'
    BY <2>1, <2>4 DEF Storing, Removing, Begins
  <2>13. ReplyOf(d)' = ReplyOf(d)
    BY <1>3, <2>1, <2>4, <2>12 DEF ReplyOf, Begins, Deciding
  <2>14. SeenBy(d)' = SeenBy(d) /\ ExitOf(d)' = ExitOf(d)
    BY <1>3 DEF SeenBy, ExitOf, At
  <2> QED
    BY <2>6, <2>7, <2>8, <2>9, <2>10, <2>11, <2>12, <2>13, <2>14 DEF Talked
<1>7. RefRest'  BY <1>4, <1>5, <1>6 DEF RefRest
<1>8. StoreKept  BY <1>3, <1>6, StillStore
<1>9. CASE Stopping' <=> Stopping
  <2>1. UNCHANGED Files!vars  BY <1>3, <1>6, <1>8, <1>9, AllSame
  <2> QED  BY <1>7, <2>1
<1>10. ASSUME NEW c \in Clients, req[c] # None, req[c].cmd = "STOP", Stopping'
       PROVE  Files!Stop(c)
  <2>1. [n \in Names |-> HeaderOf(n)]' = [n \in Names |-> HeaderOf(n)]
    BY <1>8 DEF StoreKept
  <2>2. [n \in Names |-> ContentOf(n)]' = [n \in Names |-> ContentOf(n)]
    BY <1>8 DEF StoreKept
  <2>3. [d \in Clients |-> PhaseOf(d)]' = [d \in Clients |-> PhaseOf(d)]
    BY <1>6
  <2>4. [d \in Clients |-> ReplyOf(d)]' = [d \in Clients |-> ReplyOf(d)]
    BY <1>6
  <2>5. [d \in Clients |-> SeenBy(d)]' = [d \in Clients |-> SeenBy(d)]
    BY <1>6
  <2>6. [d \in Clients |-> IF At(d, "done") THEN status[d] ELSE "running"]'
        = [d \in Clients |-> IF At(d, "done") THEN status[d] ELSE "running"]
    BY <1>6 DEF ExitOf
  <2>7. (mpc = "exit" \/ why = "stop")' = TRUE
    BY <1>10 DEF Stopping
  <2> QED
    BY <1>3, <1>10, <2>1, <2>2, <2>3, <2>4, <2>5, <2>6, <2>7 DEF Files!Stop
<1> QED  BY <1>2, <1>7, <1>9, <1>10

(***************************************************************************)
(* The end of a client is the end of its request.                          *)
(***************************************************************************)
\* Everything but the client c is as it was.
OthersSame(c) ==
  /\ StoreKept /\ (Stopping' <=> Stopping)
  /\ \A d \in Clients \ {c} :
       /\ req'[d] = req[d] /\ PhaseOf(d)' = PhaseOf(d) /\ ReplyOf(d)' = ReplyOf(d)
       /\ SeenBy(d)' = SeenBy(d) /\ ExitOf(d)' = ExitOf(d)

\* A client that exits: its abstract step is Finish.
LEMMA Finishes ==
  ASSUME NEW c \in Clients, OthersSame(c), req' = req, ReplyOf(c)' = ReplyOf(c),
         PhaseOf(c)' = "done",
         \/ /\ PhaseOf(c) = "served"
            /\ ExitOf(c)' = IF req[c].cmd = "GET" /\ ReplyOf(c) = <<>> THEN "fail" ELSE "ok"
         \/ /\ \/ PhaseOf(c) = "asked" /\ req[c].cmd \in {"STOP", "SKIP"}
               \/ PhaseOf(c) \in {"idle", "asked"} /\ Stopping
            /\ ExitOf(c)' \in {"ok", "fail"},
         \/ SeenBy(c)' = ReplyOf(c)
         \/ /\ req[c] # None /\ req[c].cmd \in {"RM", "LS"}
            /\ SeenBy(c)' = ReplyOf(c) \o Note("stale")
  PROVE  Files!Finish(c)
<1> DEFINE Phase == [d \in Clients |-> PhaseOf(d)]
           Replies == [d \in Clients |-> ReplyOf(d)]
           Seen == [d \in Clients |-> SeenBy(d)]
           Exits == [d \in Clients |-> IF At(d, "done") THEN status[d] ELSE "running"]
<1>1. [n \in Names |-> HeaderOf(n)]' = [n \in Names |-> HeaderOf(n)]
  BY DEF OthersSame, StoreKept
<1>2. [n \in Names |-> ContentOf(n)]' = [n \in Names |-> ContentOf(n)]
  BY DEF OthersSame, StoreKept
<1>3. Phase' = [Phase EXCEPT ![c] = "done"] /\ Phase[c] = PhaseOf(c)
  BY DEF OthersSame
<1>4. Replies' = Replies /\ Replies[c] = ReplyOf(c)
  BY DEF OthersSame
<1>5. Seen' = [Seen EXCEPT ![c] = SeenBy(c)']
  BY DEF OthersSame
<1>6. Exits' = [Exits EXCEPT ![c] = ExitOf(c)']
  BY DEF OthersSame, ExitOf
<1>8. (mpc = "exit" \/ why = "stop")' = (mpc = "exit" \/ why = "stop") /\ Stopping = (mpc = "exit" \/ why = "stop")
  BY DEF OthersSame, Stopping
<1>9. Files!Note("stale") = Note("stale")  BY DEF Files!Note, Note
<1>10. \/ /\ Phase[c] = "served"
          /\ Exits' = [Exits EXCEPT ![c] =
               IF req[c].cmd = "GET" /\ Replies[c] = <<>> THEN "fail" ELSE "ok"]
       \/ /\ \/ Phase[c] = "asked" /\ req[c].cmd \in {"STOP", "SKIP"}
             \/ Phase[c] \in {"idle", "asked"} /\ (mpc = "exit" \/ why = "stop")
          /\ \E s \in {"ok", "fail"} : Exits' = [Exits EXCEPT ![c] = s]
  BY <1>3, <1>4, <1>6, <1>8
<1>11. \/ Seen' = [Seen EXCEPT ![c] = Replies[c]]
       \/ /\ req[c] # None /\ req[c].cmd \in {"RM", "LS"}
          /\ Seen' = [Seen EXCEPT ![c] = Replies[c] \o Files!Note("stale")]
  BY <1>4, <1>5, <1>9
<1>12. Phase' = [Phase EXCEPT ![c] = "done"] /\ Replies' = Replies
  BY <1>3, <1>4
<1>13. (mpc = "exit" \/ why = "stop")' = (mpc = "exit" \/ why = "stop")
  BY <1>8
<1> QED  BY <1>1, <1>2, <1>10, <1>11, <1>12, <1>13 DEF Files!Finish

(***************************************************************************)
(* The steps of a client, in its conversation with the server.             *)
(***************************************************************************)
\* One step of a client that has been launched, with all that is known of it.
Speaks(c) ==
  /\ Orderly /\ RefInv /\ UNCHANGED <<pc, op, path, out, fd, req, mpc, why, perm, disk>>
  /\ cpc[c] \notin {"idle", "done"}

\* The facts about such a client that the proofs below need.
LEMMA SpeakFacts ==
  ASSUME NEW c \in Clients, Speaks(c)
  PROVE  /\ OrderInv /\ TurnInv /\ ConnTypeOK /\ pc[c] \in HandlerPCs
         /\ cpc \in [Clients -> ClientPCs] /\ status \in [Clients -> {"running", "ok", "fail"}]
         /\ local \in [Clients -> Text] /\ answer \in [Clients -> Text] /\ out[c] \in Text
         /\ Talked(c) /\ Synced(c) /\ OnPath(c) /\ (Stopping' <=> Stopping)
         /\ req[c] # None /\ req[c] \in Plan[c] /\ req[c].cmd \in Commands
         /\ pc[c] \notin {"none", "start"} => op[c] = req[c].cmd
         /\ \/ pc[c] \in Deciding
            \/ pc[c] \in WriteHeard \cup {"g_send", "g_ack", "reply", "close", "done", "killed"}
            \/ pc[c] \in RmPCs \cup LsPCs
         /\ pc[c] \in Sending => up[c] = <<>> /\ down[c] = <<>>
         /\ pc[c] \in Sending => cpc[c] \notin {"send", "source", "confirm", "close"}
         /\ pc[c] \in Sending \cup WriteHeard \cup {"g_ack"} => srv[c] = "open" /\ cli[c] = "open"
         /\ up[c] # <<>> => down[c] = <<>>
<1>1. OrderInv /\ TurnInv /\ RefRest /\ LeakInv
  BY RefParts DEF Speaks, ReadOnlyInv, OrderInv, SurvivalInv
<1>2. /\ ConnTypeOK /\ pc[c] \in HandlerPCs /\ cpc \in [Clients -> ClientPCs]
      /\ status \in [Clients -> {"running", "ok", "fail"}]
      /\ local \in [Clients -> Text] /\ answer \in [Clients -> Text] /\ out[c] \in Text
  BY <1>1 DEF TurnInv, TypeInv, TypeOK, ServerTypeOK, ClientTypeOK
<1>3. Talked(c) /\ Synced(c) /\ OnPath(c)
  BY <1>1 DEF RefRest, OrderInv, LeakInv, Accounted
<1>4. Stopping' <=> Stopping  BY DEF Speaks, Stopping
<1>5. req[c] # None /\ req[c] \in Plan[c]
  BY <1>1 DEF Speaks, TurnInv, TypeInv, RequestsKnown, OrderInv, SurvivalInv, Polite, Asked
<1>6. req[c].cmd \in Commands  BY <1>2, <1>5 DEF ConnTypeOK, Request
<1>7. pc[c] \notin {"none", "start"} => op[c] = req[c].cmd
  BY <1>3 DEF Talked, Commanded
<1>8. \/ pc[c] \in Deciding
      \/ pc[c] \in WriteHeard \cup {"g_send", "g_ack", "reply", "close", "done", "killed"}
      \/ pc[c] \in RmPCs \cup LsPCs
  BY <1>2 DEF HandlerPCs, Deciding, WriteHeard, RmPCs, LsPCs
<1>9. /\ pc[c] \in Sending => up[c] = <<>> /\ down[c] = <<>>
      /\ pc[c] \in Sending => cpc[c] \notin {"send", "source", "confirm"}
      /\ up[c] # <<>> => down[c] = <<>>
  BY <1>1 DEF TurnInv, TurnsTaken, ServerTurn, ClientTurn
<1>10. pc[c] \in Sending => cpc[c] # "close" /\ srv[c] = "open" /\ cli[c] = "open"
  <2>1. CASE pc[c] = "reply"  BY <1>3, <2>1 DEF Synced
  <2>2. CASE pc[c] # "reply"  BY <1>1, <2>2, AnswersFirst DEF Awaiting
  <2> QED  BY <2>1, <2>2
<1>11. pc[c] \in WriteHeard \cup {"g_ack"} => srv[c] = "open" /\ cli[c] = "open"
  BY <1>3 DEF Synced
<1> QED  BY <1>1, <1>2, <1>3, <1>4, <1>5, <1>6, <1>7, <1>8, <1>9, <1>10, <1>11

\* What a user says: it gets there, unless the server is gone.
LEMMA SaysRef ==
  ASSUME NEW c \in Clients, Speaks(c), cpc[c] \in {"send", "source", "confirm"},
         NEW m \in Text, CliSend(c, m) \/ (CliSendError(c) /\ UNCHANGED conn)
  PROVE  /\ up[c] = <<>> /\ down[c] = <<>> /\ down'[c] = <<>>
         /\ pc[c] \notin Sending
         /\ CliSend(c, m) => (CutOff(c)' => CutOff(c) \/ cpc'[c] \in {"close", "done"})
         /\ CliSendError(c) => CutOff(c)
         /\ CliSend(c, m) /\ srv[c] = "open" => up'[c] = <<m>>
<1>1. OrderInv /\ TurnInv /\ ConnTypeOK  BY SpeakFacts
<1>2. up[c] = <<>> /\ down[c] = <<>> /\ pc[c] \notin Sending
  BY <1>1 DEF TurnInv, TurnsTaken, ClientTurn, ServerTurn
<1>3. down'[c] = <<>>  BY <1>2 DEF CliSend, conn
<1>4. CliSend(c, m) => (CutOff(c)' => CutOff(c) \/ cpc'[c] \in {"close", "done"})
  BY <1>1 DEF CliSend, CutOff, ConnTypeOK
<1>5. CliSendError(c) => CutOff(c)  BY DEF CliSendError, CutOff
<1>6. CliSend(c, m) /\ srv[c] = "open" => up'[c] = <<m>>
  <2>1. Append(<<>>, m) = <<m>>
    OBVIOUS
  <2> QED  BY <1>1, <1>2, <2>1 DEF CliSend, ConnTypeOK
<1> QED  BY <1>2, <1>3, <1>4, <1>5, <1>6

\* What a user receives is all there is.
LEMMA HearsRef ==
  ASSUME NEW c \in Clients, Speaks(c), CliRecv(c)
  PROVE  down[c] # <<>> /\ down'[c] = <<>> /\ down[c] = <<Head(down[c])>>
         /\ UNCHANGED <<srv, cli, up>>
<1>1. down[c] \in Seq(Text) /\ Len(down[c]) <= 1 /\ down[c] # <<>>
  BY SpeakFacts DEF ConnTypeOK, TurnInv, TurnsTaken, CliRecv
<1>2. down'[c] = Tail(down[c]) /\ UNCHANGED <<srv, cli, up>>
  BY SpeakFacts DEF CliRecv, ConnTypeOK
<1>3. Tail(down[c]) = <<>> /\ down[c] = <<Head(down[c])>>  BY <1>1
<1> QED  BY <1>1, <1>2, <1>3

\* A client that is told nothing yet, in a step of its own.
LEMMA StaysOpen ==
  ASSUME NEW c \in Clients, Speaks(c), pc[c] \in Deciding,
         local'[c] = <<>>, answer'[c] \in Endings(c), down'[c] = <<>>,
         CutOff(c)' => CutOff(c) \/ ~Asks(c)
  PROVE  Unserved(c)'
<1>1. Unserved(c) /\ UNCHANGED <<pc, out, req>> /\ (Stopping' <=> Stopping)
  BY SpeakFacts DEF Talked, Speaks
<1>2. (Asks(c)' <=> Asks(c)) /\ Endings(c)' = Endings(c)
  BY <1>1 DEF Asks, Endings
<1> QED  BY <1>1, <1>2 DEF Unserved

LEMMA NotOpen == ASSUME NEW c, Speaks(c), pc[c] \notin Deciding PROVE Unserved(c)'
BY NoneUnserved DEF Speaks

\* What is kept in each step: the handler's side, and the client's own path.
LEMMA TalkKept ==
  ASSUME NEW c \in Clients, Speaks(c), ClientPath(c)', Unserved(c)', Served(c)'
  PROVE  Talked(c)'
<1>1. Commanded(c) /\ UNCHANGED <<pc, op, path, req>>
  BY SpeakFacts DEF Talked, Speaks
<1>2. Commanded(c)'  BY <1>1 DEF Commanded, Asks
<1> QED  BY <1>2 DEF Talked

\* A client before its last receive: nobody has answered to the end yet.
LEMMA NotTold ==
  ASSUME NEW c \in Clients, Speaks(c), cpc[c] \in {"send", "ack", "source", "confirm"}
  PROVE  pc[c] \notin {"close", "done", "killed"}
<1>1. Served(c)  BY SpeakFacts DEF Talked
<1>2. ~Told(c) /\ ~Fetched(c)  BY DEF Told, Fetched
<1> QED  BY <1>1, <1>2 DEF Served

\* send of the request.
LEMMA SendTalk ==
  ASSUME NEW c \in Clients, Speaks(c), SendRequest(c)
  PROVE  Talked(c)'
<1>1. cpc[c] = "send" /\ UNCHANGED <<local, answer>>
  BY DEF SendRequest, At
<1>2. Note("request") \in Text  BY NoteText DEF Notes
<1>3. CliSend(c, Note("request")) \/ (CliSendError(c) /\ UNCHANGED conn)
  BY DEF SendRequest
<1>4. /\ down[c] = <<>> /\ down'[c] = <<>> /\ pc[c] \notin Sending
      /\ CliSend(c, Note("request")) => (CutOff(c)' => CutOff(c) \/ cpc'[c] \in {"close", "done"})
      /\ CliSendError(c) => CutOff(c)
  BY <1>1, <1>2, <1>3, SaysRef
<1>5. pc[c] \in Deciding /\ pc'[c] = pc[c] /\ pc[c] = "none"
  <2>1. pc[c] \notin WriteHeard \cup {"g_ack", "reply"}  BY <1>1, SpeakFacts DEF Synced
  <2>2. pc[c] \notin {"close", "done", "killed"}  BY <1>1, NotTold
  <2>3. pc[c] = "none"  BY <1>4, <2>1, <2>2, SpeakFacts DEF HandlerPCs, Sending, WriteHeard
  <2> QED  BY <2>3 DEF Speaks, Deciding
<1>6. /\ cpc'[c] \in {"ack", "open", "result", "close"}
      /\ cpc'[c] = "ack" => req[c].cmd = "WRITE"
      /\ cpc'[c] = "open" => req[c].cmd = "GET"
      /\ cpc'[c] = "result" => req[c].cmd \in Handled
      /\ cpc'[c] = "close" => status'[c] # "running"
      /\ cpc'[c] = "close" => req[c].cmd \notin Handled \/ CliSendError(c)
  <2>1. /\ cpc \in [Clients -> ClientPCs] /\ status \in [Clients -> {"running", "ok", "fail"}]
        /\ req[c].cmd \in Commands
    BY SpeakFacts
  <2>2. CASE CliSendError(c) /\ \E s \in ExitsAfter(c, "fail") : Return(c, s)
    <3>1. PICK s \in {"ok", "fail"} : Return(c, s)  BY <2>2 DEF ExitsAfter
    <3>2. cpc'[c] = "close" /\ status'[c] = s  BY <2>1, <3>1 DEF Return, Move
    <3> QED  BY <2>2, <3>1, <3>2
  <2>3. CASE req[c].cmd \in {"STOP", "SKIP"} /\ \E s \in ExitsAfter(c, "ok") : Return(c, s)
    <3>1. PICK s \in {"ok", "fail"} : Return(c, s)  BY <2>3 DEF ExitsAfter
    <3>2. cpc'[c] = "close" /\ status'[c] = s  BY <2>1, <3>1 DEF Return, Move
    <3> QED  BY <2>3, <3>1, <3>2 DEF Handled
  <2>4. CASE /\ req[c].cmd \notin {"STOP", "SKIP"}
             /\ Move(c, CASE req[c].cmd = "WRITE" -> "ack"
                          [] req[c].cmd = "GET"   -> "open"
                          [] OTHER                -> "result")
    <3>1. req[c].cmd \in Handled  BY <2>1, <2>4 DEF Commands
    <3>2. cpc'[c] = CASE req[c].cmd = "WRITE" -> "ack"
                      [] req[c].cmd = "GET"   -> "open"
                      [] OTHER                -> "result"
      BY <2>1, <2>4 DEF Move
    <3> QED  BY <3>1, <3>2
  <2> QED  BY <2>2, <2>3, <2>4 DEF SendRequest
<1>7. ClientPath(c)'  BY <1>6 DEF ClientPath, Speaks
<1>8. Unserved(c)'
  <2>1. local[c] = <<>> /\ answer[c] \in Endings(c)
    BY <1>5, SpeakFacts DEF Talked, Unserved
  <2>2. CutOff(c)' => CutOff(c) \/ ~Asks(c)
    BY <1>3, <1>4, <1>6 DEF Asks
  <2> QED  BY <1>1, <1>4, <1>5, <2>1, <2>2, StaysOpen
<1>9. Served(c)'  BY <1>5 DEF Served, WriteHeard
<1> QED  BY <1>7, <1>8, <1>9, TalkKept

\* client_write: the acknowledgement ...
LEMMA AckTalk ==
  ASSUME NEW c \in Clients, Speaks(c), AwaitAck(c)
  PROVE  Talked(c)'
<1>1. cpc[c] = "ack" /\ UNCHANGED <<local, answer>> /\ UNCHANGED <<pc, op, out, req>>
  BY DEF AwaitAck, At, Speaks
<1>2. req[c].cmd = "WRITE"  BY <1>1, SpeakFacts DEF Talked, ClientPath
<1>3. /\ down'[c] = <<>> /\ UNCHANGED <<srv, cli>>
      /\ \/ cpc'[c] = "source"
         \/ cpc'[c] = "close" /\ status'[c] = "fail" /\ CliRecvError(c)
  BY SpeakFacts, HearsRef DEF AwaitAck, Move, Return, CliEof, CliRecvError, conn
<1>4. CutOff(c)' => CutOff(c)  BY <1>3 DEF CutOff, CliRecvError
<1>5. ClientPath(c)'  BY <1>1, <1>2, <1>3 DEF ClientPath
<1>6. Unserved(c)'
  <2>1. CASE pc[c] \in Deciding
    <3>1. local[c] = <<>> /\ answer[c] \in Endings(c)
      BY <2>1, SpeakFacts DEF Talked, Unserved
    <3> QED  BY <1>1, <1>3, <1>4, <2>1, <3>1, StaysOpen
  <2> QED  BY <2>1, NotOpen
<1>7. Served(c)'
  <2>1. pc[c] \notin {"close", "done", "killed"}  BY <1>1, NotTold
  <2>2. pc[c] \notin {"g_send", "g_ack"}  BY <1>2, SpeakFacts DEF OnPath, GetPCs
  <2>3. pc[c] = "reply" => op[c] # "GET"  BY <1>2, SpeakFacts
  <2> QED  BY <1>1, <1>3, <2>1, <2>2, <2>3 DEF Served
<1> QED  BY <1>5, <1>6, <1>7, TalkKept

\* ... and the contents of the local file.
LEMMA SourceTalk ==
  ASSUME NEW c \in Clients, Speaks(c), SendFile(c)
  PROVE  Talked(c)'
<1>1. cpc[c] = "source" /\ UNCHANGED <<local, answer>> /\ UNCHANGED <<pc, op, out, req>>
  BY DEF SendFile, At, Speaks
<1>2. req[c].cmd = "WRITE"  BY <1>1, SpeakFacts DEF Talked, ClientPath
<1>3. c \notin BadLocal /\ Source[c] # <<>>
  BY <1>2, SpeakFacts DEF Speaks, Orderly
<1>4. Source[c] \in Text  BY ClientAssumption
<1>5. \/ CliSend(c, Source[c]) /\ cpc'[c] = "result"
      \/ CliSendError(c) /\ UNCHANGED conn /\ cpc'[c] = "close" /\ status'[c] = "fail"
  BY <1>3, SpeakFacts DEF SendFile, Move, Return
<1>6. /\ down'[c] = <<>>
      /\ CliSend(c, Source[c]) => (CutOff(c)' => CutOff(c) \/ cpc'[c] \in {"close", "done"})
      /\ CliSendError(c) => CutOff(c)
      /\ CliSend(c, Source[c]) /\ srv[c] = "open" => up'[c] = <<Source[c]>>
  BY <1>1, <1>4, <1>5, SaysRef
<1>7. CutOff(c)' => CutOff(c)  BY <1>5, <1>6
<1>8. ClientPath(c)'  BY <1>1, <1>2, <1>5 DEF ClientPath, Handled
<1>9. Unserved(c)'
  <2>1. CASE pc[c] \in Deciding
    <3>1. local[c] = <<>> /\ answer[c] \in Endings(c)
      BY <2>1, SpeakFacts DEF Talked, Unserved
    <3> QED  BY <1>1, <1>6, <1>7, <2>1, <3>1, StaysOpen
  <2> QED  BY <2>1, NotOpen
<1>10. Served(c)'
  <2>1. pc[c] \notin {"close", "done", "killed"}  BY <1>1, NotTold
  <2>2. pc[c] \notin {"g_send", "g_ack"}  BY <1>2, SpeakFacts DEF OnPath, GetPCs
  <2>3. pc[c] = "reply" => op[c] # "GET"  BY <1>2, SpeakFacts
  <2>4. pc[c] \in WriteHeard /\ cpc'[c] = "result" => up'[c] = <<Source[c]>>
    BY <1>5, <1>6, SpeakFacts
  <2> QED  BY <1>1, <2>1, <2>2, <2>3, <2>4 DEF Served, WriteHeard
<1> QED  BY <1>8, <1>9, <1>10, TalkKept

\* client_get: the local file is opened ...
LEMMA OpenTalk ==
  ASSUME NEW c \in Clients, Speaks(c), OpenLocal(c)
  PROVE  Talked(c)' /\ ReplyOf(c)' = ReplyOf(c)
<1>1. cpc[c] = "open" /\ UNCHANGED <<conn, answer>> /\ UNCHANGED <<pc, op, out, req>>
  BY DEF OpenLocal, At, Speaks
<1>2. req[c].cmd = "GET"  BY <1>1, SpeakFacts DEF Talked, ClientPath
<1>3. cpc'[c] = "fetch" /\ local'[c] = <<>>
  BY <1>2, SpeakFacts DEF OpenLocal, Move, Speaks, Orderly
<1>4. CutOff(c)' => CutOff(c)  BY <1>1, <1>3 DEF CutOff, conn
<1>5. ClientPath(c)'  BY <1>1, <1>2, <1>3 DEF ClientPath
<1>6. pc[c] \notin WriteHeard \cup {"reply"} \cup RmPCs \cup LsPCs \/ pc[c] \in Deciding
  <2>1. pc[c] \notin WritePCs \cup RmPCs \cup LsPCs
    BY <1>2, SpeakFacts DEF OnPath, WritePCs, RmPCs, LsPCs
  <2>2. pc[c] # "reply"  BY <1>1, SpeakFacts DEF Synced
  <2> QED  BY <2>1, <2>2 DEF WriteHeard, WritePCs
<1>7. Unserved(c)'
  <2>1. CASE pc[c] \in Deciding
    <3>1. answer[c] \in Endings(c) /\ down[c] = <<>>
      <4>1. pc[c] \notin {"w_check", "w_openmeta"}
        BY <1>2, SpeakFacts DEF OnPath, WritePCs
      <4> QED  BY <2>1, <4>1, SpeakFacts DEF Talked, Unserved
    <3> QED  BY <1>1, <1>3, <1>4, <2>1, <3>1, StaysOpen DEF conn
  <2> QED  BY <2>1, NotOpen
<1>8. pc[c] \in {"close", "done", "killed"} => op[c] = "GET" /\ Fetched(c)
  BY <1>2, SpeakFacts DEF Talked, Served
<1>9. Served(c)'
  <2>1. pc[c] \in {"close", "done", "killed"} => op'[c] = "GET" /\ Fetched(c)'
    BY <1>1, <1>3, <1>8 DEF Fetched, conn
  <2>2. Served(c)  BY SpeakFacts DEF Talked
  <2> QED  BY <1>1, <1>3, <1>6, <2>1, <2>2 DEF Served, Deciding, conn
<1>10. ReplyOf(c)' = ReplyOf(c)
  <2>1. pc[c] \in {"close", "done", "killed"} => local[c] = <<>>
    BY <1>1, <1>8 DEF Fetched
  <2> QED
    BY <1>1, <1>3, <1>6, <2>1, SpeakFacts
    DEF ReplyOf, Storing, Removing, Deciding, WriteHeard, RmPCs, LsPCs
<1> QED  BY <1>5, <1>7, <1>9, <1>10, TalkKept

\* ... what is received is stored in it ...
LEMMA FetchTalk ==
  ASSUME NEW c \in Clients, Speaks(c), Fetch(c)
  PROVE  Talked(c)' /\ ReplyOf(c)' = ReplyOf(c)
<1>1. cpc[c] = "fetch" /\ UNCHANGED answer /\ UNCHANGED <<pc, op, out, req>>
  BY DEF Fetch, At, Speaks
<1>2. req[c].cmd = "GET"  BY <1>1, SpeakFacts DEF Talked, ClientPath
<1>3. pc[c] \in Deciding \cup {"g_send", "g_ack", "close", "done", "killed"}
      /\ pc[c] \notin {"w_check", "w_openmeta"}
  <2>1. pc[c] \notin WritePCs \cup RmPCs \cup LsPCs
    BY <1>2, SpeakFacts DEF OnPath, WritePCs, RmPCs, LsPCs
  <2>2. pc[c] # "reply"  BY <1>1, SpeakFacts DEF Synced
  <2> QED  BY <2>1, <2>2, SpeakFacts DEF WriteHeard, WritePCs
<1>4. pc[c] \in {"close", "done", "killed"} =>
        op[c] = "GET" /\ local[c] = <<>> /\ down[c] = <<>>
  BY <1>1, <1>2, SpeakFacts DEF Talked, Served, Fetched
<1>5. Served(c) /\ (pc[c] \in Deciding => Unserved(c) /\ local[c] = <<>> /\ down[c] = <<>>)
  BY <1>3, SpeakFacts DEF Talked, Unserved
<1>6. CASE CliRecv(c)
  <2>1. /\ down[c] # <<>> /\ down'[c] = <<>> /\ down[c] = <<Head(down[c])>>
        /\ UNCHANGED <<srv, cli, up>>
    BY <1>6, HearsRef
  <2>2. pc[c] = "g_ack"
    BY <1>3, <1>4, <1>5, <2>1, SpeakFacts DEF Sending
  <2>3. down[c] = <<out[c]>>  BY <1>5, <2>1, <2>2 DEF Served
  <2>4. Head(down[c]) = out[c]  BY <2>3
  <2>5. local'[c] = out[c] /\ cpc'[c] = "confirm"
    <3>1. ~CliEof(c) /\ ~CliRecvError(c)  BY <2>1 DEF CliEof, CliRecvError
    <3> QED  BY <2>4, <3>1, SpeakFacts DEF Fetch, Move
  <2>6. ClientPath(c)'  BY <1>1, <1>2, <2>5 DEF ClientPath
  <2>7. Unserved(c)'  BY <2>2, NotOpen DEF Deciding
  <2>8. Served(c)'  BY <1>1, <1>5, <2>1, <2>2, <2>5 DEF Served, WriteHeard
  <2>9. ReplyOf(c)' = ReplyOf(c)
    BY <1>1, <2>2 DEF ReplyOf, Storing, Removing, Deciding
  <2> QED  BY <2>6, <2>7, <2>8, <2>9, TalkKept
<1>7. CASE ~CliRecv(c)
  <2>1. /\ CliEof(c) \/ CliRecvError(c)
        /\ cpc'[c] = "close" /\ status'[c] = "fail"
    <3>1. cpc \in [Clients -> ClientPCs] /\ status \in [Clients -> {"running", "ok", "fail"}]
      BY SpeakFacts
    <3>2. (CliEof(c) \/ CliRecvError(c)) /\ Return(c, "fail")  BY <1>7 DEF Fetch
    <3> QED  BY <3>1, <3>2 DEF Move, Return
  <2>2. UNCHANGED <<conn, local>>  BY <1>7 DEF Fetch
  <2>3. CutOff(c) /\ ~(srv[c] = "open" /\ cli[c] = "open")
    BY <2>1 DEF CutOff, CliEof, CliRecvError
  <2>4. pc[c] \in Deciding \cup {"close", "done", "killed"}
    BY <1>3, <2>3, SpeakFacts DEF Sending
  <2>5. ClientPath(c)'  BY <1>1, <2>1 DEF ClientPath
  <2>6. Unserved(c)'
    <3>1. CASE pc[c] \in Deciding
      <4>1. answer[c] \in Endings(c)  BY <1>5, <3>1 DEF Unserved
      <4> QED  BY <1>1, <1>5, <2>2, <2>3, <3>1, <4>1, StaysOpen DEF conn
    <3> QED  BY <3>1, NotOpen
  <2>7. Served(c)'
    <3>1. pc[c] \in {"close", "done", "killed"} => op'[c] = "GET" /\ Fetched(c)'
      BY <1>1, <1>4, <2>1, <2>2 DEF Fetched, conn
    <3> QED  BY <1>1, <2>4, <3>1, <2>1, <1>3 DEF Served, Deciding, WriteHeard
  <2>8. ReplyOf(c)' = ReplyOf(c)
    BY <1>1, <2>2 DEF ReplyOf, Storing, Removing, Deciding
  <2> QED  BY <2>5, <2>6, <2>7, <2>8, TalkKept
<1> QED  BY <1>6, <1>7

\* ... and acknowledged.
LEMMA ConfirmTalk ==
  ASSUME NEW c \in Clients, Speaks(c), Confirm(c)
  PROVE  Talked(c)'
<1>1. cpc[c] = "confirm" /\ UNCHANGED <<local, answer>> /\ UNCHANGED <<pc, op, out, req>>
  BY DEF Confirm, At, Speaks
<1>2. req[c].cmd = "GET"  BY <1>1, SpeakFacts DEF Talked, ClientPath
<1>3. Note("fetched") \in Text  BY NoteText DEF Notes
<1>4. \/ CliSend(c, Note("fetched")) /\ cpc'[c] = "result"
      \/ CliSendError(c) /\ UNCHANGED conn /\ cpc'[c] = "close" /\ status'[c] = "fail"
  BY SpeakFacts DEF Confirm, Move, Return
<1>5. /\ down'[c] = <<>> /\ pc[c] \notin Sending
      /\ CliSend(c, Note("fetched")) => (CutOff(c)' => CutOff(c) \/ cpc'[c] \in {"close", "done"})
      /\ CliSendError(c) => CutOff(c)
  BY <1>1, <1>3, <1>4, SaysRef
<1>6. CutOff(c)' => CutOff(c)  BY <1>4, <1>5
<1>7. ClientPath(c)'  BY <1>1, <1>2, <1>4 DEF ClientPath, Handled
<1>8. Unserved(c)'
  <2>1. CASE pc[c] \in Deciding
    <3>1. local[c] = <<>> /\ answer[c] \in Endings(c)
      BY <2>1, SpeakFacts DEF Talked, Unserved
    <3> QED  BY <1>1, <1>5, <1>6, <2>1, <3>1, StaysOpen
  <2> QED  BY <2>1, NotOpen
<1>9. Served(c)'
  <2>1. pc[c] \notin {"close", "done", "killed"}  BY <1>1, NotTold
  <2>2. pc[c] \notin WriteHeard \cup {"g_send", "reply"}
    BY <1>2, <1>5, SpeakFacts DEF OnPath, WritePCs, WriteHeard, Sending
  <2>3. pc[c] = "g_ack" => local[c] = out[c] /\ out[c] # <<>>
    BY <1>1, SpeakFacts DEF Talked, Served
  <2> QED  BY <1>1, <1>5, <2>1, <2>2, <2>3 DEF Served
<1> QED  BY <1>7, <1>8, <1>9, TalkKept

\* The last recv of a client.
LEMMA ResultTalk ==
  ASSUME NEW c \in Clients, Speaks(c), AwaitResult(c)
  PROVE  Talked(c)'
<1>1. cpc[c] = "result" /\ UNCHANGED local /\ UNCHANGED <<pc, op, out, req>>
  BY DEF AwaitResult, At, Speaks
<1>2. req[c].cmd \in Handled  BY <1>1, SpeakFacts DEF Talked, ClientPath
<1>3. cpc'[c] = "close" /\ status'[c] \in {"ok", "fail"}
  BY SpeakFacts DEF AwaitResult, Move, Return
<1>4. ClientPath(c)'  BY <1>3 DEF ClientPath
<1>5. Served(c) /\ Unserved(c) /\ Endings(c)' = Endings(c)
  BY <1>1, SpeakFacts DEF Talked, Endings
<1>6. ASSUME NEW text \in Text, Printed(c, text)
      PROVE  \E rest \in Endings(c) : answer'[c] = text \o rest
  <2>1. PICK rest \in {<<>>} \cup (IF req[c].cmd \in {"RM", "LS"} THEN {Note("stale")} ELSE {}) :
          answer' = [answer EXCEPT ![c] = text \o rest]
    BY <1>6 DEF Printed
  <2>2. rest \in Endings(c)  BY <2>1, SpeakFacts DEF Endings
  <2> QED  BY <2>1, <2>2, SpeakFacts
<1>7. <<>> \in Text /\ Note("stale") \in Text  BY NoteText, EmptySeq DEF Notes, Text
<1>8. ASSUME Printed(c, <<>>)
      PROVE  answer'[c] \in Endings(c)
  <2>1. PICK rest \in Endings(c) : answer'[c] = <<>> \o rest  BY <1>6, <1>7, <1>8
  <2>2. rest \in Text  BY <1>7 DEF Endings
  <2>3. <<>> \o rest = rest  BY <2>2 DEF Text
  <2> QED  BY <2>1, <2>3
<1>9. CASE CliRecv(c)
  <2>1. /\ down[c] # <<>> /\ down'[c] = <<>> /\ down[c] = <<Head(down[c])>>
    BY <1>9, HearsRef
  <2>2. Head(down[c]) \in Text
    <3>1. down[c] \in Seq(Text)  BY SpeakFacts DEF ConnTypeOK
    <3> QED  BY <2>1, <3>1
  <2>3. ~CliEof(c) /\ ~CliRecvError(c)  BY <2>1 DEF CliEof, CliRecvError
  <2>4. Printed(c, Head(down[c])) /\ status'[c] = "ok"
    BY <2>3, SpeakFacts DEF AwaitResult, Return
  <2>5. pc[c] \in {"close", "done", "killed"}
    <3>1. pc[c] \notin Sending \cup WriteHeard \cup {"g_ack"}
      BY <1>1, <2>1, SpeakFacts DEF Synced
    <3>2. pc[c] \notin Deciding \ {"w_check", "w_openmeta"}
      BY <1>5, <2>1 DEF Unserved
    <3> QED  BY <3>1, <3>2, SpeakFacts DEF Sending, WriteHeard, Deciding, RmPCs, LsPCs
  <2>6. Unserved(c)'  BY <2>5, NotOpen DEF Deciding
  <2>7. CASE op[c] = "GET"
    <3>1. Fetched(c)'  BY <1>1, <1>3, <1>5, <2>1, <2>4, <2>5, <2>7 DEF Served, Fetched
    <3> QED  BY <1>1, <1>4, <2>5, <2>6, <2>7, <3>1, TalkKept DEF Served, WriteHeard
  <2>8. CASE op[c] # "GET"
    <3>1. down[c] = <<out[c]>>  BY <1>1, <1>5, <2>1, <2>5, <2>8 DEF Served, Told
    <3>2. Head(down[c]) = out[c]  BY <3>1
    <3>3. Told(c)'  BY <1>1, <1>3, <1>5, <1>6, <2>2, <2>4, <3>2 DEF Told
    <3> QED  BY <1>1, <1>4, <2>5, <2>6, <2>8, <3>3, TalkKept DEF Served, WriteHeard
  <2> QED  BY <2>7, <2>8
<1>10. CASE ~CliRecv(c)
  <2>1. /\ UNCHANGED conn /\ down[c] = <<>> /\ (CliEof(c) \/ CliRecvError(c))
        /\ \/ Printed(c, <<>>) /\ status'[c] = "ok"
           \/ CliRecvError(c) /\ req[c].cmd # "LS" /\ UNCHANGED answer
    BY <1>10, SpeakFacts DEF AwaitResult, Return, CliEof, CliRecvError
  <2>2. CutOff(c) /\ ~(srv[c] = "open" /\ cli[c] = "open")
    BY <2>1 DEF CutOff, CliEof, CliRecvError
  <2>3. pc[c] \in (Deciding \ {"w_check", "w_openmeta"}) \cup {"close", "done", "killed"}
    <3>1. pc[c] \notin Sending \cup WriteHeard \cup {"g_ack"}
      BY <2>2, SpeakFacts
    <3> QED  BY <3>1, SpeakFacts DEF Sending, WriteHeard, Deciding, RmPCs, LsPCs
  <2>4. CASE pc[c] \in Deciding
    <3>1. answer'[c] \in Endings(c)  BY <1>5, <1>8, <2>1, <2>4 DEF Unserved
    <3>2. Unserved(c)'
      BY <1>1, <1>5, <2>1, <2>2, <2>4, <3>1, StaysOpen DEF Unserved, conn
    <3>3. Served(c)'  BY <1>1, <1>3, <2>3, <2>4 DEF Served, Deciding, WriteHeard
    <3> QED  BY <1>4, <3>2, <3>3, TalkKept
  <2>5. CASE pc[c] \in {"close", "done", "killed"}
    <3>1. op[c] # "GET" /\ Told(c)
      BY <1>1, <1>5, <2>1, <2>5 DEF Served, Fetched
    <3>2. op[c] = "LS" /\ out[c] = <<>>
      BY <1>1, <2>1, <3>1 DEF Told
    <3>3. req[c].cmd = "LS"  BY <2>5, <3>2, SpeakFacts
    <3>4. Printed(c, <<>>) /\ status'[c] = "ok"  BY <2>1, <3>3
    <3>5. Told(c)'  BY <1>1, <1>3, <1>5, <1>6, <1>7, <3>2, <3>4 DEF Told
    <3>6. Unserved(c)'  BY <2>5, NotOpen DEF Deciding
    <3> QED  BY <1>1, <1>4, <2>5, <3>1, <3>5, <3>6, TalkKept DEF Served, WriteHeard
  <2> QED  BY <2>3, <2>4, <2>5
<1> QED  BY <1>9, <1>10

\* The end of a client: it has been told what the abstract store answered.
LEMMA CloseTalk ==
  ASSUME NEW c \in Clients, Speaks(c), CloseSocket(c), OthersSame(c)
  PROVE  Talked(c)' /\ Files!Finish(c)
<1>1. /\ cpc[c] = "close" /\ UNCHANGED <<local, answer, status>>
      /\ UNCHANGED <<pc, op, out, req>>
  BY DEF CloseSocket, At, Speaks
<1>2. cpc'[c] = "done" /\ down'[c] = <<>>
  BY SpeakFacts DEF CloseSocket, Move, CliClose, ConnTypeOK
<1>3. status[c] \in {"ok", "fail"}
  BY <1>1, SpeakFacts DEF Talked, ClientPath
<1>4. ClientPath(c)'  BY <1>1, <1>2, <1>3 DEF ClientPath
<1>5. Served(c) /\ Unserved(c) /\ Endings(c)' = Endings(c) /\ CutOff(c)
  BY <1>1, SpeakFacts DEF Talked, Endings, CutOff
<1>6. pc[c] \in (Deciding \ {"w_check", "w_openmeta"}) \cup {"close", "done", "killed"}
  <2>1. pc[c] \notin Sending \cup WriteHeard \cup {"g_ack"}
    BY <1>1, SpeakFacts DEF Synced
  <2> QED  BY <2>1, SpeakFacts DEF Sending, WriteHeard, Deciding, RmPCs, LsPCs
<1>7. ReplyOf(c)' = ReplyOf(c)
  BY <1>1 DEF ReplyOf, Storing, Removing
<1>8. PhaseOf(c)' = "done" /\ ExitOf(c)' = status[c] /\ req' = req
  BY <1>1, <1>2 DEF PhaseOf, ExitOf, At
<1>9. SeenBy(c)' = IF req[c].cmd = "GET" THEN local[c] ELSE answer[c]
  BY <1>1, <1>2, SpeakFacts DEF SeenBy, At
<1>10. CASE pc[c] \in Deciding
  <2>1. Unserved(c)'  BY <1>1, <1>2, <1>5, <1>10, StaysOpen DEF Unserved
  <2>2. Served(c)'  BY <1>1, <1>2, <1>6, <1>10 DEF Served, Deciding, WriteHeard
  <2>3. ReplyOf(c) = <<>> /\ PhaseOf(c) = "asked"
    BY <1>1, <1>6, <1>10 DEF ReplyOf, PhaseOf, At, Storing, Removing, Deciding
  <2>4. req[c].cmd \in {"STOP", "SKIP"} \/ Stopping
    BY <1>5, <1>10, SpeakFacts DEF Unserved, Asks, Commands
  <2>5. <<>> \o Note("stale") = Note("stale")
    <3>1. Note("stale") \in Text  BY NoteText DEF Notes
    <3> QED  BY <3>1 DEF Text
  <2>6. local[c] = <<>> /\ answer[c] \in Endings(c)  BY <1>5, <1>10 DEF Unserved
  <2>7. \/ SeenBy(c)' = ReplyOf(c)
        \/ /\ req[c] # None /\ req[c].cmd \in {"RM", "LS"}
           /\ SeenBy(c)' = ReplyOf(c) \o Note("stale")
    BY <1>9, <2>3, <2>5, <2>6 DEF Endings
  <2>8. Files!Finish(c)
    BY <1>3, <1>7, <1>8, <2>3, <2>4, <2>7, Finishes
  <2> QED  BY <1>4, <2>1, <2>2, <2>8, TalkKept
<1>11. CASE pc[c] \in {"close", "done", "killed"}
  <2>1. Unserved(c)'  BY <1>11, NotOpen DEF Deciding
  <2>2. op[c] = req[c].cmd /\ PhaseOf(c) = "served"
    BY <1>1, <1>11, SpeakFacts DEF PhaseOf, At, Deciding
  <2>3. CASE op[c] = "GET"
    <3>1. ReplyOf(c) = local[c]
      BY <1>11, <2>3 DEF ReplyOf, Storing, Removing, Deciding
    <3>2. \/ local[c] = <<>> /\ status[c] = "fail"
          \/ local[c] # <<>> /\ status[c] = "ok"
      BY <1>1, <1>5, <1>11, <2>3 DEF Served, Fetched
    <3>3. Fetched(c)'  BY <1>1, <1>2, <3>2 DEF Fetched
    <3>4. Served(c)'  BY <1>1, <1>11, <2>3, <3>3 DEF Served, WriteHeard
    <3>5. Files!Finish(c)
      BY <1>7, <1>8, <1>9, <2>2, <2>3, <3>1, <3>2, Finishes
    <3> QED  BY <1>4, <2>1, <3>4, <3>5, TalkKept
  <2>4. CASE op[c] # "GET"
    <3>1. ReplyOf(c) = out[c]
      BY <1>11, <2>4 DEF ReplyOf, Storing, Removing, Deciding
    <3>2. /\ status[c] = "ok"
          /\ \E rest \in Endings(c) : answer[c] = out[c] \o rest
      BY <1>1, <1>5, <1>11, <2>4 DEF Served, Told
    <3>3. Told(c)'  BY <1>1, <1>2, <1>5, <3>2 DEF Told
    <3>4. Served(c)'  BY <1>1, <1>11, <2>4, <3>3 DEF Served, WriteHeard
    <3>5. out[c] \o <<>> = out[c]  BY SpeakFacts DEF Text
    <3>6. \/ SeenBy(c)' = ReplyOf(c)
          \/ /\ req[c] # None /\ req[c].cmd \in {"RM", "LS"}
             /\ SeenBy(c)' = ReplyOf(c) \o Note("stale")
      BY <1>9, <2>2, <2>4, <3>1, <3>2, <3>5 DEF Endings
    <3>7. Files!Finish(c)
      BY <1>7, <1>8, <2>2, <2>4, <3>2, <3>6, Finishes
    <3> QED  BY <1>4, <2>1, <3>4, <3>7, TalkKept
  <2> QED  BY <2>3, <2>4
<1> QED  BY <1>6, <1>10, <1>11

\* A client's step is the end of its request, or shows nothing.
LEMMA ClientRef ==
  ASSUME Orderly, RefInv, NEW c \in Clients, Client(c)
  PROVE  RefRest' /\ (Files!Finish(c) \/ UNCHANGED Files!vars)
<1>1. /\ OrderInv /\ TurnInv /\ SurvivalInv /\ RefRest /\ ClientStep(c)
      /\ UNCHANGED <<serverVars, disk>>
  BY RefParts DEF RefInv, ReadOnlyInv, OrderInv, SurvivalInv, Client
<1>2. UNCHANGED <<pc, op, path, out, fd, perm, disk, mpc, why>>
  BY <1>1 DEF serverVars, mainVars, handlerVars
<1>3. OnlyEndsOf(c)  BY <1>1, OrderlyFinish, ClientPolite
<1>4. cpc[c] \notin {"idle", "done"} /\ req' = req
  BY <1>1, ClientFrame DEF Active
<1>5. Speaks(c)  BY <1>2, <1>4 DEF Speaks
<1>6. \A d \in Clients \ {c} : Same(d)
  <2>1. \A d \in Clients \ {c} :
          local'[d] = local[d] /\ answer'[d] = answer[d] /\ status'[d] = status[d]
    <3>1. local \in [Clients -> Text] /\ answer \in [Clients -> Text]
          /\ status \in [Clients -> {"running", "ok", "fail"}]
      BY <1>5, SpeakFacts
    <3>2. \A d \in Clients \ {c} : local'[d] = local[d]
      BY <1>1, <3>1
      DEF ClientStep, SendRequest, CloseSocket, AwaitAck, SendFile, OpenLocal, Fetch,
        Confirm, AwaitResult
    <3>3. \A d \in Clients \ {c} : answer'[d] = answer[d]
      BY <1>1, <3>1
      DEF ClientStep, SendRequest, CloseSocket, AwaitAck, SendFile, OpenLocal, Fetch,
        Confirm, AwaitResult, Printed
    <3>4. \A d \in Clients \ {c} : status'[d] = status[d]
      BY <1>1, <3>1
      DEF ClientStep, SendRequest, CloseSocket, AwaitAck, SendFile, OpenLocal, Fetch,
        Confirm, AwaitResult, Return
    <3> QED  BY <3>2, <3>3, <3>4
  <2> QED  BY <1>2, <1>3, <2>1 DEF OnlyEndsOf, Same
<1>7. Stopping' <=> Stopping  BY <1>2 DEF Stopping
<1>8. \A d \in Clients \ {c} : Talked(d)'
  BY <1>1, <1>6, <1>7, SameTalk DEF RefRest
<1>9. \A d \in Clients : FilesSeen(d)'
  BY <1>1, <1>2, <1>4, SameFiles DEF RefRest
<1>10. DeadStopped' /\ PlainHeaders'
  BY <1>1, <1>2 DEF RefRest, DeadStopped, PlainHeaders, disk
<1>11. StoreKept
  <2>1. \A d \in Clients : (Storing(d)' <=> Storing(d)) /\ (Removing(d)' <=> Removing(d))
    BY <1>2 DEF Storing, Removing
  <2> QED  BY <1>2, <1>4, <2>1, StillStore
<1>12. OthersSame(c)
  BY <1>4, <1>6, <1>7, <1>11, SameSeen DEF OthersSame
<1>13. Talked(c)' => RefRest'
  BY <1>8, <1>9, <1>10 DEF RefRest
<1>14. CASE CloseSocket(c)  BY <1>5, <1>12, <1>13, <1>14, CloseTalk
<1>15. CASE ~CloseSocket(c)
  <2>1. Talked(c)' /\ ReplyOf(c)' = ReplyOf(c) /\ cpc'[c] \notin {"idle", "done"}
    <3>1. UNCHANGED local => ReplyOf(c)' = ReplyOf(c)
      BY <1>2 DEF ReplyOf, Storing, Removing, Deciding
    <3>2. cpc \in [Clients -> ClientPCs]  BY <1>5, SpeakFacts
    <3>3. CASE SendRequest(c)
      BY <1>5, <3>1, <3>2, <3>3, SendTalk DEF SendRequest, Move, Return
    <3>4. CASE AwaitAck(c)  BY <1>5, <3>1, <3>2, <3>4, AckTalk DEF AwaitAck, Move, Return
    <3>5. CASE SendFile(c)  BY <1>5, <3>1, <3>2, <3>5, SourceTalk DEF SendFile, Move, Return
    <3>6. CASE OpenLocal(c)  BY <1>5, <3>2, <3>6, OpenTalk DEF OpenLocal, Move, Return
    <3>7. CASE Fetch(c)  BY <1>5, <3>2, <3>7, FetchTalk DEF Fetch, Move, Return
    <3>8. CASE Confirm(c)  BY <1>5, <3>1, <3>2, <3>8, ConfirmTalk DEF Confirm, Move, Return
    <3>9. CASE AwaitResult(c)
      BY <1>5, <3>1, <3>2, <3>9, ResultTalk DEF AwaitResult, Move, Return
    <3> QED
      BY <1>1, <1>15, <3>3, <3>4, <3>5, <3>6, <3>7, <3>8, <3>9 DEF ClientStep
  <2>2. /\ PhaseOf(c)' = PhaseOf(c) /\ SeenBy(c)' = SeenBy(c) /\ ExitOf(c)' = ExitOf(c)
    BY <1>2, <1>4, <2>1 DEF PhaseOf, SeenBy, ExitOf, At, Deciding
  <2>3. UNCHANGED Files!vars
    BY <1>4, <1>6, <1>7, <1>11, <2>1, <2>2, SameSeen, AllSame
  <2> QED  BY <1>13, <2>1, <2>3
<1> QED  BY <1>14, <1>15

\* A client that has not started has nothing.
LEMMA BeforeStart ==
  ASSUME RefInv, NEW c \in Clients, cpc[c] = "idle"
  PROVE  /\ pc[c] = "none" /\ srv[c] = "none" /\ down[c] = <<>> /\ req[c] = None
         /\ out[c] = <<>> /\ local[c] = <<>> /\ answer[c] = <<>>
         /\ PhaseOf(c) = "idle" /\ ReplyOf(c) = <<>> /\ SeenBy(c) = <<>>
         /\ ExitOf(c) = "running" /\ ~Changing(c)
<1>1. TurnInv /\ Talked(c)
  BY RefParts DEF RefInv, ReadOnlyInv, OrderInv, SurvivalInv, RefRest
<1>2. pc[c] = "none" /\ srv[c] = "none" /\ down[c] = <<>> /\ req[c] = None
  BY <1>1 DEF TurnInv, TurnsTaken, QueueOrdered, Talked, ClientPath
<1>3. out[c] = <<>> /\ local[c] = <<>> /\ answer[c] = <<>>
  BY <1>1, <1>2 DEF Talked, Unserved, Deciding, Endings
<1>4. PhaseOf(c) = "idle" /\ SeenBy(c) = <<>> /\ ExitOf(c) = "running"
  BY DEF PhaseOf, SeenBy, ExitOf, At
<1>5. ReplyOf(c) = <<>> /\ ~Changing(c)
  BY <1>2 DEF ReplyOf, Changing, Storing, Removing, Deciding
<1> QED  BY <1>1, <1>2, <1>3, <1>4, <1>5

\* A client that is launched asks, or finds nobody to connect to.
LEMMA LaunchRef ==
  ASSUME RefInv, NEW c \in Clients, Launch(c)
  PROVE  RefRest' /\ (Files!Ask(c) \/ Files!Finish(c))
<1>1. /\ OrderInv /\ SurvivalInv /\ TurnInv /\ RefRest /\ UNCHANGED <<serverVars, disk>>
  BY RefParts DEF RefInv, ReadOnlyInv, OrderInv, SurvivalInv, Launch
<1>2. UNCHANGED <<pc, op, path, out, fd, perm, disk, mpc, why>>
  BY <1>1 DEF serverVars, mainVars, handlerVars
<1>3. cpc[c] = "idle"  BY DEF Launch, Connect, ConnectRefused, At
<1>4. OnlyEndsOf(c)  BY <1>1, LaunchPolite
<1>5. /\ ConnTypeOK /\ cpc \in [Clients -> ClientPCs]
      /\ status \in [Clients -> {"running", "ok", "fail"}]
  BY <1>1 DEF TurnInv, TypeInv, TypeOK, ClientTypeOK
<1>6. /\ pc[c] = "none" /\ srv[c] = "none" /\ down[c] = <<>> /\ req[c] = None
      /\ out[c] = <<>> /\ local[c] = <<>> /\ answer[c] = <<>>
      /\ PhaseOf(c) = "idle" /\ ReplyOf(c) = <<>> /\ SeenBy(c) = <<>>
      /\ ExitOf(c) = "running" /\ ~Changing(c)
  BY <1>3, BeforeStart
<1>7. UNCHANGED <<local, answer>> /\ \A d \in Clients \ {c} : status'[d] = status[d]
  BY <1>5 DEF Launch, Connect, ConnectRefused
<1>8. \A d \in Clients \ {c} : Same(d)
  BY <1>2, <1>4, <1>7 DEF OnlyEndsOf, Same
<1>9. Stopping' <=> Stopping  BY <1>2 DEF Stopping
<1>10. \A d \in Clients \ {c} : Talked(d)' /\ FilesSeen(d)'
  BY <1>1, <1>2, <1>8, <1>9, SameTalk, SameFiles DEF RefRest, Same
<1>11. DeadStopped' /\ PlainHeaders' /\ FilesSeen(c)'
  BY <1>1, <1>2, <1>6 DEF RefRest, DeadStopped, PlainHeaders, disk, FilesSeen
<1>12. Talked(c)' => RefRest'  BY <1>10, <1>11 DEF RefRest
<1>13. StoreKept
  <2>1. \A d \in Clients : (Storing(d)' <=> Storing(d)) /\ (Removing(d)' <=> Removing(d))
    BY <1>2 DEF Storing, Removing
  <2>2. \A d \in Clients : Changing(d) => req'[d] = req[d]
    BY <1>6, <1>8 DEF Same
  <2> QED  BY <1>2, <2>1, <2>2, StillStore
<1>14. OthersSame(c)
  BY <1>8, <1>9, <1>13, SameSeen DEF OthersSame, Same
<1>15. ReplyOf(c)' = <<>>
  BY <1>2, <1>6 DEF ReplyOf, Storing, Removing, Deciding
<1>16. Commanded(c)' /\ Served(c)'
  BY <1>2, <1>6 DEF Commanded, Served, WriteHeard
<1>17. CASE mpc = "dead"
  <2>1. ConnectRefused(c)  BY <1>17 DEF Launch
  <2>2. cpc'[c] = "done" /\ status'[c] = "fail" /\ UNCHANGED conn
    BY <1>5, <2>1 DEF ConnectRefused, Move
  <2>3. ClientPath(c)'  BY <2>2 DEF ClientPath
  <2>4. Unserved(c)'
    BY <1>2, <1>6, <1>7, <2>2 DEF Unserved, Asks, Endings, conn
  <2>5. Stopping  BY <1>1, <1>17 DEF RefRest, DeadStopped, Stopping
  <2>6. PhaseOf(c)' = "done" /\ ExitOf(c)' = "fail"
    BY <2>2 DEF PhaseOf, ExitOf, At
  <2>7. SeenBy(c)' = <<>>
    BY <1>6, <1>7, <2>2 DEF SeenBy, At, conn
  <2>8. req' = req  BY <2>2 DEF conn
  <2>9. Files!Finish(c)
    BY <1>6, <1>14, <1>15, <2>5, <2>6, <2>7, <2>8, Finishes
  <2> QED  BY <1>12, <1>16, <2>3, <2>4, <2>9 DEF Talked
<1>18. CASE mpc # "dead"
  <2>1. Connect(c)  BY <1>18 DEF Launch
  <2>2. PICK r \in Plan[c] : CliConnect(c, r)  BY <2>1 DEF Connect
  <2>3. /\ cpc'[c] = "send" /\ req' = [req EXCEPT ![c] = r] /\ down' = down
        /\ srv'[c] = "queued" /\ cli'[c] = "open" /\ status' = status
    BY <1>5, <2>1, <2>2 DEF Connect, CliConnect, Move, ConnTypeOK
  <2>4. ClientPath(c)'  BY <2>3 DEF ClientPath
  <2>5. Unserved(c)'
    BY <1>2, <1>6, <1>7, <2>3 DEF Unserved, CutOff, Endings
  <2>6. PhaseOf(c)' = "asked" /\ SeenBy(c)' = <<>> /\ ExitOf(c)' = "running"
    BY <1>2, <1>6, <2>3 DEF PhaseOf, SeenBy, ExitOf, At, Deciding
  <2>7. Files!Ask(c)
    <3> DEFINE Phase == [d \in Clients |-> PhaseOf(d)]
    <3>1. [n \in Names |-> HeaderOf(n)]' = [n \in Names |-> HeaderOf(n)]
      BY <1>13 DEF StoreKept
    <3>2. [n \in Names |-> ContentOf(n)]' = [n \in Names |-> ContentOf(n)]
      BY <1>13 DEF StoreKept
    <3>3. Phase' = [Phase EXCEPT ![c] = "asked"] /\ Phase[c] = "idle"
      BY <1>6, <1>14, <2>6 DEF OthersSame
    <3>4. [d \in Clients |-> ReplyOf(d)]' = [d \in Clients |-> ReplyOf(d)]
      BY <1>6, <1>14, <1>15 DEF OthersSame
    <3>5. [d \in Clients |-> SeenBy(d)]' = [d \in Clients |-> SeenBy(d)]
      BY <1>6, <1>14, <2>6 DEF OthersSame
    <3>6. [d \in Clients |-> IF At(d, "done") THEN status[d] ELSE "running"]'
          = [d \in Clients |-> IF At(d, "done") THEN status[d] ELSE "running"]
      BY <1>6, <1>14, <2>6 DEF OthersSame, ExitOf
    <3>7. (mpc = "exit" \/ why = "stop")' = (mpc = "exit" \/ why = "stop")
      BY <1>2
    <3>8. \E s \in Plan[c] : req' = [req EXCEPT ![c] = s]  BY <2>3
    <3> QED
      BY <3>1, <3>2, <3>3, <3>4, <3>5, <3>6, <3>7, <3>8 DEF Files!Ask
  <2> QED  BY <1>12, <1>16, <2>4, <2>5, <2>7 DEF Talked
<1> QED  BY <1>17, <1>18

(***************************************************************************)
(* The beginning.                                                          *)
(***************************************************************************)
\* The invariant holds in the beginning.
LEMMA InitRest == ASSUME PlainLeftovers PROVE Init => RefRest
<1> SUFFICES ASSUME Init PROVE RefRest
  OBVIOUS
<1>1. DeadStopped  BY DEF DeadStopped, Init, ServerInit
<1>2. PlainHeaders
  <2>1. PICK before \in Leftovers : DiskInit(before)  BY DEF Init
  <2>2. \A n \in Names : before["meta"][n] \in Plain \cup {None}
    BY DEF PlainLeftovers
  <2> SUFFICES ASSUME NEW i \in Inodes, i[2] = "meta" PROVE data[i] \in Plain
    BY DEF PlainHeaders
  <2>3. data[i] = IF i[1] \in Names /\ before["meta"][i[1]] # None
                    THEN before["meta"][i[1]] ELSE <<>>
    BY <2>1 DEF DiskInit
  <2> QED  BY <2>2, <2>3 DEF Plain
<1>3. \A c \in Clients : Talked(c) /\ FilesSeen(c)
  <2> SUFFICES ASSUME NEW c \in Clients PROVE Talked(c) /\ FilesSeen(c)
    OBVIOUS
  <2>1. /\ pc[c] = "none" /\ cpc[c] = "idle" /\ req[c] = None /\ out[c] = <<>>
        /\ local[c] = <<>> /\ answer[c] = <<>> /\ down[c] = <<>>
    BY DEF Init, ServerInit, ClientInit, ConnInit
  <2>2. Commanded(c) /\ ClientPath(c) /\ Served(c) /\ FilesSeen(c)
    BY <2>1 DEF Commanded, ClientPath, Served, FilesSeen, WriteHeard
  <2>3. Unserved(c)  BY <2>1 DEF Unserved, Asks, Endings
  <2> QED  BY <2>2, <2>3 DEF Talked
<1> QED  BY <1>1, <1>2, <1>3 DEF RefRest

\* What is shown in the beginning is an initial state of the abstract store.
LEMMA InitRef == Init => Files!Init
<1> SUFFICES ASSUME Init PROVE Files!Init
  OBVIOUS
<1>1. \A c \in Clients :
        /\ pc[c] = "none" /\ cpc[c] = "idle" /\ req[c] = None
  BY DEF Init, ServerInit, ClientInit, ConnInit
<1>2. \A n \in Names : ChangerOf(n) = {}
  BY <1>1 DEF ChangerOf
<1>3. DiskTypeOK  BY InitTypes DEF TypeInv, TypeOK
<1>4. \A n \in Names : HeaderOf(n) \in {"none", "blank", "readonly", "writable"}
  BY <1>2 DEF HeaderOf, HeaderName
<1>5. \A n \in Names : ContentOf(n) \in Text \cup {None}
  <2> SUFFICES ASSUME NEW n \in Names PROVE ContentOf(n) \in Text \cup {None}
    OBVIOUS
  <2>1. CASE Exists("file", n)
    <3>1. link["file"][n] \in Inodes  BY <1>3, <2>1 DEF Exists, DiskTypeOK, Kinds
    <3>2. PbDecode(data[link["file"][n]]) \in Text
      BY <1>3, <3>1, StoredText DEF DiskTypeOK
    <3> QED  BY <1>2, <2>1, <3>2 DEF ContentOf
  <2>2. CASE ~Exists("file", n)  BY <1>2, <2>2 DEF ContentOf
  <2> QED  BY <2>1, <2>2
<1>6. \A c \in Clients : /\ PhaseOf(c) = "idle" /\ ReplyOf(c) = <<>> /\ SeenBy(c) = <<>>
                         /\ ~At(c, "done")
  BY <1>1 DEF PhaseOf, ReplyOf, SeenBy, At, Storing, Removing, Deciding
<1>7. ~(mpc = "exit" \/ why = "stop") /\ req = [c \in Clients |-> None]
  BY DEF Init, ServerInit, ConnInit
<1>8. [n \in Names |-> HeaderOf(n)] \in [Names -> {"none", "blank", "readonly", "writable"}]
  BY <1>4
<1>9. [n \in Names |-> ContentOf(n)] \in [Names -> Text \cup {None}]
  BY <1>5
<1>10. /\ [c \in Clients |-> PhaseOf(c)] = [c \in Clients |-> "idle"]
       /\ [c \in Clients |-> ReplyOf(c)] = [c \in Clients |-> <<>>]
       /\ [c \in Clients |-> SeenBy(c)] = [c \in Clients |-> <<>>]
       /\ [c \in Clients |-> IF At(c, "done") THEN status[c] ELSE "running"]
          = [c \in Clients |-> "running"]
  BY <1>6
<1>11. Files!Text = Text
  BY DEF Files!Text, Text, Files!Cell, Cell, Files!Stored, Stored, Files!Notes, Notes,
    Files!MetaChars, MetaChars
<1> QED  BY <1>7, <1>8, <1>9, <1>10, <1>11 DEF Files!Init

\* Each step keeps the invariant, and is an abstract step or shows nothing.
LEMMA NextRef ==
  ASSUME Orderly, NumbersSent
  PROVE  RefInv /\ [Next]_vars => RefInv' /\ [Files!Next]_(Files!vars)
<1> SUFFICES ASSUME RefInv, [Next]_vars PROVE RefInv' /\ [Files!Next]_(Files!vars)
  OBVIOUS
<1>1. ReadOnlyInv /\ RefRest  BY RefParts
<1>2. ReadOnlyInv'  BY <1>1, NextReadOnly
<1> DEFINE Done == RefRest' /\ [Files!Next]_(Files!vars)
<1>3. ASSUME Main PROVE Done
  BY <1>3, MainRef DEF Files!Next
<1>4. ASSUME NEW c \in Clients, Handler(c) PROVE Done
  BY <1>4, HandlerRef DEF Decides, Files!Next
<1>5. ASSUME NEW c \in Clients, Client(c) PROVE Done
  BY <1>5, ClientRef DEF Files!Next
<1>6. ASSUME NEW c \in Clients, Launch(c) PROVE Done
  BY <1>6, LaunchRef DEF Files!Next
<1>7. ASSUME NEW c \in Clients PROVE ~Kill(c)
  BY DEF Kill, Killed, Orderly
<1>8. ASSUME UNCHANGED vars PROVE Done
  <2>1. /\ UNCHANGED <<pc, op, path, out, fd, perm, disk, mpc, why>>
        /\ UNCHANGED <<req, cli, srv, up, down, cpc, local, answer, status>>
    BY <1>8 DEF vars, serverVars, mainVars, handlerVars, clientVars, conn
  <2>2. \A d \in Clients : Same(d)  BY <2>1 DEF Same
  <2>3. Stopping' <=> Stopping  BY <2>1 DEF Stopping
  <2>4. \A d \in Clients : Talked(d)' /\ FilesSeen(d)'
    BY <1>1, <2>1, <2>2, <2>3, SameTalk, SameFiles DEF RefRest
  <2>5. RefRest'
    BY <1>1, <2>1, <2>4 DEF RefRest, DeadStopped, PlainHeaders, disk
  <2>6. StoreKept
    BY <2>1, StillStore DEF Storing, Removing
  <2>7. UNCHANGED Files!vars
    BY <2>1, <2>2, <2>3, <2>6, SameSeen, AllSame
  <2> QED  BY <2>5, <2>7
<1>9. Done
  BY <1>3, <1>4, <1>5, <1>6, <1>7, <1>8 DEF Next, Finished
<1>10. RefInv'  BY <1>2, <1>9 DEF RefInv, RefRest, Talked
<1> QED  BY <1>9, <1>10

\* With one client after the other, the server implements RemoteFiles: the steps of
\* handle_write, handle_get, handle_rm and handle_ls, with those of their clients,
\* add up to one atomic step for each request, whose reply is what the client
\* prints or stores, and whose text comes back whole and in upper case.
THEOREM FilesAreImplemented ==
  ASSUME Orderly, NumbersSent, LeftoverHeaders, PlainLeftovers
  PROVE  Spec => FilesImplemented
<1>1. Init => RefInv  BY InitReadOnly, InitRest, RefParts
<1>2. Init => Files!Init  BY InitRef
<1>3. RefInv /\ [Next]_vars => RefInv' /\ [Files!Next]_(Files!vars)  BY NextRef
<1> QED  BY <1>1, <1>2, <1>3, PTL DEF Spec, FilesImplemented, Files!Spec

(***************************************************************************)
(* What the refinement says of the texts that users are sent, on the disk: *)
(* each data file, in use or unlinked, holds one text from end to end, and *)
(* what an earlier run of the server left is found under its own name.     *)
(***************************************************************************)
SentTexts == {<<>>} \cup {PbEncode(Source[c]) : c \in Clients}
WholeTexts(n) == SentTexts \cup {before["file"][n] : before \in Leftovers}

OwnLinks(n) == link["file"][n] \in {None, <<n, "file">>} \cup (Clients \X {"file"})

WholeInv ==
  /\ RefInv
  /\ \A n \in Names : OwnLinks(n)
  /\ \A c \in Clients : data[<<c, "file">>] \in SentTexts
  /\ \A n \in Names : data[<<n, "file">>] \in WholeTexts(n)

\* A step leaves a data file alone, or puts one whole text there.
FilesStayWhole ==
  /\ \A n \in Names : OwnLinks(n)'
  /\ \A i \in Inodes : i[2] = "file" => data'[i] \in {data[i]} \cup SentTexts

LEMMA StaysWhole ==
  ASSUME WholeInv, RefInv', FilesStayWhole
  PROVE  WholeInv'
<1>1. \A x \in Clients \cup Names : <<x, "file">> \in Inodes /\ <<x, "file">>[2] = "file"
  BY DEF Inodes, Kinds
<1>2. SentTexts' = SentTexts /\ \A n \in Names : WholeTexts(n)' = WholeTexts(n)
  BY DEF SentTexts, WholeTexts
<1>3. \A c \in Clients : data'[<<c, "file">>] \in SentTexts
  BY <1>1 DEF WholeInv, FilesStayWhole
<1>4. \A n \in Names : data'[<<n, "file">>] \in WholeTexts(n)
  BY <1>1 DEF WholeInv, FilesStayWhole, WholeTexts
<1> QED  BY <1>2, <1>3, <1>4 DEF WholeInv, FilesStayWhole

LEMMA DiskKeptWhole ==
  ASSUME WholeInv, UNCHANGED disk
  PROVE  FilesStayWhole
BY DEF disk, WholeInv, OwnLinks, FilesStayWhole

LEMMA OpenWhole ==
  ASSUME WholeInv, DiskTypeOK, LinkKinds, NEW k \in Kinds, NEW p \in Paths, NEW c \in Clients,
         OpenTrunc(k, p, <<c, k>>)
  PROVE  FilesStayWhole
<1> DEFINE i == Opened(k, p, <<c, k>>)
<1>1. i \in Inodes  BY InodeNames DEF Opened, DiskTypeOK
<1>2. i = link[k][p] \/ i = <<c, k>>  BY DEF Opened
<1>3. /\ link' = [link EXCEPT ![k][p] = i] /\ data' = [data EXCEPT ![i] = <<>>]
  BY DEF OpenTrunc
<1> HIDE DEF i
<1>4. \A n \in Names : OwnLinks(n)'
  <2> SUFFICES ASSUME NEW n \in Names PROVE OwnLinks(n)'
    OBVIOUS
  <2>1. OwnLinks(n) /\ n \in Paths  BY DEF WholeInv, Paths
  <2>2. CASE k = "file" /\ p = n
    <3>1. link'["file"][n] = i  BY <1>3, <2>1, <2>2 DEF DiskTypeOK, Kinds
    <3> QED  BY <1>2, <2>1, <2>2, <3>1 DEF OwnLinks
  <2>3. CASE ~(k = "file" /\ p = n)
    <3>1. link'["file"][n] = link["file"][n]
      BY <1>3, <2>1, <2>3 DEF DiskTypeOK, Kinds
    <3> QED  BY <2>1, <3>1 DEF OwnLinks
  <2> QED  BY <2>2, <2>3
<1>5. \A j \in Inodes : data'[j] \in {data[j], <<>>}  BY <1>1, <1>3 DEF DiskTypeOK
<1> QED  BY <1>4, <1>5 DEF FilesStayWhole, SentTexts

LEMMA UnlinkWhole ==
  ASSUME WholeInv, DiskTypeOK, NEW k \in Kinds, NEW p, Exists(k, p), Unlink(k, p)
  PROVE  FilesStayWhole
<1>1. p \in Paths /\ UNCHANGED data /\ link' = [link EXCEPT ![k][p] = None]
  BY DEF Unlink, Exists
<1>2. ASSUME NEW n \in Names PROVE OwnLinks(n)'
  <2>1. OwnLinks(n) /\ n \in Paths  BY DEF WholeInv, Paths
  <2>2. link'["file"][n] \in {link["file"][n], None}
    BY <1>1, <2>1 DEF DiskTypeOK, Kinds
  <2> QED  BY <2>1, <2>2 DEF OwnLinks
<1> QED  BY <1>1, <1>2 DEF FilesStayWhole

LEMMA MetaWriteWhole ==
  ASSUME WholeInv, DiskTypeOK, NEW i \in Inodes, i[2] = "meta", NEW s, WriteStart(i, s)
  PROVE  FilesStayWhole
<1>1. UNCHANGED link /\ \A j \in Inodes \ {i} : data'[j] = data[j]
  BY DEF WriteStart, DiskTypeOK
<1> QED  BY <1>1 DEF WholeInv, OwnLinks, FilesStayWhole

\* The write of the contents goes to an empty file, and is all that is sent.
LEMMA StoreWhole ==
  ASSUME WholeInv, NEW c \in Clients, WriteStore(c)
  PROVE  FilesStayWhole
<1>1. CASE UNCHANGED disk  BY <1>1, DiskKeptWhole
<1>2. CASE SrvRecv(c) /\ WriteStart(fd[c], PbEncode(Head(up[c])))
  <2> DEFINE n == req[c].path
  <2>1. /\ TurnInv /\ DiskTypeOK /\ LinkKinds /\ LinksApart /\ OrderInv
        /\ Commanded(c) /\ Served(c) /\ FilesSeen(c) /\ Synced(c)
    BY DiskTypes
    DEF WholeInv, RefInv, ReadOnlyInv, InodeInv, HeaderInv, LeakInv, OrderInv
  <2>2. pc[c] = "w_store"  BY DEF WriteStore
  <2>3. /\ Exists("file", n) /\ fd[c] = link["file"][n] /\ data[fd[c]] = <<>>
    BY <2>1, <2>2 DEF FilesSeen
  <2>4. cpc[c] = "result"
    BY <1>2, <2>1, <2>2, TakesAll DEF Synced, WriteHeard
  <2>5. up[c] = <<Source[c]>>  BY <2>1, <2>2, <2>4 DEF Served, WriteHeard
  <2>6. Head(up[c]) = Source[c]  BY <2>5
  <2>7. PbEncode(Source[c]) \in Seq(Stored)  BY ClientAssumption, PbEncodeStored
  <2>8. n \in Paths  BY <2>3 DEF Exists
  <2>9. /\ OneFile("file", n, link["file"][n]) /\ UNCHANGED link
        /\ data'[link["file"][n]] = PbEncode(Source[c])
    BY <1>2, <2>1, <2>3, <2>6, <2>7, <2>8, WritesOne DEF Kinds
  <2>10. \A j \in Inodes : data'[j] \in {data[j], PbEncode(Source[c])}
    BY <2>9 DEF OneFile
  <2> QED  BY <2>9, <2>10 DEF WholeInv, OwnLinks, FilesStayWhole, SentTexts
<1> QED  BY <1>1, <1>2 DEF WriteStore

LEMMA HandlerWhole ==
  ASSUME WholeInv, NEW c \in Clients, HandlerStep(c), ~Sigpipe(c)
  PROVE  FilesStayWhole
<1>1. /\ TurnInv /\ DiskTypeOK /\ LinkKinds /\ OwnKinds(c) /\ PathsKnown /\ OpenKnown
  BY DiskTypes DEF WholeInv, RefInv, ReadOnlyInv, InodeInv, HeaderInv, LeakInv
<1>1a. pc[c] \in {"w_openmeta", "w_openfile", "r_openfile"} /\ path[c] # Empty
        => path[c] \in Paths
  <2>1. pc[c] \in {"w_openmeta", "w_openfile", "r_openfile"} => path[c] # None
    BY <1>1 DEF PathsKnown
  <2>2. path[c] \in Paths \cup {Empty, None}  BY <1>1, DiskTypes
  <2> QED  BY <2>1, <2>2
<1>2. CASE UNCHANGED disk  BY <1>2, DiskKeptWhole
<1>3. CASE WriteOpenMeta(c)
  <2>1. CASE path[c] = Empty  BY <1>2, <1>3, <2>1 DEF WriteOpenMeta
  <2>2. CASE path[c] # Empty
    <3>1. path[c] \in Paths  BY <1>1a, <1>3, <2>2 DEF WriteOpenMeta
    <3>2. OpenTrunc("meta", path[c], <<c, "meta">>)  BY <1>3, <2>2 DEF WriteOpenMeta
    <3> QED  BY <1>1, <3>1, <3>2, OpenWhole DEF Kinds
  <2> QED  BY <2>1, <2>2
<1>4. CASE WriteMeta(c)
  <2>1. mfd[c] \in Inodes /\ mfd[c][2] = "meta"
    BY <1>1, <1>4 DEF WriteMeta, OpenKnown, OwnKinds
  <2>2. WriteStart(mfd[c], HeaderToString(perm[c]))  BY <1>4 DEF WriteMeta
  <2> QED  BY <1>1, <2>1, <2>2, MetaWriteWhole
<1>5. CASE WriteOpenFile(c)
  <2>1. CASE path[c] = Empty  BY <1>2, <1>5, <2>1 DEF WriteOpenFile
  <2>2. CASE path[c] # Empty
    <3>1. path[c] \in Paths  BY <1>1a, <1>5, <2>2 DEF WriteOpenFile
    <3>2. OpenTrunc("file", path[c], <<c, "file">>)  BY <1>5, <2>2 DEF WriteOpenFile
    <3> QED  BY <1>1, <3>1, <3>2, OpenWhole DEF Kinds
  <2> QED  BY <2>1, <2>2
<1>6. CASE WriteStore(c)  BY <1>6, StoreWhole
<1>7. CASE RmOpenMeta(c)
  <2>1. path[c] \in Paths  BY <1>1, <1>7 DEF RmOpenMeta, PathsKnown
  <2>2. OpenTrunc("meta", path[c], <<c, "meta">>)  BY <1>7 DEF RmOpenMeta
  <2> QED  BY <1>1, <2>1, <2>2, OpenWhole DEF Kinds
<1>8. CASE RmUnlinkMeta(c)
  <2>1. CASE Exists("meta", path[c])
    BY <1>1, <1>8, <2>1, UnlinkWhole DEF RmUnlinkMeta, Kinds
  <2>2. CASE ~Exists("meta", path[c])  BY <1>2, <1>8, <2>2 DEF RmUnlinkMeta
  <2> QED  BY <2>1, <2>2
<1>9. CASE RmOpenFile(c)
  <2>1. CASE path[c] = Empty  BY <1>2, <1>9, <2>1 DEF RmOpenFile
  <2>2. CASE path[c] # Empty
    <3>1. path[c] \in Paths  BY <1>1a, <1>9, <2>2 DEF RmOpenFile
    <3>2. OpenTrunc("file", path[c], <<c, "file">>)  BY <1>9, <2>2 DEF RmOpenFile
    <3> QED  BY <1>1, <3>1, <3>2, OpenWhole DEF Kinds
  <2> QED  BY <2>1, <2>2
<1>10. CASE RmUnlinkFile(c)
  <2>1. CASE Exists("file", path[c])
    BY <1>1, <1>10, <2>1, UnlinkWhole DEF RmUnlinkFile, Kinds
  <2>2. CASE ~Exists("file", path[c])  BY <1>2, <1>10, <2>2 DEF RmUnlinkFile
  <2> QED  BY <2>1, <2>2
<1>11. CASE Start(c) \/ Reply(c) \/ Close(c) \/ Get(c) \/ Ls(c)
  <2>1. CASE Start(c) \/ Reply(c) \/ Close(c)
    BY <1>2, <2>1 DEF Start, Reply, Close
  <2>2. CASE Get(c)
    BY <1>2, <2>2 DEF Get, GetPath, GetOpen, GetRead, GetSend, GetAck
  <2>3. CASE Ls(c)
    BY <1>2, <2>3 DEF Ls, LsPath, LsOpen, LsRead, LsSend
  <2> QED  BY <1>11, <2>1, <2>2, <2>3
<1>12. CASE Write(c)
  <2>1. CASE WritePermission(c) \/ WriteAck(c) \/ WriteCheck(c) \/ WriteDrain(c) \/ WritePath(c)
    BY <1>2, <2>1 DEF WritePermission, WriteAck, WriteCheck, WriteDrain, WritePath
  <2> QED  BY <1>3, <1>4, <1>5, <1>6, <1>12, <2>1 DEF Write
<1>13. CASE Rm(c)
  <2>1. CASE RmPath(c) \/ RmCheck(c) \/ RmRecheck(c) \/ RmPath2(c)
    BY <1>2, <2>1 DEF RmPath, RmCheck, RmRecheck, RmPath2
  <2> QED  BY <1>7, <1>8, <1>9, <1>10, <1>13, <2>1 DEF Rm
<1> QED  BY <1>11, <1>12, <1>13 DEF HandlerStep

LEMMA NextWhole ==
  ASSUME Orderly, NumbersSent
  PROVE  WholeInv /\ [Next]_vars => WholeInv'
<1> SUFFICES ASSUME WholeInv, [Next]_vars PROVE WholeInv'
  OBVIOUS
<1>1. RefInv'  BY NextRef DEF WholeInv
<1>2. CASE UNCHANGED disk  BY <1>1, <1>2, DiskKeptWhole, StaysWhole
<1>3. CASE Main
  <2>1. UNCHANGED disk
    BY <1>3
    DEF Main, MainStep, Accept, RecvCommand, RecvNothing, ParseStop, ParseSkip,
      ParseSpawn, Exit, ServerDies
  <2> QED  BY <1>2, <2>1
<1>4. ASSUME NEW c \in Clients, Handler(c) PROVE WholeInv'
  <2>1. SurvivalInv  BY DEF WholeInv, RefInv, ReadOnlyInv, OrderInv
  <2>2. FilesStayWhole  BY <1>4, <2>1, NoSigpipe, HandlerWhole DEF Handler
  <2> QED  BY <1>1, <2>2, StaysWhole
<1>5. ASSUME NEW c \in Clients, Client(c) \/ Launch(c) \/ Kill(c) PROVE WholeInv'
  BY <1>2, <1>5 DEF Client, Launch, Kill
<1> QED  BY <1>2, <1>3, <1>4, <1>5 DEF Next, Finished, vars

LEMMA InitWhole ==
  ASSUME LeftoverHeaders, PlainLeftovers
  PROVE  Init => WholeInv
<1> SUFFICES ASSUME Init PROVE WholeInv
  OBVIOUS
<1>1. RefInv  BY InitReadOnly, InitRest, RefParts
<1>2. PICK before \in Leftovers : DiskInit(before)  BY DEF Init
<1>3. \A n \in Names : OwnLinks(n)
  BY <1>2 DEF DiskInit, OwnLinks, Paths, Kinds
<1>4. \A x \in Clients \cup Names : <<x, "file">> \in Inodes
  BY DEF Inodes, Kinds
<1>5. \A c \in Clients : data[<<c, "file">>] \in SentTexts
  BY <1>2, <1>4, CommonAssumption DEF DiskInit, SentTexts
<1>6. \A n \in Names : data[<<n, "file">>] \in {before["file"][n], <<>>}
  BY <1>2, <1>4 DEF DiskInit
<1>7. \A n \in Names : data[<<n, "file">>] \in WholeTexts(n)
  BY <1>6 DEF WholeTexts, SentTexts
<1> QED  BY <1>1, <1>3, <1>5, <1>7 DEF WholeInv

\* With one client after the other, a data file holds one text from its first byte
\* to its last when no handler is at work: open truncates, and a single write puts
\* there what was received (serverHandler.c:139-187).  Two users at once can mix
\* their texts, for the lock excludes no thread; users in order cannot.
THEOREM FilesAreWhole ==
  ASSUME Orderly, NumbersSent, LeftoverHeaders, PlainLeftovers
  PROVE  Spec => []FilesWhole
<1>1. WholeInv => FilesWhole
  <2> SUFFICES ASSUME WholeInv, NEW n \in Names, Exists("file", n)
               PROVE  StoredAt(n) \in WholeTexts(n)
    BY DEF FilesWhole, WholeTexts, SentTexts
  <2>1. link["file"][n] = <<n, "file">> \/ link["file"][n] \in Clients \X {"file"}
    BY DEF WholeInv, OwnLinks, Exists
  <2>2. CASE link["file"][n] = <<n, "file">>
    BY <2>2 DEF WholeInv, StoredAt
  <2>3. CASE link["file"][n] \in Clients \X {"file"}
    <3>1. PICK c \in Clients : link["file"][n] = <<c, "file">>  BY <2>3
    <3> QED  BY <3>1 DEF WholeInv, StoredAt, WholeTexts
  <2> QED  BY <2>1, <2>2, <2>3
<1>2. WholeInv /\ [Next]_vars => WholeInv'  BY NextWhole
<1> QED  BY InitWhole, <1>1, <1>2, PTL DEF Spec

=============================================================================
