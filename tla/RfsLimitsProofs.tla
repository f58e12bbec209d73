-------------------------- MODULE RfsLimitsProofs ---------------------------
(***************************************************************************)
(* Proofs about the remote file system with a limit on descriptors and     *)
(* threads, for any limits and any finite number of clients.               *)
(*                                                                         *)
(* First, that the invariants of Rfs survive the steps that the limits     *)
(* add; then that the descriptors of handlers that have ended never fill   *)
(* the table; last, that with enough of both there are no limits.          *)
(***************************************************************************)
EXTENDS RfsLimits, OrderProofs, FiniteSetTheorems

(***************************************************************************)
(* The steps that the limits add keep TurnInv.                             *)
(***************************************************************************)
LEMMA SpawnRefusedTurns ==
  ASSUME TurnInv, SpawnRefused, UNCHANGED clientVars
  PROVE  TurnInv'
<1>1. CASE ServerDies("signal")
  <2>1. TypeInv'  BY <1>1, DeathType DEF TurnInv
  <2>2. TurnsTaken' /\ QueueOrdered'  BY <1>1, ServerEnds
  <2> QED  BY <2>1, <2>2 DEF TurnInv
<1>2. CASE /\ buf' = [buf EXCEPT !.split = TRUE] /\ mpc' = "accept"
           /\ UNCHANGED <<why, cur, handlerVars, conn, disk>>
  <2> USE <1>2 DEF handlerVars, conn, disk, clientVars
  <2>1. buf' \in [of : Clients \cup {None}, split : BOOLEAN] /\ buf'.of = buf.of
    BY DEF TurnInv, TypeInv, TypeOK, ServerTypeOK
  <2>2. TypeInv'
    BY <2>1 DEF TurnInv, TypeInv, TypeOK, ServerTypeOK, ClientTypeOK, ConnTypeOK,
      DiskTypeOK, RequestsKnown, PathsKnown, OpenKnown
  <2>3. TurnsTaken'  BY DEF TurnInv, TurnsTaken, ClientTurn, ServerTurn, Working
  <2>4. QueueOrdered'  BY DEF TurnInv, QueueOrdered
  <2> QED  BY <2>2, <2>3, <2>4 DEF TurnInv
<1> QED  BY <1>1, <1>2 DEF SpawnRefused

LEMMA OpenRefusedTurns ==
  ASSUME TurnInv, NEW c \in Clients, OpenRefused(c), UNCHANGED clientVars
  PROVE  TurnInv'
<1> USE DEF mainVars, conn, disk, clientVars, Goto
<1>1. /\ pc' = [pc EXCEPT ![c] = pc'[c]]
      /\ \/ /\ pc[c] \in {"w_check", "w_openmeta", "w_openfile", "g_open", "r_check",
                          "r_openmeta", "r_openfile"}
            /\ pc'[c] \in {"w_openmeta", "r_recheck", "close"}
            /\ pc'[c] = "w_openmeta" => pc[c] = "w_check"
            /\ pc'[c] = "r_recheck" => pc[c] = "r_check"
         \/ pc[c] \in {"r_recheck", "l_open"} /\ pc'[c] = "reply"
  BY TurnTypes DEF OpenRefused, AfterRefusal, Answer
<1>2. out' \in [Clients -> Text]
  <2>1. Note("absent") \in Text /\ Note("nofile") \in Text  BY NoteText DEF Notes
  <2> QED
    BY <2>1 DEF OpenRefused, Answer, TurnInv, TypeInv, TypeOK, ServerTypeOK
<1>3. UNCHANGED <<op, perm, path, mfd, fd, mainVars, conn, disk, clientVars>>
  BY DEF OpenRefused
<1>4. TypeInv'
  <2>1. pc' \in [Clients -> HandlerPCs]  BY <1>1, TurnTypes DEF HandlerPCs
  <2>2. TypeOK'
    BY <1>2, <1>3, <2>1 DEF TurnInv, TypeInv, TypeOK, ServerTypeOK, ClientTypeOK,
      ConnTypeOK, DiskTypeOK
  <2>3. RequestsKnown'  BY <1>3 DEF TurnInv, TypeInv, RequestsKnown
  <2>4. PathsKnown'  BY <1>1, <1>3, TurnTypes DEF TurnInv, TypeInv, PathsKnown
  <2>5. OpenKnown'  BY <1>1, <1>3, TurnTypes DEF TurnInv, TypeInv, OpenKnown
  <2> QED  BY <2>2, <2>3, <2>4, <2>5 DEF TypeInv
<1>5. TurnsTaken' /\ QueueOrdered'
  <2>1. Moves(c)  BY <1>1, <1>3 DEF Moves
  <2>2. Working(c) /\ (pc'[c] \in Sending => pc[c] \in Sending)
    BY <1>1 DEF Working, Sending
  <2> QED  BY <1>3, <2>1, <2>2, HandlerWorks
<1> QED  BY <1>4, <1>5 DEF TurnInv

LEMMA LimitedTurns == TurnInv /\ [LimitedNext]_vars => TurnInv'
<1> SUFFICES ASSUME TurnInv, [LimitedNext]_vars PROVE TurnInv'
  OBVIOUS
<1>1. CASE [Next]_vars  BY <1>1, NextTurns
<1>2. CASE LimitedMain
  <2>1. CASE MainStep  BY <1>1, <1>2, <2>1 DEF LimitedMain, Next, Main
  <2>2. CASE SpawnRefused  BY <1>2, <2>2, SpawnRefusedTurns DEF LimitedMain
  <2> QED  BY <1>2, <2>1, <2>2 DEF LimitedMain
<1>3. ASSUME NEW c \in Clients, LimitedHandler(c) PROVE TurnInv'
  <2>1. CASE HandlerStep(c)  BY <1>1, <1>3, <2>1 DEF LimitedHandler, Next, Handler
  <2>2. CASE OpenRefused(c)  BY <1>3, <2>2, OpenRefusedTurns DEF LimitedHandler
  <2> QED  BY <1>3, <2>1, <2>2 DEF LimitedHandler
<1> QED  BY <1>1, <1>2, <1>3 DEF LimitedNext, Next, AcceptFails

\* Refused descriptors and threads, and the connections they leave behind, do
\* not bring two texts under way at once on a connection either.
THEOREM LockStepAtLimits == LimitedSpec => []LockStep
<1> QED  BY InitTurns, LimitedTurns, TurnsLockStep, PTL DEF LimitedSpec

(***************************************************************************)
(* Descriptors are counted.                                                *)
(***************************************************************************)
LEMMA OpenFinite ==
  /\ IsFiniteSet(OpenSockets) /\ IsFiniteSet(OpenFiles)
  /\ Cardinality(OpenSockets) \in Nat /\ Cardinality(OpenFiles) \in Nat
<1>1. IsFiniteSet(Clients)  BY LimitsAssumption
<1>2. IsFiniteSet({"meta", "data"})
  <2>1. IsFiniteSet({"meta"})  BY FS_Singleton
  <2>2. {"meta", "data"} = {"meta"} \cup {"data"}  OBVIOUS
  <2> QED  BY <2>1, <2>2, FS_AddElement
<1>3. IsFiniteSet(Clients \X {"meta", "data"})  BY <1>1, <1>2, FS_Product
<1>4. OpenSockets \in SUBSET Clients  BY DEF OpenSockets
<1>5. OpenFiles \in SUBSET (Clients \X {"meta", "data"})  BY DEF OpenFiles
<1>6. IsFiniteSet(OpenSockets) /\ IsFiniteSet(OpenFiles)
  BY <1>1, <1>3, <1>4, <1>5, FS_Subset
<1> QED  BY <1>6, FS_CardinalityType

\* A set that grows by one element at most.
LEMMA OneMore ==
  ASSUME NEW S, NEW T, IsFiniteSet(S), NEW x, T \subseteq S \cup {x}
  PROVE  IsFiniteSet(T) /\ Cardinality(T) <= Cardinality(S) + 1
<1>1. /\ IsFiniteSet(S \cup {x})
      /\ \/ Cardinality(S \cup {x}) = Cardinality(S)
         \/ Cardinality(S \cup {x}) = Cardinality(S) + 1
  <2>1. /\ IsFiniteSet(S \cup {x})
        /\ Cardinality(S \cup {x}) =
             IF x \in S THEN Cardinality(S) ELSE Cardinality(S) + 1
    BY FS_AddElement
  <2> QED  BY <2>1
<1>2. IsFiniteSet(T) /\ Cardinality(T) <= Cardinality(S \cup {x})  BY <1>1, FS_Subset
<1>3. /\ Cardinality(S) \in Nat /\ Cardinality(T) \in Nat
      /\ Cardinality(S \cup {x}) \in Nat
  BY <1>1, <1>2, FS_CardinalityType
<1> QED  BY <1>1, <1>2, <1>3

LEMMA OneLess ==
  ASSUME NEW S, NEW T, IsFiniteSet(S), NEW x \in S, T \subseteq S \ {x}
  PROVE  Cardinality(T) <= Cardinality(S) - 1 /\ Cardinality(S) >= 1
<1>1. IsFiniteSet(S \ {x}) /\ Cardinality(S \ {x}) = Cardinality(S) - 1
  BY FS_RemoveElement
<1>2. Cardinality(T) <= Cardinality(S \ {x})  BY <1>1, FS_Subset
<1>3. Cardinality(S) \in Nat /\ Cardinality(S \ {x}) \in Nat
  BY <1>1, FS_CardinalityType
<1> QED  BY <1>1, <1>2, <1>3

(***************************************************************************)
(* The invariant: a handler that has ended has closed its connection, and  *)
(* what is open fits the table.                                            *)
(***************************************************************************)
DoneClosed == \A c \in Clients : pc[c] = "done" => srv[c] = "closed"

LimitInv == TurnInv /\ DoneClosed /\ InUse <= MaxFiles /\ LeaksLeaveRoom

LEMMA LostFiles ==
  ASSUME TurnInv, DoneClosed
  PROVE  Lost = {f \in OpenFiles : f[1] \in Ended} /\ Lost \subseteq OpenFiles
<1>1. OpenSockets \cap Ended = {}
  BY DEF OpenSockets, Ended, DoneClosed, Usable
<1> QED  BY <1>1 DEF Lost

\* No descriptor is opened: nothing gets worse.
LEMMA NothingOpened ==
  ASSUME LimitInv, TurnInv', DoneClosed',
         OpenSockets' \subseteq OpenSockets, OpenFiles' \subseteq OpenFiles,
         Lost' \subseteq Lost
  PROVE  LimitInv'
<1>1. Cardinality(OpenSockets') <= Cardinality(OpenSockets)  BY OpenFinite, FS_Subset
<1>2. Cardinality(OpenFiles') <= Cardinality(OpenFiles)  BY OpenFinite, FS_Subset
<1>3. IsFiniteSet(Lost)  BY LostFiles, OpenFinite, FS_Subset DEF LimitInv
<1>4. Cardinality(Lost') <= Cardinality(Lost)  BY <1>3, FS_Subset
<1>5. IsFiniteSet(OpenSockets') /\ IsFiniteSet(OpenFiles') /\ IsFiniteSet(Lost')
  BY <1>3, OpenFinite, FS_Subset
<1>6. /\ Cardinality(OpenSockets') \in Nat /\ Cardinality(OpenFiles') \in Nat
      /\ Cardinality(Lost') \in Nat /\ Cardinality(Lost) \in Nat
  BY <1>3, <1>5, FS_CardinalityType
<1> QED
  BY <1>1, <1>2, <1>4, <1>6, OpenFinite, LimitsAssumption
  DEF LimitInv, InUse, LeaksLeaveRoom

\* One descriptor is opened, where there is room for it.
LEMMA OneOpened ==
  ASSUME LimitInv, TurnInv', DoneClosed', Room, NEW x,
         \/ OpenSockets' \subseteq OpenSockets /\ OpenFiles' \subseteq OpenFiles \cup {x}
         \/ OpenSockets' \subseteq OpenSockets \cup {x} /\ OpenFiles' \subseteq OpenFiles,
         Lost' \subseteq Lost
  PROVE  LimitInv'
<1>1. /\ IsFiniteSet(OpenSockets') /\ IsFiniteSet(OpenFiles')
      /\ \/ /\ Cardinality(OpenSockets') <= Cardinality(OpenSockets)
            /\ Cardinality(OpenFiles') <= Cardinality(OpenFiles) + 1
         \/ /\ Cardinality(OpenSockets') <= Cardinality(OpenSockets) + 1
            /\ Cardinality(OpenFiles') <= Cardinality(OpenFiles)
  <2>1. CASE OpenSockets' \subseteq OpenSockets /\ OpenFiles' \subseteq OpenFiles \cup {x}
    BY <2>1, OpenFinite, FS_Subset, OneMore
  <2>2. CASE OpenSockets' \subseteq OpenSockets \cup {x} /\ OpenFiles' \subseteq OpenFiles
    BY <2>2, OpenFinite, FS_Subset, OneMore
  <2> QED  BY <2>1, <2>2
<1>2. IsFiniteSet(Lost)  BY LostFiles, OpenFinite, FS_Subset DEF LimitInv
<1>3. Cardinality(Lost') <= Cardinality(Lost) /\ IsFiniteSet(Lost')  BY <1>2, FS_Subset
<1>4. /\ Cardinality(OpenSockets') \in Nat /\ Cardinality(OpenFiles') \in Nat
      /\ Cardinality(Lost') \in Nat /\ Cardinality(Lost) \in Nat
  BY <1>1, <1>2, <1>3, FS_CardinalityType
<1> QED
  BY <1>1, <1>3, <1>4, OpenFinite, LimitsAssumption
  DEF LimitInv, InUse, Room, LeaksLeaveRoom

\* A handler ends: what it leaves open was in the table beside its socket.
LEMMA SocketClosed ==
  ASSUME LimitInv, TurnInv', DoneClosed', NEW c \in OpenSockets,
         OpenSockets' \subseteq OpenSockets \ {c}, OpenFiles' \subseteq OpenFiles
  PROVE  LimitInv'
<1>1. /\ Cardinality(OpenSockets') <= Cardinality(OpenSockets) - 1
      /\ Cardinality(OpenSockets) >= 1
  BY OpenFinite, OneLess
<1>2. Cardinality(OpenFiles') <= Cardinality(OpenFiles) /\ IsFiniteSet(OpenFiles')
  BY OpenFinite, FS_Subset
<1>3. Lost' \subseteq OpenFiles'
  <2>1. (OpenSockets \cap Ended)' = {}
    BY DEF OpenSockets, Ended, DoneClosed, Usable
  <2> QED  BY <2>1 DEF Lost
<1>4. Cardinality(Lost') <= Cardinality(OpenFiles) /\ IsFiniteSet(Lost')
  BY <1>3, OpenFinite, FS_Subset
<1>5. IsFiniteSet(OpenSockets')  BY OpenFinite, FS_Subset
<1>6. /\ Cardinality(OpenSockets') \in Nat /\ Cardinality(OpenFiles') \in Nat
      /\ Cardinality(Lost') \in Nat
  BY <1>2, <1>4, <1>5, FS_CardinalityType
<1> QED
  BY <1>1, <1>2, <1>4, <1>6, OpenFinite, LimitsAssumption
  DEF LimitInv, InUse, LeaksLeaveRoom

(***************************************************************************)
(* What a step of a handler does to the descriptors.                       *)
(***************************************************************************)
Linked == \A d \in Clients :
  /\ srv'[d] \in Usable <=> srv[d] \in Usable
  /\ srv[d] = "closed" => srv'[d] = "closed"

LEMMA SrvLinked ==
  ASSUME TurnInv, NEW c \in Clients,
         \/ \E m : SrvSend(c, m)
         \/ SrvSendError(c) \/ SrvRecv(c) \/ UNCHANGED conn
  PROVE  Linked
BY TurnTypes DEF Linked, SrvSend, SrvSendError, SrvRecv, conn, ConnTypeOK, Usable

\* Only handler c moves on, and it does not end.
Continues(c) ==
  /\ Working(c) /\ pc'[c] # "done"
  /\ pc' = [pc EXCEPT ![c] = pc'[c]]
  /\ mfd' = [mfd EXCEPT ![c] = mfd'[c]] /\ fd' = [fd EXCEPT ![c] = fd'[c]]

OpensNothing(c) == /\ mfd'[c] # None => mfd[c] # None
                   /\ fd'[c] # None => fd[c] # None
OpensAFile(c) == pc[c] \in Opening /\ (mfd' = mfd \/ fd' = fd)

LEMMA HandlerDescriptors ==
  ASSUME TurnInv, NEW c \in Clients, HandlerStep(c), ~Sigpipe(c), ~Close(c)
  PROVE  Continues(c) /\ Linked /\ (OpensNothing(c) \/ OpensAFile(c))
<1>1. /\ pc \in [Clients -> HandlerPCs] /\ mfd \in [Clients -> Inodes \cup {None}]
      /\ fd \in [Clients -> Inodes \cup {None, Empty}]
  BY DEF TurnInv, TypeInv, TypeOK, ServerTypeOK
<1> USE <1>1, SrvLinked
    DEF Continues, OpensNothing, OpensAFile, Opening, AfterRefusal, Working, Goto, Answer
<1>2. CASE Start(c) \/ Reply(c)
  <2>1. CASE Start(c)  BY <2>1 DEF Start
  <2>2. CASE Reply(c)  BY <2>2 DEF Reply
  <2> QED  BY <1>2, <2>1, <2>2
<1>3. CASE Write(c)
  <2>1. CASE WritePermission(c)  BY <2>1 DEF WritePermission
  <2>2. CASE WriteAck(c)  BY <2>2 DEF WriteAck
  <2>3. CASE WriteCheck(c)  BY <2>3 DEF WriteCheck
  <2>4. CASE WriteDrain(c)  BY <2>4 DEF WriteDrain
  <2>5. CASE WriteOpenMeta(c)  BY <2>5 DEF WriteOpenMeta
  <2>6. CASE WriteMeta(c)  BY <2>6 DEF WriteMeta
  <2>7. CASE WritePath(c)  BY <2>7 DEF WritePath
  <2>8. CASE WriteOpenFile(c)  BY <2>8 DEF WriteOpenFile
  <2>9. CASE WriteStore(c)  BY <2>9 DEF WriteStore
  <2> QED  BY <1>3, <2>1, <2>2, <2>3, <2>4, <2>5, <2>6, <2>7, <2>8, <2>9 DEF Write
<1>4. CASE Get(c)
  <2>1. CASE GetPath(c)  BY <2>1 DEF GetPath
  <2>2. CASE GetOpen(c)  BY <2>2 DEF GetOpen
  <2>3. CASE GetRead(c)  BY <2>3 DEF GetRead
  <2>4. CASE GetSend(c)  BY <2>4 DEF GetSend
  <2>5. CASE GetAck(c)  BY <2>5 DEF GetAck
  <2> QED  BY <1>4, <2>1, <2>2, <2>3, <2>4, <2>5 DEF Get
<1>5. CASE Rm(c)
  <2>1. CASE RmPath(c)  BY <2>1 DEF RmPath
  <2>2. CASE RmCheck(c)  BY <2>2 DEF RmCheck
  <2>3. CASE RmRecheck(c)  BY <2>3 DEF RmRecheck
  <2>4. CASE RmOpenMeta(c)  BY <2>4 DEF RmOpenMeta
  <2>5. CASE RmUnlinkMeta(c)  BY <2>5 DEF RmUnlinkMeta
  <2>6. CASE RmPath2(c)  BY <2>6 DEF RmPath2
  <2>7. CASE RmOpenFile(c)  BY <2>7 DEF RmOpenFile
  <2>8. CASE RmUnlinkFile(c)  BY <2>8 DEF RmUnlinkFile
  <2> QED  BY <1>5, <2>1, <2>2, <2>3, <2>4, <2>5, <2>6, <2>7, <2>8 DEF Rm
<1>6. CASE Ls(c)
  <2>1. CASE LsPath(c)  BY <2>1 DEF LsPath
  <2>2. CASE LsOpen(c)  BY <2>2 DEF LsOpen
  <2>3. CASE LsRead(c)  BY <2>3 DEF LsRead
  <2>4. CASE LsSend(c)  BY <2>4 DEF LsSend
  <2> QED  BY <1>6, <2>1, <2>2, <2>3, <2>4 DEF Ls
<1> QED  BY <1>2, <1>3, <1>4, <1>5, <1>6 DEF HandlerStep

(***************************************************************************)
(* Every step of the limited system keeps the invariant.                   *)
(***************************************************************************)
LEMMA LostAreFiles ==
  DoneClosed' => Lost' = {f \in OpenFiles' : f[1] \in Ended'}
<1> SUFFICES ASSUME DoneClosed' PROVE Lost' = {f \in OpenFiles' : f[1] \in Ended'}
  OBVIOUS
<1>1. OpenSockets' \cap Ended' = {}
  BY DEF OpenSockets, Ended, DoneClosed, Usable
<1> QED  BY <1>1 DEF Lost

\* Nobody ends, and no file is opened or closed.
LEMMA FilesUntouched ==
  ASSUME LimitInv, TurnInv', DoneClosed', UNCHANGED <<mfd, fd>>,
         \A c \in Clients : pc'[c] = "done" <=> pc[c] = "done"
  PROVE  OpenFiles' = OpenFiles /\ Lost' \subseteq Lost
<1>1. OpenFiles' = OpenFiles /\ Ended' = Ended  BY DEF OpenFiles, Ended
<1> QED  BY <1>1, LostAreFiles, LostFiles DEF LimitInv

LEMMA ServerEndsFreely ==
  ASSUME LimitInv, TurnInv', NEW reason, ServerDies(reason)
  PROVE  LimitInv'
<1>1. DoneClosed'
  BY TurnTypes
  DEF LimitInv, DoneClosed, ServerDies, SrvCloseAll, Working, TurnInv
<1>2. OpenSockets' = {} /\ OpenFiles' = {}
  BY DEF ServerDies, SrvCloseAll, OpenSockets, OpenFiles, Usable
<1>3. Lost' = {}  BY <1>1, <1>2, LostAreFiles
<1> QED  BY <1>1, <1>2, <1>3, NothingOpened

LEMMA HandlerStepsWithin ==
  ASSUME LimitInv, TurnInv', NEW c \in Clients, HandlerStep(c),
         pc[c] \in Opening => Room
  PROVE  LimitInv'
<1> USE DEF LimitInv
<1>1. CASE Sigpipe(c)  BY <1>1, ServerEndsFreely DEF Sigpipe
<1>2. CASE Close(c)
  <2>1. c \in OpenSockets
    BY <1>2, TurnTypes
    DEF Close, OpenSockets, TurnInv, TurnsTaken, QueueOrdered, Working, ConnTypeOK
  <2>2. DoneClosed'
    BY <1>2, TurnTypes DEF Close, Goto, SrvClose, DoneClosed, ConnTypeOK
  <2>3. OpenSockets' \subseteq OpenSockets \ {c}
    BY <1>2, TurnTypes DEF Close, SrvClose, OpenSockets, ConnTypeOK, Usable
  <2>4. OpenFiles' = OpenFiles  BY <1>2 DEF Close, OpenFiles
  <2> QED  BY <2>1, <2>2, <2>3, <2>4, SocketClosed
<1>3. CASE ~Sigpipe(c) /\ ~Close(c)
  <2>1. Continues(c) /\ Linked /\ (OpensNothing(c) \/ OpensAFile(c))
    BY <1>3, HandlerDescriptors
  <2>2. /\ mfd \in [Clients -> Inodes \cup {None}]
        /\ fd \in [Clients -> Inodes \cup {None, Empty}]
        /\ pc \in [Clients -> HandlerPCs]
    BY DEF TurnInv, TypeInv, TypeOK, ServerTypeOK
  <2>3. Ended' = Ended /\ c \notin Ended
    BY <2>1, <2>2 DEF Continues, Ended, Working
  <2>4. OpenSockets' = OpenSockets /\ DoneClosed'
    BY <2>1, <2>3 DEF Linked, OpenSockets, DoneClosed, Ended
  <2>5. \A f \in OpenFiles' : f \in OpenFiles \/ f \in {<<c, "meta">>, <<c, "data">>}
    BY <2>1, <2>2 DEF Continues, OpenFiles
  <2>6. Lost' \subseteq Lost
    <3>1. Lost' = {f \in OpenFiles' : f[1] \in Ended}  BY <2>3, <2>4, LostAreFiles
    <3>2. Lost = {f \in OpenFiles : f[1] \in Ended}  BY LostFiles
    <3> QED  BY <2>3, <2>5, <3>1, <3>2
  <2>7. CASE OpensNothing(c)
    <3>1. OpenFiles' \subseteq OpenFiles
      BY <2>1, <2>2, <2>7 DEF Continues, OpensNothing, OpenFiles
    <3> QED  BY <2>4, <2>6, <3>1, NothingOpened
  <2>8. CASE OpensAFile(c)
    <3>1. \E x : OpenFiles' \subseteq OpenFiles \cup {x}
      <4>1. CASE mfd' = mfd
        <5>1. OpenFiles' \subseteq OpenFiles \cup {<<c, "data">>}
          BY <2>1, <2>2, <4>1 DEF Continues, OpenFiles
        <5> QED  BY <5>1
      <4>2. CASE fd' = fd
        <5>1. OpenFiles' \subseteq OpenFiles \cup {<<c, "meta">>}
          BY <2>1, <2>2, <4>2 DEF Continues, OpenFiles
        <5> QED  BY <5>1
      <4> QED  BY <2>8, <4>1, <4>2 DEF OpensAFile
    <3>2. Room  BY <2>8 DEF OpensAFile
    <3> QED  BY <2>4, <2>6, <3>1, <3>2, OneOpened
  <2> QED  BY <2>1, <2>7, <2>8
<1> QED  BY <1>1, <1>2, <1>3

LEMMA MainStepsWithin ==
  ASSUME LimitInv, TurnInv', LimitedMain
  PROVE  LimitInv'
<1> USE DEF LimitInv
<1>1. CASE \E reason : ServerDies(reason)  BY <1>1, ServerEndsFreely
<1>2. ASSUME NEW c \in Clients, Accept(c), mpc = "accept" => Room PROVE LimitInv'
  <2>1. UNCHANGED <<pc, mfd, fd>> /\ srv' = [srv EXCEPT ![c] = "open"] /\ Room
    BY <1>2 DEF Accept, SrvAccept, handlerVars
  <2>2. srv[c] = "queued" /\ pc[c] = "none"
    <3>1. backlog \in Seq(Clients) /\ backlog # <<>> /\ c = backlog[1]
      BY <1>2, TurnTypes DEF Accept, SrvAccept, ConnTypeOK
    <3>2. 1 \in DOMAIN backlog  BY <3>1
    <3> QED  BY <3>1, <3>2 DEF TurnInv, QueueOrdered
  <2>3. DoneClosed'  BY <2>1, <2>2, TurnTypes DEF DoneClosed, ConnTypeOK
  <2>4. OpenSockets' \subseteq OpenSockets \cup {c}
    BY <2>1, TurnTypes DEF OpenSockets, ConnTypeOK
  <2>5. OpenFiles' = OpenFiles /\ Lost' \subseteq Lost
    BY <2>1, <2>3, FilesUntouched
  <2> QED  BY <2>1, <2>3, <2>4, <2>5, OneOpened
<1>3. CASE /\ UNCHANGED <<mfd, fd>>
           /\ \A c \in Clients : pc'[c] = "done" <=> pc[c] = "done"
           /\ \A c \in Clients : srv'[c] = srv[c] \/ srv'[c] = "closed"
  <2>1. DoneClosed'  BY <1>3 DEF DoneClosed
  <2>2. OpenSockets' \subseteq OpenSockets  BY <1>3 DEF OpenSockets, Usable
  <2> QED  BY <1>3, <2>1, <2>2, FilesUntouched, NothingOpened
<1>4. CASE RecvCommand \/ ParseStop \/ ParseSkip
  BY <1>3, <1>4, TurnTypes
  DEF RecvCommand, ParseStop, ParseSkip, SrvRecv, SrvClose, handlerVars, ConnTypeOK
<1>5. CASE ParseSpawn
  <2>1. pc[cur] = "none" /\ cur \in Clients
    BY <1>5, TurnTypes DEF ParseSpawn, TurnInv, QueueOrdered
  <2> QED  BY <1>3, <1>5, <2>1, TurnTypes DEF ParseSpawn, Goto, conn
<1>6. CASE SpawnRefused
  BY <1>1, <1>3, <1>6 DEF SpawnRefused, handlerVars, conn
<1>7. CASE RecvNothing \/ Exit  BY <1>1, <1>7 DEF RecvNothing, Exit
<1> QED  BY <1>2, <1>4, <1>5, <1>6, <1>7 DEF LimitedMain, MainStep

\* A step that is not the server's.
LEMMA OthersWithin ==
  ASSUME LimitInv, TurnInv', UNCHANGED <<mfd, fd>>, Linked,
         \A c \in Clients : pc'[c] = "done" <=> pc[c] = "done"
  PROVE  LimitInv'
<1>1. DoneClosed'  BY DEF LimitInv, DoneClosed, Linked
<1>2. OpenSockets' = OpenSockets  BY DEF OpenSockets, Linked
<1> QED  BY <1>1, <1>2, FilesUntouched, NothingOpened

LEMMA LimitedWithin == LimitInv /\ [LimitedNext]_vars => LimitInv'
<1> SUFFICES ASSUME LimitInv, [LimitedNext]_vars PROVE LimitInv'
  OBVIOUS
<1>1. TurnInv'  BY LimitedTurns DEF LimitInv
<1>2. CASE UNCHANGED vars
  BY <1>1, <1>2, OthersWithin
  DEF vars, serverVars, handlerVars, conn, Linked
<1>3. CASE LimitedMain  BY <1>1, <1>3, MainStepsWithin
<1>4. ASSUME NEW c \in Clients, LimitedHandler(c) PROVE LimitInv'
  <2>1. CASE HandlerStep(c) /\ (pc[c] \in Opening => Room)
    BY <1>1, <2>1, HandlerStepsWithin
  <2>2. CASE OpenRefused(c)
    <3>1. UNCHANGED <<mfd, fd>> /\ Linked
      BY <2>2 DEF OpenRefused, conn, Linked
    <3>2. \A d \in Clients : pc'[d] = "done" <=> pc[d] = "done"
      BY <2>2, TurnTypes
      DEF OpenRefused, Opening, AfterRefusal, Goto, Answer, LimitInv
    <3> QED  BY <1>1, <3>1, <3>2, OthersWithin
  <2> QED  BY <1>4, <2>1, <2>2 DEF LimitedHandler
<1>5. ASSUME NEW c \in Clients, Client(c) \/ Launch(c) \/ Kill(c) PROVE LimitInv'
  <2>1. UNCHANGED <<pc, mfd, fd>>
    BY <1>5 DEF Client, Launch, Kill, serverVars, handlerVars
  <2>2. UNCHANGED srv \/ CliClose(c) \/ Connect(c)
    BY <1>5
    DEF Client, Launch, Kill, Killed, ClientStep, SendRequest, CloseSocket, AwaitAck,
      SendFile, OpenLocal, Fetch, Confirm, AwaitResult, ConnectRefused,
      CliSend, CliRecv, conn
  <2>3. Linked
    <3>1. CASE UNCHANGED srv  BY <3>1 DEF Linked
    <3>2. CASE CliClose(c)
      BY <3>2, TurnTypes DEF CliClose, Linked, Usable, ConnTypeOK, LimitInv
    <3>3. CASE Connect(c)
      <4>1. srv' = [srv EXCEPT ![c] = "queued"] /\ cpc[c] = "idle"
        BY <3>3 DEF Connect, CliConnect, At
      <4>2. srv[c] = "none"  BY <4>1 DEF LimitInv, TurnInv, TurnsTaken
      <4> QED  BY <4>1, <4>2, TurnTypes DEF Linked, Usable, ConnTypeOK, LimitInv
    <3> QED  BY <2>2, <3>1, <3>2, <3>3
  <2> QED  BY <1>1, <2>1, <2>3, OthersWithin
<1> QED
  BY <1>2, <1>3, <1>4, <1>5 DEF LimitedNext, AcceptFails, Finished

LEMMA InitWithin == Init => LimitInv
<1> SUFFICES ASSUME Init PROVE LimitInv
  OBVIOUS
<1>1. TurnInv  BY InitTurns
<1>2. DoneClosed  BY DEF Init, ServerInit, DoneClosed
<1>3. OpenSockets = {} /\ OpenFiles = {}
  BY DEF Init, ServerInit, ConnInit, OpenSockets, OpenFiles, Usable
<1>4. Lost = {}  BY <1>3 DEF Lost
<1> QED
  BY <1>1, <1>2, <1>3, <1>4, FS_EmptySet, LimitsAssumption
  DEF LimitInv, InUse, LeaksLeaveRoom

\* However many users there are and however low the limits, the descriptors
\* that LS, RM and GET leave open (serverHandler.c:456, 404, 261) never fill
\* the table: accept (server.c:104) gets a descriptor once the handlers at
\* work have ended.
THEOREM LeaksAlwaysLeaveRoom == LimitedSpec => []LeaksLeaveRoom
<1>1. LimitInv => LeaksLeaveRoom  BY DEF LimitInv
<1> QED  BY InitWithin, LimitedWithin, <1>1, PTL DEF LimitedSpec

(***************************************************************************)
(* With three descriptors for each client, its connection and two files,   *)
(* and a thread for each, nothing is ever refused: at a place where a      *)
(* handler opens something it has a file less than that, and the client    *)
(* that the loop is about to serve has no thread yet.                      *)
(***************************************************************************)
EnoughRoom ==
  MaxFiles >= 3 * Cardinality(Clients) /\ MaxThreads >= Cardinality(Clients)

LEMMA FilesPerClient ==
  /\ IsFiniteSet(Clients \X {"meta", "data"})
  /\ Cardinality(Clients \X {"meta", "data"}) = 2 * Cardinality(Clients)
  /\ Cardinality(Clients) \in Nat
<1>1. IsFiniteSet(Clients)  BY LimitsAssumption
<1>2. IsFiniteSet({"meta"}) /\ Cardinality({"meta"}) = 1  BY FS_Singleton
<1>3. {"meta", "data"} = {"meta"} \cup {"data"} /\ "data" \notin {"meta"}  OBVIOUS
<1>4. IsFiniteSet({"meta", "data"}) /\ Cardinality({"meta", "data"}) = 2
  <2>1. /\ IsFiniteSet({"meta"} \cup {"data"})
        /\ Cardinality({"meta"} \cup {"data"}) = 1 + 1
    BY <1>2, <1>3, FS_AddElement
  <2> QED  BY <1>3, <2>1
<1>5. /\ IsFiniteSet(Clients \X {"meta", "data"})
      /\ Cardinality(Clients \X {"meta", "data"}) =
           Cardinality(Clients) * Cardinality({"meta", "data"})
  BY <1>1, <1>4, FS_Product
<1>6. Cardinality(Clients) \in Nat  BY <1>1, FS_CardinalityType
<1> QED  BY <1>4, <1>5, <1>6

LEMMA OpeningHasRoom ==
  ASSUME EnoughRoom, LeakInv, NEW c \in Clients, pc[c] \in Opening
  PROVE  Room
<1>1. mfd[c] = None \/ fd[c] = None
  BY DEF LeakInv, Accounted, MetaOpen, FileOpen, Opening, AfterRefusal
<1>2. PICK x \in Clients \X {"meta", "data"} : x \notin OpenFiles
  <2>1. CASE mfd[c] = None
    <3>1. <<c, "meta">> \notin OpenFiles  BY <2>1 DEF OpenFiles
    <3> QED  BY <3>1
  <2>2. CASE fd[c] = None
    <3>1. <<c, "data">> \notin OpenFiles  BY <2>2 DEF OpenFiles
    <3> QED  BY <3>1
  <2> QED  BY <1>1, <2>1, <2>2
<1>3. OpenFiles \subseteq (Clients \X {"meta", "data"}) \ {x}
  BY <1>2 DEF OpenFiles
<1>4. Cardinality(OpenFiles) <= 2 * Cardinality(Clients) - 1
  BY <1>2, <1>3, FilesPerClient, OneLess
<1>5. Cardinality(OpenSockets) <= Cardinality(Clients)
  BY LimitsAssumption, FS_Subset DEF OpenSockets
<1> QED
  BY <1>4, <1>5, FilesPerClient, OpenFinite, LimitsAssumption
  DEF EnoughRoom, Room, InUse

LEMMA SpawnHasThread ==
  ASSUME EnoughRoom, LeakInv, mpc = "parse"
  PROVE  ThreadsLeft
<1>1. cur \in Clients /\ ~Working(cur)
  BY TurnTypes DEF LeakInv, TurnInv, QueueOrdered, Working
<1>2. {c \in Clients : Working(c)} \subseteq Clients \ {cur}  BY <1>1
<1>3. Cardinality({c \in Clients : Working(c)}) <= Cardinality(Clients) - 1
  BY <1>1, <1>2, LimitsAssumption, OneLess
<1>4. Cardinality({c \in Clients : Working(c)}) \in Nat
  BY LimitsAssumption, FS_Subset, FS_CardinalityType
<1> QED
  BY <1>3, <1>4, FilesPerClient, LimitsAssumption DEF EnoughRoom, ThreadsLeft

LEMMA NothingRefused ==
  ASSUME EnoughRoom, LeakInv, [LimitedNext]_vars
  PROVE  [Next]_vars
<1>1. CASE LimitedMain
  <2>1. ~SpawnRefused  BY SpawnHasThread DEF SpawnRefused
  <2> QED  BY <1>1, <2>1 DEF LimitedMain, Next, Main
<1>2. ASSUME NEW c \in Clients, LimitedHandler(c) PROVE [Next]_vars
  <2>1. ~OpenRefused(c)  BY OpeningHasRoom DEF OpenRefused
  <2> QED  BY <1>2, <2>1 DEF LimitedHandler, Next, Handler
<1> QED  BY <1>1, <1>2 DEF LimitedNext, Next, AcceptFails

\* For any number of clients, a process that may have three descriptors for each
\* of them, and a thread, does what one without limits does, whatever LS, RM and
\* GET leave open (serverHandler.c:456, 404, 261): accept, open, fopen and
\* pthread_create (server.c:104, 141) never fail for want of one.
THEOREM RoomIsEnough == ASSUME EnoughRoom PROVE LimitedSpec => Spec
<1>1. LeakInv /\ [LimitedNext]_vars => LeakInv' /\ [Next]_vars
  BY NothingRefused, NextAccounted
<1> QED  BY InitAccounted, <1>1, PTL DEF LimitedSpec, Spec

\* So a read-only header stays, with one client after the other, as long as a
\* descriptor can be had: getPermission takes a header that it cannot open for one
\* that is not there (serverHandler.c:47, 309), but it can open it.
THEOREM ReadOnlyWithRoom ==
  ASSUME EnoughRoom, Orderly, LeftoverHeaders
  PROVE  LimitedSpec => ReadOnlyStable
BY RoomIsEnough, ReadOnlyHeadersStay, PTL

\* And the users see the atomic store of RemoteFiles.
THEOREM FilesWithRoom ==
  ASSUME EnoughRoom, Orderly, NumbersSent, LeftoverHeaders, PlainLeftovers
  PROVE  LimitedSpec => FilesImplemented
BY RoomIsEnough, FilesAreImplemented, PTL

=============================================================================
