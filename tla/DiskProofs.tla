----------------------------- MODULE DiskProofs -----------------------------
(***************************************************************************)
(* Proofs about descriptors and what is written through them, for any      *)
(* number of clients: that handlers leave descriptors open only where      *)
(* LeaksKnown says, that nothing but headers gets into the meta tree, and  *)
(* that no data file is emptied for a client that succeeds.                *)
(***************************************************************************)
EXTENDS RfsProofs

(***************************************************************************)
(* Descriptors.  The invariant says of each place in the code which        *)
(* descriptors may be open there, and on which path.                       *)
(***************************************************************************)

WritePCs == {"w_perm", "w_ack", "w_check", "w_drain", "w_openmeta", "w_writemeta",
             "w_path", "w_openfile", "w_store"}
GetPCs   == {"g_path", "g_open", "g_read", "g_send", "g_ack"}
RmPCs    == {"r_path", "r_check", "r_recheck", "r_openmeta", "r_unlinkmeta",
             "r_path2", "r_openfile", "r_unlinkfile"}
LsPCs    == {"l_path", "l_open", "l_read", "l_send"}

\* Handler c is where its command takes it.
OnPath(c) ==
  /\ pc[c] \in WritePCs => op[c] = "WRITE"
  /\ pc[c] \in GetPCs => op[c] = "GET"
  /\ pc[c] \in RmPCs => op[c] = "RM"
  /\ pc[c] \in LsPCs => op[c] = "LS"

\* GET has nothing to send until it has read something.
NothingRead(c) ==
  pc[c] \in {"none", "start", "g_path", "g_open", "g_read"} => out[c] = <<>>

MetaOpen(c) == mfd[c] # None =>
  \/ pc[c] = "w_writemeta"
  \/ /\ op[c] = "RM"
     /\ pc[c] \in {"r_unlinkmeta", "r_path2", "r_openfile", "r_unlinkfile",
                   "reply", "close", "done"}

FileOpen(c) == fd[c] # None =>
  \/ pc[c] \in {"w_store", "g_read", "g_send", "r_unlinkfile"}
  \/ op[c] = "GET" /\ out[c] = <<>> /\ pc[c] \in {"close", "done"}
  \/ op[c] = "RM" /\ out[c] = Note("removed") /\ pc[c] \in {"reply", "close", "done"}
  \/ op[c] = "LS" /\ pc[c] \in {"l_read", "l_send", "close", "done"}

Accounted(c) == OnPath(c) /\ NothingRead(c) /\ MetaOpen(c) /\ FileOpen(c)

LeakInv == TurnInv /\ \A c \in Clients : Accounted(c)

LEMMA HandlerTypes ==
  ASSUME TurnInv
  PROVE  /\ pc \in [Clients -> HandlerPCs] /\ op \in [Clients -> Handled \cup {None}]
         /\ mfd \in [Clients -> Inodes \cup {None}]
         /\ fd \in [Clients -> Inodes \cup {None, Empty}]
         /\ out \in [Clients -> Text]
BY DEF TurnInv, TypeInv, TypeOK, ServerTypeOK

\* What a handler has is its own.
OnlyOf(c) == \A d \in Clients \ {c} :
  /\ pc'[d] = pc[d] /\ op'[d] = op[d] /\ mfd'[d] = mfd[d] /\ fd'[d] = fd[d]
  /\ out'[d] = out[d]

LEMMA OthersAccounted ==
  ASSUME NEW c \in Clients, OnlyOf(c), \A d \in Clients : Accounted(d), Accounted(c)'
  PROVE  \A d \in Clients : Accounted(d)'
BY DEF OnlyOf, Accounted, OnPath, NothingRead, MetaOpen, FileOpen

LEMMA HandlerAccounted ==
  ASSUME LeakInv, NEW c \in Clients, HandlerStep(c), ~Sigpipe(c)
  PROVE  OnlyOf(c) /\ Accounted(c)'
<1>1. Accounted(c)  BY DEF LeakInv
<1> USE <1>1, HandlerTypes
    DEF LeakInv, OnlyOf, Accounted, OnPath, NothingRead, MetaOpen, FileOpen,
      WritePCs, GetPCs, RmPCs, LsPCs, Goto, Answer
<1>2. CASE Start(c)
  <2>1. PICK cmd \in CommandsRead(c) :
          /\ op' = [op EXCEPT ![c] = IF cmd \in Handled THEN cmd ELSE None]
          /\ Goto(c, CASE cmd = "WRITE" -> "w_perm"
                       [] cmd = "GET"   -> "g_path"
                       [] cmd = "RM"    -> "r_path"
                       [] cmd = "LS"    -> "l_path"
                       [] OTHER         -> "close")
    BY <1>2 DEF Start
  <2>2. pc[c] = "start" /\ UNCHANGED <<mfd, fd, out>>  BY <1>2 DEF Start
  <2>3. mfd[c] = None /\ fd[c] = None  BY <2>2
  <2>4. \/ cmd \in {"WRITE", "GET", "RM", "LS"}
           /\ op'[c] = cmd /\ pc'[c] = CASE cmd = "WRITE" -> "w_perm"
                                         [] cmd = "GET"   -> "g_path"
                                         [] cmd = "RM"    -> "r_path"
                                         [] OTHER         -> "l_path"
        \/ pc'[c] = "close"
    BY <2>1 DEF Handled
  <2> QED  BY <2>1, <2>2, <2>3, <2>4
<1>3. CASE Reply(c)  BY <1>3 DEF Reply
<1>4. CASE Close(c)  BY <1>4 DEF Close
<1>5. CASE Write(c)
  <2>1. CASE WritePermission(c)  BY <2>1 DEF WritePermission
  <2>2. CASE WriteAck(c)  BY <2>2 DEF WriteAck
  <2>3. CASE WriteCheck(c)  BY <2>3 DEF WriteCheck
  <2>4. CASE WriteDrain(c)  BY <2>4 DEF WriteDrain
  <2>5. CASE WriteOpenMeta(c)  BY <2>5 DEF WriteOpenMeta
  <2>6. CASE WriteMeta(c)  BY <2>6 DEF WriteMeta
  <2>7. CASE WritePath(c)  BY <2>7 DEF WritePath
  <2>8. CASE WriteOpenFile(c)  BY <2>8 DEF WriteOpenFile
  <2>9. CASE WriteStore(c)  BY <2>9 DEF WriteStore
  <2> QED  BY <1>5, <2>1, <2>2, <2>3, <2>4, <2>5, <2>6, <2>7, <2>8, <2>9 DEF Write
<1>6. CASE Get(c)
  <2>1. CASE GetPath(c)  BY <2>1 DEF GetPath
  <2>2. CASE GetOpen(c)  BY <2>2 DEF GetOpen
  <2>3. CASE GetRead(c)  BY <2>3 DEF GetRead
  <2>4. CASE GetSend(c)  BY <2>4 DEF GetSend
  <2>5. CASE GetAck(c)  BY <2>5 DEF GetAck
  <2> QED  BY <1>6, <2>1, <2>2, <2>3, <2>4, <2>5 DEF Get
<1>7. CASE Rm(c)
  <2>1. CASE RmPath(c)  BY <2>1 DEF RmPath
  <2>2. CASE RmCheck(c)  BY <2>2 DEF RmCheck
  <2>3. CASE RmRecheck(c)  BY <2>3 DEF RmRecheck
  <2>4. CASE RmOpenMeta(c)  BY <2>4 DEF RmOpenMeta
  <2>5. CASE RmUnlinkMeta(c)  BY <2>5 DEF RmUnlinkMeta
  <2>6. CASE RmPath2(c)  BY <2>6 DEF RmPath2
  <2>7. CASE RmOpenFile(c)  BY <2>7 DEF RmOpenFile
  <2>8. CASE RmUnlinkFile(c)  BY <2>8 DEF RmUnlinkFile
  <2> QED  BY <1>7, <2>1, <2>2, <2>3, <2>4, <2>5, <2>6, <2>7, <2>8 DEF Rm
<1>8. CASE Ls(c)
  <2>1. CASE LsPath(c)  BY <2>1 DEF LsPath
  <2>2. CASE LsOpen(c)  BY <2>2 DEF LsOpen
  <2>3. CASE LsRead(c)  BY <2>3 DEF LsRead
  <2>4. CASE LsSend(c)  BY <2>4 DEF LsSend
  <2> QED  BY <1>8, <2>1, <2>2, <2>3, <2>4 DEF Ls
<1> QED  BY <1>2, <1>3, <1>4, <1>5, <1>6, <1>7, <1>8 DEF HandlerStep

\* The end of the process closes everything.
LEMMA DeathAccounted ==
  ASSUME LeakInv, NEW reason, ServerDies(reason)
  PROVE  \A c \in Clients : Accounted(c)'
<1> SUFFICES ASSUME NEW c \in Clients PROVE Accounted(c)'
  OBVIOUS
<1>1. mfd'[c] = None /\ fd'[c] = None /\ UNCHANGED <<op, out>>
  BY DEF ServerDies
<1>2. pc'[c] \in {"none", "done", "killed"} /\ (pc'[c] = "none" => pc[c] = "none")
  BY DEF ServerDies, Working
<1>3. Accounted(c)  BY DEF LeakInv
<1> QED
  BY <1>1, <1>2, <1>3
  DEF Accounted, OnPath, NothingRead, MetaOpen, FileOpen, WritePCs, GetPCs, RmPCs, LsPCs

LEMMA MainAccounted ==
  ASSUME LeakInv, MainStep
  PROVE  \A c \in Clients : Accounted(c)'
<1> USE HandlerTypes DEF LeakInv
<1>1. CASE UNCHANGED handlerVars
  BY <1>1 DEF handlerVars, Accounted, OnPath, NothingRead, MetaOpen, FileOpen
<1>2. CASE ParseSpawn
  <2>1. PICK c \in Clients : c = cur /\ pc[c] = "none"
    BY <1>2, TurnTypes DEF ParseSpawn, TurnInv, QueueOrdered
  <2>2. pc' = [pc EXCEPT ![c] = "start"] /\ UNCHANGED <<op, mfd, fd, out>>
    BY <1>2, <2>1 DEF ParseSpawn, Goto
  <2>3. Accounted(c)'
    BY <2>1, <2>2
    DEF Accounted, OnPath, NothingRead, MetaOpen, FileOpen, WritePCs, GetPCs, RmPCs, LsPCs
  <2>4. OnlyOf(c)  BY <2>2 DEF OnlyOf
  <2> QED  BY <2>1, <2>3, <2>4, OthersAccounted
<1>3. CASE RecvNothing \/ Exit  BY <1>3, DeathAccounted DEF RecvNothing, Exit
<1>4. CASE (\E c \in Clients : Accept(c)) \/ RecvCommand \/ ParseStop \/ ParseSkip
  BY <1>1, <1>4 DEF Accept, RecvCommand, ParseStop, ParseSkip
<1> QED  BY <1>2, <1>3, <1>4 DEF MainStep

LEMMA NextAccounted == LeakInv /\ [Next]_vars => LeakInv'
<1> SUFFICES ASSUME LeakInv, [Next]_vars PROVE LeakInv'
  OBVIOUS
<1>1. TurnInv'  BY NextTurns DEF LeakInv
<1>2. \A c \in Clients : Accounted(c)'
  <2>1. CASE UNCHANGED handlerVars
    BY <2>1 DEF LeakInv, handlerVars, Accounted, OnPath, NothingRead, MetaOpen, FileOpen
  <2>2. CASE Main  BY <2>2, MainAccounted DEF Main
  <2>3. ASSUME NEW c \in Clients, Handler(c) PROVE \A d \in Clients : Accounted(d)'
    <3>1. CASE Sigpipe(c)  BY <3>1, DeathAccounted DEF Sigpipe
    <3>2. CASE ~Sigpipe(c)
      BY <2>3, <3>2, HandlerAccounted, OthersAccounted DEF Handler, LeakInv
    <3> QED  BY <3>1, <3>2
  <2>4. ASSUME NEW c \in Clients, Client(c) \/ Launch(c) \/ Kill(c)
        PROVE  UNCHANGED handlerVars
    BY <2>4 DEF Client, Launch, Kill, serverVars
  <2>5. CASE Finished \/ UNCHANGED vars
    BY <2>1, <2>5 DEF Finished, vars, serverVars
  <2> QED  BY <2>1, <2>2, <2>3, <2>4, <2>5 DEF Next
<1> QED  BY <1>1, <1>2 DEF LeakInv

LEMMA InitAccounted == Init => LeakInv
<1> SUFFICES ASSUME Init PROVE LeakInv
  OBVIOUS
<1>1. TurnInv  BY InitTurns
<1>2. \A c \in Clients : pc[c] = "none" /\ mfd[c] = None /\ fd[c] = None /\ out[c] = <<>>
  BY DEF Init, ServerInit
<1> QED
  BY <1>1, <1>2
  DEF LeakInv, Accounted, OnPath, NothingRead, MetaOpen, FileOpen,
    WritePCs, GetPCs, RmPCs, LsPCs

\* A handler that has ended has left a descriptor open only after RM or LS, or
\* after a GET that found nothing (serverHandler.c:364-422, 456-471, 261-265);
\* handle_write closes what it opens, whatever fails and whoever interferes.
THEOREM LeaksAreKnown == Spec => []LeaksKnown
<1>1. LeakInv => LeaksKnown
  BY DEF LeakInv, LeaksKnown, Accounted, MetaOpen, FileOpen
<1> QED  BY InitAccounted, NextAccounted, <1>1, PTL DEF Spec

(***************************************************************************)
(* Headers.  The two trees share no inode, and each write goes through a   *)
(* descriptor of its own tree.                                             *)
(***************************************************************************)
\* What an earlier run of the server left are headers that it could have left.
LeftoverHeaders ==
  \A before \in Leftovers, n \in Names : before["meta"][n] \in Headers \cup {None}

LinkKinds == \A k \in Kinds, p \in Paths : link[k][p] # None => link[k][p][2] = k

OwnKinds(c) ==
  /\ pc[c] = "w_writemeta" => mfd[c][2] = "meta"
  /\ pc[c] = "w_store" => fd[c][2] = "file"

HeaderInv ==
  LeakInv /\ LinkKinds /\ (\A c \in Clients : OwnKinds(c)) /\ HeadersReadable

\* What is not shorter than the old contents replaces them ...
LEMMA OverlayShorter ==
  ASSUME NEW S, NEW old \in Seq(S), NEW new \in Seq(S), Len(old) <= Len(new)
  PROVE  Overlay(old, new) = new
<1>1. SubSeq(old, Len(new) + 1, Len(old)) = <<>>
  <2>1. Len(new) + 1 \in Int /\ Len(old) \in Int /\ Len(old) < Len(new) + 1
    OBVIOUS
  <2> QED  BY <2>1, SubSeqEmpty
<1> QED  BY <1>1, ConcatEmptySeq DEF Overlay

\* ... and one cell over two leaves the second.
LEMMA OverlayOne ==
  ASSUME NEW S, NEW a \in S, NEW b \in S, NEW d \in S
  PROVE  Overlay(<<a, b>>, <<d>>) = <<d, b>>
<1> DEFINE rest == SubSeq(<<a, b>>, 2, 2)
<1>1. rest = <<b>>
  <2>1. \A i \in 2 .. 2 : <<a, b>>[i] \in S
    OBVIOUS
  <2>2. rest \in Seq(S) /\ Len(rest) = 1 /\ rest[1] = <<a, b>>[2]
    BY <2>1, SubSeqProperties
  <2> HIDE DEF rest
  <2> QED  BY <2>2
<1>2. Len(<<d>>) + 1 = 2 /\ Len(<<a, b>>) = 2
  OBVIOUS
<1>3. <<d>> \o <<b>> = <<d, b>>
  <2> DEFINE both == <<d>> \o <<b>>
             pair == <<d, b>>
  <2>1. <<d>> \in Seq(S) /\ <<b>> \in Seq(S)
    OBVIOUS
  <2>2. both \in Seq(S) /\ Len(both) = 2 /\ both[1] = d /\ both[2] = b
    BY <2>1, ConcatProperties
  <2>3. pair \in Seq(S) /\ Len(pair) = 2 /\ pair[1] = d /\ pair[2] = b
    OBVIOUS
  <2> HIDE DEF both, pair
  <2>4. \A i \in 1 .. Len(both) : both[i] = pair[i]  BY <2>2, <2>3
  <2>5. both = pair  BY <2>2, <2>3, <2>4, SeqEqual
  <2> QED  BY <2>5 DEF both, pair
<1> QED  BY <1>1, <1>2, <1>3 DEF Overlay

\* A digit or "-1" over a header is a header.
LEMMA HeaderOverHeader ==
  \A h \in Headers, p \in {-1, 0, 1} : Overlay(h, HeaderToString(p)) \in Headers
<1> SUFFICES ASSUME NEW h \in Headers, NEW p \in {-1, 0, 1}
             PROVE  Overlay(h, HeaderToString(p)) \in Headers
  OBVIOUS
<1> DEFINE C == {"-", "0", "1"}
           new == HeaderToString(p)
<1>1. h \in Seq(C) /\ Len(h) <= 2 /\ new \in Seq(C)
  <2>1. new = <<"-", "1">> \/ new = <<"0">> \/ new = <<"1">>
    BY DEF HeaderToString
  <2>2. \/ h = <<>> \/ h = <<"0">> \/ h = <<"1">>
        \/ h = <<"-", "1">> \/ h = <<"0", "1">> \/ h = <<"1", "1">>
    BY DEF Headers
  <2>3. /\ <<"-", "1">> \in Seq(C) /\ <<"0", "1">> \in Seq(C) /\ <<"1", "1">> \in Seq(C)
        /\ <<"0">> \in Seq(C) /\ <<"1">> \in Seq(C) /\ <<>> \in Seq(C)
    OBVIOUS
  <2>4. /\ Len(<<"-", "1">>) <= 2 /\ Len(<<"0", "1">>) <= 2 /\ Len(<<"1", "1">>) <= 2
        /\ Len(<<"0">>) <= 2 /\ Len(<<"1">>) <= 2 /\ Len(<<>>) <= 2
    OBVIOUS
  <2>5. new \in Seq(C)
    <3> HIDE DEF C, new
    <3> QED  BY <2>1, <2>3
  <2>6. h \in Seq(C) /\ Len(h) <= 2
    <3> HIDE DEF C
    <3> QED  BY <2>2, <2>3, <2>4
  <2> QED  BY <2>5, <2>6
<1>2. CASE Len(h) <= Len(new)
  <2>1. Overlay(h, new) = new  BY <1>1, <1>2, OverlayShorter
  <2> QED  BY <2>1 DEF HeaderToString, Headers
<1>3. CASE Len(h) > Len(new)
  <2>1. PICK d \in {"0", "1"} : new = <<d>>
    <3>1. p # -1
      <4>1. p = -1 => Len(new) = 2  BY DEF HeaderToString
      <4> QED  BY <1>1, <1>3, <4>1
    <3> QED  BY <3>1 DEF HeaderToString
  <2>2. Len(new) = 1  BY <2>1
  <2>3. PICK a, b \in C : h = <<a, b>> /\ b = "1"
    <3>1. h \in {<<"-", "1">>, <<"0", "1">>, <<"1", "1">>}
      BY <1>3, <2>2 DEF Headers
    <3> QED  BY <3>1
  <2>4. Overlay(h, new) = <<d, "1">>
    <3> HIDE DEF C
    <3>1. d \in C  BY DEF C
    <3> QED  BY <2>1, <2>3, <3>1, OverlayOne
  <2> QED  BY <2>4 DEF Headers
<1> QED
  <2>1. Len(h) \in Int /\ Len(new) \in Int  BY <1>1
  <2> QED  BY <1>2, <1>3, <2>1

\* What the operations on the disk do to the two trees.
MetaWrites == \A i \in Inodes : i[2] = "meta" =>
  \/ data'[i] = data[i] \/ data'[i] = <<>>
  \/ \E p \in {-1, 0, 1} : data'[i] = Overlay(data[i], HeaderToString(p))

LEMMA OpenKinds ==
  ASSUME DiskTypeOK, LinkKinds, NEW k \in Kinds, NEW p \in Paths, NEW c \in Clients,
         OpenTrunc(k, p, <<c, k>>)
  PROVE  LinkKinds' /\ MetaWrites /\ Opened(k, p, <<c, k>>)[2] = k
<1>1. <<c, k>> \in Inodes  BY DEF Inodes
<1>2. Opened(k, p, <<c, k>>) \in Inodes  BY <1>1, DiskType
<1>3. Opened(k, p, <<c, k>>)[2] = k  BY DEF LinkKinds, Opened
<1>4. LinkKinds'  BY <1>3 DEF OpenTrunc, LinkKinds, DiskTypeOK
<1>5. MetaWrites  BY <1>2 DEF OpenTrunc, MetaWrites, DiskTypeOK
<1> QED  BY <1>3, <1>4, <1>5

LEMMA UnlinkKinds ==
  ASSUME DiskTypeOK, LinkKinds, NEW k \in Kinds, NEW p, Exists(k, p), Unlink(k, p)
  PROVE  LinkKinds' /\ MetaWrites
<1>1. p \in Paths  BY DEF Exists
<1>2. LinkKinds'  BY <1>1 DEF Unlink, LinkKinds, DiskTypeOK
<1> QED  BY <1>2 DEF Unlink, MetaWrites

LEMMA DataWriteKinds ==
  ASSUME DiskTypeOK, LinkKinds, NEW i \in Inodes, i[2] = "file", NEW s, WriteStart(i, s)
  PROVE  LinkKinds' /\ MetaWrites
<1>1. LinkKinds'  BY DEF WriteStart, LinkKinds
<1> QED  BY <1>1 DEF WriteStart, MetaWrites, DiskTypeOK

LEMMA HeaderWriteKinds ==
  ASSUME DiskTypeOK, LinkKinds, NEW i \in Inodes, NEW p \in {-1, 0, 1},
         WriteStart(i, HeaderToString(p))
  PROVE  LinkKinds' /\ MetaWrites
<1>1. LinkKinds'  BY DEF WriteStart, LinkKinds
<1>2. MetaWrites  BY DEF WriteStart, MetaWrites, DiskTypeOK
<1> QED  BY <1>1, <1>2

LEMMA NoWriteKinds ==
  ASSUME LinkKinds, UNCHANGED disk
  PROVE  LinkKinds' /\ MetaWrites
BY DEF disk, LinkKinds, MetaWrites

\* A header that is written to, or truncated, is a header.
LEMMA MetaWritesHeaders ==
  ASSUME HeadersReadable, MetaWrites
  PROVE  HeadersReadable'
<1> SUFFICES ASSUME NEW c \in Clients \cup Names PROVE data'[<<c, "meta">>] \in Headers
  BY DEF HeadersReadable
<1>1. <<c, "meta">> \in Inodes /\ <<c, "meta">>[2] = "meta"  BY DEF Inodes, Kinds
<1>2. data[<<c, "meta">>] \in Headers  BY DEF HeadersReadable
<1>3. <<>> \in Headers  BY DEF Headers
<1> QED  BY <1>1, <1>2, <1>3, HeaderOverHeader DEF MetaWrites

(***************************************************************************)
(* Each step of a handler.                                                 *)
(***************************************************************************)
LEMMA DiskTypes ==
  ASSUME TurnInv
  PROVE  /\ DiskTypeOK /\ path \in [Clients -> Paths \cup {Empty, None}]
         /\ perm \in [Clients -> {-1, 0, 1}]
         /\ PathsKnown /\ OpenKnown
BY DEF TurnInv, TypeInv, TypeOK, ServerTypeOK

LEMMA HandlerHeaders ==
  ASSUME HeaderInv, NEW c \in Clients, HandlerStep(c), ~Sigpipe(c)
  PROVE  LinkKinds' /\ MetaWrites /\ OwnKinds(c)'
<1>1. TurnInv /\ LinkKinds /\ OwnKinds(c)  BY DEF HeaderInv, LeakInv
<1> USE <1>1, HandlerTypes, DiskTypes
<1> DEFINE Keeps(label) == UNCHANGED disk /\ Goto(c, label)
                           /\ label \notin {"w_writemeta", "w_store"}
           Done == LinkKinds' /\ MetaWrites /\ OwnKinds(c)'
<1> SUFFICES Done
  OBVIOUS
<1>2. ASSUME NEW label, Keeps(label) PROVE Done
  BY <1>2, NoWriteKinds DEF OwnKinds, Goto
<1> HIDE DEF Done
<1>3. CASE Start(c)
  BY <1>2, <1>3 DEF Start
<1>4. CASE Reply(c)  BY <1>2, <1>4 DEF Reply
<1>5. CASE Close(c)  BY <1>2, <1>5 DEF Close
<1>6. CASE Write(c)
  <2>1. CASE WritePermission(c)  BY <1>2, <2>1 DEF WritePermission
  <2>2. CASE WriteAck(c)  BY <1>2, <2>2 DEF WriteAck
  <2>3. CASE WriteCheck(c)  BY <1>2, <2>3 DEF WriteCheck
  <2>4. CASE WriteDrain(c)  BY <1>2, <2>4 DEF WriteDrain, Answer
  <2>5. CASE WriteOpenMeta(c)
    <3>1. CASE path[c] = Empty  BY <1>2, <2>5, <3>1 DEF WriteOpenMeta
    <3>2. CASE path[c] # Empty
      <4>1. path[c] \in Paths  BY <2>5, <3>2 DEF WriteOpenMeta, PathsKnown
      <4>2. /\ OpenTrunc("meta", path[c], <<c, "meta">>) /\ Goto(c, "w_writemeta")
            /\ mfd' = [mfd EXCEPT ![c] = Opened("meta", path[c], <<c, "meta">>)]
        BY <2>5, <3>2 DEF WriteOpenMeta
      <4>3. LinkKinds' /\ MetaWrites /\ Opened("meta", path[c], <<c, "meta">>)[2] = "meta"
        BY <4>1, <4>2, OpenKinds DEF Kinds
      <4> QED  BY <4>2, <4>3 DEF OwnKinds, Goto, Done
    <3> QED  BY <3>1, <3>2
  <2>6. CASE WriteMeta(c)
    <3>1. /\ mfd[c] \in Inodes /\ WriteStart(mfd[c], HeaderToString(perm[c]))
          /\ Goto(c, "w_path")
      BY <2>6 DEF WriteMeta, OpenKnown
    <3>2. LinkKinds' /\ MetaWrites  BY <3>1, HeaderWriteKinds
    <3> QED  BY <3>1, <3>2 DEF OwnKinds, Goto, Done
  <2>7. CASE WritePath(c)  BY <1>2, <2>7 DEF WritePath
  <2>8. CASE WriteOpenFile(c)
    <3>1. CASE path[c] = Empty  BY <1>2, <2>8, <3>1 DEF WriteOpenFile
    <3>2. CASE path[c] # Empty
      <4>1. path[c] \in Paths  BY <2>8, <3>2 DEF WriteOpenFile, PathsKnown
      <4>2. /\ OpenTrunc("file", path[c], <<c, "file">>) /\ Goto(c, "w_store")
            /\ fd' = [fd EXCEPT ![c] = Opened("file", path[c], <<c, "file">>)]
        BY <2>8, <3>2 DEF WriteOpenFile
      <4>3. LinkKinds' /\ MetaWrites /\ Opened("file", path[c], <<c, "file">>)[2] = "file"
        BY <4>1, <4>2, OpenKinds DEF Kinds
      <4> QED  BY <4>2, <4>3 DEF OwnKinds, Goto, Done
    <3> QED  BY <3>1, <3>2
  <2>9. CASE WriteStore(c)
    <3>1. CASE UNCHANGED disk
      BY <1>2, <2>9, <3>1 DEF WriteStore, Answer
    <3>2. CASE WriteStart(fd[c], PbEncode(Head(up[c])))
      <4>1. fd[c] \in Inodes /\ fd[c][2] = "file"
        BY <2>9 DEF WriteStore, OpenKnown, OwnKinds
      <4>2. LinkKinds' /\ MetaWrites  BY <3>2, <4>1, DataWriteKinds
      <4>3. Goto(c, "reply") \/ Goto(c, "close")  BY <2>9 DEF WriteStore, Answer
      <4> QED  BY <4>2, <4>3 DEF OwnKinds, Goto, Done
    <3> QED  BY <2>9, <3>1, <3>2 DEF WriteStore
  <2> QED  BY <1>6, <2>1, <2>2, <2>3, <2>4, <2>5, <2>6, <2>7, <2>8, <2>9 DEF Write
<1>7. CASE Get(c)
  <2>1. CASE GetPath(c)  BY <1>2, <2>1 DEF GetPath
  <2>2. CASE GetOpen(c)  BY <1>2, <2>2 DEF GetOpen
  <2>3. CASE GetRead(c)  BY <1>2, <2>3 DEF GetRead
  <2>4. CASE GetSend(c)  BY <1>2, <2>4 DEF GetSend
  <2>5. CASE GetAck(c)  BY <1>2, <2>5 DEF GetAck, Answer
  <2> QED  BY <1>7, <2>1, <2>2, <2>3, <2>4, <2>5 DEF Get
<1>8. CASE Rm(c)
  <2>1. CASE RmPath(c)  BY <1>2, <2>1 DEF RmPath
  <2>2. CASE RmCheck(c)  BY <1>2, <2>2 DEF RmCheck, Answer
  <2>3. CASE RmRecheck(c)  BY <1>2, <2>3 DEF RmRecheck, Answer
  <2>4. CASE RmOpenMeta(c)
    <3>1. path[c] \in Paths  BY <2>4 DEF RmOpenMeta, PathsKnown
    <3>2. OpenTrunc("meta", path[c], <<c, "meta">>) /\ Goto(c, "r_unlinkmeta")
      BY <2>4 DEF RmOpenMeta
    <3>3. LinkKinds' /\ MetaWrites  BY <3>1, <3>2, OpenKinds DEF Kinds
    <3> QED  BY <3>2, <3>3 DEF OwnKinds, Goto, Done
  <2>5. CASE RmUnlinkMeta(c)
    <3>1. CASE Exists("meta", path[c])
      <4>1. Unlink("meta", path[c]) /\ Goto(c, "r_path2")
        BY <2>5, <3>1 DEF RmUnlinkMeta
      <4>2. LinkKinds' /\ MetaWrites  BY <3>1, <4>1, UnlinkKinds DEF Kinds
      <4> QED  BY <4>1, <4>2 DEF OwnKinds, Goto, Done
    <3>2. CASE ~Exists("meta", path[c])  BY <1>2, <2>5, <3>2 DEF RmUnlinkMeta
    <3> QED  BY <3>1, <3>2
  <2>6. CASE RmPath2(c)  BY <1>2, <2>6 DEF RmPath2
  <2>7. CASE RmOpenFile(c)
    <3>1. CASE path[c] = Empty  BY <1>2, <2>7, <3>1 DEF RmOpenFile
    <3>2. CASE path[c] # Empty
      <4>1. path[c] \in Paths  BY <2>7, <3>2 DEF RmOpenFile, PathsKnown
      <4>2. OpenTrunc("file", path[c], <<c, "file">>) /\ Goto(c, "r_unlinkfile")
        BY <2>7, <3>2 DEF RmOpenFile
      <4>3. LinkKinds' /\ MetaWrites  BY <4>1, <4>2, OpenKinds DEF Kinds
      <4> QED  BY <4>2, <4>3 DEF OwnKinds, Goto, Done
    <3> QED  BY <3>1, <3>2
  <2>8. CASE RmUnlinkFile(c)
    <3>1. CASE Exists("file", path[c])
      <4>1. Unlink("file", path[c]) /\ Goto(c, "reply")
        BY <2>8, <3>1 DEF RmUnlinkFile, Answer
      <4>2. LinkKinds' /\ MetaWrites  BY <3>1, <4>1, UnlinkKinds DEF Kinds
      <4> QED  BY <4>1, <4>2 DEF OwnKinds, Goto, Done
    <3>2. CASE ~Exists("file", path[c])  BY <1>2, <2>8, <3>2 DEF RmUnlinkFile
    <3> QED  BY <3>1, <3>2
  <2> QED  BY <1>8, <2>1, <2>2, <2>3, <2>4, <2>5, <2>6, <2>7, <2>8 DEF Rm
<1>9. CASE Ls(c)
  <2>1. CASE LsPath(c)  BY <1>2, <2>1 DEF LsPath
  <2>2. CASE LsOpen(c)  BY <1>2, <2>2 DEF LsOpen, Answer
  <2>3. CASE LsRead(c)  BY <1>2, <2>3 DEF LsRead
  <2>4. CASE LsSend(c)  BY <1>2, <2>4 DEF LsSend
  <2> QED  BY <1>9, <2>1, <2>2, <2>3, <2>4 DEF Ls
<1> QED
  BY <1>3, <1>4, <1>5, <1>6, <1>7, <1>8, <1>9 DEF HandlerStep

(***************************************************************************)
(* The invariant.                                                          *)
(***************************************************************************)
\* The end of the process, and everything but handlers, leaves the disk alone.
LEMMA RestHeaders ==
  ASSUME HeaderInv, UNCHANGED disk,
         \A c \in Clients : /\ pc'[c] = "w_writemeta" => pc[c] = "w_writemeta" /\ mfd'[c] = mfd[c]
                            /\ pc'[c] = "w_store" => pc[c] = "w_store" /\ fd'[c] = fd[c]
  PROVE  LinkKinds' /\ HeadersReadable' /\ \A c \in Clients : OwnKinds(c)'
<1>1. LinkKinds'  BY NoWriteKinds DEF HeaderInv
<1>2. HeadersReadable'  BY DEF HeaderInv, HeadersReadable, disk
<1>3. \A c \in Clients : OwnKinds(c)'  BY DEF HeaderInv, OwnKinds
<1> QED  BY <1>1, <1>2, <1>3

LEMMA DeathHeaders ==
  ASSUME HeaderInv, NEW reason, ServerDies(reason)
  PROVE  LinkKinds' /\ HeadersReadable' /\ \A c \in Clients : OwnKinds(c)'
<1>1. \A c \in Clients : pc'[c] \in {"none", "done", "killed"}
  BY DEF ServerDies, Working
<1> QED  BY <1>1, RestHeaders DEF ServerDies

LEMMA MainHeaders ==
  ASSUME HeaderInv, MainStep
  PROVE  LinkKinds' /\ HeadersReadable' /\ \A c \in Clients : OwnKinds(c)'
<1>1. CASE RecvNothing \/ Exit  BY <1>1, DeathHeaders DEF RecvNothing, Exit
<1>2. CASE ParseSpawn
  <2>1. pc \in [Clients -> HandlerPCs] /\ UNCHANGED <<mfd, fd, disk>>
    BY <1>2, TurnTypes DEF ParseSpawn, HeaderInv, LeakInv
  <2>2. pc' = [pc EXCEPT ![cur] = "start"]  BY <1>2 DEF ParseSpawn, Goto
  <2> QED  BY <2>1, <2>2, RestHeaders
<1>3. CASE (\E c \in Clients : Accept(c)) \/ RecvCommand \/ ParseStop \/ ParseSkip
  <2>1. UNCHANGED <<handlerVars, disk>>
    BY <1>3 DEF Accept, RecvCommand, ParseStop, ParseSkip
  <2> QED  BY <2>1, RestHeaders DEF handlerVars
<1> QED  BY <1>1, <1>2, <1>3 DEF MainStep

LEMMA NextHeaders == HeaderInv /\ [Next]_vars => HeaderInv'
<1> SUFFICES ASSUME HeaderInv, [Next]_vars PROVE HeaderInv'
  OBVIOUS
<1> DEFINE Done == LinkKinds' /\ HeadersReadable' /\ \A c \in Clients : OwnKinds(c)'
<1>1. LeakInv'  BY NextAccounted DEF HeaderInv
<1>2. ASSUME UNCHANGED <<handlerVars, disk>> PROVE Done
  BY <1>2, RestHeaders DEF handlerVars
<1>3. ASSUME Main PROVE Done  BY <1>3, MainHeaders DEF Main
<1>4. ASSUME NEW c \in Clients, Handler(c) PROVE Done
  <2>1. CASE Sigpipe(c)  BY <2>1, DeathHeaders DEF Sigpipe
  <2>2. CASE ~Sigpipe(c)
    <3>1. LinkKinds' /\ MetaWrites /\ OwnKinds(c)' /\ OnlyOf(c)
      BY <1>4, <2>2, HandlerHeaders, HandlerAccounted DEF Handler, HeaderInv
    <3>2. HeadersReadable'  BY <3>1, MetaWritesHeaders DEF HeaderInv
    <3>3. \A d \in Clients : OwnKinds(d)'
      BY <3>1 DEF HeaderInv, OwnKinds, OnlyOf
    <3> QED  BY <3>1, <3>2, <3>3
  <2> QED  BY <2>1, <2>2
<1>5. ASSUME NEW c \in Clients, Client(c) \/ Launch(c) \/ Kill(c) PROVE Done
  BY <1>2, <1>5 DEF Client, Launch, Kill, serverVars
<1>6. ASSUME Finished \/ UNCHANGED vars PROVE Done
  BY <1>2, <1>6 DEF Finished, vars, serverVars
<1>7. Done
  BY <1>3, <1>4, <1>5, <1>6 DEF Next
<1> QED  BY <1>1, <1>7 DEF HeaderInv

LEMMA InitHeaders == ASSUME LeftoverHeaders PROVE Init => HeaderInv
<1> SUFFICES ASSUME Init PROVE HeaderInv
  OBVIOUS
<1>1. LeakInv  BY InitAccounted
<1>2. PICK before \in Leftovers : DiskInit(before)  BY DEF Init
<1>3. LinkKinds  BY <1>2 DEF DiskInit, LinkKinds, Paths
<1>4. HeadersReadable
  <2> SUFFICES ASSUME NEW x \in Clients \cup Names PROVE data[<<x, "meta">>] \in Headers
    BY DEF HeadersReadable
  <2>1. <<x, "meta">> \in Inodes /\ <<>> \in Headers  BY DEF Inodes, Kinds, Headers
  <2>2. x \in Names => before["meta"][x] \in Headers \cup {None}
    BY DEF LeftoverHeaders
  <2> QED  BY <1>2, <2>1, <2>2 DEF DiskInit
<1>5. \A c \in Clients : OwnKinds(c)
  BY DEF Init, ServerInit, OwnKinds
<1> QED  BY <1>1, <1>3, <1>4, <1>5 DEF HeaderInv

\* Every meta file is empty or holds a header, whatever the handlers do at the
\* same time, each with open, lock and write (serverHandler.c:81-108): the locks
\* exclude nobody, but nobody writes anything else there.
THEOREM HeadersAreReadable ==
  ASSUME LeftoverHeaders
  PROVE  Spec => []HeadersReadable
<1>1. HeaderInv => HeadersReadable  BY DEF HeaderInv
<1>2. Init => HeaderInv  BY InitHeaders
<1> QED  BY NextHeaders, <1>1, <1>2, PTL DEF Spec

(***************************************************************************)
(* Inodes.  A name is linked to an inode of its own, since a handler that  *)
(* creates a file gives it an inode that nothing was linked to before.     *)
(***************************************************************************)
\* Where a handler has not opened a meta file, or a data file, for writing yet.
BeforeMeta == {"none", "start", "w_perm", "w_ack", "w_check", "w_openmeta",
               "r_path", "r_check", "r_recheck", "r_openmeta"}
BeforeFile == BeforeMeta \cup {"w_writemeta", "w_path", "w_openfile",
                               "r_unlinkmeta", "r_path2", "r_openfile"}

LinksApart == \A k \in Kinds, p, q \in Paths :
  link[k][p] # None /\ link[k][p] = link[k][q] => p = q

Unlinked(c) == \A p \in Paths :
  /\ pc[c] \in BeforeMeta => link["meta"][p] # <<c, "meta">>
  /\ pc[c] \in BeforeFile => link["file"][p] # <<c, "file">>

InodeInv == HeaderInv /\ LinksApart /\ \A c \in Clients : Unlinked(c)

\* A step links a path to an inode of its own handler, or to none.
LinksMade(c) == \A k \in Kinds, p \in Paths :
  link'[k][p] \in {link[k][p], None, <<c, k>>}

LEMMA OpenInodes ==
  ASSUME DiskTypeOK, LinksApart, NEW k \in Kinds, NEW p \in Paths, NEW c \in Clients,
         OpenTrunc(k, p, <<c, k>>), \A q \in Paths : link[k][q] # <<c, k>>
  PROVE  LinksApart' /\ LinksMade(c) /\ \A j \in Kinds \ {k} : link'[j] = link[j]
<1>1. link' = [link EXCEPT ![k][p] = Opened(k, p, <<c, k>>)]  BY DEF OpenTrunc
<1>2. \A j \in Kinds, q \in Paths :
        link'[j][q] = IF j = k /\ q = p THEN Opened(k, p, <<c, k>>) ELSE link[j][q]
  BY <1>1 DEF DiskTypeOK
<1>3. Opened(k, p, <<c, k>>) \in {link[k][p], <<c, k>>}  BY DEF Opened
<1>4. LinksApart'
  <2> SUFFICES ASSUME NEW j \in Kinds, NEW q \in Paths, NEW r \in Paths,
                      link'[j][q] # None, link'[j][q] = link'[j][r]
               PROVE  q = r
    BY DEF LinksApart
  <2> QED  BY <1>2 DEF LinksApart, Opened
<1>5. LinksMade(c)  BY <1>2, <1>3 DEF LinksMade
<1>6. \A j \in Kinds \ {k} : link'[j] = link[j]  BY <1>1 DEF DiskTypeOK
<1> QED  BY <1>4, <1>5, <1>6

LEMMA UnlinkInodes ==
  ASSUME DiskTypeOK, LinksApart, NEW k \in Kinds, NEW p, Exists(k, p), Unlink(k, p),
         NEW c \in Clients
  PROVE  LinksApart' /\ LinksMade(c)
<1>1. p \in Paths  BY DEF Exists
<1>2. \A j \in Kinds, q \in Paths :
        link'[j][q] = IF j = k /\ q = p THEN None ELSE link[j][q]
  BY <1>1 DEF Unlink, DiskTypeOK
<1> QED  BY <1>2 DEF LinksApart, LinksMade

\* What others have not opened stays theirs.
LEMMA OthersUnlinked ==
  ASSUME TurnInv, NEW c \in Clients, LinksMade(c), NEW d \in Clients \ {c},
         pc'[d] = pc[d], Unlinked(d)
  PROVE  Unlinked(d)'
<1>1. \A k \in Kinds : <<c, k>> # <<d, k>> /\ <<d, k>> # None
  <2>1. \A k \in Kinds : <<d, k>> \in (Clients \cup Names) \X Kinds
    OBVIOUS
  <2> QED  BY <2>1, CommonAssumption
<1> QED  BY <1>1 DEF LinksMade, Unlinked, Kinds

LEMMA HandlerInodes ==
  ASSUME InodeInv, NEW c \in Clients, HandlerStep(c), ~Sigpipe(c)
  PROVE  LinksApart' /\ LinksMade(c) /\ Unlinked(c)'
<1>1. TurnInv /\ LinksApart /\ Unlinked(c)  BY DEF InodeInv, HeaderInv, LeakInv
<1> USE <1>1, HandlerTypes, DiskTypes
<1> DEFINE Done == LinksApart' /\ LinksMade(c) /\ Unlinked(c)'
           Keeps == /\ UNCHANGED disk
                    /\ pc'[c] \in BeforeMeta => pc[c] \in BeforeMeta
                    /\ pc'[c] \in BeforeFile => pc[c] \in BeforeFile
           Opens(k, label) ==
             /\ path[c] \in Paths /\ OpenTrunc(k, path[c], <<c, k>>) /\ Goto(c, label)
             /\ pc[c] \in (IF k = "meta" THEN BeforeMeta ELSE BeforeFile)
             /\ label \in IF k = "meta" THEN {"w_writemeta", "r_unlinkmeta"}
                                        ELSE {"w_store", "r_unlinkfile"}
           Removes(k, label) ==
             /\ Exists(k, path[c]) /\ Unlink(k, path[c]) /\ Goto(c, label)
             /\ label \notin BeforeMeta
             /\ label \in BeforeFile => pc[c] \in BeforeFile
           Fills(i) ==
             /\ \E s : WriteStart(i, s)
             /\ pc'[c] \notin BeforeMeta /\ (pc'[c] \in BeforeFile => pc[c] \in BeforeFile)
<1> SUFFICES Done
  OBVIOUS
<1>2. Keeps => Done
  BY DEF disk, LinksApart, LinksMade, Unlinked
<1>3. ASSUME NEW k \in Kinds, NEW label, Opens(k, label) PROVE Done
  <2>1. \A q \in Paths : link[k][q] # <<c, k>>
    BY <1>3 DEF Unlinked, Kinds
  <2>2. LinksApart' /\ LinksMade(c) /\ \A j \in Kinds \ {k} : link'[j] = link[j]
    BY <1>3, <2>1, OpenInodes
  <2>3. pc'[c] = label  BY <1>3 DEF Goto
  <2>4. Unlinked(c)'
    <3>1. CASE k = "meta"
      BY <1>3, <2>2, <2>3, <3>1 DEF Unlinked, BeforeMeta, BeforeFile, Kinds
    <3>2. CASE k = "file"
      BY <1>3, <2>3, <3>2 DEF Unlinked, BeforeMeta, BeforeFile
    <3> QED  BY <3>1, <3>2 DEF Kinds
  <2> QED  BY <2>2, <2>4
<1>4. ASSUME NEW k \in Kinds, NEW label, Removes(k, label) PROVE Done
  <2>1. LinksApart' /\ LinksMade(c)  BY <1>4, UnlinkInodes
  <2>2. \A p \in Paths : link'["file"][p] \in {link["file"][p], None}
    BY <1>4 DEF Unlink, Exists, DiskTypeOK, Kinds
  <2>3. <<c, "file">> # None
    <3>1. <<c, "file">> \in (Clients \cup Names) \X Kinds  BY DEF Kinds
    <3> QED  BY <3>1, CommonAssumption
  <2>4. pc'[c] = label  BY <1>4 DEF Goto
  <2>5. Unlinked(c)'
    BY <1>4, <2>2, <2>3, <2>4 DEF Unlinked
  <2> QED  BY <2>1, <2>5
<1>5. ASSUME NEW i, Fills(i) PROVE Done
  BY <1>5 DEF WriteStart, LinksApart, LinksMade, Unlinked
<1> HIDE DEF Done
<1>6. CASE Start(c)
  BY <1>2, <1>6 DEF Start, Goto, BeforeMeta, BeforeFile
<1>7. CASE Reply(c)  BY <1>2, <1>7 DEF Reply, Goto, BeforeMeta, BeforeFile
<1>8. CASE Close(c)  BY <1>2, <1>8 DEF Close, Goto, BeforeMeta, BeforeFile
<1>9. CASE Write(c)
  <2> USE DEF Goto, BeforeMeta, BeforeFile
  <2>1. CASE WritePermission(c)  BY <1>2, <2>1 DEF WritePermission
  <2>2. CASE WriteAck(c)  BY <1>2, <2>2 DEF WriteAck
  <2>3. CASE WriteCheck(c)  BY <1>2, <2>3 DEF WriteCheck
  <2>4. CASE WriteDrain(c)  BY <1>2, <2>4 DEF WriteDrain, Answer
  <2>5. CASE WriteOpenMeta(c)
    <3>1. CASE path[c] = Empty  BY <1>2, <2>5, <3>1 DEF WriteOpenMeta
    <3>2. CASE path[c] # Empty
      <4>1. Opens("meta", "w_writemeta")
        BY <2>5, <3>2 DEF WriteOpenMeta, PathsKnown
      <4> QED  BY <1>3, <4>1 DEF Kinds
    <3> QED  BY <3>1, <3>2
  <2>6. CASE WriteMeta(c)
    <3>1. Fills(mfd[c])  BY <2>6 DEF WriteMeta
    <3> QED  BY <1>5, <3>1
  <2>7. CASE WritePath(c)  BY <1>2, <2>7 DEF WritePath
  <2>8. CASE WriteOpenFile(c)
    <3>1. CASE path[c] = Empty  BY <1>2, <2>8, <3>1 DEF WriteOpenFile
    <3>2. CASE path[c] # Empty
      <4>1. Opens("file", "w_store")
        BY <2>8, <3>2 DEF WriteOpenFile, PathsKnown
      <4> QED  BY <1>3, <4>1 DEF Kinds
    <3> QED  BY <3>1, <3>2
  <2>9. CASE WriteStore(c)
    <3>1. CASE UNCHANGED disk
      BY <1>2, <2>9, <3>1 DEF WriteStore, Answer
    <3>2. CASE WriteStart(fd[c], PbEncode(Head(up[c])))
      <4>1. Fills(fd[c])  BY <2>9, <3>2 DEF WriteStore, Answer
      <4> QED  BY <1>5, <4>1
    <3> QED  BY <2>9, <3>1, <3>2 DEF WriteStore
  <2> QED  BY <1>9, <2>1, <2>2, <2>3, <2>4, <2>5, <2>6, <2>7, <2>8, <2>9 DEF Write
<1>10. CASE Get(c)
  <2> USE DEF Goto, BeforeMeta, BeforeFile
  <2>1. CASE GetPath(c)  BY <1>2, <2>1 DEF GetPath
  <2>2. CASE GetOpen(c)  BY <1>2, <2>2 DEF GetOpen
  <2>3. CASE GetRead(c)  BY <1>2, <2>3 DEF GetRead
  <2>4. CASE GetSend(c)  BY <1>2, <2>4 DEF GetSend
  <2>5. CASE GetAck(c)  BY <1>2, <2>5 DEF GetAck, Answer
  <2> QED  BY <1>10, <2>1, <2>2, <2>3, <2>4, <2>5 DEF Get
<1>11. CASE Rm(c)
  <2> USE DEF Goto, BeforeMeta, BeforeFile
  <2>1. CASE RmPath(c)  BY <1>2, <2>1 DEF RmPath
  <2>2. CASE RmCheck(c)  BY <1>2, <2>2 DEF RmCheck, Answer
  <2>3. CASE RmRecheck(c)  BY <1>2, <2>3 DEF RmRecheck, Answer
  <2>4. CASE RmOpenMeta(c)
    <3>1. Opens("meta", "r_unlinkmeta")  BY <2>4 DEF RmOpenMeta, PathsKnown
    <3> QED  BY <1>3, <3>1 DEF Kinds
  <2>5. CASE RmUnlinkMeta(c)
    <3>1. CASE Exists("meta", path[c])
      <4>1. Removes("meta", "r_path2")  BY <2>5, <3>1 DEF RmUnlinkMeta
      <4> QED  BY <1>4, <4>1 DEF Kinds
    <3>2. CASE ~Exists("meta", path[c])  BY <1>2, <2>5, <3>2 DEF RmUnlinkMeta
    <3> QED  BY <3>1, <3>2
  <2>6. CASE RmPath2(c)  BY <1>2, <2>6 DEF RmPath2
  <2>7. CASE RmOpenFile(c)
    <3>1. CASE path[c] = Empty  BY <1>2, <2>7, <3>1 DEF RmOpenFile
    <3>2. CASE path[c] # Empty
      <4>1. Opens("file", "r_unlinkfile")
        BY <2>7, <3>2 DEF RmOpenFile, PathsKnown
      <4> QED  BY <1>3, <4>1 DEF Kinds
    <3> QED  BY <3>1, <3>2
  <2>8. CASE RmUnlinkFile(c)
    <3>1. CASE Exists("file", path[c])
      <4>1. Removes("file", "reply")  BY <2>8, <3>1 DEF RmUnlinkFile, Answer
      <4> QED  BY <1>4, <4>1 DEF Kinds
    <3>2. CASE ~Exists("file", path[c])  BY <1>2, <2>8, <3>2 DEF RmUnlinkFile
    <3> QED  BY <3>1, <3>2
  <2> QED  BY <1>11, <2>1, <2>2, <2>3, <2>4, <2>5, <2>6, <2>7, <2>8 DEF Rm
<1>12. CASE Ls(c)
  <2> USE DEF Goto, BeforeMeta, BeforeFile
  <2>1. CASE LsPath(c)  BY <1>2, <2>1 DEF LsPath
  <2>2. CASE LsOpen(c)  BY <1>2, <2>2 DEF LsOpen, Answer
  <2>3. CASE LsRead(c)  BY <1>2, <2>3 DEF LsRead
  <2>4. CASE LsSend(c)  BY <1>2, <2>4 DEF LsSend
  <2> QED  BY <1>12, <2>1, <2>2, <2>3, <2>4 DEF Ls
<1> QED
  BY <1>6, <1>7, <1>8, <1>9, <1>10, <1>11, <1>12 DEF HandlerStep

(***************************************************************************)
(* The invariant.                                                          *)
(***************************************************************************)
\* Nobody gets behind an open that he has not done.
LEMMA RestInodes ==
  ASSUME InodeInv, UNCHANGED disk,
         \A c \in Clients : /\ pc'[c] \in BeforeMeta => pc[c] \in BeforeMeta
                            /\ pc'[c] \in BeforeFile => pc[c] \in BeforeFile
  PROVE  LinksApart' /\ \A c \in Clients : Unlinked(c)'
BY DEF InodeInv, LinksApart, Unlinked, disk

LEMMA DeathInodes ==
  ASSUME InodeInv, NEW reason, ServerDies(reason)
  PROVE  LinksApart' /\ \A c \in Clients : Unlinked(c)'
<1>1. \A c \in Clients : pc'[c] \in {pc[c], "killed"}  BY DEF ServerDies
<1> QED  BY <1>1, RestInodes DEF ServerDies, BeforeMeta, BeforeFile

LEMMA NextInodes == InodeInv /\ [Next]_vars => InodeInv'
<1> SUFFICES ASSUME InodeInv, [Next]_vars PROVE InodeInv'
  OBVIOUS
<1> DEFINE Done == LinksApart' /\ \A c \in Clients : Unlinked(c)'
<1>1. HeaderInv'  BY NextHeaders DEF InodeInv
<1>2. ASSUME UNCHANGED <<pc, disk>> PROVE Done  BY <1>2, RestInodes
<1>3. ASSUME Main PROVE Done
  <2>1. CASE RecvNothing \/ Exit  BY <2>1, DeathInodes DEF RecvNothing, Exit
  <2>2. CASE ParseSpawn
    <3>1. pc \in [Clients -> HandlerPCs] /\ pc[cur] = "none" /\ cur \in Clients
      BY <2>2, TurnTypes DEF ParseSpawn, InodeInv, HeaderInv, LeakInv, TurnInv, QueueOrdered
    <3>2. pc' = [pc EXCEPT ![cur] = "start"] /\ UNCHANGED disk
      BY <2>2 DEF ParseSpawn, Goto
    <3> QED  BY <3>1, <3>2, RestInodes DEF BeforeMeta, BeforeFile
  <2>3. CASE (\E c \in Clients : Accept(c)) \/ RecvCommand \/ ParseStop \/ ParseSkip
    BY <1>2, <2>3 DEF Accept, RecvCommand, ParseStop, ParseSkip, handlerVars
  <2> QED  BY <1>3, <2>1, <2>2, <2>3 DEF Main, MainStep
<1>4. ASSUME NEW c \in Clients, Handler(c) PROVE Done
  <2>1. CASE Sigpipe(c)  BY <2>1, DeathInodes DEF Sigpipe
  <2>2. CASE ~Sigpipe(c)
    <3>1. LinksApart' /\ LinksMade(c) /\ Unlinked(c)' /\ OnlyOf(c) /\ TurnInv
      BY <1>4, <2>2, HandlerInodes, HandlerAccounted
      DEF Handler, InodeInv, HeaderInv, LeakInv
    <3>2. \A d \in Clients \ {c} : Unlinked(d)'
      BY <3>1, OthersUnlinked DEF InodeInv, OnlyOf
    <3> QED  BY <3>1, <3>2
  <2> QED  BY <2>1, <2>2
<1>5. ASSUME NEW c \in Clients, Client(c) \/ Launch(c) \/ Kill(c) PROVE Done
  BY <1>2, <1>5 DEF Client, Launch, Kill, serverVars, handlerVars
<1>6. ASSUME Finished \/ UNCHANGED vars PROVE Done
  BY <1>2, <1>6 DEF Finished, vars, serverVars, handlerVars
<1>7. Done
  BY <1>3, <1>4, <1>5, <1>6 DEF Next
<1> QED  BY <1>1, <1>7 DEF InodeInv

LEMMA InitInodes == ASSUME LeftoverHeaders PROVE Init => InodeInv
<1> SUFFICES ASSUME Init PROVE InodeInv
  OBVIOUS
<1>1. HeaderInv  BY InitHeaders
<1>2. \A k \in Kinds, p \in Paths : link[k][p] # None => link[k][p] = <<p, k>> /\ p \in Names
  BY DEF Init, DiskInit
<1>3. LinksApart  BY <1>2 DEF LinksApart
<1>4. \A c \in Clients : Unlinked(c)
  <2> SUFFICES ASSUME NEW c \in Clients, NEW k \in Kinds, NEW p \in Paths
               PROVE  link[k][p] # <<c, k>>
    BY DEF Unlinked, Kinds
  <2>1. <<c, k>> \in (Clients \cup Names) \X Kinds
    OBVIOUS
  <2> QED  BY <1>2, <2>1, CommonAssumption
<1> QED  BY <1>1, <1>3, <1>4 DEF InodeInv

(***************************************************************************)
(* Empty files.  A data file is empty only between the open and the write  *)
(* of a handle_write, or between the open and the unlink of a handle_rm,   *)
(* or because a client that was to send its contents has failed, or        *)
(* because a handler has worked on another request than its client's.      *)
(***************************************************************************)
\* Where the handler of a WRITE has not acknowledged the request yet, and
\* where it has and waits for the contents.
Asking     == {"none", "start", "w_perm", "w_ack"}
WriteHeard == {"w_check", "w_drain", "w_openmeta", "w_writemeta", "w_path",
               "w_openfile", "w_store"}

\* The end of a client is known when it is about to close its socket.
Exited(c) == status[c] # "running" => cpc[c] \in {"close", "done"}

\* A client sends no empty text.
Worded(c) == up[c] # <<>> => Head(up[c]) # <<>>

ResetByPeer(c) == srv[c] = "reset" => cli[c] = "closed"

\* A client that asks for a WRITE waits for the acknowledgement; from then on
\* its contents are to come or under way, unless it has failed.
Expected(c) == mpc # "dead" /\ req[c] # None /\ req[c].cmd = "WRITE" =>
  /\ pc[c] \in Asking => /\ down[c] = <<>> /\ srv[c] # "closed"
                         /\ cpc[c] \in {"idle", "send", "ack"} \/ status[c] = "fail"
  /\ pc[c] \in WriteHeard =>
       cpc[c] \in {"ack", "source"} \/ up[c] # <<>> \/ status[c] = "fail"

\* Who is connected has a request.
HasRequest(c) == srv[c] # "none" => req[c] # None

Pending(c) == Exited(c) /\ Worded(c) /\ ResetByPeer(c) /\ Expected(c) /\ HasRequest(c)

\* Others are left alone, and so is what is pending for them.
LEMMA OthersPending ==
  ASSUME NEW c \in Clients, NEW d \in Clients \ {c}, Pending(d),
         mpc' # "dead" => mpc # "dead",
         pc'[d] = pc[d], cpc'[d] = cpc[d], status'[d] = status[d], req'[d] = req[d],
         cli'[d] = cli[d], srv'[d] = srv[d], up'[d] = up[d], down'[d] = down[d]
  PROVE  Pending(d)'
BY DEF Pending, Exited, Worded, ResetByPeer, Expected, HasRequest

\* What a handler does on its connection.
LEMMA HandlerWaits ==
  ASSUME TurnInv, \A d \in Clients : Pending(d), NEW c \in Clients, Moves(c), UNCHANGED status,
         \/ UNCHANGED conn
         \/ SrvRecv(c) \/ SrvClose(c) \/ \E m \in Text : SrvSend(c, m),
         pc'[c] \in Asking => pc[c] \in Asking /\ UNCHANGED conn,
         pc'[c] \in WriteHeard =>
           \/ pc[c] \in WriteHeard /\ UNCHANGED conn
           \/ pc[c] = "w_ack" /\ UNCHANGED <<up, req>>
  PROVE  \A d \in Clients : Pending(d)'
<1> USE TurnTypes DEF Moves
<1>1. UNCHANGED req /\ \A d \in Clients \ {c} :
        cli'[d] = cli[d] /\ srv'[d] = srv[d] /\ up'[d] = up[d] /\ down'[d] = down[d]
  BY DEF conn, SrvRecv, SrvClose, SrvSend, ConnTypeOK
<1>2. \A d \in Clients \ {c} : Pending(d)'  BY <1>1, OthersPending
<1>3. Pending(c)
  OBVIOUS
<1>4. Worded(c)'
  <2>1. up[c] \in Seq(Text) /\ Len(up[c]) <= 1
    BY DEF TurnInv, TurnsTaken, ConnTypeOK
  <2>2. up'[c] = up[c] \/ up'[c] = <<>>
    BY <2>1 DEF conn, SrvRecv, SrvClose, SrvSend, ConnTypeOK
  <2> QED  BY <1>3, <2>2 DEF Pending, Worded
<1>5. ResetByPeer(c)'
  <2>1. srv'[c] = "reset" => srv[c] = "reset"
    BY DEF conn, SrvRecv, SrvClose, SrvSend, ConnTypeOK
  <2>2. cli[c] = "closed" => cli'[c] = "closed"
    BY DEF conn, SrvRecv, SrvClose, SrvSend, ConnTypeOK, Usable
  <2> QED  BY <1>3, <2>1, <2>2 DEF Pending, ResetByPeer
<1>6. Expected(c)'
  <2>1. pc[c] = "w_ack" => cpc[c] \notin {"idle", "send"}
    BY DEF TurnInv, TurnsTaken, QueueOrdered, ServerTurn, ClientTurn, Sending
  <2> QED  BY <1>1, <1>3, <2>1 DEF Pending, Expected, Asking, WriteHeard, conn
<1>7. HasRequest(c)'
  BY <1>1, <1>3 DEF Pending, HasRequest, TurnInv, QueueOrdered
<1> QED  BY <1>2, <1>3, <1>4, <1>5, <1>6, <1>7 DEF Pending, Exited

\* The process ends, and nothing is expected any more.
LEMMA DeathWaits ==
  ASSUME TurnInv, \A d \in Clients : Pending(d), NEW reason, ServerDies(reason),
         UNCHANGED clientVars
  PROVE  \A d \in Clients : Pending(d)'
<1> USE TurnTypes DEF ServerDies, SrvCloseAll, clientVars
<1> QED  BY DEF Pending, Exited, Worded, ResetByPeer, Expected, HasRequest

LEMMA HandlerPending ==
  ASSUME TurnInv, \A d \in Clients : Pending(d), NEW c \in Clients, HandlerStep(c),
         UNCHANGED clientVars
  PROVE  \A d \in Clients : Pending(d)'
<1> USE TurnTypes
    DEF clientVars, mainVars, Goto, Moves, SrvSendError, Asking, WriteHeard
<1> DEFINE Waits ==
      /\ Moves(c) /\ UNCHANGED status
      /\ \/ UNCHANGED conn
         \/ SrvRecv(c) \/ SrvClose(c) \/ \E m \in Text : SrvSend(c, m)
      /\ pc'[c] \in Asking => pc[c] \in Asking /\ UNCHANGED conn
      /\ pc'[c] \in WriteHeard =>
           \/ pc[c] \in WriteHeard /\ UNCHANGED conn
           \/ pc[c] = "w_ack" /\ UNCHANGED <<up, req>>
<1> DEFINE Done == \A d \in Clients : Pending(d)'
<1> SUFFICES Done
  OBVIOUS
<1>1. ASSUME Waits PROVE Done
  BY <1>1, HandlerWaits
<1> HIDE DEF Done
<1>2. \A m \in Text : SrvSend(c, m) => UNCHANGED <<up, req>>  BY DEF SrvSend
<1>3. out[c] \in Text /\ Note("received") \in Text
  BY NoteText DEF Notes, TurnInv, TypeInv, TypeOK, ServerTypeOK
<1>4. CASE Start(c)  BY <1>1, <1>4 DEF Start
<1>5. CASE Reply(c)  BY <1>1, <1>3, <1>5 DEF Reply
<1>6. CASE Sigpipe(c)  BY <1>6, DeathWaits DEF Sigpipe, Done
<1>7. CASE Close(c)  BY <1>1, <1>7 DEF Close
<1>8. CASE Write(c)
  <2>1. CASE WritePermission(c)  BY <1>1, <2>1 DEF WritePermission
  <2>2. CASE WriteAck(c)
    <3>1. CASE SrvSend(c, Note("received")) /\ Goto(c, "w_check")
      BY <1>1, <1>2, <1>3, <2>2, <3>1 DEF WriteAck
    <3>2. CASE SrvSendError(c) /\ Goto(c, "close")
      BY <1>1, <2>2, <3>2 DEF WriteAck
    <3> QED  BY <2>2, <3>1, <3>2 DEF WriteAck
  <2>3. CASE WriteCheck(c)  BY <1>1, <2>3 DEF WriteCheck
  <2>4. CASE WriteDrain(c)  BY <1>1, <2>4 DEF WriteDrain, Answer
  <2>5. CASE WriteOpenMeta(c)  BY <1>1, <2>5 DEF WriteOpenMeta
  <2>6. CASE WriteMeta(c)  BY <1>1, <2>6 DEF WriteMeta
  <2>7. CASE WritePath(c)  BY <1>1, <2>7 DEF WritePath
  <2>8. CASE WriteOpenFile(c)  BY <1>1, <2>8 DEF WriteOpenFile
  <2>9. CASE WriteStore(c)  BY <1>1, <2>9 DEF WriteStore, Answer
  <2> QED  BY <1>8, <2>1, <2>2, <2>3, <2>4, <2>5, <2>6, <2>7, <2>8, <2>9 DEF Write
<1>9. CASE Get(c)
  <2>1. CASE GetPath(c)  BY <1>1, <2>1 DEF GetPath
  <2>2. CASE GetOpen(c)  BY <1>1, <2>2 DEF GetOpen
  <2>3. CASE GetRead(c)  BY <1>1, <2>3 DEF GetRead
  <2>4. CASE GetSend(c)  BY <1>1, <1>3, <2>4 DEF GetSend
  <2>5. CASE GetAck(c)  BY <1>1, <2>5 DEF GetAck, Answer
  <2> QED  BY <1>9, <2>1, <2>2, <2>3, <2>4, <2>5 DEF Get
<1>10. CASE Rm(c)
  <2>1. CASE RmPath(c)  BY <1>1, <2>1 DEF RmPath
  <2>2. CASE RmCheck(c)  BY <1>1, <2>2 DEF RmCheck, Answer
  <2>3. CASE RmRecheck(c)  BY <1>1, <2>3 DEF RmRecheck, Answer
  <2>4. CASE RmOpenMeta(c)  BY <1>1, <2>4 DEF RmOpenMeta
  <2>5. CASE RmUnlinkMeta(c)  BY <1>1, <2>5 DEF RmUnlinkMeta
  <2>6. CASE RmPath2(c)  BY <1>1, <2>6 DEF RmPath2
  <2>7. CASE RmOpenFile(c)  BY <1>1, <2>7 DEF RmOpenFile
  <2>8. CASE RmUnlinkFile(c)  BY <1>1, <2>8 DEF RmUnlinkFile, Answer
  <2> QED  BY <1>10, <2>1, <2>2, <2>3, <2>4, <2>5, <2>6, <2>7, <2>8 DEF Rm
<1>11. CASE Ls(c)
  <2>1. CASE LsPath(c)  BY <1>1, <2>1 DEF LsPath
  <2>2. CASE LsOpen(c)  BY <1>1, <2>2 DEF LsOpen, Answer
  <2>3. CASE LsRead(c)  BY <1>1, <2>3 DEF LsRead
  <2>4. CASE LsSend(c)  BY <1>1, <1>3, <2>4 DEF LsSend
  <2> QED  BY <1>11, <2>1, <2>2, <2>3, <2>4 DEF Ls
<1> QED  BY <1>4, <1>5, <1>6, <1>7, <1>8, <1>9, <1>10, <1>11 DEF HandlerStep

(***************************************************************************)
(* Clients.                                                                *)
(***************************************************************************)
\* Where a client is, and how it ends.
Proceeds(c) ==
  /\ Advances(c) /\ status' = [status EXCEPT ![c] = status'[c]]
  /\ status'[c] # status[c] => /\ cpc'[c] \in {"close", "done"}
                               /\ status'[c] = "fail" \/ cpc[c] # "close"
  /\ cpc[c] = "close" => cpc'[c] = "done"

LEMMA StatusTypes ==
  ASSUME TurnInv
  PROVE  status \in [Clients -> {"running", "ok", "fail"}]
BY DEF TurnInv, TypeInv, TypeOK, ClientTypeOK

\* A client says something.
LEMMA ClientSaysWaits ==
  ASSUME TurnInv, \A d \in Clients : Pending(d), NEW c \in Clients, Proceeds(c),
         NEW m \in Text, CliSend(c, m), m # <<>>, ClientTurn(c), cpc'[c] # "done",
         status[c] = status'[c] \/ cpc'[c] = "close",
         req[c].cmd = "WRITE" /\ cpc[c] = "send" => cpc'[c] = "ack"
  PROVE  \A d \in Clients : Pending(d)'
<1> USE TurnTypes, StatusTypes DEF Proceeds, Advances
<1>1. UNCHANGED <<req, srv, down>> /\ \A d \in Clients \ {c} :
        cli'[d] = cli[d] /\ up'[d] = up[d]
  BY DEF CliSend, ConnTypeOK
<1>2. \A d \in Clients \ {c} : Pending(d)'  BY <1>1, OthersPending
<1>3. Pending(c) /\ cpc[c] \notin {"close", "done"}
  BY DEF ClientTurn
<1>4. status[c] = "running"  BY <1>3 DEF Pending, Exited
<1>5. up[c] = <<>>  BY DEF TurnInv, TurnsTaken
<1>6. (up'[c] = <<>> /\ srv[c] = "closed") \/ up'[c] = <<m>>
  <2>1. Append(<<>>, m) = <<m>>
    OBVIOUS
  <2> QED  BY <1>5, <2>1 DEF CliSend, ConnTypeOK
<1>7. <<m>> # <<>> /\ Head(<<m>>) = m
  OBVIOUS
<1>8. Exited(c)'  BY <1>4 DEF Exited
<1>9. Worded(c)'  BY <1>6, <1>7 DEF Worded
<1>10. ResetByPeer(c)'  BY <1>1, <1>3 DEF Pending, ResetByPeer, CliSend
<1>11. Expected(c)'
  <2>1. srv[c] = "closed" => pc[c] \notin WriteHeard
    BY DEF TurnInv, TurnsTaken, Working, WriteHeard
  <2> QED
    BY <1>1, <1>3, <1>4, <1>6, <1>7, <2>1 DEF Pending, Expected, ClientTurn
<1> QED  BY <1>1, <1>2, <1>3, <1>8, <1>9, <1>10, <1>11 DEF Pending, HasRequest

\* A client hears something, hangs up or fails.
LEMMA ClientHearsWaits ==
  ASSUME TurnInv, \A d \in Clients : Pending(d), NEW c \in Clients, Proceeds(c),
         CliRecv(c) \/ CliClose(c) \/ UNCHANGED conn,
         req[c].cmd = "WRITE" =>
           \/ status'[c] = "fail"
           \/ cpc[c] = "ack" /\ cpc'[c] = "source" /\ (CliRecv(c) \/ CliEof(c))
           \/ cpc[c] \notin {"send", "ack", "source"}
  PROVE  \A d \in Clients : Pending(d)'
<1> USE TurnTypes, StatusTypes DEF Proceeds, Advances
<1>1. UNCHANGED <<req, up>> /\ \A d \in Clients \ {c} :
        cli'[d] = cli[d] /\ srv'[d] = srv[d] /\ down'[d] = down[d]
  BY DEF CliRecv, CliClose, conn, ConnTypeOK
<1>2. \A d \in Clients \ {c} : Pending(d)'  BY <1>1, OthersPending
<1>3. Pending(c)
  OBVIOUS
<1>4. Exited(c)'  BY <1>3 DEF Pending, Exited
<1>5. Worded(c)'  BY <1>1, <1>3 DEF Pending, Worded
<1>6. ResetByPeer(c)'
  BY <1>3 DEF Pending, ResetByPeer, CliRecv, CliClose, conn, ConnTypeOK
<1>7. status[c] = "fail" => status'[c] = "fail"  BY <1>3 DEF Pending, Exited
<1>8. (srv'[c] = "closed" => srv[c] = "closed") /\ (down[c] = <<>> => down'[c] = <<>>)
  BY DEF CliRecv, CliClose, conn, ConnTypeOK
<1>9. Expected(c)'
  BY <1>1, <1>3, <1>7, <1>8 DEF Pending, Expected, CliRecv, CliEof, Asking, WriteHeard
<1>10. HasRequest(c)'
  BY <1>1, <1>3 DEF Pending, HasRequest, CliRecv, CliClose, conn, ConnTypeOK, Usable
<1> QED  BY <1>2, <1>4, <1>5, <1>6, <1>9, <1>10 DEF Pending

LEMMA ClientPending ==
  ASSUME TurnInv, \A d \in Clients : Pending(d), NEW c \in Clients, ClientStep(c),
         UNCHANGED serverVars
  PROVE  \A d \in Clients : Pending(d)'
<1> USE TurnTypes, StatusTypes
    DEF serverVars, mainVars, handlerVars, Move, Return, At, Proceeds, Advances
<1> DEFINE Done == \A d \in Clients : Pending(d)'
<1> SUFFICES Done
  OBVIOUS
<1> HIDE DEF Done
<1>1. \A n \in Notes : Note(n) \in Text /\ Note(n) # <<>>
  BY NoteText DEF Note
<1>2. "request" \in Notes /\ "fetched" \in Notes  BY DEF Notes
<1>3. ASSUME Proceeds(c), CliRecv(c) \/ CliClose(c) \/ UNCHANGED conn,
             req[c].cmd = "WRITE" =>
               \/ status'[c] = "fail"
               \/ cpc[c] = "ack" /\ cpc'[c] = "source" /\ (CliRecv(c) \/ CliEof(c))
               \/ cpc[c] \notin {"send", "ack", "source"}
      PROVE  Done
  BY <1>3, ClientHearsWaits DEF Done
<1>4. CASE SendRequest(c)
  <2>1. req[c] \in Request /\ cpc[c] = "send"
    BY <1>4 DEF SendRequest, TurnInv, TypeInv, RequestsKnown, ConnTypeOK
  <2>2. CASE CliSend(c, Note("request")) /\
               IF req[c].cmd \in {"STOP", "SKIP"}
                 THEN \E s \in ExitsAfter(c, "ok") : Return(c, s)
                 ELSE /\ Move(c, CASE req[c].cmd = "WRITE" -> "ack"
                                   [] req[c].cmd = "GET"   -> "open"
                                   [] OTHER                -> "result")
                      /\ UNCHANGED status
    <3>1. CASE req[c].cmd \in {"STOP", "SKIP"}
      <4>1. PICK s : Return(c, s)  BY <2>2, <3>1
      <4>2. Proceeds(c) /\ ClientTurn(c) /\ cpc'[c] = "close"
        BY <1>4, <2>1, <4>1 DEF SendRequest, ClientTurn
      <4> QED  BY <1>1, <1>2, <2>2, <3>1, <4>2, ClientSaysWaits DEF Done
    <3>2. CASE req[c].cmd \notin {"STOP", "SKIP"}
      <4>1. /\ Proceeds(c) /\ ClientTurn(c) /\ UNCHANGED status
            /\ cpc'[c] \in {"ack", "open", "result"}
            /\ req[c].cmd = "WRITE" => cpc'[c] = "ack"
        BY <1>4, <2>1, <2>2, <3>2 DEF SendRequest, ClientTurn
      <4> QED  BY <1>1, <1>2, <2>2, <4>1, ClientSaysWaits DEF Done
    <3> QED  BY <3>1, <3>2
  <2>3. CASE UNCHANGED conn /\ \E s \in ExitsAfter(c, "fail") : Return(c, s)
    <3>1. PICK s \in ExitsAfter(c, "fail") : Return(c, s)
      BY <2>3
    <3> QED  BY <1>3, <1>4, <2>1, <2>3, <3>1 DEF SendRequest, ExitsAfter
  <2> QED  BY <1>4, <2>2, <2>3 DEF SendRequest
<1>5. CASE CloseSocket(c)  BY <1>3, <1>5 DEF CloseSocket
<1>6. CASE AwaitAck(c)  BY <1>3, <1>6 DEF AwaitAck
<1>7. CASE SendFile(c)
  <2>1. CASE CliSend(c, Source[c]) /\ Source[c] # <<>> /\ Move(c, "result") /\ UNCHANGED status
    <3>1. Proceeds(c) /\ ClientTurn(c) /\ cpc[c] = "source" /\ cpc'[c] = "result"
      BY <1>7, <2>1 DEF SendFile, ClientTurn
    <3> QED  BY <2>1, <3>1, ClientSaysWaits, ClientAssumption DEF Done
  <2>2. CASE Return(c, "fail") /\ UNCHANGED conn
    BY <1>3, <1>7, <2>2 DEF SendFile
  <2> QED  BY <1>7, <2>1, <2>2 DEF SendFile
<1>8. CASE OpenLocal(c)  BY <1>3, <1>8 DEF OpenLocal
<1>9. CASE Fetch(c)  BY <1>3, <1>9 DEF Fetch
<1>10. CASE Confirm(c)
  <2>1. CASE CliSend(c, Note("fetched")) /\ Move(c, "result") /\ UNCHANGED status
    <3>1. Proceeds(c) /\ ClientTurn(c) /\ cpc[c] = "confirm" /\ cpc'[c] = "result"
      BY <1>10, <2>1 DEF Confirm, ClientTurn
    <3> QED  BY <1>1, <1>2, <2>1, <3>1, ClientSaysWaits DEF Done
  <2>2. CASE Return(c, "fail") /\ UNCHANGED conn
    BY <1>3, <1>10, <2>2 DEF Confirm
  <2> QED  BY <1>10, <2>1, <2>2 DEF Confirm
<1>11. CASE AwaitResult(c)  BY <1>3, <1>11 DEF AwaitResult
<1> QED  BY <1>4, <1>5, <1>6, <1>7, <1>8, <1>9, <1>10, <1>11 DEF ClientStep

\* A client that starts, or is killed.
LEMMA UserPending ==
  ASSUME TurnInv, \A d \in Clients : Pending(d), NEW c \in Clients, Launch(c) \/ Kill(c)
  PROVE  \A d \in Clients : Pending(d)'
<1> USE TurnTypes, StatusTypes
    DEF serverVars, mainVars, handlerVars, Move, At
<1>1. CASE Kill(c)
  BY <1>1, ClientHearsWaits DEF Kill, Killed, Proceeds, Advances
<1>2. CASE Launch(c)
  <2>1. /\ cpc[c] = "idle" /\ up[c] = <<>> /\ down[c] = <<>> /\ srv[c] = "none"
        /\ UNCHANGED <<mpc, pc>>
    BY <1>2 DEF Launch, Connect, ConnectRefused, TurnInv, TurnsTaken
  <2>2. pc[c] = "none"  BY <2>1 DEF TurnInv, QueueOrdered
  <2>3. Pending(c)
    OBVIOUS
  <2>4. CASE ConnectRefused(c)
    <3>1. \A d \in Clients \ {c} : Pending(d)'
      BY <2>1, <2>4, OthersPending DEF ConnectRefused, conn
    <3>2. Pending(c)'
      BY <2>1, <2>2, <2>3, <2>4
      DEF ConnectRefused, conn, Pending, Exited, Worded, ResetByPeer, Expected, HasRequest
    <3> QED  BY <3>1, <3>2
  <2>5. CASE Connect(c)
    <3>1. PICK r \in Plan[c] : CliConnect(c, r)  BY <2>5 DEF Connect
    <3>2. /\ cpc' = [cpc EXCEPT ![c] = "send"] /\ UNCHANGED status
          /\ srv' = [srv EXCEPT ![c] = "queued"] /\ req' = [req EXCEPT ![c] = r]
          /\ cli' = [cli EXCEPT ![c] = "open"] /\ UNCHANGED <<up, down>>
      BY <2>5, <3>1 DEF Connect, CliConnect
    <3>3. \A d \in Clients \ {c} : Pending(d)'
      BY <2>1, <3>2, OthersPending DEF ConnTypeOK
    <3>4. srv'[c] = "queued" /\ cpc'[c] = "send" /\ req'[c] # None
      BY <3>1, <3>2, ClientAssumption, CommonAssumption DEF ConnTypeOK
    <3>5. Pending(c)'
      BY <2>1, <2>2, <2>3, <3>2, <3>4
      DEF Pending, Exited, Worded, ResetByPeer, Expected, WriteHeard, HasRequest
    <3> QED  BY <3>3, <3>5
  <2> QED  BY <1>2, <2>4, <2>5 DEF Launch
<1> QED  BY <1>1, <1>2

\* The accept loop lets nobody down that asks for a WRITE.
LEMMA MainPending ==
  ASSUME TurnInv, \A d \in Clients : Pending(d), MainStep, UNCHANGED clientVars
  PROVE  \A d \in Clients : Pending(d)'
<1> USE TurnTypes DEF clientVars, handlerVars
<1> DEFINE Done == \A d \in Clients : Pending(d)'
<1> SUFFICES Done
  OBVIOUS
<1>1. CASE RecvNothing \/ Exit
  BY <1>1, DeathWaits DEF RecvNothing, Exit
<1>2. ASSUME NEW c \in Clients, mpc # "dead", UNCHANGED <<req, down, cpc, status>>,
             \A d \in Clients \ {c} : /\ pc'[d] = pc[d] /\ cli'[d] = cli[d]
                                      /\ srv'[d] = srv[d] /\ up'[d] = up[d],
             pc'[c] \in {pc[c], "start"} /\ pc[c] = "none",
             srv[c] # "none", srv'[c] = "reset" => srv[c] = "reset",
             cli[c] = "closed" => cli'[c] = "closed",
             up'[c] \in {up[c], <<>>},
             srv'[c] = "closed" => srv[c] = "closed" \/ req[c].cmd # "WRITE"
      PROVE  Done
  <2>1. \A d \in Clients \ {c} : Pending(d)'
    BY <1>2, OthersPending
  <2>2. Pending(c)
    OBVIOUS
  <2>3. Expected(c)'
    BY <1>2, <2>2 DEF Pending, Expected, Asking, WriteHeard
  <2>4. Pending(c)'
    BY <1>2, <2>2, <2>3 DEF Pending, Exited, Worded, ResetByPeer, HasRequest
  <2> QED  BY <2>1, <2>4
<1> HIDE DEF Done
<1>3. ASSUME NEW c \in Clients, Accept(c) PROVE Done
  <2>1. 1 \in DOMAIN backlog /\ c = backlog[1]
    BY <1>3 DEF Accept, SrvAccept, ConnTypeOK
  <2>2. pc[c] = "none" /\ srv[c] = "queued"  BY <2>1 DEF TurnInv, QueueOrdered
  <2> QED  BY <1>2, <1>3, <2>2 DEF Accept, SrvAccept, ConnTypeOK
<1>4. CASE RecvCommand
  <2>1. cur \in Clients /\ pc[cur] = "none" /\ srv[cur] # "none"
    BY <1>4 DEF RecvCommand, TurnInv, QueueOrdered
  <2>2. up[cur] \in Seq(Text) /\ Len(up[cur]) <= 1 /\ up[cur] # <<>>
    BY <1>4, <2>1 DEF RecvCommand, SrvRecv, TurnInv, TurnsTaken, ConnTypeOK
  <2>3. Tail(up[cur]) = <<>>  BY <2>2
  <2> QED  BY <1>2, <1>4, <2>1, <2>3 DEF RecvCommand, SrvRecv, ConnTypeOK
<1>5. CASE ParseStop \/ ParseSkip
  <2>1. cur \in Clients /\ pc[cur] = "none" /\ srv[cur] # "none"
    BY <1>5 DEF ParseStop, ParseSkip, TurnInv, QueueOrdered
  <2> QED
    BY <1>2, <1>5, <2>1 DEF ParseStop, ParseSkip, SrvClose, ConnTypeOK, Usable
<1>6. CASE ParseSpawn
  <2>1. cur \in Clients /\ pc[cur] = "none" /\ srv[cur] # "none"
    BY <1>6 DEF ParseSpawn, TurnInv, QueueOrdered
  <2> QED  BY <1>2, <1>6, <2>1 DEF ParseSpawn, Goto, conn
<1> QED  BY <1>1, <1>3, <1>4, <1>5, <1>6 DEF MainStep

LEMMA NextPending ==
  ASSUME TurnInv, \A d \in Clients : Pending(d), [Next]_vars
  PROVE  \A d \in Clients : Pending(d)'
<1>1. ASSUME UNCHANGED vars PROVE \A d \in Clients : Pending(d)'
  BY <1>1
  DEF vars, serverVars, mainVars, handlerVars, clientVars, conn,
    Pending, Exited, Worded, ResetByPeer, Expected, HasRequest
<1> QED
  BY <1>1, MainPending, HandlerPending, ClientPending, UserPending
  DEF Next, Main, Handler, Client, Finished

(***************************************************************************)
(* What is empty.                                                          *)
(***************************************************************************)
\* Where a handler does nothing to the disk any more.
SettledPCs == {"reply", "close", "done", "killed"}

\* The data file of a handle_rm that is about to unlink it has no other name.
FileOf(c) == pc[c] = "r_unlinkfile" =>
  fd[c] # None /\ \A p \in Paths : link["file"][p] = fd[c] => p = path[c]

\* Nobody has opened what a handler has not created yet.
Unowned(c) == pc[c] \in BeforeFile => \A d \in Clients : fd[d] # <<c, "file">>

Excused == \E c \in Clients :
  status[c] = "fail" \/ (op[c] # None /\ ~Faithful(c) /\ pc[c] \in SettledPCs)

InHand(i) == \E c \in Clients : fd[c] = i /\ pc[c] \in {"w_store", "r_unlinkfile"}

Covered == mpc # "dead" => \A p \in Paths :
  link["file"][p] # None /\ data[link["file"][p]] = <<>> =>
    Excused \/ InHand(link["file"][p])

EmptyInv ==
  /\ InodeInv /\ Covered
  /\ \A c \in Clients : Pending(c) /\ FileOf(c) /\ Unowned(c)
  /\ mpc = "dead" => NobodyWorks

\* An excuse stays one.
LEMMA ExcusedStays ==
  ASSUME Excused, \A c \in Clients :
           /\ status[c] = "fail" => status'[c] = "fail"
           /\ pc[c] \in SettledPCs => /\ pc'[c] \in SettledPCs /\ op'[c] = op[c]
                                      /\ path'[c] = path[c] /\ req'[c] = req[c]
  PROVE  Excused'
BY DEF Excused, Faithful

\* A handler has its path to itself, and keeps it once it has settled.
LEMMA HandlerPath ==
  ASSUME TurnInv, NEW c \in Clients, HandlerStep(c), ~Sigpipe(c)
  PROVE  /\ \A d \in Clients \ {c} : path'[d] = path[d]
         /\ pc[c] \in SettledPCs => /\ pc'[c] \in SettledPCs /\ op'[c] = op[c]
                                    /\ path'[c] = path[c]
         /\ UNCHANGED <<req, mpc>>
<1> USE HandlerTypes, DiskTypes DEF SettledPCs, Goto, Answer, mainVars, conn
<1> DEFINE Done ==
      /\ \A d \in Clients \ {c} : path'[d] = path[d]
      /\ pc[c] \in SettledPCs => /\ pc'[c] \in SettledPCs /\ op'[c] = op[c]
                                 /\ path'[c] = path[c]
      /\ UNCHANGED <<req, mpc>>
<1> SUFFICES Done
  OBVIOUS
<1>1. (\E m : SrvSend(c, m)) \/ SrvRecv(c) \/ SrvClose(c) \/ SrvSendError(c) => UNCHANGED req
  BY DEF SrvSend, SrvRecv, SrvClose, SrvSendError
<1>2. Write(c) => Done
  BY <1>1
  DEF Write, WritePermission, WriteAck, WriteCheck, WriteDrain, WriteOpenMeta,
    WriteMeta, WritePath, WriteOpenFile, WriteStore, ReadPath
<1>3. Get(c) => Done
  BY <1>1 DEF Get, GetPath, GetOpen, GetRead, GetSend, GetAck, ReadPath
<1>4. Rm(c) => Done
  BY <1>1
  DEF Rm, RmPath, RmCheck, RmRecheck, RmOpenMeta, RmUnlinkMeta, RmPath2, RmOpenFile,
    RmUnlinkFile, ReadPath
<1>5. Ls(c) => Done
  BY <1>1 DEF Ls, LsPath, LsOpen, LsRead, LsSend, ReadPath
<1>6. Start(c) \/ Reply(c) \/ Close(c) => Done
  BY <1>1 DEF Start, Reply, Close
<1> QED  BY <1>2, <1>3, <1>4, <1>5, <1>6 DEF HandlerStep

\* Texts that are not empty are not empty on the disk.
LEMMA WrittenNotEmpty ==
  ASSUME NEW old \in Seq(Stored), NEW t \in Text, t # <<>>
  PROVE  Overlay(old, PbEncode(t)) # <<>>
<1> DEFINE new == PbEncode(t)
           rest == SubSeq(old, Len(new) + 1, Len(old))
<1>1. new \in Seq(Stored)  BY PbEncodeStored
<1>2. Len(new) > 0
  <2>1. t \in Seq(Cell)  BY DEF Text
  <2>2. 1 \in DOMAIN t  BY <2>1
  <2>3. 1 \in DOMAIN new  BY <2>2 DEF PbEncode
  <2> HIDE DEF new
  <2> QED  BY <1>1, <2>3
<1> HIDE DEF new
<1>3. rest \in Seq(Stored)
  <2>1. \A i \in Len(new) + 1 .. Len(old) : old[i] \in Stored
    BY <1>1
  <2> QED  BY <1>1, <2>1, SubSeqProperties
<1> HIDE DEF rest
<1>4. Len(new \o rest) = Len(new) + Len(rest) /\ new \o rest \in Seq(Stored)
  BY <1>1, <1>3, ConcatProperties
<1>5. new \o rest # <<>>
  <2>1. Len(new) + Len(rest) > 0  BY <1>1, <1>2, <1>3
  <2> QED  BY <1>4, <2>1
<1> QED  BY <1>5 DEF Overlay, new, rest

(***************************************************************************)
(* The steps of a handler on the data files.                               *)
(***************************************************************************)
\* Inodes have a kind, None and Empty have not.
LEMMA InodeNames ==
  ASSUME NEW c \in Clients, NEW k \in Kinds
  PROVE  <<c, k>> \in Inodes /\ <<c, k>> # None /\ <<c, k>> # Empty
<1>1. <<c, k>> \in (Clients \cup Names) \X Kinds
  OBVIOUS
<1> QED  BY <1>1, CommonAssumption DEF Inodes

FilesAlone ==
  /\ link'["file"] = link["file"]
  /\ \A i \in Inodes : i[2] = "file" => data'[i] = data[i]

\* What the steps below have in common.
HandlerAt(c) ==
  /\ EmptyInv /\ OnlyOf(c) /\ (\A d \in Clients \ {c} : path'[d] = path[d])
  /\ UNCHANGED <<req, mpc, status>>
  /\ pc[c] \in SettledPCs => /\ pc'[c] \in SettledPCs /\ op'[c] = op[c]
                             /\ path'[c] = path[c]

LEMMA HandlerExcused ==
  ASSUME NEW c \in Clients, HandlerAt(c), Excused
  PROVE  Excused'
BY ExcusedStays DEF HandlerAt, OnlyOf

LEMMA HandlerFacts ==
  ASSUME NEW c \in Clients, HandlerAt(c)
  PROVE  /\ TurnInv /\ DiskTypeOK /\ LinkKinds /\ LinksApart
         /\ \A d \in Clients : Unlinked(d) /\ FileOf(d) /\ Unowned(d) /\ Pending(d)
         /\ Covered
BY DiskTypes DEF HandlerAt, EmptyInv, InodeInv, HeaderInv, LeakInv

\* A handler that leaves the data files alone may open one for reading.
LEMMA AloneCovered ==
  ASSUME NEW c \in Clients, HandlerAt(c), FilesAlone,
         pc[c] \notin {"w_store", "r_unlinkfile"}, pc'[c] # "r_unlinkfile",
         pc'[c] \in BeforeFile => pc[c] \in BeforeFile,
         \/ fd'[c] \in {fd[c], None, Empty}
         \/ \E k \in Kinds, p \in Paths : fd'[c] = link[k][p]
  PROVE  Covered' /\ \A d \in Clients : FileOf(d)' /\ Unowned(d)'
<1> USE HandlerFacts
<1>1. \A d \in Clients : FileOf(d)'
  BY DEF HandlerAt, OnlyOf, FileOf, FilesAlone
<1>2. ASSUME NEW d \in Clients PROVE Unowned(d)'
  <2>1. ASSUME pc'[d] \in BeforeFile PROVE fd'[c] # <<d, "file">>
    <3>1. pc[d] \in BeforeFile  BY <2>1 DEF HandlerAt, OnlyOf
    <3>2. fd[c] # <<d, "file">>  BY <3>1 DEF Unowned
    <3>3. <<d, "file">> # None /\ <<d, "file">> # Empty /\ <<d, "file">>[2] = "file"
      BY InodeNames DEF Kinds
    <3>4. \A k \in Kinds, p \in Paths : link[k][p] # <<d, "file">>
      <4> SUFFICES ASSUME NEW k \in Kinds, NEW p \in Paths, link[k][p] = <<d, "file">>
                   PROVE  FALSE
        OBVIOUS
      <4>1. k = "file"  BY <3>3 DEF LinkKinds
      <4> QED  BY <3>1, <4>1 DEF Unlinked
    <3> QED  BY <3>2, <3>3, <3>4
  <2> QED  BY <2>1 DEF HandlerAt, OnlyOf, Unowned
<1>3. Covered'
  <2> SUFFICES ASSUME mpc # "dead", NEW p \in Paths,
                      NEW i, i = link'["file"][p], i # None, data'[i] = <<>>
               PROVE  Excused' \/ InHand(i)'
    BY DEF Covered, HandlerAt, InHand
  <2>1. i \in Inodes /\ i[2] = "file" /\ link["file"][p] = i
    BY DEF FilesAlone, LinkKinds, DiskTypeOK, Kinds
  <2>2. data[i] = <<>>  BY <2>1 DEF FilesAlone
  <2>3. Excused \/ InHand(i)  BY <2>1, <2>2 DEF Covered
  <2>4. InHand(i) => InHand(i)'  BY DEF InHand, HandlerAt, OnlyOf
  <2> QED  BY <2>1, <2>3, <2>4, HandlerExcused
<1> QED  BY <1>1, <1>2, <1>3

\* A handler opens a data file, and holds what it has emptied.
LEMMA OpenCovered ==
  ASSUME NEW c \in Clients, HandlerAt(c), path[c] \in Paths, path'[c] = path[c],
         OpenTrunc("file", path[c], <<c, "file">>),
         fd'[c] = Opened("file", path[c], <<c, "file">>),
         pc[c] \in BeforeFile, pc'[c] \in {"w_store", "r_unlinkfile"}
  PROVE  Covered' /\ \A d \in Clients : FileOf(d)' /\ Unowned(d)'
<1> DEFINE opened == Opened("file", path[c], <<c, "file">>)
<1> USE HandlerFacts
<1>1. \A q \in Paths : link'["file"][q] = IF q = path[c] THEN opened ELSE link["file"][q]
  BY DEF OpenTrunc, DiskTypeOK, Kinds
<1>2. opened # None /\ opened \in {link["file"][path[c]], <<c, "file">>}
  BY InodeNames DEF Opened, Kinds
<1>3. <<c, "file">> # None /\ \A q \in Paths : link["file"][q] # <<c, "file">>
  BY InodeNames DEF Unlinked, Kinds
<1>4. \A q \in Paths : link'["file"][q] = opened => q = path[c]
  BY <1>1, <1>2, <1>3 DEF LinksApart, Kinds, Opened
<1>5. ASSUME NEW d \in Clients \ {c} PROVE FileOf(d)'
  <2>1. fd[d] # <<c, "file">>  BY DEF Unowned
  <2>2. pc'[d] = pc[d] /\ fd'[d] = fd[d] /\ path'[d] = path[d]
    BY DEF HandlerAt, OnlyOf
  <2>3. FileOf(d)
    OBVIOUS
  <2> QED  BY <1>1, <1>2, <2>1, <2>2, <2>3 DEF FileOf
<1>6. FileOf(c)'  BY <1>2, <1>4 DEF FileOf
<1>7. ASSUME NEW d \in Clients PROVE Unowned(d)'
  <2>1. ASSUME pc'[d] \in BeforeFile PROVE pc[d] \in BeforeFile /\ d # c /\ opened # <<d, "file">>
    <3>1. d # c  BY <2>1 DEF BeforeFile, BeforeMeta
    <3>2. pc[d] \in BeforeFile  BY <2>1, <3>1 DEF HandlerAt, OnlyOf
    <3> QED  BY <1>2, <3>1, <3>2 DEF Unlinked
  <2> QED  BY <2>1 DEF HandlerAt, OnlyOf, Unowned
<1>8. Covered'
  <2> SUFFICES ASSUME mpc # "dead", NEW p \in Paths,
                      NEW i, i = link'["file"][p], i # None, data'[i] = <<>>
               PROVE  Excused' \/ InHand(i)'
    BY DEF Covered, HandlerAt, InHand
  <2>1. CASE p = path[c]
    BY <1>1, <2>1 DEF InHand
  <2>2. CASE p # path[c]
    <3>1. link["file"][p] = i /\ i # opened /\ i \in Inodes
      BY <1>1, <1>4, <2>2 DEF DiskTypeOK, Kinds
    <3>2. data[i] = <<>>  BY <3>1 DEF OpenTrunc, DiskTypeOK
    <3>3. Excused \/ InHand(i)  BY <3>1, <3>2 DEF Covered
    <3>4. InHand(i) => InHand(i)'
      BY DEF InHand, HandlerAt, OnlyOf, BeforeFile, BeforeMeta
    <3> QED  BY <3>1, <3>3, <3>4, HandlerExcused
  <2> QED  BY <2>1, <2>2
<1> QED  BY <1>5, <1>6, <1>7, <1>8

\* A handler lets go of a file, which is not empty or has no name or an excuse.
LEMMA LeaveCovered ==
  ASSUME NEW c \in Clients, HandlerAt(c), pc[c] \in {"w_store", "r_unlinkfile"},
         pc'[c] \in {"reply", "close"}, fd'[c] \in {fd[c], None},
         \A p \in Paths : link'["file"][p] \in {link["file"][p], None},
         \A j \in Inodes : data'[j] = data[j] \/ data'[j] # <<>>,
         \/ Excused'
         \/ \A p \in Paths : link'["file"][p] = fd[c] /\ fd[c] # None
              => data'[fd[c]] # <<>>
  PROVE  Covered' /\ \A d \in Clients : FileOf(d)' /\ Unowned(d)'
<1> USE HandlerFacts
<1>1. \A d \in Clients : FileOf(d)'
  <2> SUFFICES ASSUME NEW d \in Clients, pc'[d] = "r_unlinkfile" PROVE FileOf(d)'
    BY DEF FileOf
  <2>1. pc[d] = "r_unlinkfile" /\ fd'[d] = fd[d] /\ path'[d] = path[d]
    BY DEF HandlerAt, OnlyOf
  <2> QED  BY <2>1 DEF FileOf
<1>2. \A d \in Clients : Unowned(d)'
  <2> SUFFICES ASSUME NEW d \in Clients, pc'[d] \in BeforeFile
               PROVE  \A e \in Clients : fd'[e] # <<d, "file">>
    BY DEF Unowned
  <2>1. pc[d] \in BeforeFile  BY DEF HandlerAt, OnlyOf, BeforeFile, BeforeMeta
  <2>2. <<d, "file">> # None  BY InodeNames DEF Kinds
  <2>3. \A e \in Clients : fd'[e] \in {fd[e], None}  BY DEF HandlerAt, OnlyOf
  <2> QED  BY <2>1, <2>2, <2>3 DEF Unowned
<1>3. Covered'
  <2> SUFFICES ASSUME mpc # "dead", NEW p \in Paths,
                      NEW i, i = link'["file"][p], i # None, data'[i] = <<>>
               PROVE  Excused' \/ InHand(i)'
    BY DEF Covered, HandlerAt, InHand
  <2>1. link["file"][p] = i /\ i \in Inodes
    BY DEF DiskTypeOK, Kinds
  <2>2. data[i] = <<>>  BY <2>1
  <2>3. Excused \/ InHand(i)  BY <2>1, <2>2 DEF Covered
  <2>4. CASE i = fd[c]
    BY <2>1, <2>4
  <2>5. CASE i # fd[c]
    <3>1. InHand(i) => InHand(i)'  BY <2>5 DEF InHand, HandlerAt, OnlyOf
    <3> QED  BY <2>1, <2>3, <3>1, HandlerExcused
  <2> QED  BY <2>4, <2>5
<1> QED  BY <1>1, <1>2, <1>3

\* Steps in the meta tree leave the data files alone.
LEMMA MetaAlone ==
  ASSUME DiskTypeOK, LinkKinds, NEW c \in Clients, NEW p \in Paths,
         \/ OpenTrunc("meta", p, <<c, "meta">>)
         \/ Unlink("meta", p)
         \/ \E s : \E i \in Inodes : i[2] = "meta" /\ WriteStart(i, s)
         \/ UNCHANGED disk
  PROVE  FilesAlone
<1>1. link'["file"] = link["file"]
  BY DEF OpenTrunc, Unlink, WriteStart, disk, DiskTypeOK, Kinds
<1>2. OpenTrunc("meta", p, <<c, "meta">>) => \A i \in Inodes : i[2] = "file" => data'[i] = data[i]
  BY OpenKinds DEF OpenTrunc, DiskTypeOK, Kinds
<1>3. \A i \in Inodes : i[2] = "file" => data'[i] = data[i]
  BY <1>2 DEF Unlink, WriteStart, disk, DiskTypeOK
<1> QED  BY <1>1, <1>3 DEF FilesAlone

\* The connection has ended before the contents came.
LEMMA NothingSent ==
  ASSUME NEW c \in Clients, HandlerAt(c), mpc # "dead", pc[c] = "w_store",
         pc'[c] \in SettledPCs, UNCHANGED <<op, path>>,
         SrvEof(c) \/ SrvRecvError(c)
  PROVE  Excused'
<1> USE HandlerFacts
<1>1. cli[c] = "closed" /\ up[c] = <<>>
  BY DEF SrvEof, SrvRecvError, Pending, ResetByPeer
<1>2. cpc[c] = "done"  BY <1>1 DEF TurnInv, TurnsTaken
<1>3. op[c] = "WRITE"
  BY DEF HandlerAt, EmptyInv, InodeInv, HeaderInv, LeakInv, Accounted, OnPath, WritePCs
<1>4. req[c] # None  BY DEF Pending, HasRequest, TurnInv, QueueOrdered
<1>5. CASE Faithful(c)
  <2>1. status[c] = "fail"
    BY <1>1, <1>2, <1>3, <1>4, <1>5 DEF Faithful, Pending, Expected, WriteHeard
  <2> QED  BY <2>1 DEF Excused, HandlerAt
<1>6. CASE ~Faithful(c)
  <2>1. "WRITE" # None
    BY CommonAssumption DEF Commands, Handled
  <2> QED  BY <1>3, <1>6, <2>1 DEF Excused, Faithful, HandlerAt
<1> QED  BY <1>5, <1>6

LEMMA HandlerCovered ==
  ASSUME EmptyInv, NEW c \in Clients, HandlerStep(c), ~Sigpipe(c), mpc # "dead",
         UNCHANGED status
  PROVE  Covered' /\ \A d \in Clients : FileOf(d)' /\ Unowned(d)'
<1>1. HandlerAt(c)
  BY HandlerAccounted, HandlerPath DEF HandlerAt, EmptyInv, InodeInv, HeaderInv, LeakInv
<1> USE <1>1, HandlerFacts, HandlerTypes, DiskTypes
<1> DEFINE Done == Covered' /\ \A d \in Clients : FileOf(d)' /\ Unowned(d)'
           Steps(label) ==
             /\ Goto(c, label) /\ label # "r_unlinkfile"
             /\ pc[c] \notin {"w_store", "r_unlinkfile"}
             /\ label \in BeforeFile => pc[c] \in BeforeFile
           Opens(label) ==
             /\ path[c] \in Paths /\ UNCHANGED path
             /\ OpenTrunc("file", path[c], <<c, "file">>)
             /\ fd'[c] = Opened("file", path[c], <<c, "file">>)
             /\ pc[c] \in BeforeFile
             /\ Goto(c, label) /\ label \in {"w_store", "r_unlinkfile"}
<1> SUFFICES Done
  OBVIOUS
<1>2. ASSUME NEW label, Steps(label), FilesAlone,
             \/ fd'[c] \in {fd[c], None, Empty}
             \/ \E k \in Kinds, p \in Paths : fd'[c] = link[k][p]
      PROVE  Done
  <2>1. pc'[c] = label  BY <1>2 DEF Goto
  <2> QED  BY <1>2, <2>1, AloneCovered
<1>3. ASSUME NEW label, Opens(label) PROVE Done
  <2>1. pc'[c] = label  BY <1>3 DEF Goto
  <2> QED  BY <1>3, <2>1, OpenCovered
<1>4. UNCHANGED disk => FilesAlone  BY DEF disk, FilesAlone
<1>5. ASSUME NEW label, Steps(label), UNCHANGED disk,
             \/ fd'[c] \in {fd[c], None, Empty}
             \/ \E k \in Kinds, p \in Paths : fd'[c] = link[k][p]
      PROVE  Done
  BY <1>2, <1>4, <1>5
<1> HIDE DEF Done
<1> USE DEF BeforeFile, BeforeMeta
<1>6. CASE Start(c)  BY <1>5, <1>6 DEF Start
<1>7. CASE Reply(c)  BY <1>5, <1>7 DEF Reply
<1>8. CASE Close(c)  BY <1>5, <1>8 DEF Close
<1>9. CASE Write(c)
  <2>1. CASE WritePermission(c)  BY <1>5, <2>1 DEF WritePermission
  <2>2. CASE WriteAck(c)  BY <1>5, <2>2 DEF WriteAck
  <2>3. CASE WriteCheck(c)  BY <1>5, <2>3 DEF WriteCheck
  <2>4. CASE WriteDrain(c)  BY <1>5, <2>4 DEF WriteDrain, Answer
  <2>5. CASE WriteOpenMeta(c)
    <3>1. CASE path[c] = Empty  BY <1>5, <2>5, <3>1 DEF WriteOpenMeta
    <3>2. CASE path[c] # Empty
      <4>1. path[c] \in Paths  BY <2>5, <3>2 DEF WriteOpenMeta, PathsKnown
      <4>2. FilesAlone  BY <2>5, <3>2, <4>1, MetaAlone DEF WriteOpenMeta
      <4> QED  BY <1>2, <2>5, <3>2, <4>2 DEF WriteOpenMeta
    <3> QED  BY <3>1, <3>2
  <2>6. CASE WriteMeta(c)
    <3>1. mfd[c] \in Inodes /\ mfd[c][2] = "meta"
      BY <2>6 DEF WriteMeta, OpenKnown, EmptyInv, InodeInv, HeaderInv, OwnKinds
    <3>2. FilesAlone
      BY <2>6, <3>1 DEF WriteMeta, WriteStart, FilesAlone, DiskTypeOK
    <3> QED  BY <1>2, <2>6, <3>2 DEF WriteMeta
  <2>7. CASE WritePath(c)  BY <1>5, <2>7 DEF WritePath
  <2>8. CASE WriteOpenFile(c)
    <3>1. CASE path[c] = Empty  BY <1>5, <2>8, <3>1 DEF WriteOpenFile
    <3>2. CASE path[c] # Empty
      <4>1. Opens("w_store")
        BY <2>8, <3>2 DEF WriteOpenFile, PathsKnown
      <4> QED  BY <1>3, <4>1
    <3> QED  BY <3>1, <3>2
  <2>9. CASE WriteStore(c)
    <3>1. fd[c] \in Inodes /\ fd'[c] = None /\ UNCHANGED <<op, path>> /\ pc[c] = "w_store"
      BY <2>9 DEF WriteStore, OpenKnown
    <3>2. CASE SrvRecv(c) /\ WriteStart(fd[c], PbEncode(Head(up[c]))) /\ Goto(c, "reply")
      <4>1. up[c] # <<>> /\ up[c] \in Seq(Text)
        BY <3>2 DEF SrvRecv, TurnInv, TypeInv, TypeOK, ConnTypeOK
      <4>2. Head(up[c]) \in Text /\ Head(up[c]) # <<>>
        BY <4>1 DEF Pending, Worded
      <4>3. data[fd[c]] \in Seq(Stored)  BY <3>1 DEF DiskTypeOK
      <4>4. data'[fd[c]] # <<>> /\ link' = link
        BY <3>1, <3>2, <4>2, <4>3, WrittenNotEmpty DEF WriteStart, DiskTypeOK
      <4>5. \A j \in Inodes : data'[j] = data[j] \/ data'[j] # <<>>
        BY <3>2, <4>4 DEF WriteStart, DiskTypeOK
      <4>6. pc'[c] = "reply"  BY <3>2 DEF Goto
      <4> QED  BY <3>1, <4>4, <4>5, <4>6, LeaveCovered DEF Done
    <3>3. CASE (SrvEof(c) \/ SrvRecvError(c)) /\ UNCHANGED disk
                /\ (Goto(c, "reply") \/ Goto(c, "close"))
      <4>1. pc'[c] \in {"reply", "close"}  BY <3>3 DEF Goto
      <4>2. Excused'  BY <3>1, <3>3, <4>1, NothingSent DEF SettledPCs
      <4> QED  BY <3>1, <3>3, <4>1, <4>2, LeaveCovered DEF Done, disk
    <3> QED  BY <2>9, <3>2, <3>3 DEF WriteStore, Answer
  <2> QED  BY <1>9, <2>1, <2>2, <2>3, <2>4, <2>5, <2>6, <2>7, <2>8, <2>9 DEF Write
<1>10. CASE Get(c)
  <2>1. CASE GetPath(c)  BY <1>5, <2>1 DEF GetPath
  <2>2. CASE GetOpen(c)
    <3>1. CASE CanRead("file", path[c])
      <4>1. \/ fd'[c] = Empty
            \/ \E k \in Kinds, p \in Paths : fd'[c] = link[k][p]
        BY <2>2, <3>1 DEF GetOpen, CanRead, Target, Exists, Kinds
      <4> QED  BY <1>5, <2>2, <3>1, <4>1 DEF GetOpen
    <3>2. CASE ~CanRead("file", path[c])  BY <1>5, <2>2, <3>2 DEF GetOpen
    <3> QED  BY <3>1, <3>2
  <2>3. CASE GetRead(c)  BY <1>5, <2>3 DEF GetRead
  <2>4. CASE GetSend(c)  BY <1>5, <2>4 DEF GetSend
  <2>5. CASE GetAck(c)  BY <1>5, <2>5 DEF GetAck, Answer
  <2> QED  BY <1>10, <2>1, <2>2, <2>3, <2>4, <2>5 DEF Get
<1>11. CASE Rm(c)
  <2>1. CASE RmPath(c)  BY <1>5, <2>1 DEF RmPath
  <2>2. CASE RmCheck(c)  BY <1>5, <2>2 DEF RmCheck, Answer
  <2>3. CASE RmRecheck(c)  BY <1>5, <2>3 DEF RmRecheck, Answer
  <2>4. CASE RmOpenMeta(c)
    <3>1. path[c] \in Paths  BY <2>4 DEF RmOpenMeta, PathsKnown
    <3>2. FilesAlone  BY <2>4, <3>1, MetaAlone DEF RmOpenMeta
    <3> QED  BY <1>2, <2>4, <3>2 DEF RmOpenMeta
  <2>5. CASE RmUnlinkMeta(c)
    <3>1. CASE Exists("meta", path[c])
      <4>1. path[c] \in Paths  BY <3>1 DEF Exists
      <4>2. FilesAlone  BY <2>5, <3>1, <4>1, MetaAlone DEF RmUnlinkMeta
      <4> QED  BY <1>2, <2>5, <3>1, <4>2 DEF RmUnlinkMeta
    <3>2. CASE ~Exists("meta", path[c])  BY <1>5, <2>5, <3>2 DEF RmUnlinkMeta
    <3> QED  BY <3>1, <3>2
  <2>6. CASE RmPath2(c)  BY <1>5, <2>6 DEF RmPath2
  <2>7. CASE RmOpenFile(c)
    <3>1. CASE path[c] = Empty  BY <1>5, <2>7, <3>1 DEF RmOpenFile
    <3>2. CASE path[c] # Empty
      <4>1. Opens("r_unlinkfile")
        BY <2>7, <3>2 DEF RmOpenFile, PathsKnown
      <4> QED  BY <1>3, <4>1
    <3> QED  BY <3>1, <3>2
  <2>8. CASE RmUnlinkFile(c)
    <3>1. pc[c] = "r_unlinkfile" /\ fd'[c] \in {fd[c], None} /\ pc'[c] \in {"reply", "close"}
      BY <2>8 DEF RmUnlinkFile, Answer, Goto
    <3>2. /\ \A p \in Paths : link'["file"][p] \in {link["file"][p], None}
          /\ link'["file"][path[c]] = None \/ path[c] \notin Paths
          /\ data' = data
      BY <2>8 DEF RmUnlinkFile, Exists, Unlink, disk, DiskTypeOK, Kinds
    <3>3. \A p \in Paths : ~(link'["file"][p] = fd[c] /\ fd[c] # None)
      BY <3>1, <3>2 DEF FileOf
    <3> QED  BY <3>1, <3>2, <3>3, LeaveCovered DEF Done
  <2> QED  BY <1>11, <2>1, <2>2, <2>3, <2>4, <2>5, <2>6, <2>7, <2>8 DEF Rm
<1>12. CASE Ls(c)
  <2>1. CASE LsPath(c)  BY <1>5, <2>1 DEF LsPath
  <2>2. CASE LsOpen(c)
    <3>1. CASE CanRead("meta", path[c])
      <4>1. \/ fd'[c] = Empty
            \/ \E k \in Kinds, p \in Paths : fd'[c] = link[k][p]
        BY <2>2, <3>1 DEF LsOpen, CanRead, Target, Exists, Kinds
      <4> QED  BY <1>5, <2>2, <3>1, <4>1 DEF LsOpen
    <3>2. CASE ~CanRead("meta", path[c])  BY <1>5, <2>2, <3>2 DEF LsOpen, Answer
    <3> QED  BY <3>1, <3>2
  <2>3. CASE LsRead(c)  BY <1>5, <2>3 DEF LsRead
  <2>4. CASE LsSend(c)  BY <1>5, <2>4 DEF LsSend
  <2> QED  BY <1>12, <2>1, <2>2, <2>3, <2>4 DEF Ls
<1> QED
  BY <1>6, <1>7, <1>8, <1>9, <1>10, <1>11, <1>12 DEF HandlerStep

(***************************************************************************)
(* The invariant.                                                          *)
(***************************************************************************)
\* Everything but a handler: the disk stays as it is.
LEMMA RestCovered ==
  ASSUME EmptyInv, UNCHANGED <<disk, fd, op, path>>, mpc' # "dead" => mpc # "dead",
         \A c \in Clients :
           /\ pc'[c] # pc[c] => pc[c] = "none" /\ pc'[c] = "start"
           /\ status[c] = "fail" => status'[c] = "fail"
           /\ pc[c] # "none" => req'[c] = req[c]
  PROVE  Covered' /\ \A d \in Clients : FileOf(d)' /\ Unowned(d)'
<1>1. \A d \in Clients : FileOf(d)' /\ Unowned(d)'
  BY DEF EmptyInv, FileOf, Unowned, BeforeFile, BeforeMeta, disk
<1>2. Excused => Excused'  BY ExcusedStays DEF SettledPCs
<1>3. Covered'
  <2> SUFFICES ASSUME mpc # "dead", NEW p \in Paths,
                      NEW i, i = link["file"][p], i # None, data[i] = <<>>
               PROVE  Excused' \/ InHand(i)'
    BY DEF Covered, InHand, disk
  <2>1. Excused \/ InHand(i)  BY DEF EmptyInv, Covered
  <2>2. InHand(i) => InHand(i)'  BY DEF InHand
  <2> QED  BY <1>2, <2>1, <2>2
<1> QED  BY <1>1, <1>3

\* The process is gone, and so is what its handlers had open.
LEMMA DeathCovered ==
  ASSUME EmptyInv, NEW reason, ServerDies(reason)
  PROVE  Covered' /\ NobodyWorks' /\ \A d \in Clients : FileOf(d)' /\ Unowned(d)'
<1>1. \A c \in Clients : /\ pc'[c] # "r_unlinkfile" /\ pc'[c] \in {"none", "done", "killed"}
                         /\ fd'[c] = None /\ <<c, "file">> # None
  BY InodeNames DEF ServerDies, Working, Kinds
<1>2. mpc' = "dead"  BY DEF ServerDies
<1> QED  BY <1>1, <1>2 DEF Covered, NobodyWorks, Working, FileOf, Unowned

\* A client that has failed has failed.
LEMMA FailureStays ==
  ASSUME TurnInv, NEW c \in Clients, Pending(c), Client(c) \/ Launch(c) \/ Kill(c)
  PROVE  \A d \in Clients : /\ status[d] = "fail" => status'[d] = "fail"
                            /\ pc[d] # "none" => req'[d] = req[d]
<1> USE TurnTypes, StatusTypes DEF At, Move, Return, conn
<1>1. CASE Client(c)
  <2>1. UNCHANGED req
    BY <1>1
    DEF Client, ClientStep, SendRequest, CloseSocket, AwaitAck, SendFile, OpenLocal,
      Fetch, Confirm, AwaitResult, CliSend, CliRecv, CliClose
  <2>2. \A d \in Clients \ {c} : status'[d] = status[d]
    BY <1>1
    DEF Client, ClientStep, SendRequest, CloseSocket, AwaitAck, SendFile, OpenLocal,
      Fetch, Confirm, AwaitResult
  <2>3. CASE cpc[c] \in {"close", "done"}
    BY <1>1, <2>1, <2>2, <2>3
    DEF Client, ClientStep, SendRequest, CloseSocket, AwaitAck, SendFile, OpenLocal,
      Fetch, Confirm, AwaitResult
  <2>4. CASE cpc[c] \notin {"close", "done"}
    BY <2>1, <2>2, <2>4 DEF Pending, Exited
  <2> QED  BY <2>3, <2>4
<1>2. CASE Launch(c)
  <2>1. pc[c] = "none"  
    BY <1>2 DEF Launch, Connect, ConnectRefused, TurnInv, TurnsTaken, QueueOrdered
  <2>2. CASE ConnectRefused(c)
    BY <2>2 DEF ConnectRefused
  <2>3. CASE Connect(c)
    <3>1. PICK r \in Plan[c] : req' = [req EXCEPT ![c] = r]
      BY <2>3 DEF Connect, CliConnect
    <3>2. UNCHANGED status  BY <2>3 DEF Connect
    <3> QED  BY <2>1, <3>1, <3>2 DEF ConnTypeOK
  <2> QED  BY <1>2, <2>2, <2>3 DEF Launch
<1>3. CASE Kill(c)
  BY <1>3 DEF Kill, Killed, CliClose
<1> QED  BY <1>1, <1>2, <1>3

LEMMA NextEmpty == EmptyInv /\ [Next]_vars => EmptyInv'
<1> SUFFICES ASSUME EmptyInv, [Next]_vars PROVE EmptyInv'
  OBVIOUS
<1> DEFINE Files == Covered' /\ \A d \in Clients : FileOf(d)' /\ Unowned(d)'
           Quiet == mpc' = "dead" => NobodyWorks'
<1>1. TurnInv  BY DEF EmptyInv, InodeInv, HeaderInv, LeakInv
<1>2. InodeInv'  BY NextInodes DEF EmptyInv
<1>3. \A d \in Clients : Pending(d)'  BY <1>1, NextPending DEF EmptyInv
<1>4. ASSUME UNCHANGED vars PROVE Files /\ Quiet
  <2>1. UNCHANGED <<disk, fd, op, path, mpc, pc, status, req>>
    BY <1>4 DEF vars, serverVars, mainVars, handlerVars, clientVars, conn
  <2> QED  BY <2>1, RestCovered DEF EmptyInv, NobodyWorks, Working
<1>5. ASSUME Main PROVE Files /\ Quiet
  <2>1. CASE RecvNothing \/ Exit
    BY <2>1, DeathCovered DEF RecvNothing, Exit
  <2>2. CASE (\E c \in Clients : Accept(c)) \/ RecvCommand \/ ParseStop \/ ParseSkip
    <3>1. UNCHANGED <<disk, fd, op, path, pc, status, req>> /\ mpc # "dead" /\ mpc' # "dead"
      BY <1>5, <2>2
      DEF Main, Accept, RecvCommand, ParseStop, ParseSkip, handlerVars, clientVars,
        SrvAccept, SrvRecv, SrvClose
    <3> QED  BY <3>1, RestCovered
  <2>3. CASE ParseSpawn
    <3>1. cur \in Clients /\ pc[cur] = "none" /\ pc' = [pc EXCEPT ![cur] = "start"]
      BY <1>1, <2>3, TurnTypes DEF ParseSpawn, TurnInv, QueueOrdered, Goto
    <3>2. UNCHANGED <<disk, fd, op, path, status, req>> /\ mpc # "dead" /\ mpc' # "dead"
      BY <1>5, <2>3 DEF Main, ParseSpawn, clientVars, conn
    <3>3. \A c \in Clients : pc'[c] # pc[c] => pc[c] = "none" /\ pc'[c] = "start"
      BY <1>1, <3>1, TurnTypes
    <3> QED  BY <3>2, <3>3, RestCovered
  <2> QED  BY <1>5, <2>1, <2>2, <2>3 DEF Main, MainStep
<1>6. ASSUME NEW c \in Clients, Handler(c) PROVE Files /\ Quiet
  <2>1. CASE Sigpipe(c)  BY <2>1, DeathCovered DEF Sigpipe
  <2>2. CASE ~Sigpipe(c)
    <3>1. HandlerStep(c) /\ UNCHANGED <<status, mpc>>
      BY <1>1, <1>6, <2>2, HandlerPath DEF Handler, clientVars
    <3>2. Working(c)
      BY <3>1
      DEF Working, HandlerStep, Start, Reply, Sigpipe, Close, Write, WritePermission, WriteAck,
        WriteCheck, WriteDrain, WriteOpenMeta, WriteMeta, WritePath, WriteOpenFile,
        WriteStore, Get, GetPath, GetOpen, GetRead, GetSend, GetAck, Rm, RmPath,
        RmCheck, RmRecheck, RmOpenMeta, RmUnlinkMeta, RmPath2, RmOpenFile,
        RmUnlinkFile, Ls, LsPath, LsOpen, LsRead, LsSend
    <3>3. mpc # "dead"  BY <3>2 DEF EmptyInv, NobodyWorks
    <3> QED  BY <2>2, <3>1, <3>3, HandlerCovered
  <2> QED  BY <2>1, <2>2
<1>7. ASSUME NEW c \in Clients, Client(c) \/ Launch(c) \/ Kill(c) PROVE Files /\ Quiet
  <2>1. UNCHANGED <<disk, fd, op, path, mpc, pc>>
    BY <1>7 DEF Client, Launch, Kill, serverVars, mainVars, handlerVars
  <2> QED  BY <1>1, <1>7, <2>1, RestCovered, FailureStays DEF EmptyInv, NobodyWorks, Working
<1>8. Files /\ Quiet
  BY <1>4, <1>5, <1>6, <1>7 DEF Next, Finished
<1> QED  BY <1>2, <1>3, <1>8 DEF EmptyInv

\* An earlier run of the server has left no data file empty.
LeftoverFiles == \A before \in Leftovers, n \in Names : before["file"][n] # <<>>

LEMMA InitPending == Init => \A c \in Clients : Pending(c)
BY DEF Init, ServerInit, ClientInit, ConnInit, Pending, Exited, Worded, ResetByPeer,
  Expected, HasRequest

LEMMA InitEmpty ==
  ASSUME LeftoverHeaders, LeftoverFiles
  PROVE  Init => EmptyInv
<1> SUFFICES ASSUME Init PROVE EmptyInv
  OBVIOUS
<1>1. InodeInv  BY InitInodes
<1>2. Covered
  <2>1. PICK before \in Leftovers : DiskInit(before)  BY DEF Init
  <2>2. ASSUME NEW p \in Paths, link["file"][p] # None PROVE data[link["file"][p]] # <<>>
    <3>1. p \in Names /\ link["file"][p] = <<p, "file">> /\ before["file"][p] # None
      BY <2>1, <2>2 DEF DiskInit, Kinds
    <3>2. data[<<p, "file">>] = before["file"][p]
      BY <2>1, <3>1 DEF DiskInit, Inodes, Kinds
    <3> QED  BY <3>1, <3>2 DEF LeftoverFiles
  <2> QED  BY <2>2 DEF Covered
<1>3. \A c \in Clients : Pending(c) /\ FileOf(c)
  BY InitPending DEF Init, ServerInit, FileOf
<1>4. \A c \in Clients : Unowned(c)
  BY InodeNames DEF Init, ServerInit, Unowned, Kinds
<1>5. mpc # "dead"  BY DEF Init, ServerInit
<1> QED  BY <1>1, <1>2, <1>3, <1>4, <1>5 DEF EmptyInv

\* A data file that is empty when nobody is at work was emptied for a client
\* that failed (serverHandler.c:168-179 takes the end of its connection for an
\* empty file), or by a handler that ran another request than its client's.
THEOREM OnlyFailureEmpties ==
  ASSUME LeftoverHeaders, LeftoverFiles
  PROVE  Spec => []EmptiedByFailure
<1>1. EmptyInv => EmptiedByFailure
  <2> SUFFICES ASSUME EmptyInv, NobodyWorks, mpc = "accept", NEW n \in Names,
                      Exists("file", n), StoredAt(n) = <<>>
               PROVE  \E c \in Clients : status[c] = "fail" \/ (op[c] # None /\ ~Faithful(c))
    BY DEF EmptiedByFailure
  <2>1. Excused \/ InHand(link["file"][n])
    BY DEF EmptyInv, Covered, Exists, StoredAt, Paths
  <2>2. ~InHand(link["file"][n])
    BY DEF InHand, NobodyWorks, Working
  <2> QED  BY <2>1, <2>2 DEF Excused
<1>2. Init => EmptyInv  BY InitEmpty
<1> QED  BY NextEmpty, <1>1, <1>2, PTL DEF Spec

(***************************************************************************)
(* Signals.  Until somebody has left early the server survives as it does  *)
(* with clients that all run to their end; and who has failed has failed.  *)
(***************************************************************************)
LeftEarly == \E c \in BadLocal \cup Killable : status[c] = "fail"

CauseInv == TurnInv /\ (\A c \in Clients : Pending(c)) /\ (LeftEarly \/ SurvivalInv)

LEMMA LeftEarlyStays ==
  ASSUME TurnInv, \A c \in Clients : Pending(c), LeftEarly, [Next]_vars
  PROVE  LeftEarly'
<1>1. BadLocal \cup Killable \subseteq Clients  BY ClientAssumption
<1>2. ASSUME UNCHANGED status PROVE LeftEarly'
  BY <1>2 DEF LeftEarly
<1>3. ASSUME NEW c \in Clients, Client(c) \/ Launch(c) \/ Kill(c) PROVE LeftEarly'
  BY <1>1, <1>3, FailureStays DEF LeftEarly
<1> QED
  BY <1>2, <1>3 DEF Next, Main, Handler, Finished, vars, clientVars

\* Those who leave before they have been answered fail by it.
LEMMA LeavingEarly ==
  ASSUME TurnInv, NEW c \in Clients, Kill(c) \/ (OpenLocal(c) /\ c \in BadLocal)
  PROVE  LeftEarly'
<1>1. c \in BadLocal \cup Killable  BY DEF Kill, Killed
<1>2. status' = [status EXCEPT ![c] = "fail"]
  BY DEF Kill, Killed, OpenLocal, Return
<1> QED  BY <1>1, <1>2, StatusTypes DEF LeftEarly

LEMMA NextCause == CauseInv /\ [Next]_vars => CauseInv'
<1> SUFFICES ASSUME CauseInv, [Next]_vars PROVE CauseInv'
  OBVIOUS
<1>1. TurnInv' /\ \A c \in Clients : Pending(c)'
  BY NextTurns, NextPending DEF CauseInv
<1>2. CASE LeftEarly
  BY <1>1, <1>2, LeftEarlyStays DEF CauseInv
<1>3. CASE SurvivalInv /\ ~LeftEarly'
  <2>1. \A c \in Clients : ~Kill(c) /\ (OpenLocal(c) => c \notin BadLocal)
    BY <1>3, LeavingEarly DEF CauseInv
  <2>2. SurvivalInv'  BY <1>3, <2>1, StepPolite
  <2> QED  BY <1>1, <2>2 DEF CauseInv
<1> QED  BY <1>1, <1>2, <1>3 DEF CauseInv

\* With any number of clients, whatever requests get mixed up, a signal ends the
\* server only after a client that was killed, or whose local path could not be
\* opened, has failed: no handler sends twice into a closed connection, and no
\* connection ends without a request (server.c:116-124), before that.
THEOREM SignalsHaveCauses == Spec => []SignalHasCause
<1>1. CauseInv => SignalHasCause
  BY DEF CauseInv, LeftEarly, SurvivalInv, ServerSurvives, SignalHasCause
<1>2. Init => CauseInv  BY InitTurns, InitPending, InitPolite DEF CauseInv
<1> QED  BY NextCause, <1>1, <1>2, PTL DEF Spec

=============================================================================
