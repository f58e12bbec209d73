----------------------------- MODULE RfsProofs -----------------------------
(***************************************************************************)
(* Theorems about the remote file system, for any number of clients, any   *)
(* plans and texts, and any interleaving of its processes.                 *)
(***************************************************************************)
EXTENDS Rfs, SequenceTheorems, TLAPS

(***************************************************************************)
(* The conversions of texts.                                               *)
(***************************************************************************)
\* A fixed message is a text.
LEMMA NoteText == \A n \in Notes : Note(n) \in Text
<1> TAKE n \in Notes
<1>1. [sym |-> n, case |-> "lower"] \in Cell  BY DEF Cell, Stored
<1> QED  BY <1>1 DEF Note, Text

\* pbEncode turns a text into what can be stored.
LEMMA PbEncodeStored == \A t \in Text : PbEncode(t) \in Seq(Stored)
<1> TAKE t \in Text
<1>1. \A i \in 1 .. Len(t) : t[i] \in Cell  BY ElementOfSeq DEF Text
<1>2. Len(t) \in Nat /\ DOMAIN t = 1 .. Len(t)  BY DEF Text
<1>3. \A cell \in Cell : cell.sym \in Stored  BY DEF Cell
<1> QED  BY <1>1, <1>2, <1>3 DEF PbEncode

\* pbDecode, and sending a header as it is, turn what is stored into a text.
LEMMA StoredText ==
  \A s \in Seq(Stored) : PbDecode(s) \in Text /\ HeaderText(s) \in Text
<1> TAKE s \in Seq(Stored)
<1>1. \A i \in 1 .. Len(s) : [sym |-> s[i], case |-> "upper"] \in Cell
  BY ElementOfSeq DEF Cell
<1>2. Len(s) \in Nat /\ DOMAIN s = 1 .. Len(s)  OBVIOUS
<1> QED  BY <1>1, <1>2 DEF PbDecode, HeaderText, Text

\* headerToString gives what can be stored.
LEMMA HeaderStored == \A p \in {-1, 0, 1} : HeaderToString(p) \in Seq(Stored)
<1>1. "-" \in Stored /\ "0" \in Stored /\ "1" \in Stored  BY DEF Stored, MetaChars
<1>2. /\ <<"-", "1">> \in Seq(Stored)
      /\ <<"0">> \in Seq(Stored)
      /\ <<"1">> \in Seq(Stored)
  BY <1>1
<1> QED  BY <1>2 DEF HeaderToString

\* A write over old contents leaves what can be stored.
LEMMA OverlayStored ==
  \A old, new \in Seq(Stored) : Overlay(old, new) \in Seq(Stored)
<1> TAKE old, new \in Seq(Stored)
<1>1. SubSeq(old, Len(new) + 1, Len(old)) \in Seq(Stored)
  <2>1. \A i \in Len(new) + 1 .. Len(old) : old[i] \in Stored  BY ElementOfSeq
  <2> QED  BY <2>1, SubSeqProperties
<1> QED  BY <1>1, ConcatProperties DEF Overlay

(***************************************************************************)
(* The connections keep their types under everything their two ends do.    *)
(***************************************************************************)
LEMMA ServerEndType ==
  ASSUME ConnTypeOK, NEW c \in Clients, NEW m \in Text
  PROVE  SrvAccept(c) \/ SrvSend(c, m) \/ SrvRecv(c) \/ SrvClose(c) \/ SrvCloseAll
           => ConnTypeOK'
<1>1. CASE SrvAccept(c)
  <2>1. Tail(backlog) \in Seq(Clients)
    BY <1>1, HeadTailProperties DEF SrvAccept, ConnTypeOK
  <2> QED  BY <1>1, <2>1 DEF SrvAccept, ConnTypeOK, Usable
<1>2. CASE SrvSend(c, m)
  <2>1. Append(down[c], m) \in Seq(Text)  BY DEF ConnTypeOK
  <2> QED  BY <1>2, <2>1 DEF SrvSend, ConnTypeOK, Usable
<1>3. CASE SrvRecv(c)
  <2>1. Tail(up[c]) \in Seq(Text)
    BY <1>3, HeadTailProperties DEF SrvRecv, ConnTypeOK
  <2> QED  BY <1>3, <2>1 DEF SrvRecv, ConnTypeOK
<1>4. CASE SrvClose(c)  BY <1>4 DEF SrvClose, ConnTypeOK, Usable
<1>5. CASE SrvCloseAll  BY <1>5 DEF SrvCloseAll, ConnTypeOK, Usable
<1> QED  BY <1>1, <1>2, <1>3, <1>4, <1>5

LEMMA ClientEndType ==
  ASSUME ConnTypeOK, NEW c \in Clients, NEW m \in Text, NEW r \in Request
  PROVE  CliConnect(c, r) \/ CliSend(c, m) \/ CliRecv(c) \/ CliClose(c)
           => ConnTypeOK'
<1>1. CASE CliConnect(c, r)
  <2>1. Append(backlog, c) \in Seq(Clients)  BY DEF ConnTypeOK
  <2> QED  BY <1>1, <2>1 DEF CliConnect, ConnTypeOK, Usable
<1>2. CASE CliSend(c, m)
  <2>1. Append(up[c], m) \in Seq(Text)  BY DEF ConnTypeOK
  <2> QED  BY <1>2, <2>1 DEF CliSend, ConnTypeOK, Usable
<1>3. CASE CliRecv(c)
  <2>1. Tail(down[c]) \in Seq(Text)
    BY <1>3, HeadTailProperties DEF CliRecv, ConnTypeOK
  <2> QED  BY <1>3, <2>1 DEF CliRecv, ConnTypeOK
<1>4. CASE CliClose(c)  BY <1>4 DEF CliClose, ConnTypeOK, Usable
<1> QED  BY <1>1, <1>2, <1>3, <1>4

(***************************************************************************)
(* The disk keeps its type under what the handlers do to it.               *)
(***************************************************************************)
LEMMA DiskType ==
  ASSUME DiskTypeOK, NEW k \in Kinds, NEW p \in Paths, NEW new \in Inodes
  PROVE  /\ Opened(k, p, new) \in Inodes
         /\ OpenTrunc(k, p, new) \/ Unlink(k, p) => DiskTypeOK'
<1>1. Opened(k, p, new) \in Inodes  BY DEF DiskTypeOK, Opened
<1>2. CASE OpenTrunc(k, p, new)  BY <1>1, <1>2 DEF OpenTrunc, DiskTypeOK
<1>3. CASE Unlink(k, p)  BY <1>1, <1>3 DEF Unlink, DiskTypeOK
<1> QED  BY <1>1, <1>2, <1>3

LEMMA UnlinkType ==
  ASSUME DiskTypeOK, NEW k \in Kinds, NEW p, Exists(k, p), Unlink(k, p)
  PROVE  DiskTypeOK'
<1>1. p \in Paths  BY DEF Exists
<1> QED  BY <1>1 DEF Unlink, DiskTypeOK

LEMMA WriteType ==
  ASSUME DiskTypeOK, NEW i \in Inodes, NEW s \in Seq(Stored), WriteStart(i, s)
  PROVE  DiskTypeOK'
<1>1. Overlay(data[i], s) \in Seq(Stored)  BY OverlayStored DEF DiskTypeOK
<1> QED  BY <1>1 DEF WriteStart, DiskTypeOK

(***************************************************************************)
(* What a send and a recv of a handler leave alone.                        *)
(***************************************************************************)
LEMMA SendType ==
  ASSUME TypeInv, NEW c \in Clients, NEW m \in Text,
         SrvSend(c, m) \/ SrvSendError(c)
  PROVE  ConnTypeOK' /\ req' = req /\ up' = up
<1>1. ConnTypeOK  BY DEF TypeInv, TypeOK
<1>2. CASE SrvSend(c, m)  BY <1>1, <1>2, ServerEndType DEF SrvSend
<1>3. CASE SrvSendError(c)  BY <1>1, <1>3 DEF SrvSendError, conn, ConnTypeOK
<1> QED  BY <1>2, <1>3

LEMMA RecvType ==
  ASSUME TypeInv, NEW c \in Clients, SrvRecv(c) \/ UNCHANGED conn
  PROVE  /\ ConnTypeOK' /\ req' = req
         /\ \A d \in Clients : up[d] = <<>> => up'[d] = <<>>
<1>1. ConnTypeOK  BY DEF TypeInv, TypeOK
<1>2. CASE SrvRecv(c)
  <2>1. ConnTypeOK'  BY <1>1, <1>2, ServerEndType, NoteText DEF Notes
  <2> QED  BY <1>1, <1>2, <2>1 DEF SrvRecv, ConnTypeOK
<1>3. CASE UNCHANGED conn  BY <1>1, <1>3 DEF conn, ConnTypeOK
<1> QED  BY <1>2, <1>3

(***************************************************************************)
(* What a handler finds at its pointers.                                   *)
(***************************************************************************)
LEMMA ReadsType ==
  ASSUME TypeInv, NEW c \in Clients
  PROVE  /\ PathsRead(c) \subseteq Paths \cup {Empty}
         /\ PermissionRead(c) \in {-1, 0, 1}
<1>1. buf.of # None => req[buf.of].path \in Names /\ req[buf.of].perm \in {-1, 0, 1}
  BY DEF TypeInv, RequestsKnown, TypeOK, ServerTypeOK, ConnTypeOK, Request
<1>2. PathsRead(c) \subseteq Paths \cup {Empty}  BY <1>1 DEF PathsRead, Paths
<1>3. PermissionRead(c) \in {-1, 0, 1}  BY <1>1 DEF PermissionRead
<1> QED  BY <1>2, <1>3

LEMMA ReadPathType ==
  ASSUME TypeInv, NEW c \in Clients, ReadPath(c)
  PROVE  /\ path' \in [Clients -> Paths \cup {Empty, None}]
         /\ path'[c] # None
         /\ \A d \in Clients : d # c => path'[d] = path[d]
<1>1. path \in [Clients -> Paths \cup {Empty, None}]
  BY DEF TypeInv, TypeOK, ServerTypeOK
<1>2. PICK p \in Paths \cup {Empty} : path' = [path EXCEPT ![c] = p]
  BY ReadsType DEF ReadPath
<1>3. p # None  BY <1>2, CommonAssumption DEF Paths
<1> QED  BY <1>1, <1>2, <1>3

\* The steps of the handlers that only read a path.
LEMMA ReadPathKeeps ==
  ASSUME TypeInv, NEW c \in Clients, ReadPath(c), UNCHANGED clientVars,
         NEW place \in {"w_openfile", "g_open", "r_check", "r_openfile", "l_open"},
         Goto(c, place), UNCHANGED <<op, perm, mfd, fd, out, mainVars, conn, disk>>
  PROVE  TypeInv'
<1>1. /\ path' \in [Clients -> Paths \cup {Empty, None}] /\ path'[c] # None
      /\ \A d \in Clients : d # c => path'[d] = path[d]
  BY ReadPathType
<1>2. pc \in [Clients -> HandlerPCs] /\ place \in HandlerPCs
  BY DEF TypeInv, TypeOK, ServerTypeOK, HandlerPCs
<1>3. /\ pc' \in [Clients -> HandlerPCs] /\ pc'[c] = place
      /\ \A d \in Clients : d # c => pc'[d] = pc[d]
  BY <1>2 DEF Goto
<1>4. /\ UNCHANGED <<req, up, down, cli, srv, backlog, mpc, why, cur, buf>>
      /\ UNCHANGED <<cpc, local, answer, status>>
  BY DEF clientVars, mainVars, conn
<1>5. ServerTypeOK'
  BY <1>1, <1>3, <1>4 DEF TypeInv, TypeOK, ServerTypeOK
<1>6. ClientTypeOK' /\ ConnTypeOK'
  BY <1>4 DEF TypeInv, TypeOK, ClientTypeOK, ConnTypeOK, clientVars, conn
<1>7. DiskTypeOK'  BY DEF TypeInv, TypeOK, DiskTypeOK, disk
<1>8. RequestsKnown'  BY <1>4 DEF TypeInv, RequestsKnown
<1>9. PathsKnown'  BY <1>1, <1>3 DEF TypeInv, PathsKnown
<1>10. OpenKnown'  BY <1>3 DEF TypeInv, OpenKnown
<1> QED  BY <1>5, <1>6, <1>7, <1>8, <1>9, <1>10 DEF TypeInv, TypeOK

(***************************************************************************)
(* The end of the server process keeps the types.                          *)
(***************************************************************************)
LEMMA DeathType ==
  ASSUME TypeInv, NEW reason \in {"stop", "signal"}, ServerDies(reason),
         UNCHANGED clientVars
  PROVE  TypeInv'
<1> USE DEF TypeInv, TypeOK, ServerDies
<1>1. ConnTypeOK'  BY DEF SrvCloseAll, ConnTypeOK, Usable
<1>2. DiskTypeOK'  BY DEF disk, DiskTypeOK
<1>3. ServerTypeOK'  BY DEF ServerTypeOK, HandlerPCs
<1>4. ClientTypeOK'  BY DEF clientVars, ClientTypeOK
<1>5. RequestsKnown'
  BY DEF SrvCloseAll, RequestsKnown, ConnTypeOK, clientVars
<1>6. \A c \in Clients : pc'[c] \in {"none", "done", "killed"}
  BY DEF Working, ServerTypeOK, HandlerPCs
<1>7. PathsKnown' /\ OpenKnown'  BY <1>6 DEF PathsKnown, OpenKnown
<1> QED  BY <1>1, <1>2, <1>3, <1>4, <1>5, <1>7

(***************************************************************************)
(* handle_client and the ends that the handlers share.                     *)
(***************************************************************************)
LEMMA EndTypes ==
  ASSUME TypeInv, NEW c \in Clients, Start(c) \/ Reply(c) \/ Sigpipe(c) \/ Close(c),
         UNCHANGED clientVars
  PROVE  TypeInv'
<1> USE DEF TypeInv, TypeOK, ServerTypeOK, ClientTypeOK,
            RequestsKnown, PathsKnown, OpenKnown, Goto
<1>1. CASE Start(c)
  <2>1. ConnTypeOK'
    BY <1>1 DEF Start, conn, ConnTypeOK
  <2>2. DiskTypeOK'
    BY <1>1 DEF Start, disk, DiskTypeOK
  <2> QED
    BY <1>1, <2>1, <2>2
    DEF Start, clientVars, mainVars, HandlerPCs, conn, Handled
<1>2. CASE Reply(c)
  <2>1. ConnTypeOK' /\ req' = req /\ up' = up
    BY <1>2, SendType DEF Reply
  <2>2. DiskTypeOK'
    BY <1>2 DEF Reply, disk, DiskTypeOK
  <2> QED
    BY <1>2, <2>1, <2>2
    DEF Reply, clientVars, mainVars, HandlerPCs
<1>3. CASE Sigpipe(c)  BY <1>3, DeathType DEF Sigpipe
<1>4. CASE Close(c)
  <2>1. ConnTypeOK'
    BY <1>4, ServerEndType, NoteText DEF Close, Notes, conn
  <2>2. DiskTypeOK'
    BY <1>4 DEF Close, disk, DiskTypeOK
  <2> QED
    BY <1>4, <2>1, <2>2
    DEF Close, clientVars, mainVars, HandlerPCs, SrvClose, conn
<1> QED  BY <1>1, <1>2, <1>3, <1>4

(***************************************************************************)
(* handle_write.                                                           *)
(***************************************************************************)
LEMMA WriteTypes ==
  ASSUME TypeInv, NEW c \in Clients, Write(c),
         UNCHANGED clientVars
  PROVE  TypeInv'
<1>7. CASE WritePath(c)  BY <1>7, ReadPathKeeps DEF WritePath
<1> USE DEF TypeInv, TypeOK, ServerTypeOK, ClientTypeOK,
            RequestsKnown, PathsKnown, OpenKnown, Goto
<1>1. CASE WritePermission(c)
  <2>1. ConnTypeOK'
    BY <1>1 DEF WritePermission, conn, ConnTypeOK
  <2>2. DiskTypeOK'
    BY <1>1 DEF WritePermission, disk, DiskTypeOK
  <2> QED
    BY <1>1, <2>1, <2>2, ReadsType
    DEF WritePermission, clientVars, mainVars, HandlerPCs, conn
<1>2. CASE WriteAck(c)
  <2>1. ConnTypeOK' /\ req' = req /\ up' = up
    BY <1>2, SendType, NoteText DEF WriteAck, Notes
  <2>2. DiskTypeOK'
    BY <1>2 DEF WriteAck, disk, DiskTypeOK
  <2>3. /\ path' \in [Clients -> Paths \cup {Empty, None}]
        /\ pc'[c] = "w_check" => path'[c] # None
        /\ \A d \in Clients : d # c => path'[d] = path[d]
    BY <1>2, ReadPathType DEF WriteAck
  <2> QED
    BY <1>2, <2>1, <2>2, <2>3
    DEF WriteAck, clientVars, mainVars, HandlerPCs
<1>3. CASE WriteCheck(c)
  <2>1. ConnTypeOK'
    BY <1>3 DEF WriteCheck, conn, ConnTypeOK
  <2>2. DiskTypeOK'
    BY <1>3 DEF WriteCheck, disk, DiskTypeOK
  <2> QED
    BY <1>3, <2>1, <2>2
    DEF WriteCheck, clientVars, mainVars, HandlerPCs, conn
<1>4. CASE WriteDrain(c)
  <2>1. /\ ConnTypeOK' /\ req' = req
       /\ \A d \in Clients : up[d] = <<>> => up'[d] = <<>>
    BY <1>4, RecvType DEF WriteDrain
  <2>2. DiskTypeOK'
    BY <1>4 DEF WriteDrain, disk, DiskTypeOK
  <2>3. Note("denied") \in Text
    BY <1>4, NoteText DEF Notes
  <2> QED
    BY <1>4, <2>1, <2>2, <2>3
    DEF WriteDrain, clientVars, mainVars, HandlerPCs, Answer
<1>5. CASE WriteOpenMeta(c)
  <2>1. ConnTypeOK'  BY <1>5 DEF WriteOpenMeta, conn, ConnTypeOK
  <2>2. path[c] # Empty => path[c] \in Paths  BY <1>5 DEF WriteOpenMeta
  <2>3. path[c] # Empty => Opened("meta", path[c], <<c, "meta">>) \in Inodes
    BY <2>2, DiskType DEF Kinds, Inodes
  <2>4. DiskTypeOK'
    BY <1>5, <2>2, DiskType DEF WriteOpenMeta, disk, DiskTypeOK, Kinds, Inodes
  <2> QED
    BY <1>5, <2>1, <2>3, <2>4
    DEF WriteOpenMeta, clientVars, mainVars, HandlerPCs, conn
<1>6. CASE WriteMeta(c)
  <2>1. ConnTypeOK'
    BY <1>6 DEF WriteMeta, conn, ConnTypeOK
  <2>2. DiskTypeOK'
    BY <1>6, WriteType, HeaderStored DEF WriteMeta
  <2> QED
    BY <1>6, <2>1, <2>2
    DEF WriteMeta, clientVars, mainVars, HandlerPCs, conn
<1>8. CASE WriteOpenFile(c)
  <2>1. ConnTypeOK'  BY <1>8 DEF WriteOpenFile, conn, ConnTypeOK
  <2>2. path[c] # Empty => path[c] \in Paths  BY <1>8 DEF WriteOpenFile
  <2>3. path[c] # Empty => Opened("file", path[c], <<c, "file">>) \in Inodes
    BY <2>2, DiskType DEF Kinds, Inodes
  <2>4. DiskTypeOK'
    BY <1>8, <2>2, DiskType DEF WriteOpenFile, disk, DiskTypeOK, Kinds, Inodes
  <2> QED
    BY <1>8, <2>1, <2>3, <2>4
    DEF WriteOpenFile, clientVars, mainVars, HandlerPCs, conn
<1>9. CASE WriteStore(c)
  <2>1. /\ ConnTypeOK' /\ req' = req
        /\ \A d \in Clients : up[d] = <<>> => up'[d] = <<>>
    BY <1>9, RecvType DEF WriteStore
  <2>2. SrvRecv(c) => PbEncode(Head(up[c])) \in Seq(Stored)
    BY PbEncodeStored, HeadTailProperties DEF SrvRecv, ConnTypeOK
  <2>3. DiskTypeOK'
    BY <1>9, <2>2, WriteType DEF WriteStore, disk, DiskTypeOK
  <2>4. Note("written") \in Text  BY NoteText DEF Notes
  <2>5. out' \in [Clients -> Text]  BY <1>9, <2>4 DEF WriteStore, Answer
  <2>6. \/ pc' = [pc EXCEPT ![c] = "reply"]
        \/ pc' = [pc EXCEPT ![c] = "close"]
    BY <1>9 DEF WriteStore, Answer
  <2>7. /\ pc[c] = "w_store"
        /\ fd' = [fd EXCEPT ![c] = None]
        /\ UNCHANGED <<op, perm, path, mfd, mainVars>>
    BY <1>9 DEF WriteStore
  <2> QED
    BY <2>1, <2>3, <2>5, <2>6, <2>7 DEF clientVars, mainVars, HandlerPCs
<1> QED  BY <1>1, <1>2, <1>3, <1>4, <1>5, <1>6, <1>7, <1>8, <1>9 DEF Write

(***************************************************************************)
(* handle_get.                                                             *)
(***************************************************************************)
LEMMA GetTypes ==
  ASSUME TypeInv, NEW c \in Clients, Get(c),
         UNCHANGED clientVars
  PROVE  TypeInv'
<1>1. CASE GetPath(c)  BY <1>1, ReadPathKeeps DEF GetPath
<1> USE DEF TypeInv, TypeOK, ServerTypeOK, ClientTypeOK,
            RequestsKnown, PathsKnown, OpenKnown, Goto
<1>2. CASE GetOpen(c)
  <2>1. ConnTypeOK'
    BY <1>2 DEF GetOpen, conn, ConnTypeOK
  <2>2. DiskTypeOK'
    BY <1>2 DEF GetOpen, disk, DiskTypeOK
  <2>3. CanRead("file", path[c]) => Target("file", path[c]) \in Inodes \cup {Empty}
    BY <1>2 DEF DiskTypeOK, CanRead, Target, Exists, Kinds
  <2> QED
    BY <1>2, <2>1, <2>2, <2>3
    DEF GetOpen, clientVars, mainVars, HandlerPCs, conn
<1>3. CASE GetRead(c)
  <2>1. ConnTypeOK'
    BY <1>3 DEF GetRead, conn, ConnTypeOK
  <2>2. DiskTypeOK'
    BY <1>3 DEF GetRead, disk, DiskTypeOK
  <2>3. fd[c] \in Inodes \cup {Empty}
    BY <1>3 DEF GetRead
  <2>4. PbDecode(Contents(fd[c])) \in Text
    BY <1>3, <2>3, StoredText, EmptySeq DEF Contents, DiskTypeOK
  <2> QED
    BY <1>3, <2>1, <2>2, <2>3, <2>4
    DEF GetRead, clientVars, mainVars, HandlerPCs, conn
<1>4. CASE GetSend(c)
  <2>1. ConnTypeOK' /\ req' = req /\ up' = up
    BY <1>4, SendType DEF GetSend
  <2>2. DiskTypeOK'
    BY <1>4 DEF GetSend, disk, DiskTypeOK
  <2> QED
    BY <1>4, <2>1, <2>2
    DEF GetSend, clientVars, mainVars, HandlerPCs
<1>5. CASE GetAck(c)
  <2>1. /\ ConnTypeOK' /\ req' = req
       /\ \A d \in Clients : up[d] = <<>> => up'[d] = <<>>
    BY <1>5, RecvType DEF GetAck
  <2>2. DiskTypeOK'
    BY <1>5 DEF GetAck, disk, DiskTypeOK
  <2>3. Note("got") \in Text
    BY <1>5, NoteText DEF Notes
  <2> QED
    BY <1>5, <2>1, <2>2, <2>3
    DEF GetAck, clientVars, mainVars, HandlerPCs, Answer
<1> QED  BY <1>1, <1>2, <1>3, <1>4, <1>5 DEF Get

(***************************************************************************)
(* handle_rm.                                                              *)
(***************************************************************************)
LEMMA RmTypes ==
  ASSUME TypeInv, NEW c \in Clients, Rm(c),
         UNCHANGED clientVars
  PROVE  TypeInv'
<1>1. CASE RmPath(c)  BY <1>1, ReadPathKeeps DEF RmPath
<1>6. CASE RmPath2(c)  BY <1>6, ReadPathKeeps DEF RmPath2
<1> USE DEF TypeInv, TypeOK, ServerTypeOK, ClientTypeOK,
            RequestsKnown, PathsKnown, OpenKnown, Goto
<1>2. CASE RmCheck(c)
  <2>1. ConnTypeOK'
    BY <1>2 DEF RmCheck, conn, ConnTypeOK
  <2>2. DiskTypeOK'
    BY <1>2 DEF RmCheck, disk, DiskTypeOK
  <2>3. Note("locked") \in Text
    BY <1>2, NoteText DEF Notes
  <2> QED
    BY <1>2, <2>1, <2>2, <2>3
    DEF RmCheck, clientVars, mainVars, HandlerPCs, Answer, conn
<1>3. CASE RmRecheck(c)
  <2>1. ConnTypeOK'
    BY <1>3 DEF RmRecheck, conn, ConnTypeOK
  <2>2. DiskTypeOK'
    BY <1>3 DEF RmRecheck, disk, DiskTypeOK
  <2>3. Note("absent") \in Text
    BY <1>3, NoteText DEF Notes
  <2> QED
    BY <1>3, <2>1, <2>2, <2>3
    DEF RmRecheck, clientVars, mainVars, HandlerPCs, Answer, conn, PermissionOf, Exists
<1>4. CASE RmOpenMeta(c)
  <2>1. ConnTypeOK'  BY <1>4 DEF RmOpenMeta, conn, ConnTypeOK
  <2>2. path[c] \in Paths  BY <1>4 DEF RmOpenMeta
  <2>3. Opened("meta", path[c], <<c, "meta">>) \in Inodes
    BY <2>2, DiskType DEF Kinds, Inodes
  <2>4. DiskTypeOK'
    BY <1>4, <2>2, DiskType DEF RmOpenMeta, disk, DiskTypeOK, Kinds, Inodes
  <2> QED
    BY <1>4, <2>1, <2>3, <2>4
    DEF RmOpenMeta, clientVars, mainVars, HandlerPCs, conn
<1>5. CASE RmUnlinkMeta(c)
  <2>1. ConnTypeOK'
    BY <1>5 DEF RmUnlinkMeta, conn, ConnTypeOK
  <2>2. DiskTypeOK'
    BY <1>5, UnlinkType DEF RmUnlinkMeta, disk, DiskTypeOK, Kinds
  <2> QED
    BY <1>5, <2>1, <2>2
    DEF RmUnlinkMeta, clientVars, mainVars, HandlerPCs, conn
<1>7. CASE RmOpenFile(c)
  <2>1. ConnTypeOK'  BY <1>7 DEF RmOpenFile, conn, ConnTypeOK
  <2>2. path[c] # Empty => path[c] \in Paths  BY <1>7 DEF RmOpenFile
  <2>3. path[c] # Empty => Opened("file", path[c], <<c, "file">>) \in Inodes
    BY <2>2, DiskType DEF Kinds, Inodes
  <2>4. DiskTypeOK'
    BY <1>7, <2>2, DiskType DEF RmOpenFile, disk, DiskTypeOK, Kinds, Inodes
  <2> QED
    BY <1>7, <2>1, <2>3, <2>4
    DEF RmOpenFile, clientVars, mainVars, HandlerPCs, conn
<1>8. CASE RmUnlinkFile(c)
  <2>1. ConnTypeOK'
    BY <1>8 DEF RmUnlinkFile, conn, ConnTypeOK
  <2>2. DiskTypeOK'
    BY <1>8, UnlinkType DEF RmUnlinkFile, disk, DiskTypeOK, Kinds
  <2>3. Note("removed") \in Text
    BY <1>8, NoteText DEF Notes
  <2> QED
    BY <1>8, <2>1, <2>2, <2>3
    DEF RmUnlinkFile, clientVars, mainVars, HandlerPCs, Answer, conn
<1> QED  BY <1>1, <1>2, <1>3, <1>4, <1>5, <1>6, <1>7, <1>8 DEF Rm

(***************************************************************************)
(* handle_ls.                                                              *)
(***************************************************************************)
LEMMA LsTypes ==
  ASSUME TypeInv, NEW c \in Clients, Ls(c),
         UNCHANGED clientVars
  PROVE  TypeInv'
<1>1. CASE LsPath(c)  BY <1>1, ReadPathKeeps DEF LsPath
<1> USE DEF TypeInv, TypeOK, ServerTypeOK, ClientTypeOK,
            RequestsKnown, PathsKnown, OpenKnown, Goto
<1>2. CASE LsOpen(c)
  <2>1. ConnTypeOK'
    BY <1>2 DEF LsOpen, conn, ConnTypeOK
  <2>2. DiskTypeOK'
    BY <1>2 DEF LsOpen, disk, DiskTypeOK
  <2>3. CanRead("meta", path[c]) => Target("meta", path[c]) \in Inodes \cup {Empty}
    BY <1>2 DEF DiskTypeOK, CanRead, Target, Exists, Kinds
  <2>4. Note("nofile") \in Text
    BY <1>2, NoteText DEF Notes
  <2> QED
    BY <1>2, <2>1, <2>2, <2>3, <2>4
    DEF LsOpen, clientVars, mainVars, HandlerPCs, conn, Answer
<1>3. CASE LsRead(c)
  <2>1. ConnTypeOK'
    BY <1>3 DEF LsRead, conn, ConnTypeOK
  <2>2. DiskTypeOK'
    BY <1>3 DEF LsRead, disk, DiskTypeOK
  <2>3. fd[c] \in Inodes \cup {Empty}
    BY <1>3 DEF LsRead
  <2>4. HeaderText(Contents(fd[c])) \in Text
    BY <1>3, <2>3, StoredText, EmptySeq DEF Contents, DiskTypeOK
  <2> QED
    BY <1>3, <2>1, <2>2, <2>3, <2>4
    DEF LsRead, clientVars, mainVars, HandlerPCs, conn
<1>4. CASE LsSend(c)
  <2>1. ConnTypeOK' /\ req' = req /\ up' = up
    BY <1>4, SendType DEF LsSend
  <2>2. DiskTypeOK'
    BY <1>4 DEF LsSend, disk, DiskTypeOK
  <2> QED
    BY <1>4, <2>1, <2>2
    DEF LsSend, clientVars, mainVars, HandlerPCs
<1> QED  BY <1>1, <1>2, <1>3, <1>4 DEF Ls

(***************************************************************************)
(* The accept loop.                                                        *)
(***************************************************************************)
LEMMA MainTypes ==
  ASSUME TypeInv, MainStep, UNCHANGED clientVars
  PROVE  TypeInv'
<1> USE DEF TypeInv, TypeOK, ServerTypeOK, ClientTypeOK,
            RequestsKnown, PathsKnown, OpenKnown, Goto
<1>1. CASE \E c \in Clients : Accept(c)
  <2>1. PICK c \in Clients : Accept(c)  BY <1>1
  <2>2. ConnTypeOK' /\ req' = req /\ up' = up
    BY <2>1, ServerEndType, NoteText DEF Accept, SrvAccept, Notes
  <2>3. DiskTypeOK'  BY <2>1 DEF Accept, disk, DiskTypeOK
  <2> QED
    BY <2>1, <2>2, <2>3, CommonAssumption
    DEF Accept, Cleared, clientVars, handlerVars
<1>2. CASE RecvCommand
  <2>1. cur \in Clients  BY <1>2 DEF RecvCommand
  <2>2. /\ ConnTypeOK' /\ req' = req
        /\ \A d \in Clients : up[d] = <<>> => up'[d] = <<>>
    BY <1>2, <2>1, RecvType DEF RecvCommand
  <2>3. DiskTypeOK'  BY <1>2 DEF RecvCommand, disk, DiskTypeOK
  <2>4. req[cur] # None  BY <1>2, <2>1 DEF RecvCommand, SrvRecv
  <2> QED
    BY <1>2, <2>1, <2>2, <2>3, <2>4 DEF RecvCommand, clientVars, handlerVars
<1>3. CASE RecvNothing  BY <1>3, DeathType DEF RecvNothing
<1>4. CASE ParseStop \/ ParseSkip
  <2>1. cur \in Clients  BY <1>4 DEF ParseStop, ParseSkip
  <2>2. ConnTypeOK' /\ req' = req
    BY <1>4, <2>1, ServerEndType, NoteText DEF ParseStop, ParseSkip, SrvClose, Notes
  <2>3. \A d \in Clients : up[d] = <<>> => up'[d] = <<>>
    BY <1>4, <2>1 DEF ParseStop, ParseSkip, SrvClose, ConnTypeOK
  <2>4. DiskTypeOK'  BY <1>4 DEF ParseStop, ParseSkip, disk, DiskTypeOK
  <2> QED
    BY <1>4, <2>2, <2>3, <2>4 DEF ParseStop, ParseSkip, clientVars, handlerVars
<1>5. CASE ParseSpawn
  <2>1. cur \in Clients  BY <1>5 DEF ParseSpawn
  <2>2. ConnTypeOK'  BY <1>5 DEF ParseSpawn, conn, ConnTypeOK
  <2>3. DiskTypeOK'  BY <1>5 DEF ParseSpawn, disk, DiskTypeOK
  <2> QED
    BY <1>5, <2>1, <2>2, <2>3 DEF ParseSpawn, clientVars, conn, HandlerPCs
<1>6. CASE Exit  BY <1>6, DeathType DEF Exit
<1> QED  BY <1>1, <1>2, <1>3, <1>4, <1>5, <1>6 DEF MainStep

(***************************************************************************)
(* The clients.                                                            *)
(***************************************************************************)
\* A client that is running has sent, or is about to send, a request.
LEMMA CliSendType ==
  ASSUME TypeInv, NEW c \in Clients, cpc[c] \notin {"idle", "done"},
         NEW m \in Text, CliSend(c, m) \/ UNCHANGED conn
  PROVE  /\ ConnTypeOK' /\ req' = req
         /\ \A d \in Clients : req[d] = None => up'[d] = <<>>
<1>1. ConnTypeOK  BY DEF TypeInv, TypeOK
<1>2. CASE CliSend(c, m)
  <2>1. req[c] # None  BY DEF TypeInv, RequestsKnown
  <2>2. ConnTypeOK'
    BY <1>1, <1>2, <2>1, ClientEndType DEF ConnTypeOK
  <2> QED
    BY <1>1, <1>2, <2>1, <2>2 DEF CliSend, ConnTypeOK, TypeInv, RequestsKnown
<1>3. CASE UNCHANGED conn
  BY <1>1, <1>3 DEF conn, ConnTypeOK, TypeInv, RequestsKnown
<1> QED  BY <1>2, <1>3

LEMMA CliRecvType ==
  ASSUME TypeInv, NEW c \in Clients, cpc[c] \notin {"idle", "done"},
         CliRecv(c) \/ CliClose(c) \/ UNCHANGED conn
  PROVE  ConnTypeOK' /\ req' = req /\ up' = up
<1>1. ConnTypeOK  BY DEF TypeInv, TypeOK
<1>2. req[c] \in Request  BY <1>1 DEF TypeInv, RequestsKnown, ConnTypeOK
<1>3. CASE CliRecv(c)  BY <1>1, <1>2, <1>3, ClientEndType, NoteText DEF CliRecv, Notes
<1>4. CASE CliClose(c)  BY <1>1, <1>2, <1>4, ClientEndType, NoteText DEF CliClose, Notes
<1>5. CASE UNCHANGED conn  BY <1>1, <1>5 DEF conn, ConnTypeOK
<1> QED  BY <1>3, <1>4, <1>5

LEMMA ClientTypes ==
  ASSUME TypeInv, NEW c \in Clients,
         ClientStep(c) \/ Connect(c) \/ ConnectRefused(c) \/ Killed(c),
         UNCHANGED <<serverVars, disk>>
  PROVE  TypeInv'
<1> USE DEF TypeInv, TypeOK
<1> DEFINE Frame == /\ ConnTypeOK' /\ ClientTypeOK'
                    /\ \A d \in Clients : req'[d] = None =>
                         /\ req[d] = None
                         /\ up'[d] = <<>> /\ cpc'[d] \in {"idle", "done"}
<1>1. Frame => TypeInv'
  <2> SUFFICES ASSUME Frame PROVE TypeInv'  OBVIOUS
  <2>1. ServerTypeOK' /\ PathsKnown' /\ OpenKnown'
    BY DEF serverVars, mainVars, handlerVars, ServerTypeOK, PathsKnown, OpenKnown
  <2>2. DiskTypeOK'  BY DEF disk, DiskTypeOK
  <2>3. RequestsKnown'
    BY DEF serverVars, mainVars, handlerVars, RequestsKnown, ServerTypeOK
  <2> QED  BY <2>1, <2>2, <2>3
<1> USE DEF ClientTypeOK, ClientPCs, RequestsKnown, At, Move, Return
<1>2. CASE Connect(c)
  <2>1. PICK r \in Plan[c] : CliConnect(c, r)  BY <1>2 DEF Connect
  <2>2. r \in Request /\ r # None
    BY <2>1, ClientAssumption, CommonAssumption DEF Request
  <2>3. ConnTypeOK'  BY <2>1, <2>2, ClientEndType, NoteText DEF Notes
  <2>4. up' = up /\ req' = [req EXCEPT ![c] = r]  BY <2>1 DEF CliConnect
  <2> QED  BY <1>1, <1>2, <2>2, <2>3, <2>4 DEF Connect, ConnTypeOK
<1>3. CASE ConnectRefused(c)
  BY <1>1, <1>3 DEF ConnectRefused, conn, ConnTypeOK
<1>4. CASE SendRequest(c)
  <2>1. /\ ConnTypeOK' /\ req' = req
        /\ \A d \in Clients : req[d] = None => up'[d] = <<>>
    BY <1>4, CliSendType, NoteText DEF SendRequest, Notes
  <2>2. cpc' \in [Clients -> ClientPCs] /\ UNCHANGED <<local, answer>>
    BY <1>4 DEF SendRequest
  <2>3. status' \in [Clients -> {"running", "ok", "fail"}]
    BY <1>4 DEF SendRequest, ExitsAfter
  <2>4. \A d \in Clients : cpc[d] \in {"idle", "done"} => d # c /\ cpc'[d] = cpc[d]
    BY <1>4 DEF SendRequest
  <2>5. req[c] # None
    BY <1>4 DEF SendRequest
  <2> QED  BY <1>1, <2>1, <2>2, <2>3, <2>4, <2>5
<1>5. CASE CloseSocket(c) \/ Killed(c)
  <2>1. ConnTypeOK' /\ req' = req /\ up' = up
    BY <1>5, CliRecvType DEF CloseSocket, Killed
  <2> QED  BY <1>1, <1>5, <2>1 DEF CloseSocket, Killed
<1>6. CASE AwaitAck(c)
  <2>1. ConnTypeOK' /\ req' = req /\ up' = up  BY <1>6, CliRecvType DEF AwaitAck
  <2> QED  BY <1>1, <1>6, <2>1 DEF AwaitAck
<1>7. CASE SendFile(c)
  <2>1. Source[c] \in Text  BY ClientAssumption
  <2>2. /\ ConnTypeOK' /\ req' = req
        /\ \A d \in Clients : req[d] = None => up'[d] = <<>>
    BY <1>7, <2>1, CliSendType DEF SendFile
  <2> QED  BY <1>1, <1>7, <2>2 DEF SendFile
<1>8. CASE OpenLocal(c)
  <2>1. ConnTypeOK' /\ req' = req /\ up' = up  BY <1>8, CliRecvType DEF OpenLocal
  <2>2. <<>> \in Text  BY EmptySeq DEF Text
  <2> QED  BY <1>1, <1>8, <2>1, <2>2 DEF OpenLocal
<1>9. CASE Fetch(c)
  <2>1. ConnTypeOK' /\ req' = req /\ up' = up  BY <1>9, CliRecvType DEF Fetch
  <2>2. CliRecv(c) => Head(down[c]) \in Text
    BY HeadTailProperties DEF CliRecv, ConnTypeOK
  <2> QED  BY <1>1, <1>9, <2>1, <2>2 DEF Fetch
<1>10. CASE Confirm(c)
  <2>1. /\ ConnTypeOK' /\ req' = req
        /\ \A d \in Clients : req[d] = None => up'[d] = <<>>
    BY <1>10, CliSendType, NoteText DEF Confirm, Notes
  <2> QED  BY <1>1, <1>10, <2>1 DEF Confirm
<1>11. CASE AwaitResult(c)
  <2>1. ConnTypeOK' /\ req' = req /\ up' = up  BY <1>11, CliRecvType DEF AwaitResult
  <2>2. CliRecv(c) => Head(down[c]) \in Text
    BY HeadTailProperties DEF CliRecv, ConnTypeOK
  <2>3. ASSUME NEW text \in Text, Printed(c, text) PROVE answer' \in [Clients -> Text]
    <3>1. <<>> \in Text /\ Note("stale") \in Text
      BY EmptySeq, NoteText DEF Text, Notes
    <3>2. PICK rest \in {<<>>, Note("stale")} :
            answer' = [answer EXCEPT ![c] = text \o rest]
      BY <2>3 DEF Printed
    <3>3. text \o rest \in Text  BY <2>3, <3>1, ConcatProperties DEF Text
    <3> QED  BY <3>2, <3>3
  <2>4. <<>> \in Text  BY EmptySeq DEF Text
  <2>5. answer' \in [Clients -> Text]  BY <1>11, <2>2, <2>3, <2>4 DEF AwaitResult
  <2> QED  BY <1>1, <1>11, <2>1, <2>5 DEF AwaitResult
<1> QED
  BY <1>2, <1>3, <1>4, <1>5, <1>6, <1>7, <1>8, <1>9, <1>10, <1>11 DEF ClientStep

(***************************************************************************)
(* Every variable keeps its type, and what the handlers rely on before     *)
(* they touch a path or a descriptor holds when they do.                   *)
(***************************************************************************)
LEMMA InitTypes == Init => TypeInv
<1> SUFFICES ASSUME Init PROVE TypeInv  OBVIOUS
<1> USE DEF Init
<1>1. <<>> \in Text /\ <<>> \in Seq(Text) /\ <<>> \in Seq(Clients) /\ <<>> \in Seq(Stored)
  BY EmptySeq DEF Text
<1>2. ServerTypeOK  BY <1>1 DEF ServerInit, ServerTypeOK, HandlerPCs, Cleared
<1>3. ClientTypeOK  BY <1>1 DEF ClientInit, ClientTypeOK, ClientPCs
<1>4. ConnTypeOK  BY <1>1 DEF ConnInit, ConnTypeOK
<1>5. DiskTypeOK
  <2>1. PICK before \in Leftovers : DiskInit(before)  OBVIOUS
  <2>2. before \in [Kinds -> [Names -> Seq(Stored) \cup {None}]]
    BY RfsAssumption
  <2>3. link \in [Kinds -> [Paths -> Inodes \cup {None}]]
    BY <2>1 DEF DiskInit, Inodes
  <2>4. data \in [Inodes -> Seq(Stored)]
    <3>1. \A i \in Inodes : i[1] \in Names => before[i[2]][i[1]] \in Seq(Stored) \cup {None}
      BY <2>2 DEF Inodes
    <3> QED  BY <1>1, <2>1, <3>1 DEF DiskInit
  <2> QED  BY <2>3, <2>4 DEF DiskTypeOK
<1>6. RequestsKnown /\ PathsKnown /\ OpenKnown
  BY DEF ServerInit, ClientInit, ConnInit, Cleared, RequestsKnown, PathsKnown, OpenKnown
<1> QED  BY <1>2, <1>3, <1>4, <1>5, <1>6 DEF TypeInv, TypeOK

LEMMA NextTypes == TypeInv /\ [Next]_vars => TypeInv'
<1> SUFFICES ASSUME TypeInv, [Next]_vars PROVE TypeInv'  OBVIOUS
<1>1. CASE Main  BY <1>1, MainTypes DEF Main
<1>2. ASSUME NEW c \in Clients, Handler(c) PROVE TypeInv'
  BY <1>2, EndTypes, WriteTypes, GetTypes, RmTypes, LsTypes DEF Handler, HandlerStep
<1>3. ASSUME NEW c \in Clients, Client(c) \/ Launch(c) \/ Kill(c) PROVE TypeInv'
  BY <1>3, ClientTypes DEF Client, Launch, Kill
<1>4. CASE UNCHANGED vars
  BY <1>4 DEF vars, serverVars, mainVars, handlerVars, clientVars, conn, disk,
    TypeInv, TypeOK, ServerTypeOK, ClientTypeOK, ConnTypeOK, DiskTypeOK,
    RequestsKnown, PathsKnown, OpenKnown
<1> QED  BY <1>1, <1>2, <1>3, <1>4 DEF Next, Finished

\* Every variable of the server, the clients, the connections and the disk
\* keeps its type, however many clients there are and whatever they do.
THEOREM TypesHold == Spec => []TypeOK
<1>1. Init => TypeInv  BY InitTypes
<1>2. TypeInv /\ [Next]_vars => TypeInv'  BY NextTypes
<1>3. TypeInv => TypeOK  BY DEF TypeInv
<1> QED  BY <1>1, <1>2, <1>3, PTL DEF Spec

(***************************************************************************)
(* At most one text is under way on a connection.  The invariant is        *)
(* TurnInv: each step of a client or of a handler is one of a few moves of *)
(* the right to send.                                                      *)
(***************************************************************************)
\* The types that the moves depend on.
LEMMA TurnTypes ==
  ASSUME TurnInv
  PROVE  /\ pc \in [Clients -> HandlerPCs] /\ cpc \in [Clients -> ClientPCs]
         /\ ConnTypeOK
         /\ mpc \in {"recv", "parse"} => cur \in Clients
BY DEF TurnInv, TypeInv, TypeOK, ServerTypeOK, ClientTypeOK, RequestsKnown

(***************************************************************************)
(* The moves of a handler.                                                 *)
(***************************************************************************)
Moves(c) ==
  /\ pc[c] # "none" /\ pc'[c] # "none" /\ pc' = [pc EXCEPT ![c] = pc'[c]]
  /\ UNCHANGED <<mpc, cur, cpc>>

\* Without a word on the connection, a handler does not gain the turn.
LEMMA HandlerWorks ==
  ASSUME TurnInv, NEW c \in Clients, Moves(c), Working(c),
         UNCHANGED conn, pc'[c] \in Sending => pc[c] \in Sending
  PROVE  TurnsTaken' /\ QueueOrdered'
<1> USE TurnTypes DEF TurnInv, Moves, conn
<1>1. TurnsTaken'  BY DEF TurnsTaken, ClientTurn, ServerTurn, Working
<1>2. QueueOrdered'  BY DEF QueueOrdered
<1> QED  BY <1>1, <1>2

\* Sending a text gives the turn away.
LEMMA HandlerSends ==
  ASSUME TurnInv, NEW c \in Clients, Moves(c),
         NEW m \in Text, SrvSend(c, m) \/ SrvSendError(c),
         pc[c] \in Sending, pc'[c] \notin Sending
  PROVE  TurnsTaken' /\ QueueOrdered'
<1> USE TurnTypes DEF TurnInv, Moves
<1>1. CASE SrvSend(c, m)
  <2>1. down[c] = <<>> /\ up[c] = <<>> /\ ~ClientTurn(c) /\ cpc[c] # "idle"
    BY DEF TurnsTaken, ServerTurn, QueueOrdered
  <2>2. Append(down[c], m) = <<m>> /\ Len(<<m>>) = 1  BY <2>1
  <2>3. TurnsTaken'
    <3>1. CASE cli[c] = "closed"
      BY <1>1, <2>1, <3>1
      DEF SrvSend, TurnsTaken, ClientTurn, ServerTurn, Working, ConnTypeOK
    <3>2. CASE cli[c] # "closed"
      <4>1. down' = [down EXCEPT ![c] = <<m>>] /\ UNCHANGED <<up, srv, cli, cpc>>
        BY <1>1, <2>2, <3>2 DEF SrvSend
      <4>2. ~ServerTurn(c)'
        BY DEF ServerTurn, QueueOrdered, Sending
      <4> QED
        BY <2>1, <2>2, <3>2, <4>1, <4>2
        DEF TurnsTaken, ClientTurn, ServerTurn, Working, ConnTypeOK
    <3> QED  BY <3>1, <3>2
  <2>4. QueueOrdered'
    <3>1. \A d \in Clients : srv'[d] \in {"none", "queued"} <=> srv[d] \in {"none", "queued"}
      BY <1>1 DEF SrvSend, ConnTypeOK
    <3>2. \A d \in Clients : srv[d] = "queued" => srv'[d] = "queued"
      BY <1>1 DEF SrvSend, ConnTypeOK
    <3>3. backlog' = backlog /\ backlog \in Seq(Clients)
      BY <1>1 DEF SrvSend, ConnTypeOK
    <3> QED  BY <3>1, <3>2, <3>3 DEF QueueOrdered
  <2> QED  BY <2>3, <2>4
<1>2. CASE SrvSendError(c)
  <2>1. TurnsTaken'
    BY <1>2 DEF SrvSendError, conn, TurnsTaken, ClientTurn, ServerTurn, Working
  <2>2. QueueOrdered'  BY <1>2 DEF SrvSendError, conn, QueueOrdered
  <2> QED  BY <2>1, <2>2
<1> QED  BY <1>1, <1>2

\* Receiving a text, or the end of the connection, may give the turn.
LEMMA HandlerReceives ==
  ASSUME TurnInv, NEW c \in Clients, Moves(c), Working(c),
         SrvRecv(c) \/ (SrvEof(c) /\ UNCHANGED conn)
  PROVE  TurnsTaken' /\ QueueOrdered'
<1> USE TurnTypes DEF TurnInv, Moves
<1>1. CASE SrvRecv(c)
  <2>1. /\ up[c] # <<>> /\ down[c] = <<>> /\ ~ClientTurn(c) /\ srv[c] # "closed"
        /\ cpc[c] # "idle" /\ ~ServerTurn(c)
    BY <1>1 DEF SrvRecv, TurnsTaken
  <2>2. Tail(up[c]) = <<>>
    <3>1. up[c] \in Seq(Text) /\ Len(up[c]) <= 1
      BY DEF ConnTypeOK, TurnsTaken
    <3> QED  BY <2>1, <3>1
  <2>3. TurnsTaken'
    BY <1>1, <2>1, <2>2 DEF SrvRecv, TurnsTaken, ClientTurn, ServerTurn, Working, ConnTypeOK
  <2>4. QueueOrdered'  BY <1>1 DEF SrvRecv, QueueOrdered
  <2> QED  BY <2>3, <2>4
<1>2. CASE SrvEof(c) /\ UNCHANGED conn
  <2>1. up[c] = <<>> /\ down[c] = <<>> /\ cpc[c] = "done" /\ srv[c] # "closed"
    BY <1>2 DEF SrvEof, TurnsTaken
  <2>2. TurnsTaken'
    BY <1>2, <2>1 DEF conn, TurnsTaken, ClientTurn, ServerTurn, Working
  <2>3. QueueOrdered'  BY <1>2 DEF conn, QueueOrdered
  <2> QED  BY <2>2, <2>3
<1> QED  BY <1>1, <1>2

LEMMA HandlerCloses ==
  ASSUME TurnInv, NEW c \in Clients, Moves(c), pc'[c] = "done", pc[c] = "close",
         SrvClose(c)
  PROVE  TurnsTaken' /\ QueueOrdered'
<1> USE TurnTypes DEF TurnInv, Moves
<1>1. up' = [up EXCEPT ![c] = <<>>] /\ down' = down
  BY DEF SrvClose
<1>2. \A d \in Clients : /\ srv'[d] = IF d = c THEN "closed" ELSE srv[d]
                         /\ cli'[d] = "closed" <=> cli[d] = "closed"
  BY DEF SrvClose, ConnTypeOK, Usable
<1>3. srv[c] # "none" /\ ~(mpc = "parse" /\ cur = c)
  BY DEF QueueOrdered
<1>4. TurnsTaken'
  BY <1>1, <1>2, <1>3
  DEF TurnsTaken, ClientTurn, ServerTurn, Working, Sending, ConnTypeOK
<1>5. QueueOrdered'  BY DEF SrvClose, QueueOrdered, ConnTypeOK
<1> QED  BY <1>4, <1>5

(***************************************************************************)
(* Every step of a handler is one of these moves, or ends the process.     *)
(***************************************************************************)
LEMMA ServerEnds ==
  ASSUME TurnInv, NEW reason, ServerDies(reason), UNCHANGED clientVars
  PROVE  TurnsTaken' /\ QueueOrdered'
<1> USE TurnTypes DEF TurnInv, ServerDies, SrvCloseAll, clientVars
<1>1. \A c \in Clients : pc'[c] \in {"none", "done", "killed"} /\ up'[c] = <<>>
  BY DEF Working
<1>2. TurnsTaken'
  BY <1>1 DEF TurnsTaken, ClientTurn, ServerTurn, Working, Sending, ConnTypeOK, Usable
<1>3. QueueOrdered'  BY DEF QueueOrdered, Working, ConnTypeOK
<1> QED  BY <1>2, <1>3

LEMMA HandlerTurns ==
  ASSUME TurnInv, NEW c \in Clients, HandlerStep(c), UNCHANGED clientVars
  PROVE  TurnsTaken' /\ QueueOrdered'
<1> USE TurnTypes DEF clientVars, mainVars, Goto
<1> DEFINE Quiet == /\ Moves(c) /\ Working(c) /\ UNCHANGED conn
                    /\ pc'[c] \in Sending => pc[c] \in Sending
           Says  == /\ Moves(c) /\ pc[c] \in Sending /\ pc'[c] \notin Sending
                    /\ \E m \in Text : SrvSend(c, m) \/ SrvSendError(c)
           Hears == /\ Moves(c) /\ Working(c)
                    /\ SrvRecv(c) \/ (SrvEof(c) /\ UNCHANGED conn)
           Done  == TurnsTaken' /\ QueueOrdered'
<1>1. Quiet => Done  BY HandlerWorks
<1>2. Says => Done  BY HandlerSends
<1>3. Hears => Done  BY HandlerReceives
<1> USE DEF Moves, Working, Sending, conn
<1>4. CASE Start(c)  BY <1>1, <1>4 DEF Start, Answer
<1>5. CASE Reply(c)
  <2>1. out[c] \in Text  BY DEF TurnInv, TypeInv, TypeOK, ServerTypeOK
  <2> QED  BY <1>2, <1>5, <2>1 DEF Reply
<1>6. CASE Sigpipe(c)  BY <1>6, ServerEnds DEF Sigpipe
<1>7. CASE Close(c)  BY <1>7, HandlerCloses DEF Close
<1>8. CASE Write(c)
  <2>1. CASE WritePermission(c)  BY <1>1, <2>1 DEF WritePermission, Answer
  <2>2. CASE WriteAck(c)
    <3>1. Note("received") \in Text  BY NoteText DEF Notes
    <3> QED  BY <1>2, <2>2, <3>1 DEF WriteAck
  <2>3. CASE WriteCheck(c)  BY <1>1, <2>3 DEF WriteCheck, Answer
  <2>4. CASE WriteDrain(c)
    <3>1. CASE SrvRecvError(c) /\ Goto(c, "close") /\ UNCHANGED conn
      BY <1>1, <2>4, <3>1 DEF WriteDrain
    <3>2. CASE /\ SrvRecv(c) \/ (SrvEof(c) /\ UNCHANGED conn)
               /\ Answer(c, "denied")
      BY <1>3, <2>4, <3>2 DEF WriteDrain, Answer
    <3> QED  BY <2>4, <3>1, <3>2 DEF WriteDrain
  <2>5. CASE WriteOpenMeta(c)  BY <1>1, <2>5 DEF WriteOpenMeta, Answer
  <2>6. CASE WriteMeta(c)  BY <1>1, <2>6 DEF WriteMeta, Answer
  <2>7. CASE WritePath(c)  BY <1>1, <2>7 DEF WritePath, Answer
  <2>8. CASE WriteOpenFile(c)  BY <1>1, <2>8 DEF WriteOpenFile, Answer
  <2>9. CASE WriteStore(c)
    <3>1. CASE SrvRecvError(c) /\ Goto(c, "close") /\ UNCHANGED conn
      BY <1>1, <2>9, <3>1 DEF WriteStore
    <3>2. CASE /\ SrvRecv(c) \/ (SrvEof(c) /\ UNCHANGED conn)
               /\ Answer(c, "written")
      BY <1>3, <2>9, <3>2 DEF WriteStore, Answer
    <3> QED  BY <2>9, <3>1, <3>2 DEF WriteStore
  <2> QED  BY <1>8, <2>1, <2>2, <2>3, <2>4, <2>5, <2>6, <2>7, <2>8, <2>9 DEF Write
<1>9. CASE Get(c)
  <2>1. CASE GetPath(c)  BY <1>1, <2>1 DEF GetPath, Answer
  <2>2. CASE GetOpen(c)  BY <1>1, <2>2 DEF GetOpen, Answer
  <2>3. CASE GetRead(c)  BY <1>1, <2>3 DEF GetRead, Answer
  <2>4. CASE GetSend(c)
    <3>1. out[c] \in Text  BY DEF TurnInv, TypeInv, TypeOK, ServerTypeOK
    <3> QED  BY <1>2, <2>4, <3>1 DEF GetSend
  <2>5. CASE GetAck(c)
    <3>1. CASE SrvRecvError(c) /\ Goto(c, "close") /\ UNCHANGED conn
      BY <1>1, <2>5, <3>1 DEF GetAck
    <3>2. CASE /\ SrvRecv(c) \/ (SrvEof(c) /\ UNCHANGED conn)
               /\ Answer(c, "got")
      BY <1>3, <2>5, <3>2 DEF GetAck, Answer
    <3> QED  BY <2>5, <3>1, <3>2 DEF GetAck
  <2> QED  BY <1>9, <2>1, <2>2, <2>3, <2>4, <2>5 DEF Get
<1>10. CASE Rm(c)
  <2>1. CASE RmPath(c)  BY <1>1, <2>1 DEF RmPath, Answer
  <2>2. CASE RmCheck(c)  BY <1>1, <2>2 DEF RmCheck, Answer
  <2>3. CASE RmRecheck(c)  BY <1>1, <2>3 DEF RmRecheck, Answer
  <2>4. CASE RmOpenMeta(c)  BY <1>1, <2>4 DEF RmOpenMeta, Answer
  <2>5. CASE RmUnlinkMeta(c)  BY <1>1, <2>5 DEF RmUnlinkMeta, Answer
  <2>6. CASE RmPath2(c)  BY <1>1, <2>6 DEF RmPath2, Answer
  <2>7. CASE RmOpenFile(c)  BY <1>1, <2>7 DEF RmOpenFile, Answer
  <2>8. CASE RmUnlinkFile(c)  BY <1>1, <2>8 DEF RmUnlinkFile, Answer
  <2> QED  BY <1>10, <2>1, <2>2, <2>3, <2>4, <2>5, <2>6, <2>7, <2>8 DEF Rm
<1>11. CASE Ls(c)
  <2>1. CASE LsPath(c)  BY <1>1, <2>1 DEF LsPath, Answer
  <2>2. CASE LsOpen(c)  BY <1>1, <2>2 DEF LsOpen, Answer
  <2>3. CASE LsRead(c)  BY <1>1, <2>3 DEF LsRead, Answer
  <2>4. CASE LsSend(c)
    <3>1. out[c] \in Text  BY DEF TurnInv, TypeInv, TypeOK, ServerTypeOK
    <3> QED  BY <1>2, <2>4, <3>1 DEF LsSend
  <2> QED  BY <1>11, <2>1, <2>2, <2>3, <2>4 DEF Ls
<1> QED  BY <1>4, <1>5, <1>6, <1>7, <1>8, <1>9, <1>10, <1>11 DEF HandlerStep

(***************************************************************************)
(* The moves of a client that has started.                                 *)
(***************************************************************************)
Advances(c) ==
  /\ cpc[c] \notin {"idle", "done"} /\ cpc'[c] # "idle"
  /\ cpc' = [cpc EXCEPT ![c] = cpc'[c]]
  /\ UNCHANGED <<mpc, cur, pc>>

\* Without a word on the connection, a client does not gain the turn.
LEMMA ClientWorks ==
  ASSUME TurnInv, NEW c \in Clients, Advances(c), UNCHANGED conn,
         cpc'[c] \notin {"send", "source", "confirm"}
  PROVE  TurnsTaken' /\ QueueOrdered'
<1> USE TurnTypes DEF TurnInv, Advances, conn
<1>1. TurnsTaken'  BY DEF TurnsTaken, ClientTurn, ServerTurn, Working
<1>2. QueueOrdered'  BY DEF QueueOrdered
<1> QED  BY <1>1, <1>2

\* Sending a text gives the turn away.
LEMMA ClientSends ==
  ASSUME TurnInv, NEW c \in Clients, Advances(c), NEW m \in Text, CliSend(c, m),
         ClientTurn(c), cpc'[c] \notin {"send", "source", "confirm"}
  PROVE  TurnsTaken' /\ QueueOrdered'
<1> USE TurnTypes DEF TurnInv, Advances
<1>1. up[c] = <<>> /\ down[c] = <<>> /\ ~ServerTurn(c)
  BY DEF TurnsTaken
<1>2. Append(up[c], m) = <<m>> /\ Len(<<m>>) = 1  BY <1>1
<1>3. \A d \in Clients : cli'[d] = "closed" <=> cli[d] = "closed"
  BY DEF CliSend, ConnTypeOK
<1>4. UNCHANGED <<srv, down, backlog>>  BY DEF CliSend
<1>5. TurnsTaken'
  <2>1. CASE srv[c] = "closed"
    BY <1>1, <1>3, <1>4, <2>1
    DEF CliSend, TurnsTaken, ClientTurn, ServerTurn, Working, ConnTypeOK
  <2>2. CASE srv[c] # "closed"
    <3>1. up' = [up EXCEPT ![c] = <<m>>]  BY <1>2, <2>2 DEF CliSend
    <3> QED
      BY <1>1, <1>2, <1>3, <1>4, <2>2, <3>1
      DEF TurnsTaken, ClientTurn, ServerTurn, Working, ConnTypeOK
  <2> QED  BY <2>1, <2>2
<1>6. QueueOrdered'  BY <1>4 DEF QueueOrdered
<1> QED  BY <1>5, <1>6

\* Receiving a text, or the end of the connection, may give the turn.
LEMMA ClientReceives ==
  ASSUME TurnInv, NEW c \in Clients, Advances(c),
         CliRecv(c) \/ (CliEof(c) /\ UNCHANGED conn)
  PROVE  TurnsTaken' /\ QueueOrdered'
<1> USE TurnTypes DEF TurnInv, Advances
<1>1. CASE CliRecv(c)
  <2>1. down[c] # <<>> /\ up[c] = <<>> /\ ~ServerTurn(c) /\ cli[c] # "closed"
    BY <1>1 DEF CliRecv, TurnsTaken
  <2>2. Tail(down[c]) = <<>>
    <3>1. down[c] \in Seq(Text) /\ Len(down[c]) <= 1
      BY DEF ConnTypeOK, TurnsTaken
    <3> QED  BY <2>1, <3>1
  <2>3. TurnsTaken'
    BY <1>1, <2>1, <2>2
    DEF CliRecv, TurnsTaken, ClientTurn, ServerTurn, Working, ConnTypeOK
  <2>4. QueueOrdered'  BY <1>1 DEF CliRecv, QueueOrdered
  <2> QED  BY <2>3, <2>4
<1>2. CASE CliEof(c) /\ UNCHANGED conn
  <2>1. down[c] = <<>> /\ up[c] = <<>> /\ ~ServerTurn(c) /\ cli[c] # "closed"
    BY <1>2 DEF CliEof, TurnsTaken
  <2>2. TurnsTaken'
    BY <1>2, <2>1 DEF conn, TurnsTaken, ClientTurn, ServerTurn, Working
  <2>3. QueueOrdered'  BY <1>2 DEF conn, QueueOrdered
  <2> QED  BY <2>2, <2>3
<1> QED  BY <1>1, <1>2

LEMMA ClientCloses ==
  ASSUME TurnInv, NEW c \in Clients, Advances(c), CliClose(c), cpc'[c] = "done"
  PROVE  TurnsTaken' /\ QueueOrdered'
<1> USE TurnTypes DEF TurnInv, Advances
<1>1. down' = [down EXCEPT ![c] = <<>>] /\ UNCHANGED <<up, backlog>>
  BY DEF CliClose
<1>2. \A d \in Clients :
        /\ cli'[d] = IF d = c THEN "closed" ELSE cli[d]
        /\ srv'[d] = "closed" <=> srv[d] = "closed"
        /\ srv'[d] = "none" <=> srv[d] = "none"
        /\ srv'[d] = "queued" <=> srv[d] = "queued"
  BY DEF CliClose, ConnTypeOK, Usable
<1>3. TurnsTaken'
  BY <1>1, <1>2 DEF TurnsTaken, ClientTurn, ServerTurn, Working, ConnTypeOK
<1>4. QueueOrdered'
  <2>1. \A i \in DOMAIN backlog : backlog[i] \in Clients  BY DEF ConnTypeOK
  <2> QED  BY <1>1, <1>2, <2>1 DEF QueueOrdered
<1> QED  BY <1>3, <1>4

LEMMA ClientTurns ==
  ASSUME TurnInv, NEW c \in Clients, ClientStep(c), UNCHANGED <<serverVars, disk>>
  PROVE  TurnsTaken' /\ QueueOrdered'
<1> USE TurnTypes DEF Move, Return, At, serverVars, mainVars, handlerVars, Advances
<1> DEFINE Gains == cpc'[c] \in {"send", "source", "confirm"}
           Quiet == Advances(c) /\ UNCHANGED conn /\ ~Gains
           Says  == /\ Advances(c) /\ ClientTurn(c) /\ ~Gains
                    /\ \E m \in Text : CliSend(c, m)
           Hears == /\ Advances(c)
                    /\ CliRecv(c) \/ (CliEof(c) /\ UNCHANGED conn)
           Done  == TurnsTaken' /\ QueueOrdered'
<1>1. Quiet => Done  BY ClientWorks
<1>2. Says => Done  BY ClientSends
<1>3. Hears => Done  BY ClientReceives
<1>4. Note("request") \in Text /\ Note("fetched") \in Text
  BY NoteText DEF Notes
<1>5. CASE SendRequest(c)
  BY <1>1, <1>2, <1>4, <1>5 DEF SendRequest, ClientTurn
<1>6. CASE CloseSocket(c)  BY <1>6, ClientCloses DEF CloseSocket
<1>7. CASE AwaitAck(c)  BY <1>1, <1>3, <1>7 DEF AwaitAck
<1>8. CASE SendFile(c)
  <2>1. Source[c] \in Text  BY ClientAssumption
  <2> QED  BY <1>1, <1>2, <1>8, <2>1 DEF SendFile, ClientTurn
<1>9. CASE OpenLocal(c)  BY <1>1, <1>9 DEF OpenLocal
<1>10. CASE Fetch(c)  BY <1>1, <1>3, <1>10 DEF Fetch
<1>11. CASE Confirm(c)  BY <1>1, <1>2, <1>4, <1>11 DEF Confirm, ClientTurn
<1>12. CASE AwaitResult(c)  BY <1>1, <1>3, <1>12 DEF AwaitResult
<1> QED  BY <1>5, <1>6, <1>7, <1>8, <1>9, <1>10, <1>11, <1>12 DEF ClientStep

(***************************************************************************)
(* A client starts.                                                        *)
(***************************************************************************)
LEMMA LaunchTurns ==
  ASSUME TurnInv, NEW c \in Clients, Launch(c)
  PROVE  TurnsTaken' /\ QueueOrdered'
<1> USE TurnTypes DEF TurnInv, Launch, Move, At, serverVars, mainVars, handlerVars
<1>1. cpc[c] = "idle" /\ UNCHANGED <<mpc, cur, pc>>
  BY DEF Connect, ConnectRefused
<1>2. srv[c] = "none" /\ up[c] = <<>> /\ down[c] = <<>> /\ pc[c] = "none"
  BY <1>1 DEF TurnsTaken, QueueOrdered
<1>3. ~ServerTurn(c)
  BY <1>2 DEF ServerTurn, QueueOrdered, Sending
<1>4. CASE ConnectRefused(c)
  <2>1. TurnsTaken'
    BY <1>1, <1>2, <1>3, <1>4
    DEF ConnectRefused, conn, TurnsTaken, ClientTurn, ServerTurn, Working
  <2>2. QueueOrdered'  BY <1>1, <1>4 DEF ConnectRefused, conn, QueueOrdered
  <2> QED  BY <2>1, <2>2
<1>5. CASE Connect(c)
  <2>1. /\ cli' = [cli EXCEPT ![c] = "open"] /\ srv' = [srv EXCEPT ![c] = "queued"]
        /\ backlog' = Append(backlog, c) /\ UNCHANGED <<up, down>>
        /\ cpc' = [cpc EXCEPT ![c] = "send"]
    BY <1>5 DEF Connect, CliConnect
  <2>2. TurnsTaken'
    BY <1>1, <1>2, <1>3, <2>1
    DEF TurnsTaken, ClientTurn, ServerTurn, Working, ConnTypeOK
  <2>3. backlog \in Seq(Clients) /\ \A i \in DOMAIN backlog : backlog[i] # c
    BY <1>2 DEF ConnTypeOK, QueueOrdered
  <2>4. /\ DOMAIN backlog' = 1..(Len(backlog) + 1)
        /\ backlog'[Len(backlog) + 1] = c
        /\ \A i \in DOMAIN backlog : backlog'[i] = backlog[i]
        /\ DOMAIN backlog = 1..Len(backlog) /\ Len(backlog) \in Nat
    BY <2>1, <2>3
  <2>5. \A i \in DOMAIN backlog' : i \in DOMAIN backlog \/ i = Len(backlog) + 1
    BY <2>4
  <2>6. \A i \in DOMAIN backlog' : srv'[backlog'[i]] = "queued"
    BY <2>1, <2>3, <2>4, <2>5 DEF ConnTypeOK, QueueOrdered
  <2>7. \A i, j \in DOMAIN backlog' : i # j => backlog'[i] # backlog'[j]
    BY <2>3, <2>4, <2>5 DEF QueueOrdered
  <2>8. QueueOrdered'
    BY <1>1, <1>2, <2>1, <2>6, <2>7 DEF ConnTypeOK, QueueOrdered
  <2> QED  BY <2>2, <2>8
<1> QED  BY <1>4, <1>5

(***************************************************************************)
(* The accept loop.                                                        *)
(***************************************************************************)
LEMMA AcceptTurns ==
  ASSUME TurnInv, NEW c \in Clients, Accept(c), UNCHANGED clientVars
  PROVE  TurnsTaken' /\ QueueOrdered'
<1> USE TurnTypes DEF TurnInv, Accept, SrvAccept, handlerVars, clientVars
<1>1. backlog \in Seq(Clients) /\ backlog # <<>> /\ c = backlog[1]
  BY DEF ConnTypeOK
<1>2. /\ Len(backlog) \in Nat /\ Len(backlog) >= 1
      /\ DOMAIN backlog = 1..Len(backlog) /\ 1 \in DOMAIN backlog
      /\ DOMAIN backlog' = 1..(Len(backlog) - 1)
      /\ \A i \in DOMAIN backlog' : i + 1 \in DOMAIN backlog /\ backlog'[i] = backlog[i + 1]
  BY <1>1
<1>3. srv[c] = "queued" /\ pc[c] = "none"
  BY <1>1, <1>2 DEF QueueOrdered
<1>4. TurnsTaken'
  BY <1>3 DEF TurnsTaken, ClientTurn, ServerTurn, Working, ConnTypeOK
<1>5. \A i \in DOMAIN backlog' : backlog'[i] # c
  <2> TAKE i \in DOMAIN backlog'
  <2>1. i \in Nat /\ i >= 1 /\ i + 1 # 1  BY <1>2
  <2> QED  BY <1>1, <1>2, <2>1 DEF QueueOrdered
<1>6. \A i \in DOMAIN backlog' : srv'[backlog'[i]] = "queued"
  BY <1>1, <1>2, <1>5 DEF QueueOrdered, ConnTypeOK
<1>7. \A i, j \in DOMAIN backlog' : i # j => backlog'[i] # backlog'[j]
  <2> TAKE i, j \in DOMAIN backlog'
  <2>1. i # j => i + 1 # j + 1  BY <1>2
  <2> QED  BY <1>2, <2>1 DEF QueueOrdered
<1>8. QueueOrdered'  BY <1>3, <1>6, <1>7 DEF QueueOrdered, ConnTypeOK
<1> QED  BY <1>4, <1>8

LEMMA RecvTurns ==
  ASSUME TurnInv, RecvCommand, UNCHANGED clientVars
  PROVE  TurnsTaken' /\ QueueOrdered'
<1> USE TurnTypes DEF TurnInv, RecvCommand, SrvRecv, handlerVars, clientVars
<1>1. /\ cur \in Clients /\ up[cur] # <<>> /\ down[cur] = <<>> /\ ~ClientTurn(cur)
      /\ srv[cur] # "closed" /\ cpc[cur] # "idle"
  BY DEF TurnsTaken
<1>2. Tail(up[cur]) = <<>>
  <2>1. up[cur] \in Seq(Text) /\ Len(up[cur]) <= 1
    BY <1>1 DEF ConnTypeOK, TurnsTaken
  <2> QED  BY <1>1, <2>1
<1>3. TurnsTaken'
  BY <1>1, <1>2 DEF TurnsTaken, ClientTurn, ServerTurn, Working, ConnTypeOK
<1>4. QueueOrdered'  BY DEF QueueOrdered
<1> QED  BY <1>3, <1>4

LEMMA ParseTurns ==
  ASSUME TurnInv, ParseStop \/ ParseSkip \/ ParseSpawn, UNCHANGED clientVars
  PROVE  TurnsTaken' /\ QueueOrdered'
<1> USE TurnTypes DEF TurnInv, handlerVars, clientVars
<1>1. mpc = "parse" /\ cur \in Clients /\ cur' = cur /\ ServerTurn(cur)
  BY DEF ParseStop, ParseSkip, ParseSpawn, ServerTurn
<1>2. /\ up[cur] = <<>> /\ down[cur] = <<>> /\ ~ClientTurn(cur)
      /\ srv[cur] \notin {"closed", "none", "queued"} /\ pc[cur] = "none"
  BY <1>1 DEF TurnsTaken, QueueOrdered
<1>3. CASE ParseStop \/ ParseSkip
  <2>1. /\ SrvClose(cur) /\ mpc' \in {"exit", "accept"} /\ UNCHANGED pc
    BY <1>3 DEF ParseStop, ParseSkip
  <2>2. /\ up' = [up EXCEPT ![cur] = <<>>] /\ UNCHANGED <<down, backlog>>
        /\ srv' = [srv EXCEPT ![cur] = "closed"]
        /\ \A d \in Clients : cli'[d] = "closed" <=> cli[d] = "closed"
    BY <1>1, <2>1 DEF SrvClose, ConnTypeOK, Usable
  <2>3. TurnsTaken'
    BY <1>1, <1>2, <2>1, <2>2
    DEF TurnsTaken, ClientTurn, ServerTurn, Working, Sending, ConnTypeOK
  <2>4. QueueOrdered'
    <3>1. \A i \in DOMAIN backlog : backlog[i] \in Clients /\ backlog[i] # cur
      BY <1>2 DEF ConnTypeOK, QueueOrdered
    <3> QED  BY <1>1, <1>2, <2>1, <2>2, <3>1 DEF QueueOrdered, ConnTypeOK
  <2> QED  BY <2>3, <2>4
<1>4. CASE ParseSpawn
  <2>1. /\ pc' = [pc EXCEPT ![cur] = "start"] /\ mpc' = "accept" /\ UNCHANGED conn
    BY <1>4 DEF ParseSpawn, Goto
  <2>2. TurnsTaken'
    BY <1>1, <1>2, <2>1
    DEF TurnsTaken, ClientTurn, ServerTurn, Working, Sending, conn
  <2>3. QueueOrdered'  BY <1>1, <1>2, <2>1 DEF QueueOrdered, conn
  <2> QED  BY <2>2, <2>3
<1> QED  BY <1>3, <1>4

LEMMA MainTurns ==
  ASSUME TurnInv, MainStep, UNCHANGED clientVars
  PROVE  TurnsTaken' /\ QueueOrdered'
<1>1. CASE \E c \in Clients : Accept(c)  BY <1>1, AcceptTurns
<1>2. CASE RecvCommand  BY <1>2, RecvTurns
<1>3. CASE RecvNothing \/ Exit  BY <1>3, ServerEnds DEF RecvNothing, Exit
<1>4. CASE ParseStop \/ ParseSkip \/ ParseSpawn  BY <1>4, ParseTurns
<1> QED  BY <1>1, <1>2, <1>3, <1>4 DEF MainStep

(***************************************************************************)
(* The invariant.                                                          *)
(***************************************************************************)
LEMMA InitTurns == Init => TurnInv
<1> SUFFICES ASSUME Init PROVE TurnInv
  OBVIOUS
<1>1. TypeInv  BY InitTypes
<1>2. TurnsTaken
  <2>1. \A c \in Clients :
          /\ up[c] = <<>> /\ down[c] = <<>> /\ cli[c] = "none" /\ srv[c] = "none"
          /\ cpc[c] = "idle" /\ pc[c] = "none"
    BY DEF Init, ServerInit, ClientInit, ConnInit
  <2>2. mpc # "parse"  BY DEF Init, ServerInit
  <2>3. Len(<<>>) <= 1  OBVIOUS
  <2> QED
    BY <2>1, <2>2, <2>3 DEF TurnsTaken, ClientTurn, ServerTurn, Sending
<1>3. QueueOrdered
  <2>1. DOMAIN backlog = {}  BY DEF Init, ConnInit
  <2>2. mpc = "accept" /\ \A c \in Clients : pc[c] = "none"
    BY DEF Init, ServerInit
  <2> QED  BY <2>1, <2>2 DEF QueueOrdered
<1> QED  BY <1>1, <1>2, <1>3 DEF TurnInv

LEMMA NextTurns == TurnInv /\ [Next]_vars => TurnInv'
<1> SUFFICES ASSUME TurnInv, [Next]_vars PROVE TurnInv'
  OBVIOUS
<1>1. TypeInv'  BY NextTypes DEF TurnInv
<1>2. TurnsTaken' /\ QueueOrdered'
  <2>1. CASE UNCHANGED vars
    <3>1. UNCHANGED <<mpc, cur, pc, cpc, cli, srv, up, down, backlog>>
      BY <2>1 DEF vars, serverVars, mainVars, handlerVars, clientVars, conn
    <3>2. TurnsTaken'
      BY <3>1 DEF TurnInv, TurnsTaken, ClientTurn, ServerTurn, Working
    <3>3. QueueOrdered'  BY <3>1 DEF TurnInv, QueueOrdered
    <3> QED  BY <3>2, <3>3
  <2>2. CASE Main  BY <2>2, MainTurns DEF Main
  <2>3. ASSUME NEW c \in Clients, Handler(c) PROVE TurnsTaken' /\ QueueOrdered'
    BY <2>3, HandlerTurns DEF Handler
  <2>4. ASSUME NEW c \in Clients, Client(c) PROVE TurnsTaken' /\ QueueOrdered'
    BY <2>4, ClientTurns DEF Client
  <2>5. ASSUME NEW c \in Clients, Launch(c) PROVE TurnsTaken' /\ QueueOrdered'
    BY <2>5, LaunchTurns
  <2>6. ASSUME NEW c \in Clients, Kill(c) PROVE TurnsTaken' /\ QueueOrdered'
    <3>1. Advances(c) /\ CliClose(c) /\ cpc'[c] = "done"
      BY <2>6, TurnTypes
      DEF Kill, Killed, Move, At, Advances, serverVars, mainVars, handlerVars
    <3> QED  BY <3>1, ClientCloses
  <2>7. CASE Finished  BY <2>1, <2>7 DEF Finished
  <2> QED  BY <2>1, <2>2, <2>3, <2>4, <2>5, <2>6, <2>7 DEF Next
<1> QED  BY <1>1, <1>2 DEF TurnInv

\* Two texts are never under way, since each forbids the other.
LEMMA TurnsLockStep == TurnInv => LockStep
<1> SUFFICES ASSUME TurnInv, NEW c \in Clients PROVE Len(up[c]) + Len(down[c]) <= 1
  BY DEF LockStep
<1>1. up[c] \in Seq(Text) /\ down[c] \in Seq(Text)
  BY TurnTypes DEF ConnTypeOK
<1>2. Len(up[c]) \in Nat /\ Len(down[c]) \in Nat  BY <1>1
<1>3. Len(up[c]) <= 1 /\ Len(down[c]) <= 1 /\ (up[c] = <<>> \/ down[c] = <<>>)
  BY DEF TurnInv, TurnsTaken
<1> DEFINE m == Len(up[c])
           n == Len(down[c])
<1>4. m = 0 \/ n = 0
  <2>1. CASE up[c] = <<>>  BY <2>1
  <2>2. CASE down[c] = <<>>  BY <2>2
  <2> QED  BY <1>3, <2>1, <2>2
<1>5. m \in Nat /\ n \in Nat /\ m <= 1 /\ n <= 1  BY <1>2, <1>3
<1>6. m + n <= 1
  <2> HIDE DEF m, n
  <2> QED  BY <1>4, <1>5
<1> QED  BY <1>6

\* At most one text is under way on a connection, in either direction: the
\* send and recv calls of clientHandler.c and serverHandler.c alternate.
THEOREM LockStepHolds == Spec => []LockStep
<1> QED  BY InitTurns, NextTurns, TurnsLockStep, PTL DEF Spec

(***************************************************************************)
(* No signal ends the server, for any number of clients that run to their  *)
(* end.  The invariant says what a client is doing for as long as the      *)
(* server has not answered it.                                             *)
(***************************************************************************)
\* Every client runs to its end: it is not killed, and it is not a GET that
\* gives up between its request and the answer, because its local file cannot
\* be created (clientHandler.c opens it in between).
ClientsFinish ==
  /\ Killable = {}
  /\ \A c \in BadLocal, r \in Request : r \in Plan[c] => r.cmd # "GET"

\* Where a client waits for the first answer to a command, or is about to.
Awaiting(cmd) == CASE cmd = "WRITE" -> {"ack"}
                   [] cmd = "GET"   -> {"open", "fetch"}
                   [] OTHER         -> {"result"}

\* The loop has not received c's request yet.
Unread(c) == srv[c] = "queued" \/ (mpc = "recv" /\ cur = c)

\* The request has been received, and the first answer has not been sent; a
\* handler that replies may have answered before.
Unheard(c) ==
  \/ pc[c] \in Sending \ {"reply"}
  \/ mpc = "parse" /\ cur = c /\ req[c].cmd \in Handled

\* A connection brings a request before it ends.
SendsFirst(c) == Unread(c) =>
  /\ srv[c] \in {"queued", "open"} /\ down[c] = <<>>
  /\ up[c] = <<>> => cpc[c] = "send" /\ cli[c] = "open"
  /\ up[c] # <<>> /\ req[c].cmd \in Handled => cpc[c] \in Awaiting(req[c].cmd) /\ cli[c] = "open"

\* A client that has asked stays for the first answer.
Awaits(c) == Unheard(c) =>
  srv[c] = "open" /\ cli[c] = "open" /\ down[c] = <<>> /\ cpc[c] \in Awaiting(req[c].cmd)

\* A handler that has sent to a client that had closed sends no more.
LastWord(c) == srv[c] = "late" => pc[c] \in {"close", "done", "killed"}

Asked(c) ==
  /\ req[c] # None => req[c] \in Plan[c]
  /\ cpc[c] = "open" => req[c] # None /\ req[c].cmd = "GET"

Polite(c) == SendsFirst(c) /\ Awaits(c) /\ LastWord(c) /\ Asked(c)

SurvivalInv == TurnInv /\ ServerSurvives /\ \A c \in Clients : Polite(c)

(***************************************************************************)
(* What a step of the handler or the client of c leaves alone.             *)
(***************************************************************************)
OnlyEndsOf(c) == \A d \in Clients \ {c} :
  /\ pc'[d] = pc[d] /\ cpc'[d] = cpc[d] /\ req'[d] = req[d]
  /\ cli'[d] = cli[d] /\ srv'[d] = srv[d] /\ up'[d] = up[d] /\ down'[d] = down[d]

LEMMA OthersPolite ==
  ASSUME NEW c \in Clients, OnlyEndsOf(c), UNCHANGED <<mpc, cur>>,
         \A d \in Clients : Polite(d), Polite(c)'
  PROVE  \A d \in Clients : Polite(d)'
BY DEF OnlyEndsOf, Polite, SendsFirst, Awaits, LastWord, Asked, Unread, Unheard

(***************************************************************************)
(* Handlers.                                                               *)
(***************************************************************************)
\* A handler at work, without a word of its own on the connection.
LEMMA WorkPolite ==
  ASSUME SurvivalInv, NEW c \in Clients, Moves(c), SrvRecv(c) \/ UNCHANGED conn,
         pc[c] \notin {"close", "done", "killed"},
         pc'[c] \in Sending \ {"reply"} => pc[c] \in Sending \ {"reply"} /\ UNCHANGED conn
  PROVE  OnlyEndsOf(c) /\ Polite(c)'
<1> USE TurnTypes DEF SurvivalInv, Moves
<1>1. ~Unread(c) /\ ~(mpc = "parse" /\ cur = c)
  BY DEF Unread, TurnInv, QueueOrdered
<1>2. UNCHANGED <<req, cli, srv, down>>  BY DEF SrvRecv, conn
<1>3. OnlyEndsOf(c)  BY <1>2 DEF OnlyEndsOf, SrvRecv, conn, ConnTypeOK
<1>4. ~Unread(c)'  BY <1>1, <1>2 DEF Unread
<1>5. Polite(c)
  OBVIOUS
<1> QED
  BY <1>1, <1>2, <1>3, <1>4, <1>5
  DEF Polite, SendsFirst, Awaits, LastWord, Asked, Unheard, conn

\* A handler sends its first answer, or its last.
LEMMA SendPolite ==
  ASSUME SurvivalInv, NEW c \in Clients, Moves(c), NEW m \in Text, SrvSend(c, m),
         pc[c] \in Sending, pc'[c] \notin Sending, pc[c] = "reply" => pc'[c] = "close"
  PROVE  OnlyEndsOf(c) /\ Polite(c)'
<1> USE TurnTypes DEF SurvivalInv, Moves
<1>1. ~(mpc = "recv" /\ cur = c) /\ ~(mpc = "parse" /\ cur = c)
  BY DEF TurnInv, QueueOrdered
<1>2. UNCHANGED req /\ srv'[c] # "queued"  BY DEF SrvSend, ConnTypeOK
<1>3. OnlyEndsOf(c)  BY DEF OnlyEndsOf, SrvSend, ConnTypeOK
<1>4. ~Unread(c)' /\ ~Unheard(c)'  BY <1>1, <1>2 DEF Unread, Unheard
<1>5. Polite(c)
  OBVIOUS
<1>6. LastWord(c)'
  <2>1. CASE pc[c] = "reply"  BY <2>1 DEF LastWord
  <2>2. CASE pc[c] # "reply"
    <3>1. cli[c] = "open" /\ srv[c] = "open"
      BY <1>5, <2>2 DEF Polite, Awaits, Unheard
    <3> QED  BY <3>1 DEF SrvSend, LastWord
  <2> QED  BY <2>1, <2>2
<1>7. Asked(c)'  BY <1>2, <1>5 DEF Polite, Asked
<1> QED  BY <1>3, <1>4, <1>6, <1>7 DEF Polite, SendsFirst, Awaits

\* A send that fails sends nothing, and ends the handler.
LEMMA SendErrorPolite ==
  ASSUME SurvivalInv, NEW c \in Clients, Moves(c), SrvSendError(c),
         pc[c] \in Sending, pc'[c] \notin Sending
  PROVE  OnlyEndsOf(c) /\ Polite(c)'
<1>1. pc[c] \notin {"close", "done", "killed"}  BY DEF Sending
<1> QED  BY <1>1, WorkPolite DEF SrvSendError

\* A handler hangs up.
LEMMA ClosePolite ==
  ASSUME SurvivalInv, NEW c \in Clients, Moves(c), SrvClose(c), pc'[c] = "done"
  PROVE  OnlyEndsOf(c) /\ Polite(c)'
<1> USE TurnTypes DEF SurvivalInv, Moves
<1>1. ~(mpc = "recv" /\ cur = c) /\ ~(mpc = "parse" /\ cur = c)
  BY DEF TurnInv, QueueOrdered
<1>2. UNCHANGED req /\ srv'[c] = "closed"  BY DEF SrvClose, ConnTypeOK
<1>3. OnlyEndsOf(c)  BY DEF OnlyEndsOf, SrvClose, ConnTypeOK
<1>4. ~Unread(c)' /\ ~Unheard(c)'  BY <1>1, <1>2 DEF Unread, Unheard, Sending
<1>5. Asked(c)'  BY <1>2 DEF Polite, Asked
<1> QED  BY <1>2, <1>3, <1>4, <1>5 DEF Polite, SendsFirst, Awaits, LastWord

\* What a handler sends with: nobody it would be killed for.
LEMMA NoSigpipe == ASSUME SurvivalInv, NEW c \in Clients PROVE ~Sigpipe(c)
<1>1. Polite(c)  BY DEF SurvivalInv
<1> QED  BY <1>1 DEF Polite, LastWord, Sigpipe, SrvSendSignal

LEMMA HandlerPolite ==
  ASSUME SurvivalInv, NEW c \in Clients, HandlerStep(c), UNCHANGED clientVars
  PROVE  OnlyEndsOf(c) /\ Polite(c)' /\ UNCHANGED <<mpc, cur, why>>
<1> USE TurnTypes DEF clientVars, mainVars, Goto
<1> DEFINE Works == /\ Moves(c)
                    /\ SrvRecv(c) \/ UNCHANGED conn
                    /\ pc[c] \notin {"close", "done", "killed"}
                    /\ pc'[c] \in Sending \ {"reply"}
                         => pc[c] \in Sending \ {"reply"} /\ UNCHANGED conn
                    /\ UNCHANGED why
           Says  == /\ Moves(c) /\ pc[c] \in Sending /\ pc'[c] \notin Sending
                    /\ pc[c] = "reply" => pc'[c] = "close"
                    /\ \E m \in Text : SrvSend(c, m) \/ SrvSendError(c)
                    /\ UNCHANGED why
           Done  == OnlyEndsOf(c) /\ Polite(c)' /\ UNCHANGED <<mpc, cur, why>>
<1>1. Works => Done
  <2> SUFFICES ASSUME Works PROVE Done
    OBVIOUS
  <2>1. OnlyEndsOf(c) /\ Polite(c)'  BY WorkPolite
  <2> QED  BY <2>1 DEF Moves
<1>2. Says => Done
  <2> SUFFICES ASSUME Says PROVE Done
    OBVIOUS
  <2>1. PICK m \in Text : SrvSend(c, m) \/ SrvSendError(c)
    OBVIOUS
  <2>2. OnlyEndsOf(c) /\ Polite(c)'  BY <2>1, SendPolite, SendErrorPolite
  <2> QED  BY <2>2 DEF Moves
<1>3. TurnInv  BY DEF SurvivalInv
<1> USE <1>3 DEF Moves, Sending
<1>4. CASE Start(c)  BY <1>1, <1>4 DEF Start
<1>5. CASE Reply(c)
  <2>1. out[c] \in Text  BY DEF TurnInv, TypeInv, TypeOK, ServerTypeOK
  <2> QED  BY <1>2, <1>5, <2>1 DEF Reply
<1>6. CASE Sigpipe(c)  BY <1>6, NoSigpipe
<1>7. CASE Close(c)  BY <1>7, ClosePolite DEF Close
<1>8. CASE Write(c)
  <2>1. CASE WritePermission(c)  BY <1>1, <2>1 DEF WritePermission
  <2>2. CASE WriteAck(c)
    <3>1. Note("received") \in Text  BY NoteText DEF Notes
    <3> QED  BY <1>2, <2>2, <3>1 DEF WriteAck
  <2>3. CASE WriteCheck(c)  BY <1>1, <2>3 DEF WriteCheck
  <2>4. CASE WriteDrain(c)  BY <1>1, <2>4 DEF WriteDrain, Answer
  <2>5. CASE WriteOpenMeta(c)  BY <1>1, <2>5 DEF WriteOpenMeta
  <2>6. CASE WriteMeta(c)  BY <1>1, <2>6 DEF WriteMeta
  <2>7. CASE WritePath(c)  BY <1>1, <2>7 DEF WritePath
  <2>8. CASE WriteOpenFile(c)  BY <1>1, <2>8 DEF WriteOpenFile
  <2>9. CASE WriteStore(c)  BY <1>1, <2>9 DEF WriteStore, Answer
  <2> QED  BY <1>8, <2>1, <2>2, <2>3, <2>4, <2>5, <2>6, <2>7, <2>8, <2>9 DEF Write
<1>9. CASE Get(c)
  <2>1. CASE GetPath(c)  BY <1>1, <2>1 DEF GetPath
  <2>2. CASE GetOpen(c)  BY <1>1, <2>2 DEF GetOpen
  <2>3. CASE GetRead(c)  BY <1>1, <2>3 DEF GetRead
  <2>4. CASE GetSend(c)
    <3>1. out[c] \in Text  BY DEF TurnInv, TypeInv, TypeOK, ServerTypeOK
    <3> QED  BY <1>2, <2>4, <3>1 DEF GetSend
  <2>5. CASE GetAck(c)  BY <1>1, <2>5 DEF GetAck, Answer
  <2> QED  BY <1>9, <2>1, <2>2, <2>3, <2>4, <2>5 DEF Get
<1>10. CASE Rm(c)
  <2>1. CASE RmPath(c)  BY <1>1, <2>1 DEF RmPath
  <2>2. CASE RmCheck(c)  BY <1>1, <2>2 DEF RmCheck, Answer
  <2>3. CASE RmRecheck(c)  BY <1>1, <2>3 DEF RmRecheck, Answer
  <2>4. CASE RmOpenMeta(c)  BY <1>1, <2>4 DEF RmOpenMeta
  <2>5. CASE RmUnlinkMeta(c)  BY <1>1, <2>5 DEF RmUnlinkMeta
  <2>6. CASE RmPath2(c)  BY <1>1, <2>6 DEF RmPath2
  <2>7. CASE RmOpenFile(c)  BY <1>1, <2>7 DEF RmOpenFile
  <2>8. CASE RmUnlinkFile(c)  BY <1>1, <2>8 DEF RmUnlinkFile, Answer
  <2> QED  BY <1>10, <2>1, <2>2, <2>3, <2>4, <2>5, <2>6, <2>7, <2>8 DEF Rm
<1>11. CASE Ls(c)
  <2>1. CASE LsPath(c)  BY <1>1, <2>1 DEF LsPath
  <2>2. CASE LsOpen(c)  BY <1>1, <2>2 DEF LsOpen, Answer
  <2>3. CASE LsRead(c)  BY <1>1, <2>3 DEF LsRead
  <2>4. CASE LsSend(c)
    <3>1. out[c] \in Text  BY DEF TurnInv, TypeInv, TypeOK, ServerTypeOK
    <3> QED  BY <1>2, <2>4, <3>1 DEF LsSend
  <2> QED  BY <1>11, <2>1, <2>2, <2>3, <2>4 DEF Ls
<1> QED  BY <1>4, <1>5, <1>6, <1>7, <1>8, <1>9, <1>10, <1>11 DEF HandlerStep

(***************************************************************************)
(* Clients.                                                                *)
(***************************************************************************)
\* A client sends, or cannot.
LEMMA SaysPolite ==
  ASSUME SurvivalInv, NEW c \in Clients, Advances(c), ClientTurn(c),
         \/ \E m \in Text : CliSend(c, m) /\ (cpc[c] = "send" /\ req[c].cmd \in Handled
                                                => cpc'[c] \in Awaiting(req[c].cmd))
         \/ UNCHANGED conn /\ (cpc[c] = "send" => CliSendError(c)),
         cpc'[c] = "open" => cpc[c] = "send" /\ req[c].cmd = "GET"
  PROVE  OnlyEndsOf(c) /\ Polite(c)'
<1> USE TurnTypes DEF SurvivalInv, Advances
<1>1. /\ up[c] = <<>> /\ down[c] = <<>> /\ ~Unheard(c)' /\ req[c] # None
      /\ UNCHANGED <<req, srv, down>>
  BY DEF TurnInv, TurnsTaken, ServerTurn, ClientTurn, Unheard, conn, CliSend,
    TypeInv, RequestsKnown
<1>2. OnlyEndsOf(c)  BY DEF OnlyEndsOf, CliSend, conn, ConnTypeOK
<1>3. Polite(c)
  OBVIOUS
<1>4. SendsFirst(c)'
  <2> SUFFICES ASSUME Unread(c)
               PROVE  /\ srv[c] \in {"queued", "open"} /\ up'[c] # <<>>
                      /\ req[c].cmd \in Handled => cpc'[c] \in Awaiting(req[c].cmd) /\ cli'[c] = "open"
    BY <1>1 DEF SendsFirst, Unread
  <2>1. cpc[c] = "send" /\ cli[c] = "open" /\ srv[c] \in {"queued", "open"}
    BY <1>1, <1>3 DEF Polite, SendsFirst
  <2>2. PICK m \in Text : CliSend(c, m) /\ (req[c].cmd \in Handled => cpc'[c] \in Awaiting(req[c].cmd))
    BY <2>1 DEF CliSendError
  <2>3. up' = [up EXCEPT ![c] = Append(<<>>, m)] /\ cli' = cli
    BY <1>1, <2>1, <2>2 DEF CliSend
  <2>4. up'[c] = <<m>> /\ <<m>> # <<>>  BY <2>3 DEF ConnTypeOK
  <2> QED  BY <2>1, <2>2, <2>3, <2>4
<1> QED  BY <1>1, <1>2, <1>3, <1>4 DEF Polite, Awaits, LastWord, Asked

\* A client hears something, or the end of its connection.
LEMMA HearsPolite ==
  ASSUME SurvivalInv, NEW c \in Clients, Advances(c), cpc[c] \in {"ack", "fetch", "result"},
         CliRecv(c) \/ ((CliEof(c) \/ CliRecvError(c)) /\ UNCHANGED conn),
         cpc'[c] # "open"
  PROVE  OnlyEndsOf(c) /\ Polite(c)'
<1> USE TurnTypes DEF SurvivalInv, Advances
<1>1. Polite(c)
  OBVIOUS
<1>2. ~Unheard(c)
  BY <1>1 DEF Polite, Awaits, CliRecv, CliEof, CliRecvError
<1>3. UNCHANGED <<req, cli, srv, up>>  BY DEF CliRecv, conn
<1>4. OnlyEndsOf(c)  BY DEF OnlyEndsOf, CliRecv, conn, ConnTypeOK
<1>5. ~Unread(c) \/ (up[c] # <<>> /\ req[c].cmd \notin Handled /\ down'[c] = <<>>)
  BY <1>1, <1>3 DEF Polite, SendsFirst, CliRecv, CliEof, CliRecvError, conn
<1>6. ~Unheard(c)' /\ (Unread(c)' <=> Unread(c))  BY <1>2, <1>3 DEF Unheard, Unread
<1> QED
  BY <1>1, <1>3, <1>4, <1>5, <1>6 DEF Polite, SendsFirst, Awaits, LastWord, Asked

\* A client hangs up.
LEMMA LeavesPolite ==
  ASSUME SurvivalInv, NEW c \in Clients, Advances(c), CliClose(c),
         cpc[c] = "close", cpc'[c] = "done"
  PROVE  OnlyEndsOf(c) /\ Polite(c)'
<1> USE TurnTypes DEF SurvivalInv, Advances
<1>1. Polite(c)
  OBVIOUS
<1>2. ~Unheard(c)  BY <1>1 DEF Polite, Awaits, Awaiting
<1>3. UNCHANGED <<req, up>> /\ down'[c] = <<>>
  BY DEF CliClose, ConnTypeOK
<1>4. OnlyEndsOf(c)  BY DEF OnlyEndsOf, CliClose, ConnTypeOK
<1>5. srv'[c] = srv[c] \/ (down[c] # <<>> /\ srv'[c] = "reset")
  BY DEF CliClose, ConnTypeOK
<1>6. ~Unheard(c)' /\ (Unread(c)' => Unread(c))
  BY <1>2, <1>3, <1>5 DEF Unheard, Unread
<1>7. Unread(c) => up[c] # <<>> /\ req[c].cmd \notin Handled /\ srv'[c] = srv[c]
  BY <1>1, <1>5 DEF Polite, SendsFirst, Awaiting
<1> QED
  BY <1>1, <1>3, <1>4, <1>5, <1>6, <1>7 DEF Polite, SendsFirst, Awaits, LastWord, Asked

\* The local file of a GET can be created.
LEMMA FinishOpens ==
  ASSUME SurvivalInv, ClientsFinish, NEW c \in Clients, OpenLocal(c)
  PROVE  c \notin BadLocal
<1>1. Polite(c)  BY DEF SurvivalInv
<1>2. req[c] \in Request /\ req[c] \in Plan[c] /\ req[c].cmd = "GET"
  BY <1>1, TurnTypes DEF SurvivalInv, Polite, Asked, OpenLocal, At, ConnTypeOK
<1> QED  BY <1>2 DEF ClientsFinish

LEMMA OpensPolite ==
  ASSUME SurvivalInv, NEW c \in Clients, OpenLocal(c), c \notin BadLocal,
         UNCHANGED <<serverVars, disk>>
  PROVE  OnlyEndsOf(c) /\ Polite(c)'
<1> USE TurnTypes DEF SurvivalInv, Move, Return, At, serverVars, mainVars, handlerVars, conn
<1>1. Polite(c)
  OBVIOUS
<1>2. req[c] \in Request /\ req[c] \in Plan[c] /\ req[c].cmd = "GET" /\ cpc[c] = "open"
  BY <1>1 DEF Polite, Asked, OpenLocal, ConnTypeOK
<1>3. cpc' = [cpc EXCEPT ![c] = "fetch"] /\ UNCHANGED <<conn, mpc, cur, pc>>
  BY DEF OpenLocal
<1>4. OnlyEndsOf(c)  BY <1>3 DEF OnlyEndsOf
<1>5. cpc'[c] = "fetch"  BY <1>3
<1> QED
  BY <1>1, <1>2, <1>3, <1>4, <1>5
  DEF Polite, SendsFirst, Awaits, LastWord, Asked, Awaiting, Unread, Unheard

\* A step of a client that does not leave before it has been answered.
LEMMA StayPolite ==
  ASSUME SurvivalInv, NEW c \in Clients, ClientStep(c), OpenLocal(c) => c \notin BadLocal,
         UNCHANGED <<serverVars, disk>>
  PROVE  OnlyEndsOf(c) /\ Polite(c)' /\ UNCHANGED <<mpc, cur, why>>
<1> USE TurnTypes DEF Move, Return, At, serverVars, mainVars, handlerVars, Advances
<1> DEFINE Done == OnlyEndsOf(c) /\ Polite(c)'
<1>1. TurnInv  BY DEF SurvivalInv
<1>2. Note("request") \in Text /\ Note("fetched") \in Text
  BY NoteText DEF Notes
<1>3. CASE SendRequest(c)
  <2>1. req[c] \in Request  
    BY <1>1, <1>3 DEF SendRequest, TurnInv, TypeInv, RequestsKnown, ConnTypeOK
  <2>2. req[c].cmd \in Commands  BY <2>1 DEF Request
  <2>3. Advances(c) /\ ClientTurn(c)  BY <1>1, <1>3 DEF SendRequest, ClientTurn
  <2>4. cpc'[c] = "open" => cpc[c] = "send" /\ req[c].cmd = "GET"
    BY <1>1, <1>3 DEF SendRequest
  <2>5. \/ /\ CliSend(c, Note("request"))
           /\ req[c].cmd \in Handled => cpc'[c] \in Awaiting(req[c].cmd)
        \/ UNCHANGED conn /\ CliSendError(c)
    BY <1>1, <1>3, <2>2 DEF SendRequest, Commands, Handled, Awaiting
  <2> QED  BY <1>1, <1>2, <2>3, <2>4, <2>5, SaysPolite
<1>4. CASE CloseSocket(c)  BY <1>1, <1>4, LeavesPolite DEF CloseSocket
<1>5. CASE AwaitAck(c)  BY <1>1, <1>5, HearsPolite DEF AwaitAck
<1>6. CASE SendFile(c)
  <2>1. Source[c] \in Text  BY ClientAssumption
  <2>2. Advances(c) /\ ClientTurn(c) /\ cpc[c] = "source" /\ cpc'[c] # "open"
    BY <1>1, <1>6 DEF SendFile, ClientTurn
  <2>3. CliSend(c, Source[c]) \/ UNCHANGED conn  BY <1>6 DEF SendFile
  <2> QED  BY <2>1, <2>2, <2>3, SaysPolite
<1>7. CASE OpenLocal(c)  BY <1>7, OpensPolite
<1>8. CASE Fetch(c)  BY <1>1, <1>8, HearsPolite DEF Fetch
<1>9. CASE Confirm(c)
  <2>1. Advances(c) /\ ClientTurn(c) /\ cpc[c] = "confirm" /\ cpc'[c] # "open"
    BY <1>1, <1>9 DEF Confirm, ClientTurn
  <2>2. CliSend(c, Note("fetched")) \/ UNCHANGED conn  BY <1>9 DEF Confirm
  <2> QED  BY <1>2, <2>1, <2>2, SaysPolite
<1>10. CASE AwaitResult(c)  BY <1>1, <1>10, HearsPolite DEF AwaitResult
<1>11. Done
  BY <1>3, <1>4, <1>5, <1>6, <1>7, <1>8, <1>9, <1>10 DEF ClientStep
<1> QED  BY <1>11

LEMMA ClientPolite ==
  ASSUME SurvivalInv, ClientsFinish, NEW c \in Clients, ClientStep(c),
         UNCHANGED <<serverVars, disk>>
  PROVE  OnlyEndsOf(c) /\ Polite(c)' /\ UNCHANGED <<mpc, cur, why>>
BY FinishOpens, StayPolite

\* A client starts, or finds that nobody listens.
LEMMA LaunchPolite ==
  ASSUME SurvivalInv, NEW c \in Clients, Launch(c)
  PROVE  OnlyEndsOf(c) /\ Polite(c)' /\ UNCHANGED <<mpc, cur, why>>
<1> USE TurnTypes DEF SurvivalInv, Launch, Move, At, serverVars, mainVars, handlerVars
<1>1. cpc[c] = "idle" /\ UNCHANGED <<mpc, cur, why, pc>>
  BY DEF Connect, ConnectRefused
<1>2. /\ srv[c] = "none" /\ up[c] = <<>> /\ down[c] = <<>> /\ pc[c] = "none"
      /\ ~(mpc \in {"recv", "parse"} /\ cur = c)
  BY <1>1 DEF TurnInv, TurnsTaken, QueueOrdered
<1>3. CASE ConnectRefused(c)
  <2>1. cpc'[c] = "done" /\ OnlyEndsOf(c) /\ UNCHANGED conn
    BY <1>1, <1>3 DEF ConnectRefused, OnlyEndsOf, conn
  <2>2. ~Unread(c)' /\ ~Unheard(c)'
    BY <1>1, <1>2, <2>1 DEF Unread, Unheard, Sending, conn
  <2> QED
    BY <1>1, <1>2, <2>1, <2>2
    DEF Polite, SendsFirst, Awaits, LastWord, Asked, conn
<1>4. CASE Connect(c)
  <2>1. PICK r \in Plan[c] : CliConnect(c, r)  BY <1>4 DEF Connect
  <2>2. /\ cli' = [cli EXCEPT ![c] = "open"] /\ srv' = [srv EXCEPT ![c] = "queued"]
        /\ req' = [req EXCEPT ![c] = r] /\ UNCHANGED <<up, down>>
        /\ cpc' = [cpc EXCEPT ![c] = "send"]
    BY <1>4, <2>1 DEF Connect, CliConnect
  <2>3. /\ cli'[c] = "open" /\ srv'[c] = "queued" /\ req'[c] = r
        /\ cpc'[c] = "send" /\ ~Unheard(c)'
    BY <1>1, <1>2, <2>2 DEF ConnTypeOK, Unheard, Sending
  <2>4. OnlyEndsOf(c)  BY <1>1, <2>2 DEF OnlyEndsOf, ConnTypeOK
  <2>5. SendsFirst(c)'  BY <1>2, <2>2, <2>3 DEF SendsFirst
  <2> QED
    BY <1>1, <2>1, <2>3, <2>4, <2>5 DEF Polite, Awaits, LastWord, Asked
<1> QED  BY <1>1, <1>3, <1>4

(***************************************************************************)
(* The accept loop.                                                        *)
(***************************************************************************)
\* A signal ends the process only at a connection that ended without a request.
LEMMA NoEmptyConnection == ASSUME SurvivalInv PROVE ~RecvNothing
<1> SUFFICES ASSUME RecvNothing PROVE FALSE
  OBVIOUS
<1>1. PICK c \in Clients : c = cur /\ mpc = "recv"
  BY TurnTypes DEF RecvNothing, SurvivalInv
<1>2. Polite(c) /\ Unread(c)  BY <1>1 DEF SurvivalInv, Unread
<1> QED
  BY <1>1, <1>2 DEF RecvNothing, Polite, SendsFirst, SrvEof, SrvRecvError

\* After the end of the process, nobody is served.
LEMMA DeathPolite ==
  ASSUME SurvivalInv, ServerDies("stop"), UNCHANGED clientVars
  PROVE  ServerSurvives' /\ \A c \in Clients : Polite(c)'
<1> USE TurnTypes DEF SurvivalInv, ServerDies, SrvCloseAll, clientVars
<1>1. ServerSurvives'  BY DEF ServerSurvives
<1>2. ASSUME NEW c \in Clients PROVE Polite(c)'
  <2>1. Polite(c)
    OBVIOUS
  <2>2. /\ srv'[c] \in {"none", "closed"} /\ pc'[c] \in {"none", "done", "killed"}
        /\ mpc' = "dead" /\ UNCHANGED <<req, cpc>>
    BY DEF Working
  <2> QED
    BY <2>1, <2>2
    DEF Polite, SendsFirst, Awaits, LastWord, Asked, Unread, Unheard, Sending
<1> QED  BY <1>1, <1>2

LEMMA MainPolite ==
  ASSUME SurvivalInv, MainStep, UNCHANGED clientVars
  PROVE  ServerSurvives' /\ \A c \in Clients : Polite(c)'
<1> USE TurnTypes DEF SurvivalInv, clientVars, handlerVars, ServerSurvives
<1> DEFINE Done == ServerSurvives' /\ \A c \in Clients : Polite(c)'
<1>1. CASE Exit  BY <1>1, DeathPolite DEF Exit
<1>2. ASSUME NEW c \in Clients, Accept(c) PROVE Done
  <2>1. /\ mpc = "accept" /\ mpc' = "recv" /\ cur' = c
        /\ srv' = [srv EXCEPT ![c] = "open"]
        /\ UNCHANGED <<why, pc, cpc, req, cli, up, down>>
    BY <1>2 DEF Accept, SrvAccept
  <2>2. Unread(c)
    <3>1. backlog # <<>> /\ c = backlog[1] /\ backlog \in Seq(Clients)
      BY <1>2 DEF Accept, SrvAccept, ConnTypeOK
    <3>2. 1 \in DOMAIN backlog  BY <3>1
    <3> QED  BY <3>1, <3>2 DEF Unread, TurnInv, QueueOrdered
  <2>3. srv'[c] = "open"  BY <2>1 DEF ConnTypeOK
  <2>4. ASSUME NEW d \in Clients PROVE Polite(d)'
    <3>1. Polite(d) /\ (d # c => srv'[d] = srv[d])  BY <2>1 DEF ConnTypeOK
    <3>2. (Unread(d)' => Unread(d)) /\ (Unheard(d)' => Unheard(d))
      BY <2>1, <2>2, <3>1 DEF Unread, Unheard
    <3>3. Unheard(c) => srv[c] = "open"
      BY DEF Polite, Awaits
    <3> QED
      BY <2>1, <2>3, <3>1, <3>2
      DEF Polite, SendsFirst, Awaits, LastWord, Asked
  <2> QED  BY <2>1, <2>4
<1>3. CASE RecvCommand
  <2>1. PICK c \in Clients : c = cur
    BY <1>3 DEF RecvCommand
  <2>2. /\ mpc = "recv" /\ mpc' = "parse" /\ cur' = c /\ up[c] # <<>>
        /\ up' = [up EXCEPT ![c] = Tail(up[c])]
        /\ UNCHANGED <<why, pc, cpc, req, cli, srv, down>>
    BY <1>3, <2>1 DEF RecvCommand, SrvRecv
  <2>3. srv[c] # "queued" /\ Unread(c)
    BY <2>1, <2>2 DEF TurnInv, QueueOrdered, Unread
  <2>4. ASSUME NEW d \in Clients PROVE Polite(d)'
    <3>1. Polite(d)
      OBVIOUS
    <3>2. CASE d = c
      <4>1. ~Unread(c)'  BY <2>1, <2>2, <2>3 DEF Unread
      <4>2. Awaits(c)'
        BY <2>1, <2>2, <2>3, <3>1, <3>2 DEF Polite, SendsFirst, Awaits, Unheard
      <4> QED  BY <2>2, <3>1, <3>2, <4>1, <4>2 DEF Polite, SendsFirst, LastWord, Asked
    <3>3. CASE d # c
      <4>1. up'[d] = up[d] /\ (Unread(d)' => Unread(d)) /\ (Unheard(d)' => Unheard(d))
        BY <2>1, <2>2, <3>3 DEF Unread, Unheard, ConnTypeOK
      <4> QED
        BY <2>2, <3>1, <4>1 DEF Polite, SendsFirst, Awaits, LastWord, Asked
    <3> QED  BY <3>2, <3>3
  <2> QED  BY <2>2, <2>4
<1>4. CASE ParseStop \/ ParseSkip
  <2>1. PICK c \in Clients : c = cur
    BY <1>4 DEF ParseStop, ParseSkip
  <2>2. /\ mpc = "parse" /\ mpc' \in {"exit", "accept"} /\ cur' = c /\ SrvClose(c)
        /\ UNCHANGED <<why, pc, cpc>>
    BY <1>4, <2>1 DEF ParseStop, ParseSkip
  <2>3. pc[c] = "none"  BY <2>1, <2>2 DEF TurnInv, QueueOrdered
  <2>4. ASSUME NEW d \in Clients PROVE Polite(d)'
    <3>1. Polite(d) /\ UNCHANGED req  BY <2>2 DEF SrvClose
    <3>2. CASE d = c
      <4>1. srv'[c] = "closed"  BY <2>2 DEF SrvClose, ConnTypeOK
      <4>2. ~Unread(c)' /\ ~Unheard(c)'
        BY <2>2, <2>3, <4>1 DEF Unread, Unheard, Sending
      <4> QED
        BY <2>2, <3>1, <3>2, <4>1, <4>2
        DEF Polite, SendsFirst, Awaits, LastWord, Asked
    <3>3. CASE d # c
      <4>1. /\ srv'[d] = srv[d] /\ cli'[d] = cli[d] /\ up'[d] = up[d] /\ down'[d] = down[d]
        BY <2>2, <3>3 DEF SrvClose, ConnTypeOK
      <4>2. (Unread(d)' => Unread(d)) /\ (Unheard(d)' => Unheard(d))
        BY <2>1, <2>2, <3>1, <4>1 DEF Unread, Unheard
      <4> QED
        BY <2>2, <3>1, <4>1, <4>2 DEF Polite, SendsFirst, Awaits, LastWord, Asked
    <3> QED  BY <3>2, <3>3
  <2> QED  BY <2>2, <2>4
<1>5. CASE ParseSpawn
  <2>1. PICK c \in Clients : c = cur
    BY <1>5 DEF ParseSpawn
  <2>2. /\ mpc = "parse" /\ mpc' = "accept" /\ cur' = c /\ req[c].cmd \in Handled
        /\ pc' = [pc EXCEPT ![c] = "start"]
        /\ UNCHANGED <<why, cpc, req, cli, srv, up, down>>
    BY <1>5, <2>1 DEF ParseSpawn, Goto, conn
  <2>3. Unheard(c)  BY <2>1, <2>2 DEF Unheard
  <2>4. ASSUME NEW d \in Clients PROVE Polite(d)'
    <3>1. Polite(d)
      OBVIOUS
    <3>2. (Unread(d)' => Unread(d)) /\ (Unheard(d)' => Unheard(d))
      BY <2>1, <2>2, <2>3 DEF Unread, Unheard
    <3>3. srv'[d] = "late" => pc'[d] = pc[d]
      BY <2>2, <2>3 DEF Polite, Awaits
    <3> QED
      BY <2>2, <3>1, <3>2, <3>3 DEF Polite, SendsFirst, Awaits, LastWord, Asked
  <2> QED  BY <2>2, <2>4
<1> QED
  BY <1>1, <1>2, <1>3, <1>4, <1>5, NoEmptyConnection DEF MainStep

(***************************************************************************)
(* The invariant.                                                          *)
(***************************************************************************)
LEMMA InitPolite == Init => SurvivalInv
<1> SUFFICES ASSUME Init PROVE SurvivalInv
  OBVIOUS
<1>1. TurnInv  BY InitTurns
<1>2. ServerSurvives /\ mpc = "accept"  BY DEF Init, ServerInit, ServerSurvives
<1>3. ASSUME NEW c \in Clients PROVE Polite(c)
  <2>1. srv[c] = "none" /\ pc[c] = "none" /\ req[c] = None /\ cpc[c] = "idle"
    BY DEF Init, ServerInit, ClientInit, ConnInit
  <2>2. ~Unread(c) /\ ~Unheard(c)  BY <1>2, <2>1 DEF Unread, Unheard, Sending
  <2> QED  BY <2>1, <2>2 DEF Polite, SendsFirst, Awaits, LastWord, Asked
<1> QED  BY <1>1, <1>2, <1>3 DEF SurvivalInv

LEMMA StepPolite ==
  ASSUME SurvivalInv, [Next]_vars,
         \A c \in Clients : ~Kill(c) /\ (OpenLocal(c) => c \notin BadLocal)
  PROVE  SurvivalInv'
<1>1. TurnInv'  BY NextTurns DEF SurvivalInv
<1> DEFINE Done == ServerSurvives' /\ \A c \in Clients : Polite(c)'
<1>2. ASSUME NEW c \in Clients, OnlyEndsOf(c), Polite(c)', UNCHANGED <<mpc, cur, why>>
      PROVE  Done
  BY <1>2, OthersPolite DEF SurvivalInv, ServerSurvives
<1>3. ASSUME UNCHANGED vars PROVE Done
  BY <1>3
  DEF vars, serverVars, mainVars, handlerVars, clientVars, conn, SurvivalInv,
    ServerSurvives, Polite, SendsFirst, Awaits, LastWord, Asked, Unread, Unheard
<1>4. ASSUME Main PROVE Done  BY <1>4, MainPolite DEF Main
<1>5. ASSUME NEW c \in Clients, Handler(c) PROVE Done
  BY <1>2, <1>5, HandlerPolite DEF Handler
<1>6. ASSUME NEW c \in Clients, Client(c) PROVE Done
  BY <1>2, <1>6, StayPolite DEF Client
<1>7. ASSUME NEW c \in Clients, Launch(c) PROVE Done
  BY <1>2, <1>7, LaunchPolite
<1>8. ASSUME Finished PROVE Done  BY <1>3, <1>8 DEF Finished
<1>9. Done
  BY <1>3, <1>4, <1>5, <1>6, <1>7, <1>8 DEF Next
<1> QED  BY <1>1, <1>9 DEF SurvivalInv

LEMMA NextPolite ==
  ASSUME ClientsFinish
  PROVE  SurvivalInv /\ [Next]_vars => SurvivalInv'
<1> SUFFICES ASSUME SurvivalInv, [Next]_vars PROVE SurvivalInv'
  OBVIOUS
<1>1. \A c \in Clients : ~Kill(c)
  BY DEF Kill, Killed, ClientsFinish
<1> QED  BY <1>1, FinishOpens, StepPolite

\* No signal ends the server as long as its clients run to their end: the
\* accept loop never sees a connection without a request (server.c:115-124),
\* and no handler sends twice to a client that has closed, not even a handler
\* that runs another client's command.
THEOREM ServerAlwaysSurvives ==
  ASSUME ClientsFinish
  PROVE  Spec => []ServerSurvives
<1>1. SurvivalInv => ServerSurvives  BY DEF SurvivalInv
<1>2. SurvivalInv /\ [Next]_vars => SurvivalInv'  BY NextPolite
<1> QED  BY InitPolite, <1>1, <1>2, PTL DEF Spec

=============================================================================
