------------------------------- MODULE Disk --------------------------------
(***************************************************************************)
(* The two directory trees "meta" and "file" and the inodes their names    *)
(* link to, as open, read, write and unlink leave them.  External.         *)
(*                                                                         *)
(* A handler creates at most one meta and one data inode, so the pair      *)
(* <<handler, kind>> names a new inode; <<name, kind>> names the inodes    *)
(* an earlier run of the server left behind.  An inode that is unlinked    *)
(* lives on for the descriptors that are open on it.                       *)
(*                                                                         *)
(* fcntl locks belong to the process: all the handlers are threads of one  *)
(* process, and no other process touches the trees, so F_SETLKW never      *)
(* waits, and lock and unlock change nothing here.  Both trees exist, so   *)
(* the Empty path, their root, can be opened for reading.                  *)
(***************************************************************************)
EXTENDS RfsCommon

VARIABLES
  link,     \* link[k][p]: the inode that path p of tree k names, or None
  data      \* data[i]: the contents of inode i

disk == <<link, data>>

Inodes == (Clients \cup Names) \X Kinds

DiskTypeOK ==
  /\ link \in [Kinds -> [Paths -> Inodes \cup {None}]]
  /\ data \in [Inodes -> Seq(Stored)]

\* before[k][n]: the contents of file n of tree k, or None.
DiskInit(before) ==
  /\ link = [k \in Kinds |-> [p \in Paths |->
               IF p \in Names /\ before[k][p] # None THEN <<p, k>> ELSE None]]
  /\ data = [i \in Inodes |->
               IF i[1] \in Names /\ before[i[2]][i[1]] # None
                 THEN before[i[2]][i[1]] ELSE <<>>]

Exists(k, p) == p \in Paths /\ link[k][p] # None

\* open(O_RDONLY) succeeds, on Target(k, p); reading a directory then fails.
CanRead(k, p) == p = Empty \/ Exists(k, p)
Target(k, p) == IF p = Empty THEN Empty ELSE link[k][p]
Contents(t) == IF t = Empty THEN <<>> ELSE data[t]

\* The permission getPermission reads for path p: -1 without a readable header.
PermissionOf(p) == IF Exists("meta", p) THEN HeaderValue(data[link["meta"][p]])
                                        ELSE -1

\* open(O_WRONLY | O_CREAT | O_TRUNC): the inode opened is Opened(k, p, new).
Opened(k, p, new) == IF link[k][p] = None THEN new ELSE link[k][p]

OpenTrunc(k, p, new) ==
  /\ link' = [link EXCEPT ![k][p] = Opened(k, p, new)]
  /\ data' = [data EXCEPT ![Opened(k, p, new)] = <<>>]

\* write() from offset 0 of a descriptor: what is longer stays behind it.
Overlay(old, new) == new \o SubSeq(old, Len(new) + 1, Len(old))

WriteStart(i, s) ==
  /\ data' = [data EXCEPT ![i] = Overlay(@, s)]
  /\ UNCHANGED link

Unlink(k, p) ==
  /\ link' = [link EXCEPT ![k][p] = None]
  /\ UNCHANGED data

=============================================================================
