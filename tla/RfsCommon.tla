----------------------------- MODULE RfsCommon -----------------------------
(***************************************************************************)
(* What the client and the server of the remote file system share: the     *)
(* requests, the texts that cross a socket or reach the disk, and the      *)
(* cipher and header conversions applied to them.                          *)
(*                                                                         *)
(* A text is a sequence of cells; a cell stands for a run of characters    *)
(* that nothing in the program takes apart.  Every text fits the           *)
(* BUFFER_SIZE buffers, plain and ciphered.                                *)
(***************************************************************************)
EXTENDS Integers, Sequences

CONSTANTS
  Clients,   \* client processes: each runs ./client once, on one connection
  Names,     \* remote paths users name: flat, of one length, without digits
  Garbled,   \* a path nobody named: the text found at a stale pointer
  Empty,     \* the path "": "meta/" and "file/", the directories themselves
  None,      \* no path, no inode, no client, no command
  Symbols    \* what the cells of local and remote files are made of

Kinds   == {"meta", "file"}        \* META_DIR and ROOT_DIR
Paths   == Names \cup {Garbled}    \* paths that can be opened as files
Handled == {"WRITE", "GET", "RM", "LS"}
Commands == Handled \cup {"STOP", "SKIP"}

\* A request line; perm is -1 where the line has no third token.
Request == [cmd : Commands, path : Names, perm : {-1, 0, 1}]

ASSUME CommonAssumption ==
  /\ Garbled \notin Names
  /\ Empty \notin Names \cup {Garbled}
  /\ None \notin Names \cup {Garbled, Empty} \cup Clients \cup Commands \cup Request
  /\ Clients \cap Names = {}
  /\ {None, Empty} \cap ((Clients \cup Names) \X Kinds) = {}

(***************************************************************************)
(* Cells on the wire carry their case; cells on the disk have lost it.     *)
(***************************************************************************)
MetaChars == {"-", "0", "1"}
Notes == {"request", "received", "written", "denied", "got", "locked",
          "absent", "removed", "nofile", "fetched", "stale"}
Stored == Symbols \cup Notes \cup MetaChars
Cell   == [sym : Stored, case : {"lower", "upper"}]
Text   == Seq(Cell)

ASSUME NoTextAssumption == None \notin Text

\* A fixed message of the program, sent as it is spelled; "stale" is never
\* sent: it is what an array holds that the program has not set.
Note(n) == << [sym |-> n, case |-> "lower"] >>

\* pbEncode upper-cases every character before it looks it up ...
PbEncode(t) == [i \in DOMAIN t |-> t[i].sym]

\* ... so pbDecode gives back the text in upper case.
PbDecode(s) == [i \in DOMAIN s |-> [sym |-> s[i], case |-> "upper"]]

\* A header sent as it is; its characters have no case.
HeaderText(s) == [i \in DOMAIN s |-> [sym |-> s[i], case |-> "upper"]]

\* sprintf("%d", permission)
HeaderToString(p) == CASE p = -1 -> <<"-", "1">>
                       [] p = 0  -> <<"0">>
                       [] OTHER  -> <<"1">>

\* fscanf("%d") of a header.  Callers compare the result with 0 and -1 only,
\* so every positive number is 1.  The two-digit headers are a "-1" whose
\* first byte another writer replaced.
HeaderValue(s) ==
  CASE s = <<"0">>                                      -> 0
    [] s \in {<<"1">>, <<"0", "1">>, <<"1", "1">>}      -> 1
    [] OTHER                                            -> -1

=============================================================================
