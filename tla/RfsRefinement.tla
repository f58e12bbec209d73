--------------------------- MODULE RfsRefinement ---------------------------
(***************************************************************************)
(* How the remote file system implements RemoteFiles, when its users come  *)
(* one at a time.                                                          *)
(*                                                                         *)
(* A request is served in the step that decides its outcome: the check     *)
(* that refuses it, the read that finds what to send, or, for a WRITE and  *)
(* an RM that go through, the first open, whose O_TRUNC begins to destroy  *)
(* what was there.  While the rest of the change is under way, the mapping *)
(* shows the name as it will be.                                           *)
(***************************************************************************)
EXTENDS Rfs

Storing(c)  == pc[c] \in {"w_writemeta", "w_path", "w_openfile", "w_store"}
Removing(c) == pc[c] \in {"r_unlinkmeta", "r_path2", "r_openfile", "r_unlinkfile"}
Deciding == {"none", "start", "w_perm", "w_ack", "w_check", "w_openmeta",
             "g_path", "g_open", "g_read",
             "r_path", "r_check", "r_recheck", "r_openmeta", "l_path", "l_open", "l_read"}

ChangerOf(n) == {c \in Clients : req[c] # None /\ req[c].path = n
                                   /\ (Storing(c) \/ Removing(c))}

HeaderName(s) == CASE s = <<>> -> "blank" [] s = <<"0">> -> "readonly" [] OTHER -> "writable"

HeaderOf(n) ==
  IF ChangerOf(n) # {}
    THEN LET c == CHOOSE c \in ChangerOf(n) : TRUE
         IN IF Storing(c) THEN HeaderName(HeaderToString(perm[c])) ELSE "none"
  ELSE IF Exists("meta", n) THEN HeaderName(data[link["meta"][n]]) ELSE "none"

ContentOf(n) ==
  IF ChangerOf(n) # {}
    THEN LET c == CHOOSE c \in ChangerOf(n) : TRUE
         IN IF Storing(c) THEN PbDecode(PbEncode(Source[c])) ELSE None
  ELSE IF Exists("file", n) THEN PbDecode(data[link["file"][n]]) ELSE None

PhaseOf(c) == IF At(c, "idle") \/ At(c, "done") THEN cpc[c]
              ELSE IF pc[c] \in Deciding THEN "asked" ELSE "served"

\* The file that a GET fetches is its reply; afterwards the client has it.
ReplyOf(c) == CASE Storing(c)           -> Note("written")
                [] Removing(c)          -> Note("removed")
                [] pc[c] = "w_drain"    -> Note("denied")
                [] pc[c] \in Deciding   -> <<>>
                [] OTHER                ->
                     IF op[c] = "GET" /\ pc[c] \notin {"g_send", "g_ack"}
                       THEN local[c] ELSE out[c]

SeenBy(c) == IF ~At(c, "done") THEN <<>>
             ELSE IF req[c] # None /\ req[c].cmd = "GET" THEN local[c] ELSE answer[c]

Files == INSTANCE RemoteFiles WITH
  header  <- [n \in Names |-> HeaderOf(n)],
  content <- [n \in Names |-> ContentOf(n)],
  asked   <- req,
  phase   <- [c \in Clients |-> PhaseOf(c)],
  reply   <- [c \in Clients |-> ReplyOf(c)],
  seen    <- [c \in Clients |-> SeenBy(c)],
  exit    <- [c \in Clients |-> IF At(c, "done") THEN status[c] ELSE "running"],
  stopped <- mpc = "exit" \/ why = "stop"

(***************************************************************************)
(* One user at a time sees a store whose every request is one atomic step: *)
(* each file comes back whole and in upper case, as the last WRITE that    *)
(* was not denied left it; a read-only file is neither written nor         *)
(* removed; every message a user gets is the answer to its own request;    *)
(* and a client that was served exits with 0, unless its GET found nothing *)
(* (handle_write, handle_get, handle_rm, handle_ls and their clients).     *)
(***************************************************************************)
FilesImplemented == Files!Spec

=============================================================================
