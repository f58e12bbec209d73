---------------------------- MODULE Connection -----------------------------
(***************************************************************************)
(* The TCP connection of each client as the program sees it through        *)
(* connect, accept, send, recv and close on Linux.  External: the code     *)
(* under src/ only calls it.                                               *)
(*                                                                         *)
(* An end of a connection is                                               *)
(*   "none"    not connected yet                                           *)
(*   "queued"  (server end) connected, waiting in the listen queue         *)
(*   "open"    usable                                                      *)
(*   "late"    usable, but data was sent to a peer that had closed: its    *)
(*             RST is on the way or here                                   *)
(*   "reset"   the peer closed with data unread, and reset the connection  *)
(*   "closed"  closed by its owner                                         *)
(***************************************************************************)
EXTENDS RfsCommon

VARIABLES
  req,      \* req[c]: the request line that c's first message carries
  cli, srv, \* the two ends of c's connection
  up, down, \* texts sent and not yet received, client to server and back
  backlog   \* connections waiting for accept, in order

conn == <<req, cli, srv, up, down, backlog>>

Usable == {"open", "late", "reset"}

ConnTypeOK ==
  /\ req \in [Clients -> Request \cup {None}]
  /\ cli \in [Clients -> {"none", "closed"} \cup Usable]
  /\ srv \in [Clients -> {"none", "queued", "closed"} \cup Usable]
  /\ up \in [Clients -> Seq(Text)]
  /\ down \in [Clients -> Seq(Text)]
  /\ backlog \in Seq(Clients)

ConnInit ==
  /\ req = [c \in Clients |-> None]
  /\ cli = [c \in Clients |-> "none"]
  /\ srv = [c \in Clients |-> "none"]
  /\ up = [c \in Clients |-> <<>>]
  /\ down = [c \in Clients |-> <<>>]
  /\ backlog = <<>>

(***************************************************************************)
(* Server end.                                                             *)
(***************************************************************************)
SrvAccept(c) ==
  /\ backlog # <<>> /\ c = Head(backlog)
  /\ backlog' = Tail(backlog)
  /\ srv' = [srv EXCEPT ![c] = "open"]
  /\ UNCHANGED <<req, cli, up, down>>

\* send() >= 0: a peer that has closed never reads the text, and answers RST.
SrvSend(c, m) ==
  /\ srv[c] \in {"open", "late"}
  /\ IF cli[c] = "closed"
       THEN srv' = [srv EXCEPT ![c] = "late"] /\ UNCHANGED down
       ELSE down' = [down EXCEPT ![c] = Append(@, m)] /\ UNCHANGED srv
  /\ UNCHANGED <<req, cli, up, backlog>>

\* send() < 0 without a signal: the RST came before any FIN (ECONNRESET).
SrvSendError(c) == srv[c] = "reset" /\ UNCHANGED conn

\* send() raises SIGPIPE: the peer closed, and its RST answered a past send.
SrvSendSignal(c) == srv[c] = "late"

\* recv() > 0; texts already queued are delivered even after a FIN or RST.
SrvRecv(c) ==
  /\ up[c] # <<>>
  /\ up' = [up EXCEPT ![c] = Tail(@)]
  /\ UNCHANGED <<req, cli, srv, down, backlog>>

\* recv() = 0 after the peer's FIN, also once a later RST is in.
SrvEof(c) == up[c] = <<>> /\ cli[c] = "closed" /\ srv[c] # "reset"

\* recv() < 0
SrvRecvError(c) == up[c] = <<>> /\ srv[c] = "reset"

\* close(): an end closed with texts unread resets its peer.
SrvClose(c) ==
  /\ srv' = [srv EXCEPT ![c] = "closed"]
  /\ cli' = [cli EXCEPT ![c] = IF up[c] # <<>> /\ @ \in Usable
                                 THEN "reset" ELSE @]
  /\ up' = [up EXCEPT ![c] = <<>>]
  /\ UNCHANGED <<req, down, backlog>>

\* The server process is gone: the kernel closes every end, and resets the
\* connections that were never accepted.
SrvCloseAll ==
  /\ srv' = [c \in Clients |-> IF srv[c] = "none" THEN "none" ELSE "closed"]
  /\ cli' = [c \in Clients |->
               IF cli[c] \in Usable /\ (srv[c] = "queued" \/ up[c] # <<>>)
                 THEN "reset" ELSE cli[c]]
  /\ up' = [c \in Clients |-> <<>>]
  /\ backlog' = <<>>
  /\ UNCHANGED <<req, down>>

(***************************************************************************)
(* Client end.                                                             *)
(***************************************************************************)
CliConnect(c, r) ==
  /\ req' = [req EXCEPT ![c] = r]
  /\ cli' = [cli EXCEPT ![c] = "open"]
  /\ srv' = [srv EXCEPT ![c] = "queued"]
  /\ backlog' = Append(backlog, c)
  /\ UNCHANGED <<up, down>>

CliSend(c, m) ==
  /\ cli[c] \in {"open", "late"}
  /\ IF srv[c] = "closed"
       THEN cli' = [cli EXCEPT ![c] = "late"] /\ UNCHANGED up
       ELSE up' = [up EXCEPT ![c] = Append(@, m)] /\ UNCHANGED cli
  /\ UNCHANGED <<req, srv, down, backlog>>

\* send() < 0, or SIGPIPE ends the client: either way it fails.
CliSendError(c) == cli[c] \in {"reset", "late"}

CliRecv(c) ==
  /\ down[c] # <<>>
  /\ down' = [down EXCEPT ![c] = Tail(@)]
  /\ UNCHANGED <<req, cli, srv, up, backlog>>

CliEof(c) == down[c] = <<>> /\ srv[c] = "closed" /\ cli[c] # "reset"

CliRecvError(c) == down[c] = <<>> /\ cli[c] = "reset"

CliClose(c) ==
  /\ cli' = [cli EXCEPT ![c] = "closed"]
  /\ srv' = [srv EXCEPT ![c] = IF down[c] # <<>> /\ @ \in Usable
                                 THEN "reset" ELSE @]
  /\ down' = [down EXCEPT ![c] = <<>>]
  /\ UNCHANGED <<req, up, backlog>>

=============================================================================
