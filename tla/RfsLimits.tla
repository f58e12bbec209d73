----------------------------- MODULE RfsLimits -----------------------------
(***************************************************************************)
(* The remote file system in a process that may have only so many          *)
(* descriptors and threads.  Nothing is added to the state of Rfs: what is *)
(* open is counted.  At the limit accept, open and fopen fail with EMFILE, *)
(* and pthread_create with EAGAIN.                                         *)
(*                                                                         *)
(* getPermission opens, reads and closes in one step: the descriptor it    *)
(* has for that time is asked for, but not seen by the other threads.      *)
(***************************************************************************)
EXTENDS Rfs, FiniteSets

CONSTANTS
  MaxFiles,   \* descriptors beside the standard ones and the listening socket
  MaxThreads  \* handler threads at one time

ASSUME LimitsAssumption ==
  /\ MaxFiles \in Nat \ {0} /\ MaxThreads \in Nat
  /\ IsFiniteSet(Clients)

OpenSockets == {c \in Clients : srv[c] \in Usable}
OpenFiles == {<<c, "meta">> : c \in {d \in Clients : mfd[d] # None}}
           \cup {<<c, "data">> : c \in {d \in Clients : fd[d] # None}}
InUse == Cardinality(OpenSockets) + Cardinality(OpenFiles)
Room  == InUse < MaxFiles
ThreadsLeft == Cardinality({c \in Clients : Working(c)}) < MaxThreads

(***************************************************************************)
(* The accept loop.                                                        *)
(***************************************************************************)
\* accept returns -1 at once, and the loop goes round.
AcceptFails ==
  /\ mpc = "accept" /\ backlog # <<>> /\ ~Room
  /\ UNCHANGED vars

\* pthread_create returns EAGAIN, which is not < 0: the connection is left
\* open, and no thread knows of it.  pthread_detach of a thread that is not
\* there is undefined: it returns an error, or ends the process.
SpawnRefused ==
  /\ mpc = "parse" /\ req[cur].cmd \in Handled /\ ~ThreadsLeft
  /\ \/ /\ buf' = [buf EXCEPT !.split = TRUE]
        /\ mpc' = "accept"
        /\ UNCHANGED <<why, cur, handlerVars, conn, disk>>
     \/ ServerDies("signal")

LimitedMain ==
  /\ \/ /\ MainStep
        /\ mpc = "accept" => Room
        /\ mpc = "parse" /\ req[cur].cmd \in Handled => ThreadsLeft
     \/ SpawnRefused
  /\ UNCHANGED clientVars

(***************************************************************************)
(* The handlers.                                                           *)
(***************************************************************************)
\* Where a handler opens something, and where it goes when it cannot.  A
\* header that getPermission cannot open counts as absent.
AfterRefusal == [
  w_check    |-> "w_openmeta", r_check    |-> "r_recheck",
  w_openmeta |-> "close",      w_openfile |-> "close",
  g_open     |-> "close",
  r_openmeta |-> "close",      r_openfile |-> "close"]

Opening == DOMAIN AfterRefusal \cup {"r_recheck", "l_open"}

OpenRefused(c) ==
  /\ pc[c] \in Opening /\ ~Room
  /\ \/ /\ pc[c] \in DOMAIN AfterRefusal
        /\ Goto(c, AfterRefusal[pc[c]]) /\ UNCHANGED out
     \/ pc[c] = "r_recheck" /\ Answer(c, "absent")
     \/ pc[c] = "l_open" /\ Answer(c, "nofile")
  /\ UNCHANGED <<op, perm, path, mfd, fd, mainVars, conn, disk>>

\* Slip: a handler that gets no descriptor tries again.
LimitedHandlerRetrying(c) ==
  /\ HandlerStep(c) /\ (pc[c] \in Opening => Room)
  /\ UNCHANGED clientVars

LimitedHandler(c) ==
  /\ \/ HandlerStep(c) /\ (pc[c] \in Opening => Room)
     \/ OpenRefused(c)
  /\ UNCHANGED clientVars

LimitedNext ==
  \/ LimitedMain \/ AcceptFails \/ Finished
  \/ \E c \in Clients : LimitedHandler(c) \/ Client(c) \/ Launch(c) \/ Kill(c)

LimitedSpec == Init /\ [][LimitedNext]_vars

LimitedFairSpec ==
  /\ LimitedSpec
  /\ WF_vars(LimitedMain)
  /\ \A c \in Clients : WF_vars(LimitedHandler(c)) /\ WF_vars(Client(c))

(***************************************************************************)
(* What nobody will ever close: the descriptors of handlers that have      *)
(* ended, and the connections that got no thread.                          *)
(***************************************************************************)
Ended == {c \in Clients : pc[c] = "done"}
Lost == {f \in OpenFiles : f[1] \in Ended} \cup {<<c, "socket">> : c \in OpenSockets \cap Ended}
Abandoned == {c \in OpenSockets : pc[c] = "none" /\ ~(mpc \in {"recv", "parse"} /\ cur = c)}

(***************************************************************************)
(* However many descriptors LS, RM and GET leave open (serverHandler.c:    *)
(* 456, 404, 261), handlers that have ended never hold them all: each was  *)
(* opened while the connection of its handler, closed since, was open too. *)
(***************************************************************************)
LeaksLeaveRoom == Cardinality(Lost) < MaxFiles

(***************************************************************************)
(* So the loop, which spins while accept fails (server.c:105-108), gets to *)
(* everyone who waits for it in the end, unless connections without a      *)
(* thread (server.c:141) and lost descriptors together fill the table.     *)
(***************************************************************************)
EveryoneAccepted ==
  (backlog # <<>>) ~>
    (backlog = <<>> \/ Cardinality(Abandoned) + Cardinality(Lost) >= MaxFiles)

=============================================================================
