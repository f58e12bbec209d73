----------------------------- MODULE CreateDir -----------------------------
(***************************************************************************)
(* createDir of utils.c, run by several threads at once: each makes the    *)
(* directory of the file it is about to create, and, if mkdir fails, its   *)
(* parents first.  Then it opens the file (serverHandler.c:72-86).         *)
(*                                                                         *)
(* A path is a sequence of names, the first of them a tree: "meta" or      *)
(* "file".  The recursion of createDirRecursive is a walk: it shortens the *)
(* path until a mkdir succeeds or finds something there, then makes the    *)
(* longer paths again, one return after the other.                         *)
(***************************************************************************)
EXTENDS Naturals, Sequences

CONSTANTS
  Threads,  \* handlers (or clients, whose GET makes local directories)
  Wanted,   \* the files they are asked to write: paths of two names or more
  Before,   \* directories that exist when they start, parents included
  Nobody    \* who made what existed before

Prefix(p, n) == SubSeq(p, 1, n)

ASSUME CreateDirAssumption ==
  /\ \A p \in Wanted : p \in Seq(STRING) /\ Len(p) >= 2
  /\ \A p \in Before : /\ p \in Seq(STRING) /\ p # <<>>
                       /\ \A n \in 1..Len(p) : Prefix(p, n) \in Before
  /\ Nobody \notin Threads

VARIABLES
  dirs,     \* the directories there are, each with the thread that made it
  files,    \* the regular files there are
  want,     \* want[t]: the file that thread t is asked for
  depth,    \* depth[t]: how much of its path is in the call t is in
  step      \* "idle", "first" or "again" (the two mkdir), "open", "ok", "failed"

vars == <<dirs, files, want, depth, step>>

Init ==
  /\ dirs = [p \in Before |-> Nobody]
  /\ files = {}
  /\ want = [t \in Threads |-> <<>>]
  /\ depth = [t \in Threads |-> 0]
  /\ step = [t \in Threads |-> "idle"]

Here(t) == Prefix(want[t], depth[t])

\* mkdir fails with EEXIST, or for want of a parent directory; else it succeeds.
Taken(p)   == p \in DOMAIN dirs \cup files
Held(p)    == Len(p) = 1 \/ Prefix(p, Len(p) - 1) \in DOMAIN dirs
CanMake(p) == ~Taken(p) /\ Held(p)
Made(t) == dirs' = [p \in DOMAIN dirs \cup {Here(t)} |->
                      IF p = Here(t) THEN t ELSE dirs[p]]

Set(t, s) == step' = [step EXCEPT ![t] = s]

\* createDirRecursive returns 0: to its caller, or from createDir.
Return0(t) ==
  IF depth[t] = Len(want[t]) - 1
    THEN Set(t, "open") /\ UNCHANGED depth
    ELSE Set(t, "again") /\ depth' = [depth EXCEPT ![t] = @ + 1]

\* createDir drops the file name and calls createDirRecursive.
Begin(t) ==
  /\ step[t] = "idle"
  /\ \E p \in Wanted : /\ want' = [want EXCEPT ![t] = p]
                       /\ depth' = [depth EXCEPT ![t] = Len(p) - 1]
  /\ Set(t, "first")
  /\ UNCHANGED <<dirs, files>>

\* Slip: EEXIST is a failure like any other.
FirstStrict(t) ==
  /\ step[t] = "first"
  /\ \/ CanMake(Here(t)) /\ Made(t) /\ Return0(t)
     \/ ~CanMake(Here(t)) /\ Set(t, "failed") /\ UNCHANGED <<dirs, depth>>
  /\ UNCHANGED <<files, want>>

\* Slip: whatever mkdir says is taken for success.
FirstBlind(t) ==
  /\ step[t] = "first"
  /\ IF CanMake(Here(t)) THEN Made(t) ELSE UNCHANGED dirs
  /\ Set(t, "open")
  /\ UNCHANGED <<files, want, depth>>

\* Slip: the last part of the path is not removed before the recursion.
FirstUncut(t) ==
  /\ step[t] = "first"
  /\ \/ CanMake(Here(t)) /\ Made(t) /\ Return0(t)
     \/ Taken(Here(t)) /\ Return0(t) /\ UNCHANGED dirs
     \/ ~Taken(Here(t)) /\ ~Held(Here(t)) /\ UNCHANGED <<step, depth, dirs>>
  /\ UNCHANGED <<files, want>>

\* The first mkdir: made, or already there, or the parent comes first.
First(t) ==
  /\ step[t] = "first"
  /\ \/ CanMake(Here(t)) /\ Made(t) /\ Return0(t)
     \/ Taken(Here(t)) /\ Return0(t) /\ UNCHANGED dirs
     \/ /\ ~Taken(Here(t)) /\ ~Held(Here(t))
        /\ depth' = [depth EXCEPT ![t] = @ - 1]
        /\ UNCHANGED <<step, dirs>>
  /\ UNCHANGED <<files, want>>

\* mkdir once more, after the parent was made: here EEXIST is a failure, which
\* every caller passes on.
Again(t) ==
  /\ step[t] = "again"
  /\ \/ CanMake(Here(t)) /\ Made(t) /\ Return0(t)
     \/ ~CanMake(Here(t)) /\ Set(t, "failed") /\ UNCHANGED <<dirs, depth>>
  /\ UNCHANGED <<files, want>>

\* open(O_CREAT): needs the directory, and no directory of the file's name.
Open(t) ==
  /\ step[t] = "open"
  /\ \/ /\ Held(want[t]) /\ want[t] \notin DOMAIN dirs
        /\ files' = files \cup {want[t]} /\ Set(t, "ok")
     \/ /\ ~Held(want[t]) \/ want[t] \in DOMAIN dirs
        /\ Set(t, "failed") /\ UNCHANGED files
  /\ UNCHANGED <<dirs, want, depth>>

Ended(t) == step[t] \in {"ok", "failed"}
Finished == (\A t \in Threads : Ended(t)) /\ UNCHANGED vars

Work(t) == First(t) \/ Again(t) \/ Open(t)
Next == (\E t \in Threads : Begin(t) \/ Work(t)) \/ Finished

Spec == Init /\ [][Next]_vars

\* A thread that has been asked for a file is run.
FairSpec == Spec /\ \A t \in Threads : WF_vars(Work(t))

(***************************************************************************)
(* createDir alone never fails: when it, or the open after it, does, then  *)
(* another thread made one of the directories on the way, or put a file or *)
(* a directory in the place of one of the names (utils.c:42-48).           *)
(***************************************************************************)
FailureExcused == \A t \in Threads : step[t] = "failed" =>
  \E n \in 1..Len(want[t]) : LET p == Prefix(want[t], n) IN
    \/ p \in DOMAIN dirs /\ (dirs[p] \notin {t, Nobody} \/ n = Len(want[t]))
    \/ p \in files /\ n < Len(want[t])

\* No thread wants a file that has the name of another's directory.
NoClash == \A t, u \in Threads : \A n \in 1..(Len(want[u]) - 1) : want[t] # Prefix(want[u], n)

(***************************************************************************)
(* The race never loses everybody: when the threads that were asked have   *)
(* ended, and no name was both a file's and a directory's, one of them has *)
(* created its file: the last to make a directory is not disturbed.        *)
(***************************************************************************)
SomeoneSucceeds ==
  NoClash /\ (\A t \in Threads : step[t] = "idle" \/ Ended(t))
    => \/ \A t \in Threads : step[t] = "idle"
       \/ \E t \in Threads : step[t] = "ok"

(***************************************************************************)
(* createDir returns 0 only when the directory is there (utils.c:14, 20),  *)
(* or a file that another thread created has the name of a directory on    *)
(* the way: EEXIST does not tell the two apart.                            *)
(***************************************************************************)
DirectoryThere == \A t \in Threads : step[t] = "open" =>
  Held(want[t]) \/ \E n \in 1..(Len(want[t]) - 1) : Prefix(want[t], n) \in files

(***************************************************************************)
(* The recursion ends, whatever the other threads do to the directories.   *)
(***************************************************************************)
CreateDirReturns == \A t \in Threads : (step[t] = "first") ~> Ended(t)

=============================================================================
