--------------------------- MODULE CreateDirProofs ---------------------------
(***************************************************************************)
(* Proofs about createDir, for any number of threads and any paths: that   *)
(* it fails only because of what others do, that it succeeds only where    *)
(* there is a directory, and that the race has a winner.                   *)
(***************************************************************************)
EXTENDS CreateDir, SequenceTheorems, WellFoundedInduction, TLAPS

(***************************************************************************)
(* The invariant.                                                          *)
(***************************************************************************)
DirTypeOK ==
  /\ want \in [Threads -> Wanted \cup {<<>>}] /\ depth \in [Threads -> Nat]
  /\ step \in [Threads -> {"idle", "first", "again", "open", "ok", "failed"}]

\* A thread that has been asked is in a call for one of its directories.
Within(t) == step[t] # "idle" =>
  want[t] \in Wanted /\ depth[t] \in 1..(Len(want[t]) - 1)

\* Who made a directory made it on the way to its file, and has gone on.
Makers == \A p \in DOMAIN dirs :
  \/ dirs[p] = Nobody /\ p \in Before
  \/ /\ dirs[p] \in Threads
     /\ LET u == dirs[p] IN
        /\ step[u] \notin {"idle", "first"}
        /\ Len(p) \in 1..(Len(want[u]) - 1) /\ p = Prefix(want[u], Len(p))
        /\ step[u] = "again" => Len(p) < depth[u]

Creators == \A f \in files : \E t \in Threads : step[t] = "ok" /\ want[t] = f

\* A directory that was missing when t looked has been made by another since.
Missed(t) == \A n \in 1..(Len(want[t]) - 1) :
  /\ \/ step[t] = "first" /\ n > depth[t]
     \/ step[t] = "again" /\ n >= depth[t]
  /\ Prefix(want[t], n) \in DOMAIN dirs
  => dirs[Prefix(want[t], n)] \notin {t, Nobody}

\* Where t has failed while there are no files: another was there before it, but
\* t had made all that it made before that.
Overtaken(t) == step[t] = "failed" =>
  \/ files # {}
  \/ want[t] \in DOMAIN dirs
  \/ /\ Here(t) \in DOMAIN dirs /\ dirs[Here(t)] \notin {t, Nobody}
     /\ \A p \in DOMAIN dirs : dirs[p] = t => Len(p) < depth[t]

\* What DirectoryThere and FailureExcused say of one thread.
FileFor(t) == \E n \in 1..(Len(want[t]) - 1) : Prefix(want[t], n) \in files
There(t)   == step[t] = "open" => Held(want[t]) \/ FileFor(t)
Excused(t) == step[t] = "failed" =>
  \/ FileFor(t)
  \/ want[t] \in DOMAIN dirs
  \/ \E n \in 1..Len(want[t]) : /\ Prefix(want[t], n) \in DOMAIN dirs
                                /\ dirs[Prefix(want[t], n)] \notin {t, Nobody}


\* The second mkdir comes when there is something to put the directory in.
Above(t) == step[t] = "again" =>
  depth[t] > 1 /\ Prefix(want[t], depth[t] - 1) \in DOMAIN dirs \cup files

ThreadInv(t) ==
  /\ Within(t) /\ Missed(t) /\ Overtaken(t) /\ There(t) /\ Excused(t) /\ Above(t)

DirInv == DirTypeOK /\ Makers /\ Creators /\ \A t \in Threads : ThreadInv(t)

(***************************************************************************)
(* Paths.                                                                  *)
(***************************************************************************)
LEMMA PrefixFacts ==
  ASSUME NEW p \in Seq(STRING), NEW n \in 1..Len(p)
  PROVE  /\ Prefix(p, n) \in Seq(STRING) /\ Len(Prefix(p, n)) = n
         /\ \A m \in 1..n : Prefix(Prefix(p, n), m) = Prefix(p, m)
         /\ Prefix(p, Len(p)) = p
<1>1. \A i \in 1..n : p[i] \in STRING
  BY ElementOfSeq
<1>2. Prefix(p, n) \in Seq(STRING) /\ Len(Prefix(p, n)) = n
  BY <1>1, SubSeqProperties DEF Prefix
<1>3. \A m \in 1..n : Prefix(Prefix(p, n), m) = Prefix(p, m)
  BY SubSeqOfSubSeq DEF Prefix
<1>4. Prefix(p, Len(p)) = p  BY SubSeqFull DEF Prefix
<1> QED  BY <1>2, <1>3, <1>4

\* The directory a thread is in, and the one it stands in.
LEMMA HereFacts ==
  ASSUME DirInv, NEW t \in Threads, step[t] # "idle"
  PROVE  /\ want[t] \in Seq(STRING) /\ Len(want[t]) \in Nat /\ Len(want[t]) >= 2
         /\ depth[t] \in 1..(Len(want[t]) - 1)
         /\ Len(Here(t)) = depth[t] /\ Here(t) = Prefix(want[t], depth[t])
         /\ depth[t] > 1 => (Held(Here(t)) <=> Prefix(want[t], depth[t] - 1) \in DOMAIN dirs)
         /\ depth[t] = 1 => Held(Here(t))
         /\ Held(want[t]) <=> Prefix(want[t], Len(want[t]) - 1) \in DOMAIN dirs
         /\ Prefix(want[t], Len(want[t])) = want[t]
<1>1. want[t] \in Seq(STRING) /\ Len(want[t]) >= 2 /\ Len(want[t]) \in Nat
      /\ depth[t] \in 1..(Len(want[t]) - 1)
  BY CreateDirAssumption DEF DirInv, ThreadInv, Within
<1>2. depth[t] \in 1..Len(want[t])  BY <1>1
<1>3. /\ Len(Here(t)) = depth[t] /\ Prefix(want[t], Len(want[t])) = want[t]
      /\ \A m \in 1..depth[t] : Prefix(Here(t), m) = Prefix(want[t], m)
  BY <1>1, <1>2, PrefixFacts DEF Here
<1>4. depth[t] > 1 => depth[t] - 1 \in 1..depth[t]  BY <1>1
<1>5. Len(want[t]) # 1
  <2>1. \A n \in Nat : n >= 2 => n # 1
    OBVIOUS
  <2>2. Len(want[t]) \in Nat /\ Len(want[t]) >= 2  BY <1>1
  <2> QED  BY <2>1, <2>2, Zenon
<1>6. Held(want[t]) <=> Prefix(want[t], Len(want[t]) - 1) \in DOMAIN dirs
  BY <1>5 DEF Held
<1>7. Here(t) = Prefix(want[t], depth[t])  BY DEF Here
<1>8. ASSUME depth[t] > 1
      PROVE  Held(Here(t)) <=> Prefix(want[t], depth[t] - 1) \in DOMAIN dirs
  BY <1>1, <1>3, <1>4, <1>8 DEF Held
<1>9. depth[t] = 1 => Held(Here(t))  BY <1>3 DEF Held
<1> QED  BY <1>1, <1>3, <1>6, <1>7, <1>8, <1>9

(***************************************************************************)
(* What the steps of a thread have in common: directories and files come   *)
(* and stay, and belong to who made them.                                  *)
(***************************************************************************)
Grows(t) ==
  /\ files \subseteq files' /\ DOMAIN dirs \subseteq DOMAIN dirs'
  /\ \A p \in DOMAIN dirs : dirs'[p] = dirs[p]
  /\ \A p \in DOMAIN dirs' \ DOMAIN dirs : dirs'[p] = t
  /\ \A u \in Threads \ {t} : want'[u] = want[u] /\ depth'[u] = depth[u] /\ step'[u] = step[u]

LEMMA OthersStay ==
  ASSUME DirInv, NEW t \in Threads, Grows(t), NEW u \in Threads \ {t}
  PROVE  ThreadInv(u)'
<1>1. ThreadInv(u)  BY DEF DirInv
<1>2. t # Nobody  BY CreateDirAssumption
<1> USE <1>1, <1>2 DEF ThreadInv, Grows
<1>3. Within(u)'  BY DEF Within
<1>4. Missed(u)'  BY DEF Missed
<1>5. FileFor(u) => FileFor(u)'  BY DEF FileFor
<1>6. There(u)'  BY <1>5 DEF There, Held
<1>7. Excused(u)'  BY <1>5 DEF Excused
<1>8. Overtaken(u)'  BY DEF Overtaken, Here
<1>9. Above(u)'  BY DEF Above
<1> QED  BY <1>3, <1>4, <1>6, <1>7, <1>8, <1>9

\* The directories of t are on its way, and it does not turn back.
LEMMA MakersStay ==
  ASSUME DirInv, NEW t \in Threads, Grows(t),
         step[t] \in {"again", "open"} =>
           /\ want'[t] = want[t] /\ step'[t] \notin {"idle", "first"}
           /\ step'[t] = "again" => step[t] = "again" /\ depth'[t] >= depth[t],
         step[t] \notin {"ok", "failed"},
         \A p \in DOMAIN dirs' \ DOMAIN dirs :
           /\ step'[t] \notin {"idle", "first"}
           /\ Len(p) \in 1..(Len(want'[t]) - 1) /\ p = Prefix(want'[t], Len(p))
           /\ step'[t] = "again" => Len(p) < depth'[t],
         depth' \in [Threads -> Nat]
  PROVE  Makers'
<1> SUFFICES ASSUME NEW p \in DOMAIN dirs'
             PROVE  \/ dirs'[p] = Nobody /\ p \in Before
                    \/ /\ dirs'[p] \in Threads
                       /\ step'[dirs'[p]] \notin {"idle", "first"}
                       /\ Len(p) \in 1..(Len(want'[dirs'[p]]) - 1)
                       /\ p = Prefix(want'[dirs'[p]], Len(p))
                       /\ step'[dirs'[p]] = "again" => Len(p) < depth'[dirs'[p]]
  BY DEF Makers
<1>1. CASE p \notin DOMAIN dirs  BY <1>1 DEF Grows
<1>2. CASE p \in DOMAIN dirs
  <2>1. dirs'[p] = dirs[p]  BY <1>2 DEF Grows
  <2>2. CASE dirs[p] = Nobody /\ p \in Before  BY <2>1, <2>2
  <2>3. CASE dirs[p] \in Threads \ {t}
    <3> DEFINE u == dirs[p]
    <3>1. u \in Threads \ {t} /\ u # Nobody  BY <2>3, CreateDirAssumption
    <3>2. /\ step[u] \notin {"idle", "first"} /\ Len(p) \in 1..(Len(want[u]) - 1)
          /\ p = Prefix(want[u], Len(p))
          /\ step[u] = "again" => Len(p) < depth[u]
      BY <1>2, <3>1 DEF DirInv, Makers
    <3>3. want'[u] = want[u] /\ depth'[u] = depth[u] /\ step'[u] = step[u]
      BY <3>1 DEF Grows
    <3> HIDE DEF u
    <3> QED  BY <2>1, <3>1, <3>2, <3>3 DEF u
  <2>4. CASE dirs[p] = t
    <3>1. /\ step[t] \notin {"idle", "first"} /\ Len(p) \in 1..(Len(want[t]) - 1)
          /\ p = Prefix(want[t], Len(p))
          /\ step[t] = "again" => Len(p) < depth[t]
      BY <1>2, <2>4, CreateDirAssumption DEF DirInv, Makers
    <3>2. step[t] \in {"again", "open"}  BY <3>1 DEF DirInv, DirTypeOK
    <3>3. depth[t] \in Nat /\ depth'[t] \in Nat  BY DEF DirInv, DirTypeOK
    <3>4. want'[t] = want[t] /\ step'[t] \notin {"idle", "first"}  BY <3>2
    <3>5. Len(p) \in Nat  BY <3>1
    <3>6. step'[t] = "again" => Len(p) < depth'[t]  BY <3>1, <3>2, <3>3, <3>5
    <3> QED  BY <2>1, <2>4, <3>1, <3>4, <3>6
  <2> QED  BY <1>2, <2>2, <2>3, <2>4 DEF DirInv, Makers
<1> QED  BY <1>1, <1>2

LEMMA CreatorsStay ==
  ASSUME DirInv, NEW t \in Threads, Grows(t), files' = files, step[t] # "ok"
  PROVE  Creators'
BY DEF DirInv, Creators, Grows

LEMMA StepInv ==
  ASSUME DirInv, NEW t \in Threads, Grows(t), DirTypeOK', Makers', Creators', ThreadInv(t)'
  PROVE  DirInv'
BY OthersStay DEF DirInv

(***************************************************************************)
(* Each step.                                                              *)
(***************************************************************************)
LEMMA BeginInv ==
  ASSUME DirInv, NEW t \in Threads, Begin(t)
  PROVE  DirInv'
<1> USE DEF DirInv, Begin, Set
<1>1. PICK p \in Wanted : want' = [want EXCEPT ![t] = p]
                          /\ depth' = [depth EXCEPT ![t] = Len(p) - 1]
  OBVIOUS
<1>2. p \in Seq(STRING) /\ Len(p) \in Nat /\ Len(p) >= 2  BY CreateDirAssumption
<1>3. Grows(t) /\ DirTypeOK'  BY <1>1, <1>2 DEF Grows, DirTypeOK
<1>4. want'[t] = p /\ depth'[t] = Len(p) - 1 /\ step'[t] = "first"
  BY <1>1 DEF DirTypeOK
<1>5. Makers' /\ Creators'
  BY <1>3, MakersStay, CreatorsStay DEF DirTypeOK
<1>6. ThreadInv(t)'
  BY <1>2, <1>4 DEF ThreadInv, Within, Missed, Overtaken, There, Excused, Above
<1> QED  BY <1>3, <1>5, <1>6, StepInv

\* A call that returns 0 leaves something behind where it was.
LEMMA ReturnInv ==
  ASSUME DirInv, NEW t \in Threads, step[t] \in {"first", "again"}, Grows(t), Return0(t),
         UNCHANGED <<files, want>>,
         \A p \in DOMAIN dirs' \ DOMAIN dirs : p = Here(t),
         Here(t) \in DOMAIN dirs' \/ Here(t) \in files
  PROVE  DirInv'
<1>1. ThreadInv(t) /\ DirTypeOK /\ t # Nobody  BY CreateDirAssumption DEF DirInv
<1>2. /\ want[t] \in Seq(STRING) /\ Len(want[t]) \in Nat /\ Len(want[t]) >= 2
      /\ depth[t] \in 1..(Len(want[t]) - 1) /\ want[t] \in Wanted
      /\ Len(Here(t)) = depth[t] /\ Here(t) = Prefix(want[t], depth[t])
      /\ Prefix(want[t], Len(want[t]) - 1) \in DOMAIN dirs' => Held(want[t])'
  BY <1>1, HereFacts DEF ThreadInv, Within, Held
<1>3. \/ depth[t] = Len(want[t]) - 1 /\ step'[t] = "open" /\ depth' = depth
      \/ /\ depth[t] < Len(want[t]) - 1 /\ step'[t] = "again"
         /\ depth' = [depth EXCEPT ![t] = depth[t] + 1]
  BY <1>1, <1>2 DEF Return0, Set, DirTypeOK
<1>4. DirTypeOK'
  <2>1. want' \in [Threads -> Wanted \cup {<<>>}]  BY <1>1 DEF DirTypeOK
  <2>2. depth' \in [Threads -> Nat]
    <3>1. depth \in [Threads -> Nat] /\ depth[t] + 1 \in Nat  BY <1>1 DEF DirTypeOK
    <3> QED  BY <1>3, <3>1
  <2>3. \/ step' = [step EXCEPT ![t] = "open"]
        \/ step' = [step EXCEPT ![t] = "again"]
    BY DEF Return0, Set
  <2>4. step' \in [Threads -> {"idle", "first", "again", "open", "ok", "failed"}]
    BY <1>1, <2>3 DEF DirTypeOK
  <2> QED  BY <2>1, <2>2, <2>4 DEF DirTypeOK
<1>5. /\ depth'[t] \in Nat /\ depth[t] \in Nat
      /\ step'[t] = "again" => depth'[t] = depth[t] + 1
      /\ step'[t] = "open" => depth'[t] = depth[t]
  BY <1>1, <1>3, <1>4 DEF DirTypeOK
<1>6. Makers'
  BY <1>1, <1>2, <1>3, <1>4, <1>5, MakersStay DEF DirTypeOK
<1>7. Creators'  BY CreatorsStay
<1>8. ThreadInv(t)'
  <2>1. Within(t)'  BY <1>2, <1>3, <1>5 DEF Within
  <2>2. There(t)'  BY <1>2, <1>3 DEF There, FileFor
  <2>3. Missed(t)'
    <3> SUFFICES ASSUME NEW n \in 1..(Len(want[t]) - 1), step'[t] = "again", n >= depth'[t],
                        Prefix(want[t], n) \in DOMAIN dirs'
                 PROVE  dirs'[Prefix(want[t], n)] \notin {t, Nobody}
      BY <1>3 DEF Missed
    <3>1. n > depth[t]  BY <1>5
    <3>2. Len(Prefix(want[t], n)) = n  BY <1>2, PrefixFacts
    <3>3. Prefix(want[t], n) \in DOMAIN dirs  BY <1>2, <3>1, <3>2
    <3>4. dirs[Prefix(want[t], n)] \notin {t, Nobody}
      BY <1>1, <1>2, <3>1, <3>3 DEF ThreadInv, Missed
    <3> QED  BY <3>3, <3>4 DEF Grows
  <2>4. Above(t)'
    <3> SUFFICES ASSUME step'[t] = "again" PROVE Above(t)'
      BY DEF Above
    <3>1. depth'[t] > 1 /\ depth'[t] - 1 = depth[t]  BY <1>2, <1>5
    <3> QED  BY <1>2, <3>1 DEF Above
  <2> QED  BY <1>3, <2>1, <2>2, <2>3, <2>4 DEF ThreadInv, Overtaken, Excused
<1> QED  BY <1>4, <1>6, <1>7, <1>8, StepInv

LEMMA MadeInv ==
  ASSUME DirInv, NEW t \in Threads, step[t] \in {"first", "again"},
         CanMake(Here(t)), Made(t), Return0(t), UNCHANGED <<files, want>>
  PROVE  DirInv'
<1>1. Here(t) \notin DOMAIN dirs  BY DEF CanMake, Taken
<1>2. /\ DOMAIN dirs' = DOMAIN dirs \cup {Here(t)}
      /\ \A p \in DOMAIN dirs' : dirs'[p] = IF p = Here(t) THEN t ELSE dirs[p]
  BY DEF Made
<1>3. Grows(t)
  BY <1>1, <1>2 DEF Grows, Return0, Set, DirInv, DirTypeOK
<1> QED  BY <1>2, <1>3, ReturnInv

LEMMA FirstInv ==
  ASSUME DirInv, NEW t \in Threads, First(t)
  PROVE  DirInv'
<1>1. step[t] = "first" /\ UNCHANGED <<files, want>>  BY DEF First
<1>2. CASE CanMake(Here(t)) /\ Made(t) /\ Return0(t)  BY <1>1, <1>2, MadeInv
<1>3. CASE Taken(Here(t)) /\ Return0(t) /\ UNCHANGED dirs
  <2>1. Grows(t)  BY <1>1, <1>3 DEF Grows, Return0, Set, DirInv, DirTypeOK
  <2> QED  BY <1>1, <1>3, <2>1, ReturnInv DEF Taken
<1>4. CASE /\ ~Taken(Here(t)) /\ ~Held(Here(t))
           /\ depth' = [depth EXCEPT ![t] = @ - 1]
           /\ UNCHANGED <<step, dirs>>
  <2>1. /\ want[t] \in Seq(STRING) /\ Len(want[t]) \in Nat /\ want[t] \in Wanted
        /\ depth[t] \in 1..(Len(want[t]) - 1) /\ depth[t] > 1
        /\ Prefix(want[t], depth[t]) \notin DOMAIN dirs
    BY <1>1, <1>4, HereFacts DEF DirInv, ThreadInv, Within, Taken
  <2>2. depth'[t] = depth[t] - 1  BY <1>4 DEF DirInv, DirTypeOK
  <2>3. Grows(t) /\ DirTypeOK'  BY <1>1, <1>4, <2>1 DEF Grows, DirInv, DirTypeOK
  <2>4. Makers' /\ Creators'  BY <1>1, <1>4, <2>3, MakersStay, CreatorsStay DEF DirTypeOK
  <2>5. Missed(t)'
    <3> SUFFICES ASSUME NEW n \in 1..(Len(want[t]) - 1), n > depth'[t],
                        Prefix(want[t], n) \in DOMAIN dirs
                 PROVE  dirs[Prefix(want[t], n)] \notin {t, Nobody}
      BY <1>1, <1>4 DEF Missed
    <3>1. n > depth[t]  BY <2>1, <2>2
    <3> QED  BY <1>1, <3>1 DEF DirInv, ThreadInv, Missed
  <2>6. ThreadInv(t)'
    BY <1>1, <1>4, <2>1, <2>2, <2>5
    DEF ThreadInv, Within, Overtaken, There, Excused, Above
  <2> QED  BY <2>3, <2>4, <2>6, StepInv
<1> QED  BY <1>2, <1>3, <1>4 DEF First

\* The second mkdir fails because of who was there in the meantime.
LEMMA AgainInv ==
  ASSUME DirInv, NEW t \in Threads, Again(t)
  PROVE  DirInv'
<1>1. step[t] = "again" /\ UNCHANGED <<files, want>>  BY DEF Again
<1>2. CASE CanMake(Here(t)) /\ Made(t) /\ Return0(t)  BY <1>1, <1>2, MadeInv
<1>3. CASE ~CanMake(Here(t)) /\ Set(t, "failed") /\ UNCHANGED <<dirs, depth>>
  <2> USE DEF DirInv
  <2>1. Grows(t) /\ DirTypeOK' /\ step'[t] = "failed"
    BY <1>1, <1>3 DEF Grows, Set, DirTypeOK
  <2>2. Makers' /\ Creators'  BY <1>1, <1>3, <2>1, MakersStay, CreatorsStay DEF DirTypeOK
  <2>3. /\ want[t] \in Wanted /\ Len(want[t]) \in Nat /\ depth[t] \in 1..(Len(want[t]) - 1)
        /\ Here(t) = Prefix(want[t], depth[t]) /\ depth[t] > 1
        /\ Held(Here(t)) \/ Prefix(want[t], depth[t] - 1) \in files
    BY <1>1, HereFacts DEF ThreadInv, Within, Above
  <2>4. \/ FileFor(t)
        \/ Here(t) \in DOMAIN dirs /\ dirs[Here(t)] \notin {t, Nobody}
    <3>1. CASE Here(t) \in DOMAIN dirs  BY <1>1, <2>3, <3>1 DEF ThreadInv, Missed
    <3>2. CASE Here(t) \in files  BY <2>3, <3>2 DEF FileFor
    <3>3. CASE ~Held(Here(t))
      <4>1. depth[t] - 1 \in 1..(Len(want[t]) - 1)  BY <2>3
      <4> QED  BY <2>3, <3>3, <4>1 DEF FileFor
    <3> QED  BY <1>3, <3>1, <3>2, <3>3 DEF CanMake, Taken
  <2>5. \A p \in DOMAIN dirs : dirs[p] = t => Len(p) < depth[t]
    BY <1>1, CreateDirAssumption DEF Makers
  <2>6. FileFor(t) => files # {}  BY DEF FileFor
  <2>7. Excused(t)'
    <3>1. FileFor(t) => FileFor(t)'  BY <1>1 DEF FileFor
    <3>2. depth[t] \in 1..Len(want[t])  BY <2>3
    <3> QED  BY <1>1, <1>3, <2>3, <2>4, <3>1, <3>2 DEF Excused
  <2>8. Overtaken(t)'  BY <1>1, <1>3, <2>4, <2>5, <2>6 DEF Overtaken, Here
  <2>9. ThreadInv(t)'
    BY <1>1, <1>3, <2>1, <2>3, <2>7, <2>8 DEF ThreadInv, Within, Missed, There, Above
  <2> QED  BY <2>1, <2>2, <2>9, StepInv
<1> QED  BY <1>2, <1>3 DEF Again

LEMMA OpenInv ==
  ASSUME DirInv, NEW t \in Threads, Open(t)
  PROVE  DirInv'
<1> USE DEF DirInv
<1>1. step[t] = "open" /\ UNCHANGED <<dirs, want, depth>> /\ ThreadInv(t)  BY DEF Open
<1>2. /\ want[t] \in Wanted /\ Len(want[t]) \in Nat /\ depth[t] \in 1..(Len(want[t]) - 1)
      /\ Len(want[t]) >= 2 /\ Prefix(want[t], Len(want[t])) = want[t]
  BY <1>1, HereFacts DEF ThreadInv, Within
<1>3. CASE files' = files \cup {want[t]} /\ Set(t, "ok")
  <2>1. Grows(t) /\ DirTypeOK' /\ step'[t] = "ok"
    BY <1>1, <1>3 DEF Grows, Set, DirTypeOK
  <2>2. Makers'  BY <1>1, <2>1, MakersStay DEF DirTypeOK
  <2>3. Creators'  BY <1>1, <1>3, <2>1 DEF Creators, Grows
  <2>4. ThreadInv(t)'
    BY <1>1, <1>2, <2>1
    DEF ThreadInv, Within, Missed, Overtaken, There, Excused, Above
  <2> QED  BY <2>1, <2>2, <2>3, <2>4, StepInv
<1>4. CASE /\ ~Held(want[t]) \/ want[t] \in DOMAIN dirs
           /\ Set(t, "failed") /\ UNCHANGED files
  <2>1. Grows(t) /\ DirTypeOK' /\ step'[t] = "failed"
    BY <1>1, <1>4 DEF Grows, Set, DirTypeOK
  <2>2. Makers' /\ Creators'  BY <1>1, <1>4, <2>1, MakersStay, CreatorsStay DEF DirTypeOK
  <2>3. FileFor(t) \/ want[t] \in DOMAIN dirs  BY <1>1, <1>4 DEF ThreadInv, There
  <2>4. FileFor(t) => files # {} /\ FileFor(t)'  BY <1>1, <1>4 DEF FileFor
  <2>5. Excused(t)' /\ Overtaken(t)'
    BY <1>1, <1>4, <2>3, <2>4 DEF Excused, Overtaken
  <2>6. ThreadInv(t)'
    BY <1>1, <1>2, <2>1, <2>5 DEF ThreadInv, Within, Missed, There, Above
  <2> QED  BY <2>1, <2>2, <2>6, StepInv
<1> QED  BY <1>3, <1>4 DEF Open

LEMMA NextDirs == DirInv /\ [Next]_vars => DirInv'
<1> SUFFICES ASSUME DirInv, [Next]_vars PROVE DirInv'
  OBVIOUS
<1>1. ASSUME UNCHANGED vars PROVE DirInv'
  BY <1>1
  DEF vars, DirInv, DirTypeOK, Makers, Creators, ThreadInv, Within, Missed, Overtaken,
    There, Excused, Above, FileFor, Held, Here
<1>2. ASSUME NEW t \in Threads, Begin(t) \/ Work(t) PROVE DirInv'
  BY <1>2, BeginInv, FirstInv, AgainInv, OpenInv DEF Work
<1> QED  BY <1>1, <1>2 DEF Next, Finished

LEMMA InitDirs == Init => DirInv
BY DEF Init, DirInv, DirTypeOK, Makers, Creators, ThreadInv, Within, Missed, Overtaken,
  There, Excused, Above

(***************************************************************************)
(* What follows.                                                           *)
(***************************************************************************)
\* createDir returns 0, so that the file is opened next, only where its directory
\* is there, or a file in the place of a directory on the way (utils.c:14, 20).
THEOREM DirectoryIsThere == Spec => []DirectoryThere
<1>1. DirInv => DirectoryThere
  BY DEF DirInv, ThreadInv, There, FileFor, DirectoryThere
<1> QED  BY InitDirs, NextDirs, <1>1, PTL DEF Spec

\* createDir, and the open after it, fail only where another thread has made a
\* directory on the way or a name is a file's and a directory's (utils.c:42-48).
THEOREM FailuresAreExcused == Spec => []FailureExcused
<1>1. ASSUME DirInv PROVE FailureExcused
  <2> SUFFICES ASSUME NEW t \in Threads, step[t] = "failed"
               PROVE  \E n \in 1..Len(want[t]) : LET p == Prefix(want[t], n) IN
                        \/ p \in DOMAIN dirs /\ (dirs[p] \notin {t, Nobody} \/ n = Len(want[t]))
                        \/ p \in files /\ n < Len(want[t])
    BY DEF FailureExcused
  <2>1. /\ Len(want[t]) \in Nat /\ Len(want[t]) >= 2
        /\ Prefix(want[t], Len(want[t])) = want[t]
    BY <1>1, HereFacts
  <2>2. Excused(t)  BY <1>1 DEF DirInv, ThreadInv
  <2>3. CASE FileFor(t)
    <3>1. PICK n \in 1..(Len(want[t]) - 1) : Prefix(want[t], n) \in files
      BY <2>3 DEF FileFor
    <3>2. n \in 1..Len(want[t]) /\ n < Len(want[t])  BY <2>1, <3>1
    <3> QED  BY <3>1, <3>2
  <2>4. CASE want[t] \in DOMAIN dirs
    <3>1. Len(want[t]) \in 1..Len(want[t])  BY <2>1
    <3> QED  BY <2>1, <2>4, <3>1
  <2> QED  BY <2>2, <2>3, <2>4 DEF Excused
<1> QED  BY InitDirs, NextDirs, <1>1, PTL DEF Spec

(***************************************************************************)
(* The winner.  Of the threads that have failed take one that got furthest *)
(* down its path: the one that was there before it has got further still.  *)
(***************************************************************************)
\* The path buffers have an end, and nobody asks for a directory that exists.
FilesAsked ==
  /\ Wanted \cap Before = {}
  /\ \E max \in Nat : \A p \in Wanted : Len(p) <= max

LEMMA Least ==
  ASSUME NEW T \in SUBSET Nat, T # {}
  PROVE  \E n \in T : \A m \in T : n <= m
<1> DEFINE R == {p \in Nat \X Nat : p[1] < p[2]}
<1>1. IsWellFoundedOn(R, Nat)  BY NatLessThanWellFounded DEF OpToRel
<1> HIDE DEF R
<1>2. PICK n \in T : \A m \in T : ~(<<m, n>> \in R)  BY <1>1, WFMin
<1>3. ASSUME NEW m \in T PROVE n <= m
  <2>1. m \in Nat /\ n \in Nat
    OBVIOUS
  <2>2. ~(m < n)  BY <1>2, <2>1 DEF R
  <2> QED  BY <2>1, <2>2
<1> QED  BY <1>3

\* A thread that has failed because of another is behind that one.
LEMMA Behind ==
  ASSUME DirInv, NoClash, Wanted \cap Before = {}, files = {},
         NEW t \in Threads, step[t] = "failed"
  PROVE  \E u \in Threads : step[u] \notin {"idle", "first"}
                            /\ (step[u] = "failed" => depth[u] > depth[t])
<1> USE DEF DirInv
<1>1. Overtaken(t)  BY DEF ThreadInv
<1>2. /\ want[t] \in Wanted /\ Len(want[t]) >= 2 /\ Len(want[t]) \in Nat
      /\ Len(Here(t)) = depth[t] /\ depth[t] \in Nat
  BY HereFacts DEF ThreadInv, Within
<1>3. want[t] \notin DOMAIN dirs
  <2> SUFFICES ASSUME want[t] \in DOMAIN dirs PROVE FALSE
    OBVIOUS
  <2>1. PICK u \in Threads : /\ Len(want[t]) \in 1..(Len(want[u]) - 1)
                             /\ want[t] = Prefix(want[u], Len(want[t]))
    BY <1>2 DEF Makers
  <2> QED  BY <2>1 DEF NoClash
<1>4. Here(t) \in DOMAIN dirs /\ dirs[Here(t)] \notin {t, Nobody}
  BY <1>1, <1>3 DEF Overtaken
<1>5. PICK u \in Threads : u = dirs[Here(t)] /\ step[u] \notin {"idle", "first"}
  BY <1>4 DEF Makers
<1>6. ASSUME step[u] = "failed" PROVE depth[u] > depth[t]
  <2>1. Overtaken(u) /\ want[u] \in Wanted  BY <1>6 DEF ThreadInv, Within
  <2>2. want[u] \notin DOMAIN dirs
    <3> SUFFICES ASSUME want[u] \in DOMAIN dirs PROVE FALSE
      OBVIOUS
    <3>1. PICK v \in Threads : /\ Len(want[u]) \in 1..(Len(want[v]) - 1)
                               /\ want[u] = Prefix(want[v], Len(want[u]))
      BY <2>1 DEF Makers
    <3> QED  BY <3>1 DEF NoClash
  <2>3. \A p \in DOMAIN dirs : dirs[p] = u => Len(p) < depth[u]
    BY <1>6, <2>1, <2>2 DEF Overtaken
  <2>4. depth[u] \in Nat  BY DEF DirTypeOK
  <2> QED  BY <1>2, <1>4, <1>5, <2>3, <2>4
<1> QED  BY <1>5, <1>6

\* When the threads that were asked have ended, one of them has created its file,
\* unless the name of a file is that of a directory of another.
THEOREM RaceHasWinner ==
  ASSUME FilesAsked
  PROVE  Spec => []SomeoneSucceeds
<1>1. ASSUME DirInv PROVE SomeoneSucceeds
  <2> SUFFICES ASSUME NoClash, \A t \in Threads : step[t] = "idle" \/ Ended(t),
                      NEW w \in Threads, step[w] # "idle",
                      \A t \in Threads : step[t] # "ok"
               PROVE  FALSE
    BY DEF SomeoneSucceeds
  <2> USE <1>1
  <2>1. files = {}  BY DEF DirInv, Creators
  <2>2. PICK max \in Nat : \A p \in Wanted : Len(p) <= max  BY DEF FilesAsked
  <2> DEFINE F == {t \in Threads : step[t] = "failed"}
             T == {max - depth[t] : t \in F}
  <2>3. w \in F  BY DEF Ended
  <2>4. \A t \in F : depth[t] \in Nat /\ max - depth[t] \in Nat
    <3> SUFFICES ASSUME NEW t \in F PROVE depth[t] \in Nat /\ max - depth[t] \in Nat
      OBVIOUS
    <3>1. want[t] \in Wanted /\ depth[t] \in 1..(Len(want[t]) - 1) /\ Len(want[t]) \in Nat
      BY HereFacts DEF DirInv, ThreadInv, Within
    <3>2. Len(want[t]) <= max  BY <2>2, <3>1
    <3> QED  BY <3>1, <3>2
  <2>5. T \in SUBSET Nat /\ T # {}  BY <2>3, <2>4
  <2>6. PICK n \in T : \A m \in T : n <= m
    <3> HIDE DEF T
    <3> QED  BY <2>5, Least
  <2>7. PICK t \in F : n = max - depth[t]
    OBVIOUS
  <2>8. PICK u \in Threads : step[u] \notin {"idle", "first"}
                             /\ (step[u] = "failed" => depth[u] > depth[t])
    BY <2>1, <2>7, Behind DEF FilesAsked
  <2>9. u \in F  BY <2>8 DEF Ended
  <2>10. max - depth[t] <= max - depth[u]  BY <2>6, <2>7, <2>9
  <2> QED  BY <2>4, <2>7, <2>8, <2>9, <2>10
<1> QED  BY InitDirs, NextDirs, <1>1, PTL DEF Spec

=============================================================================
