--------------------------- MODULE PolybiusProofs ----------------------------
(***************************************************************************)
(* Facts about the cipher, for texts of any length in any characters: what *)
(* pbEncode makes of a text, and that pbDecode undoes it.                  *)
(***************************************************************************)
EXTENDS Polybius, SequenceTheorems, WellFoundedInduction, TLAPS

(***************************************************************************)
(* Induction, as a property of sets of numbers.                            *)
(***************************************************************************)
LEMMA LeastNumber ==
  ASSUME NEW T \in SUBSET Nat, T # {}
  PROVE  \E n \in T : \A m \in T : n <= m
<1> DEFINE R == {p \in Nat \X Nat : p[1] < p[2]}
<1>1. IsWellFoundedOn(R, Nat)  BY NatLessThanWellFounded DEF OpToRel
<1> HIDE DEF R
<1>2. PICK n \in T : \A m \in T : ~(<<m, n>> \in R)  BY <1>1, WFMin
<1>3. ASSUME NEW m \in T PROVE n <= m
  <2>1. m \in Nat /\ n \in Nat
    OBVIOUS
  <2>2. ~(m < n)  BY <1>2, <2>1 DEF R
  <2> QED  BY <2>1, <2>2
<1> QED  BY <1>3

LEMMA AllNumbers ==
  ASSUME NEW T, 0 \in T, \A n \in Nat : n \in T => n + 1 \in T, NEW k \in Nat
  PROVE  k \in T
<1> SUFFICES ASSUME k \notin T PROVE FALSE
  OBVIOUS
<1>1. PICK n \in Nat \ T : \A m \in Nat \ T : n <= m
  <2>1. Nat \ T \in SUBSET Nat /\ Nat \ T # {}
    OBVIOUS
  <2> QED  BY <2>1, LeastNumber
<1>2. n - 1 \in Nat /\ n - 1 \in T /\ (n - 1) + 1 = n
  BY <1>1
<1> QED  BY <1>1, <1>2

(***************************************************************************)
(* FlattenSeq.                                                             *)
(***************************************************************************)
LEMMA FlattenExists ==
  ASSUME NEW seqs, NEW k \in Nat
  PROVE  \E f : f = [i \in 1..k |-> IF i = 1 THEN seqs[i] ELSE f[i - 1] \o seqs[i]]
<1> DEFINE T == {m \in Nat : \E f : f = [i \in 1..m |->
                               IF i = 1 THEN seqs[i] ELSE f[i - 1] \o seqs[i]]}
<1>1. 0 \in T
  <2> DEFINE e == [i \in 1..0 |-> seqs[i]]
  <2>1. e = [i \in 1..0 |-> IF i = 1 THEN seqs[i] ELSE e[i - 1] \o seqs[i]]
    OBVIOUS
  <2> QED  BY <2>1
<1>2. ASSUME NEW n \in Nat, n \in T PROVE n + 1 \in T
  <2>1. PICK f : f = [i \in 1..n |-> IF i = 1 THEN seqs[i] ELSE f[i - 1] \o seqs[i]]
    BY <1>2
  <2> DEFINE last == IF n = 0 THEN seqs[n + 1] ELSE f[n] \o seqs[n + 1]
             g == [i \in 1..(n + 1) |-> IF i = n + 1 THEN last ELSE f[i]]
  <2>2. ASSUME NEW i \in 1..(n + 1)
        PROVE  g[i] = IF i = 1 THEN seqs[i] ELSE g[i - 1] \o seqs[i]
    <3>1. CASE i = n + 1  BY <3>1
    <3>2. CASE i # n + 1
      <4>1. i \in 1..n /\ i # n + 1  BY <3>2
      <4>2. g[i] = f[i]  BY <4>1
      <4>3. f[i] = IF i = 1 THEN seqs[i] ELSE f[i - 1] \o seqs[i]  BY <2>1, <4>1
      <4>4. i # 1 => g[i - 1] = f[i - 1]  BY <4>1
      <4> QED  BY <4>2, <4>3, <4>4
    <3> QED  BY <3>1, <3>2
  <2>3. g = [i \in 1..(n + 1) |-> IF i = 1 THEN seqs[i] ELSE g[i - 1] \o seqs[i]]
    BY <2>2
  <2> HIDE DEF g
  <2>4. \E h : h = [i \in 1..(n + 1) |-> IF i = 1 THEN seqs[i] ELSE h[i - 1] \o seqs[i]]
    BY <2>3
  <2>5. n + 1 \in Nat
    OBVIOUS
  <2> QED  BY <2>4, <2>5, Zenon
<1> HIDE DEF T
<1>3. k \in T  BY <1>1, <1>2, AllNumbers
<1> QED  BY <1>3 DEF T

\* The sequences one after the other.
LEMMA Flattened ==
  ASSUME NEW S, NEW seqs \in Seq(Seq(S)), Len(seqs) # 0
  PROVE  \E f : /\ FlattenSeq(seqs) = f[Len(seqs)] /\ f[1] = seqs[1]
                /\ \A i \in 2..Len(seqs) : f[i] = f[i - 1] \o seqs[i]
<1> DEFINE F == CHOOSE f : f = [i \in 1..Len(seqs) |->
                             IF i = 1 THEN seqs[i] ELSE f[i - 1] \o seqs[i]]
<1>1. F = [i \in 1..Len(seqs) |-> IF i = 1 THEN seqs[i] ELSE F[i - 1] \o seqs[i]]
  <2>1. Len(seqs) \in Nat
    OBVIOUS
  <2> QED  BY <2>1, FlattenExists
<1>2. FlattenSeq(seqs) = F[Len(seqs)]  BY DEF FlattenSeq
<1> HIDE DEF F
<1>3. 1 \in 1..Len(seqs) /\ 2..Len(seqs) \subseteq 1..Len(seqs)
  OBVIOUS
<1>4. F[1] = seqs[1]  BY <1>1, <1>3
<1>5. ASSUME NEW i \in 2..Len(seqs) PROVE F[i] = F[i - 1] \o seqs[i]
  <2>1. i \in 1..Len(seqs) /\ i # 1
    OBVIOUS
  <2> QED  BY <1>1, <2>1
<1> QED  BY <1>2, <1>4, <1>5

LEMMA ConcatParts ==
  ASSUME NEW S, NEW a \in Seq(S), NEW b \in Seq(S), NEW n \in Nat, NEW k \in Nat,
         Len(a) = n, Len(b) = k
  PROVE  /\ a \o b \in Seq(S) /\ Len(a \o b) = n + k
         /\ \A i \in 1..n : (a \o b)[i] = a[i]
         /\ \A i \in 1..k : (a \o b)[n + i] = b[i]
<1>1. /\ a \o b \in Seq(S) /\ Len(a \o b) = Len(a) + Len(b)
      /\ \A i \in 1..(Len(a) + Len(b)) :
           (a \o b)[i] = IF i <= Len(a) THEN a[i] ELSE b[i - Len(a)]
  BY ConcatProperties
<1>2. ASSUME NEW i \in 1..n PROVE (a \o b)[i] = a[i]
  BY <1>1
<1>3. ASSUME NEW i \in 1..k PROVE (a \o b)[n + i] = b[i]
  <2>1. n + i \in 1..(Len(a) + Len(b)) /\ ~(n + i <= Len(a)) /\ (n + i) - Len(a) = i
    OBVIOUS
  <2> QED  BY <1>1, <2>1
<1> QED  BY <1>1, <1>2, <1>3

(***************************************************************************)
(* s is the first n of the sequences seqs, each of two elements of S, put  *)
(* one behind the other.                                                   *)
(***************************************************************************)
PairsOf(S, seqs, n, s) ==
  /\ s \in Seq(S)
  /\ Len(s) = 2 * n
  /\ \A i \in 1..n : s[2 * i - 1] = seqs[i][1] /\ s[2 * i] = seqs[i][2]

\* The same with sequences of one element.
SinglesOf(S, seqs, n, s) ==
  /\ s \in Seq(S)
  /\ Len(s) = n
  /\ \A i \in 1..n : s[i] = seqs[i][1]

\* Sequences put together are a sequence.
LEMMA FlattenType ==
  ASSUME NEW S, NEW seqs \in Seq(Seq(S))
  PROVE  FlattenSeq(seqs) \in Seq(S)
<1>1. CASE Len(seqs) = 0
  <2>1. FlattenSeq(seqs) = seqs /\ seqs = <<>>  BY <1>1, EmptySeq DEF FlattenSeq
  <2> QED  BY <2>1
<1>2. CASE Len(seqs) # 0
  <2>1. PICK f : /\ FlattenSeq(seqs) = f[Len(seqs)] /\ f[1] = seqs[1]
                 /\ \A i \in 2..Len(seqs) : f[i] = f[i - 1] \o seqs[i]
    BY <1>2, Flattened
  <2> DEFINE T == {m \in Nat : m \in 1..Len(seqs) => f[m] \in Seq(S)}
  <2>2. 0 \in T
    <3>1. 0 \in Nat /\ 0 \notin 1..Len(seqs)  BY LenProperties
    <3> QED  BY <3>1
  <2>3. ASSUME NEW n \in Nat, n \in T PROVE n + 1 \in T
    <3>1. ASSUME n + 1 \in 1..Len(seqs) PROVE f[n + 1] \in Seq(S)
      <4>1. seqs[n + 1] \in Seq(S)  BY <3>1
      <4>2. CASE n = 0  BY <2>1, <4>1, <4>2
      <4>3. CASE n # 0
        <5>1. n \in 1..Len(seqs) /\ n + 1 \in 2..Len(seqs) /\ (n + 1) - 1 = n
          BY <3>1, <4>3
        <5>2. f[n] \in Seq(S)  BY <2>3, <5>1
        <5>3. f[n + 1] = f[n] \o seqs[n + 1]  BY <2>1, <5>1
        <5> QED  BY <4>1, <5>2, <5>3, ConcatProperties
      <4> QED  BY <4>2, <4>3
    <3> QED  BY <3>1
  <2> HIDE DEF T
  <2>4. Len(seqs) \in T
    <3>1. Len(seqs) \in Nat
      OBVIOUS
    <3> QED  BY <2>2, <2>3, <3>1, AllNumbers
  <2>5. Len(seqs) \in 1..Len(seqs)  BY <1>2, LenProperties
  <2> QED  BY <2>1, <2>4, <2>5 DEF T
<1> QED  BY <1>1, <1>2

\* One more pair behind n pairs.
LEMMA PairJoins ==
  ASSUME NEW S, NEW seqs, NEW n \in Nat, NEW a, PairsOf(S, seqs, n, a),
         seqs[n + 1] \in Seq(S), Len(seqs[n + 1]) = 2
  PROVE  PairsOf(S, seqs, n + 1, a \o seqs[n + 1])
<1> DEFINE k == 2 * n  b == seqs[n + 1]
<1>1. k \in Nat /\ Len(a) = k /\ a \in Seq(S)  BY DEF PairsOf
<1>2. ASSUME NEW i \in 1..n PROVE 2 * i - 1 \in 1..k /\ 2 * i \in 1..k
  OBVIOUS
<1>3. 2 * (n + 1) - 1 = k + 1 /\ 2 * (n + 1) = k + 2
  OBVIOUS
<1>4. b \in Seq(S) /\ Len(b) = 2 /\ b = seqs[n + 1]
  OBVIOUS
<1> HIDE DEF k, b
<1>5. /\ a \o b \in Seq(S) /\ Len(a \o b) = Len(a) + Len(b)
      /\ \A i \in 1..(Len(a) + Len(b)) :
           (a \o b)[i] = IF i <= Len(a) THEN a[i] ELSE b[i - Len(a)]
  BY <1>1, <1>4, ConcatProperties
<1>6. /\ a \o b \in Seq(S) /\ Len(a \o b) = k + 2
      /\ \A i \in 1..k : (a \o b)[i] = a[i]
      /\ \A i \in 1..2 : (a \o b)[k + i] = b[i]
  <2>1. ASSUME NEW i \in 1..k PROVE (a \o b)[i] = a[i]  BY <1>1, <1>4, <1>5
  <2>2. ASSUME NEW i \in 1..2 PROVE (a \o b)[k + i] = b[i]
    <3>1. k + i \in 1..(k + 2) /\ ~(k + i <= k) /\ (k + i) - k = i  BY <1>1
    <3> QED  BY <1>1, <1>4, <1>5, <3>1
  <2> QED  BY <1>1, <1>4, <1>5, <2>1, <2>2
<1>7. (a \o b)[k + 1] = b[1] /\ (a \o b)[k + 2] = b[2]
  <2>1. 1 \in 1..2 /\ 2 \in 1..2
    OBVIOUS
  <2> QED  BY <1>6, <2>1, Zenon
<1>8. ASSUME NEW i \in 1..(n + 1)
      PROVE  (a \o b)[2 * i - 1] = seqs[i][1] /\ (a \o b)[2 * i] = seqs[i][2]
  <2>1. CASE i = n + 1  BY <1>3, <1>4, <1>7, <2>1
  <2>2. CASE i # n + 1
    <3>1. i \in 1..n  BY <2>2
    <3> QED  BY <1>2, <1>6, <3>1 DEF PairsOf
  <2> QED  BY <2>1, <2>2
<1> QED  BY <1>3, <1>4, <1>6, <1>8 DEF PairsOf

\* One more character behind n characters.
LEMMA SingleJoins ==
  ASSUME NEW S, NEW seqs, NEW n \in Nat, NEW a, SinglesOf(S, seqs, n, a),
         seqs[n + 1] \in Seq(S), Len(seqs[n + 1]) = 1
  PROVE  SinglesOf(S, seqs, n + 1, a \o seqs[n + 1])
<1> DEFINE b == seqs[n + 1]
<1>1. a \in Seq(S) /\ Len(a) = n  BY DEF SinglesOf
<1>2. b \in Seq(S) /\ Len(b) = 1 /\ b = seqs[n + 1]
  OBVIOUS
<1> HIDE DEF b
<1>3. \A m \in Nat : Len(b) = m =>
        /\ a \o b \in Seq(S) /\ Len(a \o b) = n + m
        /\ \A i \in 1..n : (a \o b)[i] = a[i]
        /\ \A i \in 1..m : (a \o b)[n + i] = b[i]
  BY <1>1, <1>2, ConcatParts
<1>4. /\ a \o b \in Seq(S) /\ Len(a \o b) = n + 1
      /\ \A i \in 1..n : (a \o b)[i] = a[i]
      /\ \A i \in 1..1 : (a \o b)[n + i] = b[i]
  <2>1. 1 \in Nat
    OBVIOUS
  <2> QED  BY <1>2, <1>3, <2>1, Zenon
<1>5. (a \o b)[n + 1] = b[1]
  <2>1. 1 \in 1..1
    OBVIOUS
  <2> QED  BY <1>4, <2>1, Zenon
<1>6. ASSUME NEW i \in 1..(n + 1) PROVE (a \o b)[i] = seqs[i][1]
  <2>1. CASE i = n + 1  BY <1>2, <1>5, <2>1
  <2>2. CASE i # n + 1
    <3>1. i \in 1..n  BY <2>2
    <3> QED  BY <1>4, <3>1 DEF SinglesOf
  <2> QED  BY <2>1, <2>2
<1> QED  BY <1>2, <1>4, <1>6 DEF SinglesOf

\* Sequences of two put together are their elements, two by two ...
LEMMA FlattenPairs ==
  ASSUME NEW S, NEW seqs \in Seq(Seq(S)), \A i \in 1..Len(seqs) : Len(seqs[i]) = 2
  PROVE  PairsOf(S, seqs, Len(seqs), FlattenSeq(seqs))
<1>1. CASE Len(seqs) = 0
  <2>1. FlattenSeq(seqs) = seqs /\ seqs = <<>>  BY <1>1, EmptySeq DEF FlattenSeq
  <2> QED  BY <1>1, <2>1 DEF PairsOf
<1>2. CASE Len(seqs) # 0
  <2>1. PICK f : /\ FlattenSeq(seqs) = f[Len(seqs)] /\ f[1] = seqs[1]
                 /\ \A i \in 2..Len(seqs) : f[i] = f[i - 1] \o seqs[i]
    BY <1>2, Flattened
  <2> DEFINE T == {m \in Nat : m \in 1..Len(seqs) => PairsOf(S, seqs, m, f[m])}
  <2>2. 0 \in T
    <3>1. 0 \in Nat /\ 0 \notin 1..Len(seqs)  BY LenProperties
    <3> QED  BY <3>1
  <2>3. ASSUME NEW n \in Nat, n \in T PROVE n + 1 \in T
    <3>1. ASSUME n + 1 \in 1..Len(seqs) PROVE PairsOf(S, seqs, n + 1, f[n + 1])
      <4>1. seqs[n + 1] \in Seq(S) /\ Len(seqs[n + 1]) = 2  BY <3>1
      <4>2. CASE n = 0
        <5>1. f[n + 1] = seqs[n + 1] /\ n + 1 = 1  BY <2>1, <4>2
        <5>2. \A i \in 1..1 : i = 1
          OBVIOUS
        <5> HIDE DEF T
        <5> QED  BY <4>1, <4>2, <5>1, <5>2 DEF PairsOf
      <4>3. CASE n # 0
        <5>1. n \in 1..Len(seqs) /\ n + 1 \in 2..Len(seqs) /\ (n + 1) - 1 = n
          BY <3>1, <4>3
        <5>2. PairsOf(S, seqs, n, f[n])  BY <2>3, <5>1
        <5>3. f[n + 1] = f[n] \o seqs[n + 1]  BY <2>1, <5>1
        <5> HIDE DEF T
        <5>4. PairsOf(S, seqs, n + 1, f[n] \o seqs[n + 1])
          BY <4>1, <5>2, PairJoins
        <5> QED  BY <5>3, <5>4
      <4> QED  BY <4>2, <4>3
    <3>2. n + 1 \in Nat
      OBVIOUS
    <3> QED  BY <3>1, <3>2
  <2> HIDE DEF T
  <2>4. Len(seqs) \in T
    <3>1. Len(seqs) \in Nat
      OBVIOUS
    <3> QED  BY <2>2, <2>3, <3>1, AllNumbers
  <2>5. PairsOf(S, seqs, Len(seqs), f[Len(seqs)])
    <3>1. Len(seqs) \in 1..Len(seqs)  BY <1>2, LenProperties
    <3> QED  BY <2>4, <3>1 DEF T
  <2> QED  BY <2>1, <2>5
<1> QED  BY <1>1, <1>2

\* ... and sequences of one are their elements.
LEMMA FlattenSingles ==
  ASSUME NEW S, NEW seqs \in Seq(Seq(S)), \A i \in 1..Len(seqs) : Len(seqs[i]) = 1
  PROVE  SinglesOf(S, seqs, Len(seqs), FlattenSeq(seqs))
<1>1. CASE Len(seqs) = 0
  <2>1. FlattenSeq(seqs) = seqs /\ seqs = <<>>  BY <1>1, EmptySeq DEF FlattenSeq
  <2> QED  BY <1>1, <2>1 DEF SinglesOf
<1>2. CASE Len(seqs) # 0
  <2>1. PICK f : /\ FlattenSeq(seqs) = f[Len(seqs)] /\ f[1] = seqs[1]
                 /\ \A i \in 2..Len(seqs) : f[i] = f[i - 1] \o seqs[i]
    BY <1>2, Flattened
  <2> DEFINE T == {m \in Nat : m \in 1..Len(seqs) => SinglesOf(S, seqs, m, f[m])}
  <2>2. 0 \in T
    <3>1. 0 \in Nat /\ 0 \notin 1..Len(seqs)  BY LenProperties
    <3> QED  BY <3>1
  <2>3. ASSUME NEW n \in Nat, n \in T PROVE n + 1 \in T
    <3>1. ASSUME n + 1 \in 1..Len(seqs) PROVE SinglesOf(S, seqs, n + 1, f[n + 1])
      <4>1. seqs[n + 1] \in Seq(S) /\ Len(seqs[n + 1]) = 1  BY <3>1
      <4>2. CASE n = 0
        <5>1. f[n + 1] = seqs[n + 1] /\ n + 1 = 1  BY <2>1, <4>2
        <5>2. \A i \in 1..1 : i = 1
          OBVIOUS
        <5> HIDE DEF T
        <5> QED  BY <4>1, <4>2, <5>1, <5>2 DEF SinglesOf
      <4>3. CASE n # 0
        <5>1. n \in 1..Len(seqs) /\ n + 1 \in 2..Len(seqs) /\ (n + 1) - 1 = n
          BY <3>1, <4>3
        <5>2. SinglesOf(S, seqs, n, f[n])  BY <2>3, <5>1
        <5>3. f[n + 1] = f[n] \o seqs[n + 1]  BY <2>1, <5>1
        <5> HIDE DEF T
        <5>4. SinglesOf(S, seqs, n + 1, f[n] \o seqs[n + 1])
          BY <4>1, <5>2, SingleJoins
        <5> QED  BY <5>3, <5>4
      <4> QED  BY <4>2, <4>3
    <3>2. n + 1 \in Nat
      OBVIOUS
    <3> QED  BY <3>1, <3>2
  <2> HIDE DEF T
  <2>4. Len(seqs) \in T
    <3>1. Len(seqs) \in Nat
      OBVIOUS
    <3> QED  BY <2>2, <2>3, <3>1, AllNumbers
  <2>5. SinglesOf(S, seqs, Len(seqs), f[Len(seqs)])
    <3>1. Len(seqs) \in 1..Len(seqs)  BY <1>2, LenProperties
    <3> QED  BY <2>4, <3>1 DEF T
  <2> QED  BY <2>1, <2>5
<1> QED  BY <1>1, <1>2

(***************************************************************************)
(* One character.  Whatever it is, its two characters are decoded to it.   *)
(***************************************************************************)
LEMMA DigitsAreValued ==
  ASSUME NEW j \in 1..10
  PROVE  IsDigit(Digits[j]) /\ DigitValue(Digits[j]) = j - 1
<1>1. \A i, k \in 1..10 : Digits[i] = Digits[k] => i = k  BY DEF Digits
<1> DEFINE v == CHOOSE i \in 1..10 : Digits[i] = Digits[j]
<1>2. v \in 1..10 /\ Digits[v] = Digits[j]
  OBVIOUS
<1> HIDE DEF v
<1>3. v = j  BY <1>1, <1>2
<1> QED  BY <1>3 DEF IsDigit, DigitValue, v

LEMMA BlankIsNoDigit == ~IsDigit(" ")
<1> QED  BY DEF IsDigit, Digits

LEMMA PlaceIsFound ==
  ASSUME NEW ch, Places(ch) # {}
  PROVE  Place(ch) \in Places(ch)
<1> DEFINE rank(p) == p[1] * N + p[2]
<1>1. ASSUME NEW p \in Places(ch) PROVE rank(p) \in Nat  BY DEF Places, N
<1> DEFINE T == {rank(p) : p \in Places(ch)}
<1>2. T \in SUBSET Nat /\ T # {}  BY <1>1
<1>3. PICK n \in T : \A m \in T : n <= m  BY <1>2, LeastNumber
<1>4. PICK p \in Places(ch) : n = rank(p)
  OBVIOUS
<1>5. \A q \in Places(ch) : p[1] * N + p[2] <= q[1] * N + q[2]  BY <1>3, <1>4
<1> QED  BY <1>5 DEF Place

LEMMA CharacterReturns ==
  ASSUME NEW ch
  PROVE  DecodePair(EncodeChar(ch)[1], EncodeChar(ch)[2]) = <<ch>>
<1>1. CASE Places(ch) = {}
  <2>1. EncodeChar(ch) = <<ch, " ">>  BY <1>1 DEF EncodeChar
  <2>2. \A s, x, y : s = <<x, y>> => s[1] = x /\ s[2] = y
    OBVIOUS
  <2>3. EncodeChar(ch)[1] = ch /\ EncodeChar(ch)[2] = " "  BY <2>1, <2>2, Zenon
  <2> QED  BY <2>3, BlankIsNoDigit DEF DecodePair
<1>2. CASE Places(ch) # {}
  <2> DEFINE p == Place(ch)
  <2>1. p[1] \in 0..(N - 1) /\ p[2] \in 0..(N - 1) /\ square[p[1]][p[2]] = ch
    BY <1>2, PlaceIsFound DEF Places
  <2>2. EncodeChar(ch) = <<Digits[p[1] + 2], Digits[p[2] + 2]>>  BY <1>2 DEF EncodeChar
  <2>3. EncodeChar(ch)[1] = Digits[p[1] + 2] /\ EncodeChar(ch)[2] = Digits[p[2] + 2]
    BY <2>2
  <2> HIDE DEF p
  <2>4. /\ p[1] + 2 \in 1..10 /\ p[2] + 2 \in 1..10
        /\ (p[1] + 2) - 1 \in 1..N /\ (p[2] + 2) - 1 \in 1..N
        /\ ((p[1] + 2) - 1) - 1 = p[1] /\ ((p[2] + 2) - 1) - 1 = p[2]
    BY <2>1 DEF N
  <2>5. /\ IsDigit(Digits[p[1] + 2]) /\ DigitValue(Digits[p[1] + 2]) = (p[1] + 2) - 1
        /\ IsDigit(Digits[p[2] + 2]) /\ DigitValue(Digits[p[2] + 2]) = (p[2] + 2) - 1
    BY <2>4, DigitsAreValued
  <2> QED  BY <2>1, <2>3, <2>4, <2>5, Zenon DEF DecodePair
<1> QED  BY <1>1, <1>2

\* What the cipher of a character is made of: itself, the digits and the blank.
Marks == {" "} \cup {Digits[i] : i \in 1..10}

LEMMA CharacterIsPair ==
  ASSUME NEW S, Marks \subseteq S, NEW ch \in S
  PROVE  EncodeChar(ch) \in Seq(S) /\ Len(EncodeChar(ch)) = 2
<1>1. CASE Places(ch) = {}
  <2>1. EncodeChar(ch) = <<ch, " ">>  BY <1>1 DEF EncodeChar
  <2>2. " " \in S  BY DEF Marks
  <2>3. \A x, y \in S : <<x, y>> \in Seq(S) /\ Len(<<x, y>>) = 2
    OBVIOUS
  <2> QED  BY <2>1, <2>2, <2>3, Zenon
<1>2. CASE Places(ch) # {}
  <2> DEFINE p == Place(ch)
  <2>1. p[1] \in 0..(N - 1) /\ p[2] \in 0..(N - 1)
    BY <1>2, PlaceIsFound DEF Places
  <2>2. EncodeChar(ch) = <<Digits[p[1] + 2], Digits[p[2] + 2]>>  BY <1>2 DEF EncodeChar
  <2> HIDE DEF p
  <2>3. p[1] + 2 \in 1..10 /\ p[2] + 2 \in 1..10  BY <2>1 DEF N
  <2>4. Digits[p[1] + 2] \in S /\ Digits[p[2] + 2] \in S  BY <2>3 DEF Marks
  <2> QED  BY <2>2, <2>4
<1> QED  BY <1>1, <1>2

(***************************************************************************)
(* A text.                                                                 *)
(***************************************************************************)
\* The pairs of the characters of t, which are in upper case.
Pairs(t) == [i \in DOMAIN t |-> EncodeChar(t[i])]

\* s is the cipher of t.
CipherOf(S, t, s) == t \in Seq(S) /\ PairsOf(S, Pairs(t), Len(t), s)

\* pbEncode makes the cipher of the text in upper case.
LEMMA TextIsEncoded ==
  ASSUME NEW S, Marks \subseteq S, NEW C, NEW t \in Seq(C), \A c \in C : ToUpper(c) \in S
  PROVE  CipherOf(S, Upper(t), pbEncode(t)) /\ Len(Upper(t)) = Len(t)
<1> DEFINE u == Upper(t)
<1>1. u = [i \in 1..Len(t) |-> ToUpper(t[i])]  BY DEF Upper
<1>2. u \in Seq(S) /\ Len(u) = Len(t) /\ DOMAIN u = 1..Len(t)  BY <1>1
<1>3. pbEncode(t) = FlattenSeq(Pairs(u))
  <2>1. Pairs(u) = [i \in DOMAIN t |-> EncodeChar(ToUpper(t[i]))]
    BY <1>1, <1>2 DEF Pairs
  <2> QED  BY <2>1 DEF pbEncode
<1> HIDE DEF u
<1>4. ASSUME NEW i \in 1..Len(t)
      PROVE  EncodeChar(u[i]) \in Seq(S) /\ Len(EncodeChar(u[i])) = 2
  BY <1>2, CharacterIsPair
<1>5. Pairs(u) = [i \in 1..Len(t) |-> EncodeChar(u[i])]  BY <1>2 DEF Pairs
<1>6. Pairs(u) \in Seq(Seq(S)) /\ Len(Pairs(u)) = Len(t)  BY <1>4, <1>5
<1>7. \A i \in 1..Len(Pairs(u)) : Len(Pairs(u)[i]) = 2  BY <1>4, <1>5, <1>6
<1>8. PairsOf(S, Pairs(u), Len(t), FlattenSeq(Pairs(u)))  BY <1>6, <1>7, FlattenPairs
<1> QED  BY <1>2, <1>3, <1>8 DEF CipherOf, u

\* The alphabet is the capitals and the digits.
Letters == {"A", "B", "C", "D", "E", "F", "G", "H", "I", "J", "K", "L", "M",
            "N", "O", "P", "Q", "R", "S", "T", "U", "V", "W", "X", "Y", "Z"}

LEMMA AlphabetParts ==
  /\ Capitals \in Seq(Letters \cup Marks) /\ Len(Capitals) = 26
  /\ Digits \in Seq(Letters \cup Marks) /\ Len(Digits) = 10
<1>1. Capitals \in Seq(Letters) /\ Len(Capitals) = 26  BY DEF Capitals, Letters
<1>2. Digits \in Seq({"0", "1", "2", "3", "4", "5", "6", "7", "8", "9"}) /\ Len(Digits) = 10
  BY DEF Digits
<1>3. \A i \in 1..10 : Digits[i] \in Marks  BY DEF Marks
<1>4. Digits \in Seq(Marks)
  <2>1. \A A, B : \A s \in Seq(A) : (\A i \in 1..Len(s) : s[i] \in B) => s \in Seq(B)
    <3> TAKE A, B
    <3> TAKE s \in Seq(A)
    <3> HAVE \A i \in 1..Len(s) : s[i] \in B
    <3>1. s \in [1..Len(s) -> B] /\ Len(s) \in Nat
      OBVIOUS
    <3> QED  BY <3>1
  <2> QED  BY <1>2, <1>3, <2>1
<1>5. Letters \subseteq Letters \cup Marks /\ Marks \subseteq Letters \cup Marks
  OBVIOUS
<1> HIDE DEF Letters
<1> QED  BY <1>1, <1>2, <1>4, <1>5

\* Whatever pbDecode is given, it makes a text of it.
LEMMA DecodedIsText ==
  ASSUME NEW S, NEW s \in Seq(S), \A i \in 1..26 : Capitals[i] \in S, Marks \subseteq S
  PROVE  pbDecode(s) \in Seq(S)
<1>1. \A row, col \in 0..(N - 1) : square[row][col] \in S
  <2> TAKE row, col \in 0..(N - 1)
  <2> DEFINE i == row * 5 + col + 1
  <2>1. i \in 1..36 /\ (~(i <= 26) => i - 26 \in 1..10)  BY DEF N
  <2>2. square[row][col] = alphabet[i]  BY DEF square
  <2> HIDE DEF i
  <2>3. i \in 1..(Len(Capitals) + Len(Digits)) /\ Len(Capitals) = 26
    BY <2>1, AlphabetParts
  <2>4. alphabet[i] = IF i <= Len(Capitals) THEN Capitals[i] ELSE Digits[i - Len(Capitals)]
    BY <2>3, AlphabetParts, ConcatProperties DEF alphabet
  <2>5. \A j \in 1..10 : Digits[j] \in S  BY DEF Marks
  <2>6. CASE i <= 26
    <3>1. alphabet[i] = Capitals[i] /\ i \in 1..26  BY <2>1, <2>3, <2>4, <2>6
    <3> QED  BY <2>2, <3>1
  <2>7. CASE ~(i <= 26)
    <3>1. alphabet[i] = Digits[i - 26]  BY <2>3, <2>4, <2>7
    <3> QED  BY <2>1, <2>2, <2>5, <2>7, <3>1
  <2> QED  BY <2>6, <2>7
<1>2. ASSUME NEW a \in S, NEW b \in S PROVE DecodePair(a, b) \in Seq(S)
  <2>1. \A x \in S : <<x>> \in Seq(S)
    OBVIOUS
  <2>2. CASE IsDigit(a) /\ IsDigit(b) /\ DigitValue(a) \in 1..N /\ DigitValue(b) \in 1..N
    <3>1. DigitValue(a) - 1 \in 0..(N - 1) /\ DigitValue(b) - 1 \in 0..(N - 1)
      BY <2>2 DEF N
    <3>2. square[DigitValue(a) - 1][DigitValue(b) - 1] \in S  BY <1>1, <3>1
    <3>3. DecodePair(a, b) = <<square[DigitValue(a) - 1][DigitValue(b) - 1]>>
      BY <2>2 DEF DecodePair
    <3> QED  BY <2>1, <3>2, <3>3, Zenon
  <2>3. CASE ~(IsDigit(a) /\ IsDigit(b) /\ DigitValue(a) \in 1..N /\ DigitValue(b) \in 1..N)
    <3>1. DecodePair(a, b) \in {<<>>, <<a>>}  BY <2>3 DEF DecodePair
    <3>2. <<>> \in Seq(S) /\ <<a>> \in Seq(S)
      OBVIOUS
    <3> QED  BY <3>1, <3>2
  <2> QED  BY <2>2, <2>3
<1> DEFINE seqs == [k \in 1..(Len(s) \div 2) |-> DecodePair(s[2 * k - 1], s[2 * k])]
<1>3. Len(s) \div 2 \in Nat /\ 2 * (Len(s) \div 2) <= Len(s)
  <2>1. \A m \in Nat : m \div 2 \in Nat /\ 2 * (m \div 2) <= m
    OBVIOUS
  <2> QED  BY <2>1, LenProperties
<1>4. ASSUME NEW k \in 1..(Len(s) \div 2) PROVE seqs[k] \in Seq(S)
  <2>1. 2 * k - 1 \in 1..Len(s) /\ 2 * k \in 1..Len(s)
    <3>1. \A l, h \in Nat : \A j \in 1..h : 2 * h <= l => /\ 2 * j - 1 \in 1..l
                                                       /\ 2 * j \in 1..l
      OBVIOUS
    <3>2. Len(s) \in Nat
      OBVIOUS
    <3> QED  BY <1>3, <3>1, <3>2, Zenon
  <2>2. s[2 * k - 1] \in S /\ s[2 * k] \in S  BY <2>1, ElementOfSeq
  <2>3. seqs[k] = DecodePair(s[2 * k - 1], s[2 * k])
    OBVIOUS
  <2> QED  BY <1>2, <2>2, <2>3, Zenon
<1>5. seqs \in Seq(Seq(S))  BY <1>3, <1>4
<1> QED  BY <1>5, FlattenType DEF pbDecode

\* pbDecode makes the text of its cipher.
LEMMA CipherIsDecoded ==
  ASSUME NEW S, NEW t, NEW s, CipherOf(S, t, s)
  PROVE  Decodable(s) /\ pbDecode(s) = t
<1> DEFINE n == Len(t)
<1>1. /\ t \in Seq(S) /\ n \in Nat /\ DOMAIN t = 1..n
      /\ s \in Seq(S) /\ Len(s) = 2 * n
      /\ \A i \in 1..n : s[2 * i - 1] = Pairs(t)[i][1] /\ s[2 * i] = Pairs(t)[i][2]
  BY DEF CipherOf, PairsOf
<1>2. Len(s) % 2 = 0 /\ Len(s) \div 2 = n
  <2>1. \A m \in Nat : (2 * m) % 2 = 0 /\ (2 * m) \div 2 = m
    OBVIOUS
  <2> QED  BY <1>1, <2>1, Zenon
<1> DEFINE ones == [k \in 1..n |-> <<t[k]>>]
<1>3. ASSUME NEW k \in 1..n PROVE DecodePair(s[2 * k - 1], s[2 * k]) = <<t[k]>>
  <2>1. Pairs(t)[k] = EncodeChar(t[k])  BY <1>1 DEF Pairs
  <2> QED  BY <1>1, <2>1, CharacterReturns
<1>4. [k \in 1..(Len(s) \div 2) |-> DecodePair(s[2 * k - 1], s[2 * k])] = ones
  BY <1>2, <1>3
<1>5. pbDecode(s) = FlattenSeq(ones)  BY <1>4 DEF pbDecode
<1>6. ASSUME NEW k \in 1..n
      PROVE <<t[k]>> \in Seq(S) /\ Len(<<t[k]>>) = 1 /\ <<t[k]>>[1] = t[k]
  BY <1>1
<1>7. ones \in Seq(Seq(S)) /\ Len(ones) = n /\ \A k \in 1..n : ones[k] = <<t[k]>>
  BY <1>1, <1>6
<1> HIDE DEF ones, n
<1>8. SinglesOf(S, ones, Len(ones), FlattenSeq(ones))
  <2>1. \A k \in 1..Len(ones) : Len(ones[k]) = 1  BY <1>6, <1>7
  <2> QED  BY <1>7, <2>1, FlattenSingles
<1>9. /\ FlattenSeq(ones) \in Seq(S) /\ Len(FlattenSeq(ones)) = n
      /\ \A k \in 1..n : FlattenSeq(ones)[k] = t[k]
  BY <1>6, <1>7, <1>8 DEF SinglesOf
<1>10. FlattenSeq(ones) = t  BY <1>1, <1>9, SeqEqual DEF n
<1> QED  BY <1>2, <1>5, <1>10 DEF Decodable

=============================================================================
