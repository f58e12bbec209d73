---------------------------- MODULE CipherProofs ----------------------------
(***************************************************************************)
(* A ciphered file stays the cipher of what the users wrote, whatever is   *)
(* written over what: for texts of any length in any characters.           *)
(***************************************************************************)
EXTENDS CipherFile, PolybiusProofs

(***************************************************************************)
(* What is written over the start of a file.                               *)
(***************************************************************************)
LEMMA OverlayParts ==
  ASSUME NEW S, NEW old \in Seq(S), NEW new \in Seq(S)
  PROVE  /\ Overlay(old, new) \in Seq(S)
         /\ Len(Overlay(old, new)) = IF Len(new) < Len(old) THEN Len(old) ELSE Len(new)
         /\ \A i \in 1..Len(Overlay(old, new)) :
              Overlay(old, new)[i] = IF i <= Len(new) THEN new[i] ELSE old[i]
<1> DEFINE m == Len(new)  k == Len(old)  tail == SubSeq(old, m + 1, k)
<1>1. m \in Nat /\ k \in Nat
  OBVIOUS
<1>2. /\ tail \in Seq(S) /\ Len(tail) = IF m < k THEN k - m ELSE 0
      /\ \A i \in 1..Len(tail) : tail[i] = old[m + i]
  <2>1. /\ tail \in Seq(S)
        /\ Len(tail) = IF m + 1 <= k THEN k - (m + 1) + 1 ELSE 0
        /\ \A i \in 1..Len(tail) : tail[i] = old[(m + 1) + i - 1]
    <3>1. \A i \in (m + 1)..k : old[i] \in S
      OBVIOUS
    <3> QED  BY <1>1, <3>1
  <2>2. \A i \in 1..Len(tail) : (m + 1) + i - 1 = m + i  BY <1>1
  <2>3. (m + 1 <= k) <=> (m < k)  BY <1>1
  <2>4. k - (m + 1) + 1 = k - m  BY <1>1
  <2> QED  BY <2>1, <2>2, <2>3, <2>4
<1> HIDE DEF tail
<1>3. /\ new \o tail \in Seq(S) /\ Len(new \o tail) = m + Len(tail)
      /\ \A i \in 1..(m + Len(tail)) :
           (new \o tail)[i] = IF i <= m THEN new[i] ELSE tail[i - m]
  BY <1>2, ConcatProperties
<1>4. Overlay(old, new) = new \o tail  BY DEF Overlay, tail
<1>5. Len(new \o tail) = IF m < k THEN k ELSE m  BY <1>1, <1>2, <1>3
<1>6. ASSUME NEW i \in 1..Len(new \o tail)
      PROVE  (new \o tail)[i] = IF i <= m THEN new[i] ELSE old[i]
  <2>1. CASE i <= m  BY <1>3, <2>1
  <2>2. CASE ~(i <= m)
    <3>1. i - m \in 1..Len(tail) /\ m + (i - m) = i  BY <1>1, <1>2, <1>3, <2>2
    <3>2. (new \o tail)[i] = tail[i - m]  BY <1>3, <2>2
    <3> QED  BY <1>2, <2>2, <3>1, <3>2
  <2> QED  BY <2>1, <2>2
<1> QED  BY <1>3, <1>4, <1>5, <1>6

\* The overlay of two ciphers is the cipher of the overlay.
LEMMA OverlayOfCiphers ==
  ASSUME NEW S, NEW s, NEW c, NEW new, NEW text,
         CipherOf(S, c, s), CipherOf(S, text, new)
  PROVE  CipherOf(S, Overlay(c, text), Overlay(s, new))
<1> DEFINE u == Overlay(c, text)  v == Overlay(s, new)  m == Len(text)  k == Len(c)
<1>1. /\ c \in Seq(S) /\ text \in Seq(S) /\ s \in Seq(S) /\ new \in Seq(S)
      /\ m \in Nat /\ k \in Nat /\ Len(new) = 2 * m /\ Len(s) = 2 * k
  BY DEF CipherOf, PairsOf
<1>2. /\ u \in Seq(S) /\ Len(u) = IF m < k THEN k ELSE m
      /\ \A i \in 1..Len(u) : u[i] = IF i <= m THEN text[i] ELSE c[i]
  BY <1>1, OverlayParts
<1>3. /\ v \in Seq(S) /\ Len(v) = IF 2 * m < 2 * k THEN 2 * k ELSE 2 * m
      /\ \A i \in 1..Len(v) : v[i] = IF i <= 2 * m THEN new[i] ELSE s[i]
  BY <1>1, OverlayParts
<1> HIDE DEF u, v
<1>4. Len(v) = 2 * Len(u)  BY <1>1, <1>2, <1>3
<1>5. ASSUME NEW i \in 1..Len(u)
      PROVE  v[2 * i - 1] = Pairs(u)[i][1] /\ v[2 * i] = Pairs(u)[i][2]
  <2>1. Pairs(u)[i] = EncodeChar(u[i])  BY <1>2 DEF Pairs
  <2>2. 2 * i - 1 \in 1..Len(v) /\ 2 * i \in 1..Len(v)  BY <1>2, <1>4
  <2>3. CASE i <= m
    <3>1. i \in 1..m /\ 2 * i - 1 <= 2 * m /\ 2 * i <= 2 * m  BY <1>1, <2>3
    <3>2. v[2 * i - 1] = new[2 * i - 1] /\ v[2 * i] = new[2 * i]
      BY <1>3, <2>2, <3>1
    <3>3. new[2 * i - 1] = Pairs(text)[i][1] /\ new[2 * i] = Pairs(text)[i][2]
      BY <3>1 DEF CipherOf, PairsOf
    <3>4. Pairs(text)[i] = EncodeChar(text[i])  BY <1>1, <3>1 DEF Pairs
    <3>5. u[i] = text[i]  BY <1>2, <2>3
    <3> QED  BY <2>1, <3>2, <3>3, <3>4, <3>5
  <2>4. CASE ~(i <= m)
    <3>1. i \in 1..k /\ ~(2 * i - 1 <= 2 * m) /\ ~(2 * i <= 2 * m)  BY <1>1, <1>2, <2>4
    <3>2. v[2 * i - 1] = s[2 * i - 1] /\ v[2 * i] = s[2 * i]
      BY <1>3, <2>2, <3>1
    <3>3. s[2 * i - 1] = Pairs(c)[i][1] /\ s[2 * i] = Pairs(c)[i][2]
      BY <3>1 DEF CipherOf, PairsOf
    <3>4. Pairs(c)[i] = EncodeChar(c[i])  BY <1>1, <3>1 DEF Pairs
    <3>5. u[i] = c[i]  BY <1>2, <2>4
    <3> QED  BY <2>1, <3>2, <3>3, <3>4, <3>5
  <2> QED  BY <2>3, <2>4
<1> QED  BY <1>2, <1>3, <1>4, <1>5 DEF CipherOf, PairsOf, u, v

(***************************************************************************)
(* The inductive invariant: the file holds the cipher of the clear text.   *)
(***************************************************************************)
Signs == Marks \cup {ToUpper(c) : c \in Chars}

CipherInv == CipherOf(Signs, clear, stored)

LEMMA CipherInvHolds == Spec => []CipherInv
<1>1. Init => CipherInv
  <2> SUFFICES ASSUME Init PROVE CipherInv
    OBVIOUS
  <2>1. stored = <<>> /\ clear = <<>>  BY DEF Init
  <2> QED  BY <2>1 DEF CipherInv, CipherOf, PairsOf
<1>2. CipherInv /\ [Next]_vars => CipherInv'
  <2> SUFFICES ASSUME CipherInv, [Next]_vars PROVE CipherInv'
    OBVIOUS
  <2>1. CASE Truncate
    <3>1. stored' = <<>> /\ clear' = <<>>  BY <2>1 DEF Truncate
    <3> QED  BY <3>1 DEF CipherInv, CipherOf, PairsOf
  <2>2. ASSUME NEW t \in Texts, Store(t) PROVE CipherInv'
    <3>1. t \in Seq(Chars)  BY CipherAssumption DEF Texts, BoundedSeq, SeqOf
    <3>2. Marks \subseteq Signs /\ \A c \in Chars : ToUpper(c) \in Signs  BY DEF Signs
    <3>3. CipherOf(Signs, Upper(t), pbEncode(t))  BY <3>1, <3>2, TextIsEncoded
    <3>4. CipherOf(Signs, Overlay(clear, Upper(t)), Overlay(stored, pbEncode(t)))
      BY <3>3, OverlayOfCiphers DEF CipherInv
    <3> QED  BY <2>2, <3>4 DEF Store, CipherInv
  <2>3. CASE UNCHANGED vars  BY <2>3 DEF vars, CipherInv
  <2> QED  BY <2>1, <2>2, <2>3 DEF Next
<1> QED  BY <1>1, <1>2, PTL DEF Spec

(***************************************************************************)
(* For every alphabet and every length of the texts, what is on the disk   *)
(* has even length, pbDecode does not refuse it, and it decodes to what    *)
(* the users wrote, in upper case.                                         *)
(***************************************************************************)
THEOREM FileIsTheText == Spec => []ClearText
<1>1. CipherInv => ClearText  BY CipherIsDecoded DEF CipherInv, ClearText
<1> QED  BY <1>1, CipherInvHolds, PTL

=============================================================================
