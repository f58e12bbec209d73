------------------------------ MODULE Polybius ------------------------------
(***************************************************************************)
(* The cipher of cipher.c, character by character: each character of a     *)
(* text becomes two, its row and column in a square of six rows of six, or *)
(* itself and a blank when the square does not hold it.                    *)
(*                                                                         *)
(* A character is a string of length one; a text is a sequence of them.    *)
(***************************************************************************)
EXTENDS Naturals, SequencesExt

N == 6

Capitals == <<"A", "B", "C", "D", "E", "F", "G", "H", "I", "J", "K", "L", "M",
              "N", "O", "P", "Q", "R", "S", "T", "U", "V", "W", "X", "Y", "Z">>
Smalls   == <<"a", "b", "c", "d", "e", "f", "g", "h", "i", "j", "k", "l", "m",
              "n", "o", "p", "q", "r", "s", "t", "u", "v", "w", "x", "y", "z">>
Digits   == <<"0", "1", "2", "3", "4", "5", "6", "7", "8", "9">>
alphabet == Capitals \o Digits

\* toupper, in the C locale
ToUpper(ch) == IF \E i \in 1..26 : Smalls[i] = ch
                 THEN Capitals[CHOOSE i \in 1..26 : Smalls[i] = ch] ELSE ch
Upper(t) == [i \in DOMAIN t |-> ToUpper(t[i])]

IsDigit(ch) == \E i \in 1..10 : Digits[i] = ch
DigitValue(ch) == (CHOOSE i \in 1..10 : Digits[i] = ch) - 1

\* createPolybiusTable.  Rows and columns count from 0; the alphabet is taken
\* with a stride of 5 by rows of 6, so a row begins with the end of the last.
square == [row \in 0..(N - 1) |-> [col \in 0..(N - 1) |-> alphabet[row * 5 + col + 1]]]

\* The first place of ch in the order of the loops of pbEncode.
Places(ch) == {p \in (0..(N - 1)) \X (0..(N - 1)) : square[p[1]][p[2]] = ch}
Place(ch) == CHOOSE p \in Places(ch) : \A q \in Places(ch) : p[1] * N + p[2] <= q[1] * N + q[2]

\* Slip: the character the square does not hold is written without the blank.
EncodeCharBare(ch) ==
  IF Places(ch) # {} THEN <<Digits[Place(ch)[1] + 2], Digits[Place(ch)[2] + 2]>> ELSE <<ch>>

EncodeChar(ch) ==
  IF Places(ch) # {} THEN <<Digits[Place(ch)[1] + 2], Digits[Place(ch)[2] + 2]>>
                     ELSE <<ch, " ">>

pbEncode(t) == FlattenSeq([i \in DOMAIN t |-> EncodeChar(ToUpper(t[i]))])

\* Two digits are a place; one outside the square gives nothing.  Otherwise the
\* first of the two characters stands for itself.
DecodePair(a, b) ==
  IF IsDigit(a) /\ IsDigit(b)
    THEN IF DigitValue(a) \in 1..N /\ DigitValue(b) \in 1..N
           THEN <<square[DigitValue(a) - 1][DigitValue(b) - 1]>> ELSE <<>>
    ELSE <<a>>

\* A text of odd length cannot be decoded: pbDecode returns NULL.
Decodable(s) == Len(s) % 2 = 0
pbDecode(s) == FlattenSeq([k \in 1..(Len(s) \div 2) |-> DecodePair(s[2 * k - 1], s[2 * k])])

=============================================================================
