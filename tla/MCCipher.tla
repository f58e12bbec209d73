------------------------------ MODULE MCCipher ------------------------------
(***************************************************************************)
(* Characters of every kind: in one cell of the square, in two (F and K    *)
(* stand at the end of a row and at the start of the next), small, digits  *)
(* inside and outside the square, the blank that pads, and a sign.         *)
(***************************************************************************)
EXTENDS CipherFile

SomeChars == {"a", "A", "f", "K", "z", "0", "4", "5", "9", " ", "."}

=============================================================================
