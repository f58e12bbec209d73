----------------------------- MODULE CipherFile -----------------------------
(***************************************************************************)
(* One file of the server as its ciphered characters: handlers truncate it *)
(* (open), write to it from its start (handle_write) and read it           *)
(* (handle_get), in any order, since the locks exclude nobody.  Next to it *)
(* runs the file that the users should see, in clear.                      *)
(***************************************************************************)
EXTENDS Polybius

CONSTANTS
  Chars,    \* the characters users write
  MaxLen    \* the length of the longest text

ASSUME CipherAssumption == MaxLen \in Nat

VARIABLES
  stored,   \* the characters on the disk
  clear     \* the text whose cipher they should be, in upper case

vars == <<stored, clear>>

Texts == BoundedSeq(Chars, MaxLen)

Init == stored = <<>> /\ clear = <<>>

Overlay(old, new) == new \o SubSeq(old, Len(new) + 1, Len(old))

\* open(O_TRUNC)
Truncate == stored' = <<>> /\ clear' = <<>>

\* write(fd, pbEncode(message)) on a descriptor that is still at its start.
Store(t) ==
  /\ stored' = Overlay(stored, pbEncode(t))
  /\ clear' = Overlay(clear, Upper(t))

Next == Truncate \/ \E t \in Texts : Store(t)

Spec == Init /\ [][Next]_vars

(***************************************************************************)
(* Whatever handlers wrote over each other, handle_get can decode the file *)
(* (pbDecode does not return NULL, whose length serverHandler.c:251 would  *)
(* take), and sends what the users wrote, in upper case: the overlay of    *)
(* two ciphers is the cipher of the overlay.                               *)
(***************************************************************************)
ClearText == Decodable(stored) /\ pbDecode(stored) = clear

=============================================================================
