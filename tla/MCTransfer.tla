----------------------------- MODULE MCTransfer -----------------------------
(***************************************************************************)
(* A buffer of eight bytes, and files that are empty, short, half a buffer *)
(* long (their cipher fills one), nearly a buffer, one, and more than one. *)
(***************************************************************************)
EXTENDS Transfer

Letters == {"a", "b", "."}
Long(n) == [i \in 1..n |-> IF i % 2 = 1 THEN "b" ELSE "."]
Files == BoundedSeq({"a", "."}, 3) \cup {Long(n) : n \in {4, 7, 8, 9}}

=============================================================================
