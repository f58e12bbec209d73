---------------------------- MODULE MCCreateDir ----------------------------
(***************************************************************************)
(* Files that share none, some and all of their directories, in a tree     *)
(* that exists and in one that does not; and files one of which has the    *)
(* name of a directory of the other.                                       *)
(***************************************************************************)
EXTENDS CreateDir

CONSTANTS t1, t2, t3

ThreeThreads == {t1, t2, t3}

Clashing == {<<"meta", "x">>, <<"meta", "x", "y">>}
Sharing  == {<<"meta", "x", "y", "a">>, <<"meta", "x", "y", "b">>,
             <<"meta", "z", "c">>, <<"file", "z", "d">>}
Tree == {<<"meta">>}
Mixed == Clashing \cup Sharing

=============================================================================
