---------------------------- MODULE MCRfsLimits ----------------------------
(***************************************************************************)
(* Instances of RfsLimits for TLC.                                         *)
(***************************************************************************)
EXTENDS MCRfs, RfsLimits

\* Three users at once: handlers that leak two, one and no descriptors.
LeakPlan == (c1 :> {Line("RM", n1)}) @@ (c2 :> {Line("LS", n1)}) @@ (c3 :> {Line("GET", n1)})

=============================================================================
