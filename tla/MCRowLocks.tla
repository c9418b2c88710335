----------------------------- MODULE MCRowLocks ----------------------------
(***************************************************************************)
(* Three commands beside the coordinator: an invalidation, a deletion and  *)
(* the delivery of a first check tangle with one more command about.       *)
(***************************************************************************)
EXTENDS RowLocks, TLC

CONSTANTS c1, c2, c3, r1, r2, n1, o1, o2

MCRuleOf == (n1 :> r1)
Symmetry == Permutations(Commands) \cup Permutations(Observations)

=============================================================================
