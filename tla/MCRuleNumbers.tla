--------------------------- MODULE MCRuleNumbers ---------------------------
(***************************************************************************)
(* Two interactions at once and three rules, one after the other or        *)
(* together.                                                               *)
(***************************************************************************)
EXTENDS RuleNumbers, TLC

CONSTANTS i1, i2

Symmetry == Permutations(Interactions)

=============================================================================
