------------------------------- MODULE MCRing --------------------------------
(***************************************************************************)
(* Ring on small instances: threads of one side, and items, are alike.     *)
(* The symmetry set is used by the safety run only.                        *)
(***************************************************************************)
EXTENDS Ring, TLC

Symmetry ==
  Permutations(Producers) \cup Permutations(Consumers) \cup Permutations(Items)

=============================================================================
