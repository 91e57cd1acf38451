------------------------------ MODULE MCDispatch ------------------------------
(***************************************************************************)
(* Dispatch on a small instance.                                           *)
(***************************************************************************)
EXTENDS Dispatch, TLC

Symmetry ==
  Permutations(Threads) \cup Permutations(Appenders) \cup Permutations(Funcs)

=============================================================================
