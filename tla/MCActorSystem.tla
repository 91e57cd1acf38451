--------------------------- MODULE MCActorSystem ---------------------------
(***************************************************************************)
(* ActorSystem on small instances.  The symmetry set is used by the safety *)
(* run only.                                                               *)
(***************************************************************************)
EXTENDS ActorSystem, TLC

Symmetry ==
  Permutations(Actors) \cup Permutations(Clients) \cup Permutations(Workers)
    \cup Permutations(Names)

=============================================================================
