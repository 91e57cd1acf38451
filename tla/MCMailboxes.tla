---------------------------- MODULE MCMailboxes ----------------------------
(***************************************************************************)
(* Mailboxes on small instances.  The symmetry set is used by the safety   *)
(* runs only.                                                              *)
(***************************************************************************)
EXTENDS Mailboxes, TLC

Symmetry == Permutations(Actors) \cup Permutations(Clients) \cup Permutations(Workers)

=============================================================================
