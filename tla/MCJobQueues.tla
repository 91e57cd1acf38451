----------------------------- MODULE MCJobQueues -----------------------------
(***************************************************************************)
(* JobQueues with delays that make jobs due now, later and in the past,    *)
(* and with priorities in the range, past both its ends, and negative.     *)
(***************************************************************************)
EXTENDS JobQueues

MCDelays == {-1, 0, 1}
MCPriorities == {-1, 0, 2, 11}

=============================================================================
