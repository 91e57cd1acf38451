------------------------------- MODULE JobPool -------------------------------
(***************************************************************************)
(* What a thread pool with a Sequence queue promises, whatever its number  *)
(* of threads: jobs are started in the order they were accepted, each one  *)
(* once, until close throws away what is still waiting.                    *)
(***************************************************************************)
EXTENDS Sequences

CONSTANT Jobs

VARIABLES
  waiting,  (* accepted and not started, oldest first *)
  active,   (* started and not finished               *)
  closed

vars == <<waiting, active, closed>>

Init == waiting = <<>> /\ active = {} /\ closed = FALSE

(* A call that was under way when the pool was closed may still add.       *)
Add(j) ==
  /\ waiting' = Append(waiting, j)
  /\ UNCHANGED <<active, closed>>

Start ==
  /\ waiting # <<>>
  /\ Head(waiting) \notin active
  /\ active' = active \cup {Head(waiting)}
  /\ waiting' = Tail(waiting)
  /\ UNCHANGED closed

Finish(j) ==
  /\ j \in active
  /\ active' = active \ {j}
  /\ UNCHANGED <<waiting, closed>>

Close ==
  /\ ~closed
  /\ closed' = TRUE
  /\ waiting' = <<>>
  /\ UNCHANGED active

Next == Start \/ Close \/ \E j \in Jobs : Add(j) \/ Finish(j)

Spec == Init /\ [][Next]_vars

=============================================================================
