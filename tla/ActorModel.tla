----------------------------- MODULE ActorModel -----------------------------
(***************************************************************************)
(* What the actor library promises its users, with no threads in sight.    *)
(* Every actor has a queue of messages; it handles them one at a time, in  *)
(* the order they were queued.  Stopping an actor, which happens at most   *)
(* once, throws away what is queued at that moment; nothing else ever      *)
(* loses, repeats or reorders a message.  Mailboxes and ActorSystem, which *)
(* model the code, are shown to implement this specification.              *)
(***************************************************************************)
EXTENDS Sequences

CONSTANTS
  Actors,   (* the actors                     *)
  Msg       (* the messages that can be sent  *)

VARIABLES
  queue,    (* queue[a]: messages sent to a that it has not started, oldest first *)
  running,  (* running[a]: the message a is handling, as a set of at most one     *)
  stopped   (* the actors that have been stopped                                  *)

vars == <<queue, running, stopped>>

Init ==
  /\ queue = [a \in Actors |-> <<>>]
  /\ running = [a \in Actors |-> {}]
  /\ stopped = {}

(* A message is queued behind everything already sent to the actor.        *)
Send(a, m) ==
  /\ queue' = [queue EXCEPT ![a] = Append(@, m)]
  /\ UNCHANGED <<running, stopped>>

(* An actor that handles nothing starts on the oldest message.             *)
Start(a) ==
  /\ running[a] = {}
  /\ queue[a] # <<>>
  /\ running' = [running EXCEPT ![a] = {Head(queue[a])}]
  /\ queue' = [queue EXCEPT ![a] = Tail(@)]
  /\ UNCHANGED stopped

(* The handler returns.                                                    *)
Finish(a) ==
  /\ running[a] # {}
  /\ running' = [running EXCEPT ![a] = {}]
  /\ UNCHANGED <<queue, stopped>>

(* The actor is stopped.  The code does not fence it: a message whose      *)
(* sender had already found the actor may still be queued and handled.     *)
Stop(a) ==
  /\ a \notin stopped
  /\ stopped' = stopped \cup {a}
  /\ queue' = [queue EXCEPT ![a] = <<>>]
  /\ UNCHANGED running

Next ==
  \E a \in Actors :
    \/ \E m \in Msg : Send(a, m)
    \/ Start(a)
    \/ Finish(a)
    \/ Stop(a)

Spec == Init /\ [][Next]_vars

=============================================================================
