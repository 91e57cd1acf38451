------------------------------ MODULE Lifetimes ------------------------------
(***************************************************************************)
(* When an actor object is destroyed, and by whom.  Actors are held by     *)
(* shared pointers: in the registry, in a send that has found them, in     *)
(* every closure, and wherever the program keeps what get_actor returned.  *)
(* The thread that drops the last one runs the destructor, in the middle   *)
(* of whatever it was doing; a destructor is the program's own code, which *)
(* may send and stop like any other.                                       *)
(*                                                                         *)
(* So each thread has a call stack, the innermost call first.  Messages    *)
(* are only counted here; who drains a mailbox is decided in Mailboxes,    *)
(* whose steps between pop and pop are one or two steps here.              *)
(***************************************************************************)
EXTENDS Naturals, Sequences, FiniteSets

CONSTANTS
  Actors, Clients, Workers,
  None,
  MaxCalls  (* bound on the calls of send, stop and get_actor *)

Threads == Clients \cup Workers

ASSUME LifetimesAssumption ==
  /\ Clients \cap Workers = {} /\ None \notin Threads
  /\ IsFiniteSet(Actors) /\ MaxCalls \in Nat

VARIABLES
  spawned,  (* the actors there have been                                     *)
  named,    (* those whose name is not empty                                  *)
  reg,      (* the keys of m_actors                                           *)
  holder,   (* the thread that keeps m_lock_maps from one step to the next    *)
  box,      (* box[a]: how many closures wait in a's mailbox                  *)
  inPool,   (* inPool[a]: m_in_pool of that mailbox                           *)
  jobs,     (* the pool's m_queue: the mailboxes to drain                     *)
  stack,    (* stack[t]: the calls t is in, each with where it is and about   *)
            (* which actor it is                                              *)
  kept,     (* the actors the program keeps an actor_ref of                   *)
  dead,     (* the actors whose destructor has begun                          *)
  calls,    (* how many calls there have been                                 *)
  fault     (* undefined behaviour has happened                               *)

regVars == <<spawned, named, reg>>
boxVars == <<box, inPool, jobs>>
vars == <<spawned, named, reg, holder, box, inPool, jobs, stack, kept, dead, calls, fault>>

Init ==
  /\ spawned = {} /\ named = {} /\ reg = {}
  /\ holder = None
  /\ box = [a \in Actors |-> 0]
  /\ inPool = [a \in Actors |-> FALSE]
  /\ jobs = <<>>
  /\ stack = [t \in Threads |-> <<>>]
  /\ kept = {} /\ dead = {}
  /\ calls = 0
  /\ fault = FALSE

-----------------------------------------------------------------------------
(* Stacks *)

In(t, at) == stack[t] # <<>> /\ Head(stack[t]).at = at
On(t) == Head(stack[t]).on

Frame(at, a) == [at |-> at, on |-> a]
Enters(t, at, a) == stack' = [stack EXCEPT ![t] = <<Frame(at, a)>> \o @]
Moved(t, at) == <<Frame(at, On(t))>> \o Tail(stack[t])
Moves(t, at) == stack' = [stack EXCEPT ![t] = Moved(t, at)]
Leaves(t) == stack' = [stack EXCEPT ![t] = Tail(@)]

(* A client between two calls, a handler and a destructor are the          *)
(* program's own code.                                                     *)
UserCode(t) ==
  \/ t \in Clients /\ stack[t] = <<>>
  \/ In(t, "run")
  \/ In(t, "dtor")

-----------------------------------------------------------------------------
(* Pointers, among the given stacks, registry and kept references *)

Frames(st, a, ats) == \E t \in Threads : \E i \in DOMAIN st[t] : st[t][i].on = a /\ st[t][i].at \in ats

(* send_as keeps the id, the mailbox and the actor it has found.           *)
SendHolds == {"push", "check", "submit"}
(* A job keeps the mailbox, and the closure until the next is popped.      *)
JobHolds == {"first", "run", "next", "leave", "recheck", "resubmit"}

IdHeld(a, st, r) == a \in r \/ Frames(st, a, SendHolds)

MailboxHeld(a, st, r) ==
  IdHeld(a, st, r) \/ Frames(st, a, JobHolds) \/ \E i \in DOMAIN jobs : jobs[i] = a

ActorHeld(a, st, r, k) ==
  \/ IdHeld(a, st, r) \/ a \in k
  \/ Frames(st, a, {"run", "next"})
  \/ box[a] > 0 /\ MailboxHeld(a, st, r)

(* t drops a pointer, after which its stack is st, the registry r and the  *)
(* program keeps k.  If it was the last one to the actor, t is in the      *)
(* destructor next, and its frame is gone.  (At the end of send_as the     *)
(* local id pointer outlives the actor's by a moment: an address of the    *)
(* dying actor may be valid in its destructor there, and is not here.  The *)
(* actor is out of the registry by then, so stop and send find nothing.)   *)
Drops(t, a, st, r, k) ==
  LET last == a \notin dead /\ ~ActorHeld(a, [stack EXCEPT ![t] = st], r, k)
  IN  /\ stack' = [stack EXCEPT ![t] = (IF last THEN <<Frame("dtor", a)>> ELSE <<>>) \o st]
      /\ dead' = dead \cup (IF last THEN {a} ELSE {})

-----------------------------------------------------------------------------
(* spawn, with a name or with the empty one.  (Its wait for m_lock_maps is *)
(* not part of CallsReturn.)                                               *)
Spawn(t, a) ==
  /\ UserCode(t)
  /\ a \notin spawned
  /\ holder = None
  /\ spawned' = spawned \cup {a}
  /\ reg' = reg \cup {a}
  /\ named' \in {named, named \cup {a}}
  /\ UNCHANGED <<holder, boxVars, stack, kept, dead, calls, fault>>

(* A call begins; MaxCalls bounds their number.                            *)
Calls(t, at, a) ==
  /\ UserCode(t)
  /\ a \in spawned
  /\ calls < MaxCalls
  /\ calls' = calls + 1
  /\ Enters(t, at, a)
  /\ UNCHANGED <<regVars, holder, boxVars, kept, dead, fault>>

-----------------------------------------------------------------------------
(* send_as *)

(* get_actor_bundle and get_actor look the actor up under m_lock_maps ...  *)
Finds(t, at, found) ==
  /\ In(t, at)
  /\ holder = None
  /\ \/ On(t) \in reg /\ Moves(t, found)
     \/ On(t) \notin reg /\ Leaves(t)
  /\ UNCHANGED <<regVars, holder, boxVars, kept, dead, calls, fault>>

EntryStale(t) == TRUE  (* mutant of Entry: a freed entry reads as it was *)

(* ... and read the entry after they have released it.                     *)
Entry(t) == On(t) \in reg

Deref(t) ==
  /\ In(t, "deref")
  /\ \/ Entry(t) /\ Moves(t, "push") /\ UNCHANGED fault
     \/ ~Entry(t) /\ fault' = TRUE /\ UNCHANGED stack
  /\ UNCHANGED <<regVars, holder, boxVars, kept, dead, calls>>

(* clear() does not take the mailbox's mutex, which push and pop hold.     *)
MeetsClear(a) == fault' \in {FALSE, Frames(stack, a, {"clear"})}

Push(t) ==
  /\ In(t, "push")
  /\ box' = [box EXCEPT ![On(t)] = @ + 1]
  /\ Moves(t, "check")
  /\ MeetsClear(On(t))
  /\ UNCHANGED <<regVars, holder, inPool, jobs, kept, dead, calls>>

Claims(a) == ~inPool[a] /\ box[a] > 0

(* add_to_pool; otherwise send_as returns, and drops its pointers.         *)
Check(t) ==
  /\ In(t, "check")
  /\ LET a == On(t) IN
       \/ /\ Claims(a)
          /\ inPool' = [inPool EXCEPT ![a] = TRUE]
          /\ Moves(t, "submit")
          /\ UNCHANGED dead
       \/ /\ ~Claims(a)
          /\ Drops(t, a, Tail(stack[t]), reg, kept)
          /\ UNCHANGED inPool
  /\ UNCHANGED <<regVars, holder, box, jobs, kept, calls, fault>>

(* pool_mailbox, and send_as returns.  The job keeps the mailbox, and with *)
(* it the actor, if a closure waits there.  The queue's limit is taken to  *)
(* exceed the number of actors, so that add_job refuses no mailbox:        *)
(* Mailboxes shows that this suffices (NoneStranded), and what it means if *)
(* it does not hold.                                                       *)
Submit(t) ==
  /\ In(t, "submit")
  /\ jobs' = Append(jobs, On(t))
  /\ \/ box[On(t)] > 0 /\ Leaves(t) /\ UNCHANGED dead
     \/ box[On(t)] = 0 /\ Drops(t, On(t), Tail(stack[t]), reg, kept)
  /\ UNCHANGED <<regVars, holder, box, inPool, kept, calls, fault>>

-----------------------------------------------------------------------------
(* stop *)

(* is_local() needs the id behind the weak pointer, and a name: an actor   *)
(* with the empty name is never stopped.                                   *)
CallStop(t, a) == a \in named /\ IdHeld(a, stack, reg) /\ Calls(t, "stop", a)

StopLock(t) ==
  /\ In(t, "stop")
  /\ holder = None
  /\ holder' = t
  /\ Moves(t, IF On(t) \in reg THEN "clear" ELSE "erase")
  /\ UNCHANGED <<regVars, boxVars, kept, dead, calls, fault>>

(* The registry still holds the actor, so none of the closures is its last *)
(* pointer.                                                                *)
Clear(t) ==
  /\ In(t, "clear")
  /\ box' = [box EXCEPT ![On(t)] = 0]
  /\ Moves(t, "erase")
  /\ UNCHANGED <<regVars, holder, inPool, jobs, kept, dead, calls, fault>>

(* m_actors.erase(id), with m_lock_maps held.                              *)
Erase(t) ==
  /\ In(t, "erase")
  /\ reg' = reg \ {On(t)}
  /\ Drops(t, On(t), Moved(t, "unlock"), reg', kept)
  /\ UNCHANGED <<spawned, named, holder, boxVars, kept, calls, fault>>

UnlockLeaks(t) ==  (* mutant of Unlock: the mutex stays locked *)
  /\ In(t, "unlock")
  /\ Leaves(t)
  /\ UNCHANGED <<regVars, holder, boxVars, kept, dead, calls, fault>>

Unlock(t) ==
  /\ In(t, "unlock")
  /\ holder' = None
  /\ Leaves(t)
  /\ UNCHANGED <<regVars, boxVars, kept, dead, calls, fault>>

-----------------------------------------------------------------------------
(* get_actor *)

Copy(t) ==
  /\ In(t, "copy")
  /\ \/ Entry(t) /\ kept' = kept \cup {On(t)} /\ Leaves(t) /\ UNCHANGED fault
     \/ ~Entry(t) /\ fault' = TRUE /\ UNCHANGED <<kept, stack>>
  /\ UNCHANGED <<regVars, holder, boxVars, dead, calls>>

(* The program drops what get_actor returned, or never does.               *)
Release(t, a) ==
  /\ UserCode(t)
  /\ a \in kept
  /\ kept' = kept \ {a}
  /\ Drops(t, a, stack[t], reg, kept')
  /\ UNCHANGED <<regVars, holder, boxVars, calls, fault>>

-----------------------------------------------------------------------------
(* The job of pool_mailbox *)

TakeJob(w) ==
  /\ stack[w] = <<>>
  /\ jobs # <<>>
  /\ Enters(w, "first", Head(jobs))
  /\ jobs' = Tail(jobs)
  /\ inPool' = [inPool EXCEPT ![Head(jobs)] = TRUE]
  /\ UNCHANGED <<regVars, holder, box, kept, dead, calls, fault>>

PopKeeps(w) ==  (* mutant of Pop: front() without pop_front() *)
  /\ In(w, "first") \/ In(w, "next")
  /\ LET a == On(w) IN
       \/ box[a] > 0 /\ Moves(w, "run") /\ UNCHANGED <<box, dead>>
       \/ box[a] = 0 /\ Drops(w, a, Moved(w, "leave"), reg, kept) /\ UNCHANGED box
  /\ MeetsClear(On(w))
  /\ UNCHANGED <<regVars, holder, inPool, jobs, kept, calls>>

(* func = mb->pop(): the closure that has run is dropped when the next one *)
(* takes its place, or the empty function that ends the loop.              *)
Pop(w) ==
  /\ In(w, "first") \/ In(w, "next")
  /\ LET a == On(w) IN
       \/ box[a] > 0 /\ box' = [box EXCEPT ![a] = @ - 1] /\ Moves(w, "run") /\ UNCHANGED dead
       \/ box[a] = 0 /\ Drops(w, a, Moved(w, "leave"), reg, kept) /\ UNCHANGED box
  /\ MeetsClear(On(w))
  /\ UNCHANGED <<regVars, holder, inPool, jobs, kept, calls>>

(* The handler returns, or the destructor.                                 *)
UserReturns(t) ==
  /\ \/ In(t, "run") /\ Moves(t, "next")
     \/ In(t, "dtor") /\ Leaves(t)
  /\ UNCHANGED <<regVars, holder, boxVars, kept, dead, calls, fault>>

Leave(w) ==
  /\ In(w, "leave")
  /\ inPool' = [inPool EXCEPT ![On(w)] = FALSE]
  /\ Moves(w, "recheck")
  /\ UNCHANGED <<regVars, holder, box, jobs, kept, dead, calls, fault>>

Recheck(w) ==
  /\ In(w, "recheck")
  /\ \/ /\ Claims(On(w))
        /\ inPool' = [inPool EXCEPT ![On(w)] = TRUE]
        /\ Moves(w, "resubmit")
     \/ /\ ~Claims(On(w))
        /\ Leaves(w)
        /\ UNCHANGED inPool
  /\ UNCHANGED <<regVars, holder, box, jobs, kept, dead, calls, fault>>

Resubmit(w) ==
  /\ In(w, "resubmit")
  /\ jobs' = Append(jobs, On(w))
  /\ Leaves(w)
  /\ UNCHANGED <<regVars, holder, box, inPool, kept, dead, calls, fault>>

-----------------------------------------------------------------------------
UserStep(t) ==
  \E a \in Actors :
    \/ Spawn(t, a)
    \/ Calls(t, "lookup", a) \/ Calls(t, "find", a) \/ CallStop(t, a)
    \/ Release(t, a)

Goes(t) ==
  \/ Finds(t, "lookup", "deref") \/ Deref(t) \/ Push(t) \/ Check(t) \/ Submit(t)
  \/ StopLock(t) \/ Clear(t) \/ Erase(t) \/ Unlock(t)
  \/ Finds(t, "find", "copy") \/ Copy(t)
  \/ UserReturns(t)

Works(w) == TakeJob(w) \/ Pop(w) \/ Leave(w) \/ Recheck(w) \/ Resubmit(w)

Next ==
  /\ ~fault
  /\ \/ \E t \in Threads : UserStep(t) \/ Goes(t)
     \/ \E w \in Workers : Works(w)

Spec == Init /\ [][Next]_vars

(* Every thread that can go on does; handlers and destructors return.  The *)
(* workers are taken to stay: when a pool's workers may all retire, and    *)
(* what that leaves undone, is the subject of ThreadPool and Mailboxes.    *)
Fairness ==
  /\ \A t \in Threads : WF_vars(~fault /\ Goes(t))
  /\ \A w \in Workers : WF_vars(~fault /\ Works(w))

FairSpec == Spec /\ Fairness

-----------------------------------------------------------------------------
(* Properties *)

Places == {"lookup", "deref", "stop", "clear", "erase", "unlock", "find", "copy", "dtor"}
            \cup SendHolds \cup JobHolds

(* The types, and what goes together: a thread keeps the lock exactly      *)
(* while it is in stop, an actor without a name stays registered, and      *)
(* closures wait only in mailboxes that somebody holds.                    *)
LifeTypeOK ==
  /\ reg \subseteq spawned /\ spawned \subseteq Actors /\ named \subseteq spawned
  /\ spawned \ reg \subseteq named
  /\ holder \in Threads \cup {None}
  /\ box \in [Actors -> 0..MaxCalls]
  /\ inPool \in [Actors -> BOOLEAN]
  /\ jobs \in Seq(Actors)
  /\ stack \in [Threads -> Seq([at : Places, on : spawned])]
  /\ \A t \in Threads :
       holder = t <=> \E i \in DOMAIN stack[t] : stack[t][i].at \in {"clear", "erase", "unlock"}
  /\ \A a \in Actors : box[a] > 0 => MailboxHeld(a, stack, reg)
  /\ kept \subseteq spawned /\ dead \subseteq spawned
  /\ calls \in 0..MaxCalls
  /\ fault \in BOOLEAN

(* An actor is destroyed once nobody can reach it, and from then on nobody *)
(* can: not a send, not a closure, not even its own destructor, although   *)
(* that may still send to its own address.                                 *)
DeadStayDead ==
  \A a \in spawned : a \in dead <=> ~ActorHeld(a, stack, reg, kept)

(* A destructor that runs under m_lock_maps waits for that same mutex.     *)
LockedOut ==
  \E t \in Threads : holder = t /\ (In(t, "lookup") \/ In(t, "find") \/ In(t, "stop"))

(* Otherwise every call returns, and every job ends.                       *)
CallsReturn ==
  \A t \in Threads : stack[t] # <<>> ~> stack[t] = <<>> \/ fault \/ LockedOut

(* An actor that has been stopped is destroyed in the end, with all its    *)
(* messages, unless the program itself keeps it: stop does not wait for    *)
(* handlers, but no pointer is left behind.                                *)
StoppedAreFreed ==
  \A a \in Actors : a \in spawned \ reg ~> a \in dead \cup kept \/ fault \/ LockedOut

=============================================================================
