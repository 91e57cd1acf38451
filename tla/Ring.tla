-------------------------------- MODULE Ring ---------------------------------
(***************************************************************************)
(* ring<Item, Length>, and the bounded channel that forwards to it: pushes *)
(* exclude one another by one mutex, pops by another, and the two sides    *)
(* meet only in the atomic head and tail and in notifications sent without *)
(* the receiver's mutex.                                                   *)
(*                                                                         *)
(* A push and a pop have the same steps, so that one action stands for     *)
(* both: take the side's mutex, test, wait, test again, move the item and  *)
(* one's index, wrap the index, notify the other side.  A step reads or    *)
(* writes one of the indices that the other side sees.                     *)
(*                                                                         *)
(* A pop that reads a slot nothing was pushed to sets fault, and the model *)
(* says nothing of what comes after.  clear() takes no mutex at all.  Once *)
(* one has met a call past its mutex, mixed is set, and of the items, and  *)
(* of what the tests of the indices find, nothing more is said: the indices *)
(* move on as they are coded, and any test may come out either way.        *)
(***************************************************************************)
EXTENDS Integers, FiniteSets, Sequences

CONSTANTS Producers, Consumers, Items, None, Length

Threads == Producers \cup Consumers
Slots == Length + 1

ASSUME RingAssumption ==
  /\ IsFiniteSet(Threads) /\ Producers \cap Consumers = {}
  /\ None \notin Items \cup Threads
  /\ Length \in Nat \ {0}

VARIABLES
  items,   (* m_items                                                     *)
  head,    (* m_head                                                      *)
  tail,    (* m_tail                                                      *)
  at,      (* at[t]: where t is in its call                               *)
  kind,    (* kind[t]: try_push or try_pop, the blocking or the timed one *)
  offer,   (* offer[p]: the item that p's call brings                     *)
  last,    (* the last move or refusal: what, and the item                *)
  woken,   (* the sleeping threads that a notification has reached        *)
  missed,  (* the threads that were notified between test and wait, or    *)
           (* that slept in a push when the ring was cleared              *)
  mixed,   (* a clear has met a call                                      *)
  fault

callVars == <<at, mixed, kind, offer>>
vars == <<items, head, tail, at, kind, offer, last, woken, missed, mixed, fault>>

Init ==
  /\ items = [i \in 0..Length |-> None]
  /\ head = 0 /\ tail = 0
  /\ at = [t \in Threads |-> "idle"]
  /\ kind = [t \in Threads |-> "try"]
  /\ offer = [p \in Producers |-> None]
  /\ last = [op |-> "none", item |-> None]
  /\ woken = {} /\ missed = {}
  /\ mixed = FALSE /\ fault = FALSE

(* The threads of t's side, and those it notifies.                         *)
Side(t) == IF t \in Producers THEN Producers ELSE Consumers
Other(t) == Threads \ Side(t)

Inside == {"test", "sleepy", "check", "wrap", "notify"}
MutexFree(t) == \A u \in Side(t) : at[u] \notin Inside
Clearing == \E t \in Threads : at[t] = "clear"

(* Mutant of Full: the tail just behind the head is forgotten.             *)
FullUnwrapped == tail - head = Length

Full == LET delta == tail - head IN delta = -1 \/ delta = Length
Empty == head = tail
Ready(t) == IF t \in Producers THEN ~Full ELSE ~Empty
Finds(t, ready) == mixed \/ Ready(t) = ready

(* size(), right when neither index is on its way round.                   *)
Size == LET delta == tail - head IN IF delta < 0 THEN delta + 1 + Length ELSE delta

(* What the ring holds.                                                    *)
Count == (tail - head) % Slots
Contents == [i \in 1..Count |-> items[(head + i - 1) % Slots]]

Meets == Clearing /\ \E t \in Threads : at[t] \in Inside

Goes(t, to) ==
  /\ at' = [at EXCEPT ![t] = to]
  /\ mixed' = (mixed \/ Meets')

(* The call returns, and its thread has no mutex any more.                 *)
Returns(t) ==
  /\ Goes(t, "idle")
  /\ kind' = [kind EXCEPT ![t] = "try"]
  /\ offer' = [p \in Producers |-> IF p = t THEN None ELSE offer[p]]

(* What was moved or refused, and what the ring held, as long as that is    *)
(* said.                                                                   *)
Forgotten == items' = [i \in 0..Length |-> None] /\ last' = [op |-> "none", item |-> None]
Remembers == IF mixed' THEN Forgotten ELSE UNCHANGED <<items, last>>

-----------------------------------------------------------------------------
(* A call begins when it gets its side's mutex; try_push and try_pop do    *)
(* not wait for anything else.                                             *)
Call(t) ==
  /\ at[t] = "idle" /\ MutexFree(t)
  /\ \E k \in {"try", "block", "timed"} :
       /\ kind' = [kind EXCEPT ![t] = k]
       /\ Goes(t, IF k = "try" THEN "check" ELSE "test")
  /\ \/ t \in Producers /\ \E x \in Items : offer' = [offer EXCEPT ![t] = x]
     \/ t \in Consumers /\ UNCHANGED offer
  /\ Remembers
  /\ UNCHANGED <<head, tail, woken, missed, fault>>

(* The predicate of wait and wait_for.                                     *)
Test(t) ==
  /\ at[t] = "test"
  /\ \/ Finds(t, TRUE) /\ Goes(t, "check")
     \/ Finds(t, FALSE) /\ Goes(t, "sleepy")
  /\ UNCHANGED <<items, head, tail, kind, offer, last, woken, missed, fault>>

(* The wait, which from now on hears notifications, releases the mutex.    *)
Sleep(t) ==
  /\ at[t] = "sleepy"
  /\ Goes(t, "sleep")
  /\ UNCHANGED <<items, head, tail, kind, offer, last, woken, missed, fault>>

(* Mutant of Wake: it does not wait for the mutex.                         *)
WakesUnlocked(t) ==
  /\ at[t] = "sleep"
  /\ Goes(t, "test")
  /\ woken' = woken \ {t}
  /\ missed' = missed \ {t}
  /\ Remembers
  /\ UNCHANGED <<head, tail, kind, offer, fault>>

(* It returns with the mutex: notified or for no reason, to test again ... *)
Wake(t) ==
  /\ at[t] = "sleep" /\ MutexFree(t)
  /\ Goes(t, "test")
  /\ woken' = woken \ {t}
  /\ missed' = missed \ {t}
  /\ Remembers
  /\ UNCHANGED <<head, tail, kind, offer, fault>>

(* Mutant of Timeout: the wait starts over.                                *)
TimeoutWaitsAgain(t) ==
  /\ at[t] = "sleep" /\ MutexFree(t)
  /\ kind[t] = "timed"
  /\ Goes(t, "test")
  /\ woken' = woken \ {t}
  /\ missed' = missed \ {t}
  /\ Remembers
  /\ UNCHANGED <<head, tail, kind, offer, fault>>

(* ... or because its time is over.                                        *)
Timeout(t) ==
  /\ at[t] = "sleep" /\ MutexFree(t)
  /\ kind[t] = "timed"
  /\ Goes(t, "check")
  /\ woken' = woken \ {t}
  /\ missed' = missed \ {t}
  /\ Remembers
  /\ UNCHANGED <<head, tail, kind, offer, fault>>

(* Full, or empty, after all: the call returns false.                      *)
Refuse(t) ==
  /\ at[t] = "check" /\ Finds(t, FALSE)
  /\ Returns(t)
  /\ \/ mixed /\ UNCHANGED last
     \/ ~mixed /\ last' = [op |-> IF t \in Producers THEN "push" ELSE "pop", item |-> None]
  /\ UNCHANGED <<items, head, tail, woken, missed, fault>>

(* Where a thread goes that has moved its index on from i.                 *)
Past(i) == IF i + 1 > Length THEN "wrap" ELSE "notify"

(* The item goes into its slot before the tail moves.                      *)
Push(p) ==
  /\ at[p] = "check" /\ ~Full /\ ~mixed
  /\ items' = [items EXCEPT ![tail] = offer[p]]
  /\ tail' = tail + 1
  /\ Goes(p, Past(tail))
  /\ last' = [op |-> "push", item |-> offer[p]]
  /\ UNCHANGED <<head, kind, offer, woken, missed, fault>>

(* The item is moved out of its slot, of which nothing more is said, before *)
(* the head moves.                                                         *)
Pop(c) ==
  /\ at[c] = "check" /\ ~Empty /\ ~mixed
  /\ Count > 0
  /\ last' = [op |-> "pop", item |-> items[head]]
  /\ items' = [items EXCEPT ![head] = None]
  /\ head' = head + 1
  /\ Goes(c, Past(head))
  /\ UNCHANGED <<tail, kind, offer, woken, missed, fault>>

(* The head has come up to a tail that is still past the end.              *)
Overrun(c) ==
  /\ at[c] = "check" /\ ~Empty /\ ~mixed
  /\ Count = 0
  /\ fault' = TRUE
  /\ UNCHANGED <<items, head, tail, callVars, last, woken, missed>>

(* A push or a pop once a clear has met one: its slot is any, and what a   *)
(* pop takes may be nothing.                                               *)
MoveMixed(t) ==
  /\ at[t] = "check" /\ mixed
  /\ \/ /\ t \in Producers
        /\ tail' = tail + 1 /\ Goes(t, Past(tail))
        /\ UNCHANGED <<head, fault>>
     \/ /\ t \in Consumers
        /\ head' = head + 1 /\ Goes(t, Past(head))
        /\ fault' \in BOOLEAN /\ UNCHANGED tail
  /\ UNCHANGED <<items, kind, offer, last, woken, missed>>

(* Mutant of Wrap: the wrong index, as in try_push(const Item&).           *)
WrapResetsHead(t) ==
  /\ at[t] = "wrap"
  /\ head' = 0
  /\ UNCHANGED tail
  /\ Goes(t, "notify")
  /\ UNCHANGED <<items, kind, offer, last, woken, missed, fault>>

Wrap(t) ==
  /\ at[t] = "wrap"
  /\ \/ t \in Producers /\ tail' = 0 /\ UNCHANGED head
     \/ t \in Consumers /\ head' = 0 /\ UNCHANGED tail
  /\ Goes(t, "notify")
  /\ UNCHANGED <<items, kind, offer, last, woken, missed, fault>>

(* Mutant of Notify: only the first item and the first free slot are told. *)
NotifiesFirstOnly(t) ==
  /\ at[t] = "notify"
  /\ LET asleep == {u \in Other(t) : at[u] = "sleep"} \ woken
         first == IF t \in Producers THEN Count = 1 ELSE Count = Length - 1
     IN  \/ (asleep = {} \/ ~first) /\ UNCHANGED woken
         \/ \E u \in asleep : first /\ woken' = woken \cup {u}
  /\ missed' = missed \cup {u \in Other(t) : at[u] = "sleepy"}
  /\ Returns(t)
  /\ UNCHANGED <<items, head, tail, last, fault>>

(* notify_one, then the mutex is released.                                 *)
Notify(t) ==
  /\ at[t] = "notify"
  /\ LET asleep == {u \in Other(t) : at[u] = "sleep"} \ woken
     IN  \/ asleep = {} /\ UNCHANGED woken
         \/ \E u \in asleep : woken' = woken \cup {u}
  /\ missed' = missed \cup {u \in Other(t) : at[u] = "sleepy"}
  /\ Returns(t)
  /\ UNCHANGED <<items, head, tail, last, fault>>

(* clear() stores the head and then the tail, whatever the others do, and  *)
(* tells nobody that there is room now.                                    *)
ClearHead(t) ==
  /\ at[t] = "idle"
  /\ head' = 0
  /\ Goes(t, "clear")
  /\ Remembers
  /\ UNCHANGED <<tail, kind, offer, woken, missed, fault>>

ClearTail(t) ==
  /\ at[t] = "clear"
  /\ tail' = 0
  /\ Returns(t)
  /\ missed' = missed \cup ({p \in Producers : at[p] = "sleep"} \ woken)
  /\ UNCHANGED <<items, head, last, woken, fault>>

-----------------------------------------------------------------------------
Move(t) ==
  \/ t \in Producers /\ Push(t)
  \/ t \in Consumers /\ (Pop(t) \/ Overrun(t))
  \/ MoveMixed(t)

Step(t) ==
  \/ Test(t) \/ Sleep(t) \/ Refuse(t) \/ Move(t) \/ Wrap(t) \/ Notify(t)
  \/ ClearTail(t)

Next ==
  /\ ~fault
  /\ \E t \in Threads : Call(t) \/ ClearHead(t) \/ Wake(t) \/ Timeout(t) \/ Step(t)

Spec == Init /\ [][Next]_vars

(* A thread inside a call runs, and a wait whose time is over gets back    *)
(* its mutex, if that is free again and again.  Nothing makes an untimed   *)
(* wait end.                                                               *)
Fairness ==
  \A t \in Threads :
    /\ WF_vars(~fault /\ Step(t))
    /\ SF_vars(~fault /\ Timeout(t))

FairSpec == Spec /\ Fairness

-----------------------------------------------------------------------------
(* Properties *)

(* The types; one thread of a side at a time is past its mutex; an index   *)
(* is out of the array only while its thread wraps it, clears or not;      *)
(* size() is right.                                                        *)
RingTypeOK ==
  /\ items \in [0..Length -> Items \cup {None}]
  /\ head \in 0..Slots /\ tail \in 0..Slots
  /\ at \in [Threads -> {"idle", "sleep", "clear"} \cup Inside]
  /\ kind \in [Threads -> {"try", "block", "timed"}]
  /\ offer \in [Producers -> Items \cup {None}]
  /\ last \in [op : {"none", "push", "pop"}, item : Items \cup {None}]
  /\ woken \subseteq {t \in Threads : at[t] = "sleep"}
  /\ missed \subseteq {t \in Threads : at[t] \in {"sleepy", "sleep"}}
  /\ mixed \in BOOLEAN /\ fault \in BOOLEAN
  /\ \A t \in Threads, u \in Threads :
       at[t] \in Inside /\ at[u] \in Inside /\ Side(t) = Side(u) => t = u
  /\ tail = Slots => \E p \in Producers : at[p] = "wrap"
  /\ head = Slots => \E c \in Consumers : at[c] = "wrap"
  /\ \A t \in Threads :
       at[t] = "wrap" /\ ~mixed => IF t \in Producers THEN tail = Slots ELSE head = Slots
  /\ (\A t \in Threads : at[t] # "wrap") => Size = Count

(* A pop can take what is not there only while a push has its tail past    *)
(* the end of the array, or after a clear has met a call that had its      *)
(* mutex.                                                                  *)
OverrunOnlyInWrap ==
  [][fault' /\ ~fault => mixed \/ \E p \in Producers : at[p] = "wrap"]_vars

(* Until then pushes and pops are those of a bounded FIFO queue, refused   *)
(* only when it is full or empty, and a clear that meets nobody who has a  *)
(* mutex empties it.                                                       *)
Queue == INSTANCE BoundedQueue
           WITH queue <- IF Clearing THEN <<>> ELSE Contents, Capacity <- Length

ImplementsBoundedQueue == Queue!Init /\ [][mixed' \/ Queue!Next]_(Queue!vars)

(* As long as no clear meets a call, notifications get lost in two ways:   *)
(* between the test and the wait of the other side, and in a clear, which  *)
(* sends none.  Nobody else sleeps on an item, or on a free slot, unless a *)
(* thread is on its way to it or to the notification.                      *)
Asleep(side) == {t \in side : at[t] = "sleep"} \ woken
OnTheWay(side) ==
  (woken \cap side) \cup {t \in side : at[t] \in {"test", "check"}}
    \cup {t \in Threads \ side : at[t] \in {"wrap", "notify"}}

WakeupsLostInTwoWays ==
  ~mixed /\ ~Clearing =>
    /\ Asleep(Consumers) # {} /\ Asleep(Consumers) \cap missed = {} =>
         Count <= Cardinality(OnTheWay(Consumers))
    /\ Asleep(Producers) # {} /\ Asleep(Producers) \cap missed = {} =>
         Length - Count <= Cardinality(OnTheWay(Producers))

(* Timed and non-blocking calls return, notifications lost, rings cleared  *)
(* meanwhile or not.                                                       *)
TimedCallsReturn ==
  \A t \in Threads : at[t] # "idle" /\ kind[t] # "block" ~> at[t] = "idle" \/ fault

=============================================================================
