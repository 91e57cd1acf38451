----------------------------- MODULE JobQueues -------------------------------
(***************************************************************************)
(* The thread pool's three queues: Sequence, a deque; Priority, a multimap *)
(* by priority class; Schedule, a multimap by due time.  All three have    *)
(* the same add, get and clear around one mutex and one condition          *)
(* variable; they differ in the key of a job and in what get waits for.    *)
(*                                                                         *)
(* A wait may end at any moment, notified, in time or for no reason.       *)
(***************************************************************************)
EXTENDS Integers, Sequences, SequencesExt, FiniteSets

CONSTANTS
  Workers, Callers,
  Delays,     (* the int arguments of add for Schedule, in clock ticks       *)
  Priorities, (* the int arguments of add for Priority                       *)
  Never,
  MaxTime, MaxAdds   (* bound the clock and the number of jobs               *)

ASSUME JobQueuesAssumption ==
  /\ IsFiniteSet(Workers) /\ Workers # {} /\ Workers \cap Callers = {}
  /\ Delays \subseteq Int /\ Priorities \subseteq Int /\ Never \notin Int
  /\ MaxTime \in Nat /\ MaxAdds \in Nat

VARIABLES
  kind,    (* which of the three queues it is                                *)
  clock,
  queue,   (* m_queue in its order: the key and the number of each job       *)
  adds,    (* jobs put in so far; they are numbered in that order            *)
  addAt,   (* addAt[c]: where c is in add                                    *)
  addKey,  (* addKey[c]: the key it has computed                             *)
  at,      (* at[w]: where w is in get, or whether it runs a job             *)
  now,     (* now[w]: the time get began                                     *)
  watch,   (* watch[w]: the due time of the job w waits for, or Never        *)
  job,     (* job[w]: the job w took last                                    *)
  woken,   (* the waiting workers that a notification has reached            *)
  clearing (* whether clear, called by one thread, has still to notify       *)

addVars == <<addAt, addKey>>
workerVars == <<at, now, watch, job, woken>>
vars == <<kind, clock, queue, adds, addAt, addKey, at, now, watch, job, woken, clearing>>

Init ==
  /\ kind \in {"Sequence", "Priority", "Schedule"}
  /\ clock = 0
  /\ queue = <<>>
  /\ adds = 0
  /\ addAt = [c \in Callers |-> "idle"]
  /\ addKey = [c \in Callers |-> 0]
  /\ at = [w \in Workers |-> "idle"]
  /\ now = [w \in Workers |-> 0]
  /\ watch = [w \in Workers |-> Never]
  /\ job = [w \in Workers |-> 0]
  /\ woken = {}
  /\ clearing = FALSE

Tick ==
  /\ clock < MaxTime
  /\ clock' = clock + 1
  /\ UNCHANGED <<kind, queue, adds, addVars, workerVars, clearing>>

Asleep == {w \in Workers : at[w] = "sleep"} \ woken
Goes(w, to) == at' = [at EXCEPT ![w] = to]

-----------------------------------------------------------------------------
(* add *)

PRIORITY_LOWEST == 1
PRIORITY_HIGHEST == 10

(* The argument becomes a size_t, in which a negative one is huge: class 1 *)
(* is served first, 10 and whatever is negative last.                      *)
Class(p) ==
  IF p > PRIORITY_HIGHEST \/ p < 0 THEN PRIORITY_HIGHEST
  ELSE IF p < PRIORITY_LOWEST THEN PRIORITY_LOWEST ELSE p

(* The keys that a call of add may compute.                                *)
KeysNow ==
  CASE kind = "Sequence" -> {0}
    [] kind = "Priority" -> {Class(p) : p \in Priorities}
    [] kind = "Schedule" -> {clock + d : d \in Delays}

Add(c) ==
  /\ addAt[c] = "idle"
  /\ adds < MaxAdds
  /\ addAt' = [addAt EXCEPT ![c] = "insert"]
  /\ \E k \in KeysNow : addKey' = [addKey EXCEPT ![c] = k]
  /\ UNCHANGED <<kind, clock, queue, adds, workerVars, clearing>>

(* Mutant of Place: before the jobs of the same key.                       *)
PlaceBefore(k) == 1 + Cardinality({i \in DOMAIN queue : queue[i].key < k})

(* emplace: behind the jobs of the same key.                               *)
Place(k) == 1 + Cardinality({i \in DOMAIN queue : queue[i].key <= k})

Insert(c) ==
  /\ addAt[c] = "insert"
  /\ adds < MaxAdds
  /\ adds' = adds + 1
  /\ queue' = InsertAt(queue, Place(addKey[c]), [key |-> addKey[c], id |-> adds + 1])
  /\ addAt' = [addAt EXCEPT ![c] = "notify"]
  /\ UNCHANGED <<kind, clock, addKey, workerVars, clearing>>

(* Mutant of NotifyOne: told only of a job that is now the only one.       *)
NotifyFirstOnly(c) ==
  /\ addAt[c] = "notify"
  /\ \/ (Asleep = {} \/ Len(queue) > 1) /\ UNCHANGED woken
     \/ \E w \in Asleep : Len(queue) <= 1 /\ woken' = woken \cup {w}
  /\ addAt' = [addAt EXCEPT ![c] = "idle"]
  /\ addKey' = [addKey EXCEPT ![c] = 0]
  /\ UNCHANGED <<kind, clock, queue, adds, at, now, watch, job, clearing>>

(* on_add_func: notify_one, without the mutex.                             *)
NotifyOne(c) ==
  /\ addAt[c] = "notify"
  /\ \/ Asleep = {} /\ UNCHANGED woken
     \/ \E w \in Asleep : woken' = woken \cup {w}
  /\ addAt' = [addAt EXCEPT ![c] = "idle"]
  /\ addKey' = [addKey EXCEPT ![c] = 0]
  /\ UNCHANGED <<kind, clock, queue, adds, at, now, watch, job, clearing>>

(* clear: the jobs under the mutex, and then notify_all without it.        *)
Clear ==
  /\ ~clearing
  /\ clearing' = TRUE
  /\ queue' = <<>>
  /\ UNCHANGED <<kind, clock, adds, addVars, workerVars>>

NotifyAll ==
  /\ clearing
  /\ clearing' = FALSE
  /\ woken' = woken \cup Asleep
  /\ UNCHANGED <<kind, clock, queue, adds, addVars, at, now, watch, job>>

-----------------------------------------------------------------------------
(* get *)

(* The clock is read before the mutex is taken.                            *)
Begin(w) ==
  /\ at[w] = "idle"
  /\ Goes(w, "lock")
  /\ now' = [now EXCEPT ![w] = clock]
  /\ UNCHANGED <<kind, clock, queue, adds, addVars, watch, job, woken, clearing>>

(* get_first finds a job: the first one, if its time is past.              *)
Due == queue # <<>> /\ (kind = "Schedule" => Head(queue).key < clock)

(* get_first: the job, or an empty function, and the worker comes again.   *)
GetFirst(w) ==
  /\ \/ /\ Due
        /\ job' = [job EXCEPT ![w] = Head(queue).id]
        /\ queue' = Tail(queue)
        /\ Goes(w, "run")
     \/ /\ ~Due
        /\ Goes(w, "idle")
        /\ UNCHANGED <<job, queue>>
  /\ now' = [now EXCEPT ![w] = 0]
  /\ watch' = [watch EXCEPT ![w] = Never]

Waits(w, due) ==
  /\ Goes(w, "sleep")
  /\ watch' = [watch EXCEPT ![w] = due]
  /\ now' = [now EXCEPT ![w] = 0]
  /\ UNCHANGED <<job, queue>>

(* With the mutex: wait if there is nothing, or nothing due at the time    *)
(* that was read before.                                                   *)
Get(w) ==
  /\ at[w] = "lock"
  /\ \/ queue = <<>> /\ Waits(w, Never)
     \/ /\ queue # <<>> /\ kind = "Schedule" /\ Head(queue).key > now[w]
        /\ Waits(w, Head(queue).key)
     \/ /\ queue # <<>> /\ (kind = "Schedule" => Head(queue).key <= now[w])
        /\ GetFirst(w)
  /\ UNCHANGED <<kind, clock, adds, addVars, woken, clearing>>

Wake(w) ==
  /\ at[w] = "sleep"
  /\ woken' = woken \ {w}
  /\ GetFirst(w)
  /\ UNCHANGED <<kind, clock, adds, addVars, clearing>>

(* The job is done.                                                        *)
Finish(w) ==
  /\ at[w] = "run"
  /\ Goes(w, "idle")
  /\ job' = [job EXCEPT ![w] = 0]
  /\ UNCHANGED <<kind, clock, queue, adds, addVars, now, watch, woken, clearing>>

Next ==
  \/ Tick \/ Clear \/ NotifyAll
  \/ \E c \in Callers : Add(c) \/ Insert(c) \/ NotifyOne(c)
  \/ \E w \in Workers : Begin(w) \/ Get(w) \/ Wake(w) \/ Finish(w)

Spec == Init /\ [][Next]_vars

-----------------------------------------------------------------------------
(* Properties *)

(* While no worker is busy somebody watches the first job: a worker is up, *)
(* or is going to be notified, or waits for this job or an earlier time.   *)
(* (One that is busy may have been the only one that knew of it: then the  *)
(* job can be late although others wait.)                                  *)
SomebodyWatches ==
  queue # <<>> /\ (\A w \in Workers : at[w] # "run") =>
    \/ \E w \in Workers : at[w] \in {"idle", "lock"} \/ w \in woken
    \/ \E c \in Callers : addAt[c] = "notify"
    \/ \E w \in Asleep : watch[w] # Never /\ watch[w] <= Head(queue).key

(* The job a worker takes is the oldest of the least key there is, and on  *)
(* a schedule its time is past, although get looks at a clock it has read  *)
(* before it had the mutex, and at the queue before and after waiting.     *)
Taken == {i \in DOMAIN queue : \E w \in Workers : job'[w] = queue[i].id /\ job[w] # job'[w]}

TakenInOrder ==
  [][\A i \in Taken :
       /\ \A j \in DOMAIN queue :
            \/ i = j
            \/ queue[i].key < queue[j].key
            \/ queue[i].key = queue[j].key /\ queue[i].id < queue[j].id
       /\ kind = "Schedule" => queue[i].key < clock]_vars

=============================================================================
