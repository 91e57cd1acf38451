----------------------------- MODULE ThreadPool ------------------------------
(***************************************************************************)
(* thread_pool<Sequence, Policy>: its workers' lives, from start() in the  *)
(* constructor to stop() and join() in the destructor, with add_job called *)
(* from outside and from inside jobs, and the detached check_exits threads *)
(* that join the workers that have retired.                                *)
(*                                                                         *)
(* Time is left out: a wait may time out whenever it has begun, a worker   *)
(* between the minimum and the maximum may find itself idle for long       *)
(* enough or not, and add_job may find check_exits due or not.             *)
(***************************************************************************)
EXTENDS Naturals, Sequences, FiniteSets

CONSTANTS
  Workers,    (* worker threads that can exist at a time: bounds how far     *)
              (* start() and add_job can get ahead of their new threads      *)
  Callers,    (* threads outside the pool that call add_job                  *)
  Checkers,   (* check_exits threads that can run at a time                  *)
  Owner,      (* the thread that constructs and destroys the pool            *)
  Jobs,       (* jobs that can be in the pool at a time                      *)
  None,
  Min, Max,   (* m_min and m_max of the policy                               *)
  Threshold, QueueLimit  (* m_threshold and m_queue_limit, 0 for none        *)

Adders == Callers \cup Workers

ASSUME ThreadPoolAssumption ==
  /\ IsFiniteSet(Workers) /\ IsFiniteSet(Callers)
  /\ Callers \cap Workers = {} /\ Owner \notin Adders
  /\ None \notin Jobs \cup Adders \cup {Owner}
  /\ \A S \in SUBSET Workers : S # None
  /\ Min \in Nat /\ Max \in Nat /\ Min <= Max
  /\ Threshold \in Nat /\ QueueLimit \in Nat

VARIABLES
  running,  (* m_running                                                      *)
  jobs,     (* m_queue                                                        *)
  current,  (* m_current                                                      *)
  at,       (* at[w]: where w is in worker_thread; "none" before and after it *)
  job,      (* job[w]: the job w runs                                         *)
  woken,    (* the waiting workers that a notification has reached            *)
  threads,  (* m_threads                                                      *)
  exits,    (* m_exits                                                        *)
  lock,     (* who keeps m_threads_mutex from one step to the next: join      *)
  addAt,    (* addAt[c]: where c is in add_job                                *)
  addJob,   (* addJob[c]: the job that call brings                            *)
  ownerAt,  (* where the owner is in the constructor or the destructor        *)
  launched, (* the check_exits threads that have not looked at m_exits yet    *)
  found     (* found[k]: the exits a check_exits thread still has to join,    *)
            (* as a set, or None when there is no such thread                 *)

workerVars == <<at, job, woken, current>>
listVars == <<threads, exits, lock>>
addVars == <<addAt, addJob>>
checkVars == <<launched, found>>
vars == <<running, jobs, current, at, job, woken, threads, exits, lock,
          addAt, addJob, ownerAt, launched, found>>

Init ==
  /\ running = TRUE
  /\ jobs = <<>>
  /\ current = 0
  /\ at = [w \in Workers |-> "none"]
  /\ job = [w \in Workers |-> None]
  /\ woken = {}
  /\ threads = {}
  /\ exits = {}
  /\ lock = None
  /\ addAt = [c \in Adders |-> "idle"]
  /\ addJob = [c \in Adders |-> None]
  /\ ownerAt = "start"
  /\ launched = {}
  /\ found = [k \in Checkers |-> None]

Live(w) == at[w] \in {"loop", "get", "wait", "run", "judge", "leave"}
Asleep == {w \in Workers : at[w] = "wait"} \ woken

MustCreate == current < Min
OutOfThreshold == Threshold > 0 /\ Len(jobs) >= Threshold
OutOfLimit == QueueLimit > 0 /\ Len(jobs) >= QueueLimit

(* m_threads.push_back(thread(worker_thread)), under m_threads_mutex.      *)
Create ==
  /\ lock = None
  /\ \E w \in Workers :
       /\ at[w] = "none" /\ w \notin threads
       /\ at' = [at EXCEPT ![w] = "new"]
       /\ threads' = threads \cup {w}
  /\ UNCHANGED <<job, woken, current, exits, lock>>

-----------------------------------------------------------------------------
(* The constructor: start() looks at m_current, which only the new threads *)
(* themselves increment.                                                   *)

StartLooks ==
  /\ ownerAt = "start"
  /\ ownerAt' = IF MustCreate THEN "create" ELSE "up"
  /\ UNCHANGED <<running, jobs, workerVars, listVars, addVars, checkVars>>

StartCreates ==
  /\ ownerAt = "create"
  /\ Create
  /\ ownerAt' = "start"
  /\ UNCHANGED <<running, jobs, addVars, checkVars>>

-----------------------------------------------------------------------------
(* add_job *)

AddGoes(c, to) == addAt' = [addAt EXCEPT ![c] = to]

InUse(j) ==
  \/ \E i \in DOMAIN jobs : jobs[i] = j
  \/ \E w \in Workers : job[w] = j
  \/ \E c \in Adders : addJob[c] = j

(* The bound Workers: a call begins only when it would find room for a     *)
(* thread, so that none has to wait for what the program never waits for.  *)
Room ==
  Cardinality({c \in Adders : addAt[c] # "idle"})
    < Cardinality({w \in Workers : at[w] = "none" /\ w \notin threads})

(* Outside threads call add_job while the pool is there, jobs at any time. *)
(* Of a stopped pool it returns false at once.                             *)
AddBegin(c, j) ==
  /\ addAt[c] = "idle"
  /\ Room
  /\ IF c \in Workers THEN at[c] = "run" ELSE ownerAt = "up"
  /\ ~InUse(j)
  /\ running
  /\ AddGoes(c, "limit")
  /\ addJob' = [addJob EXCEPT ![c] = j]
  /\ UNCHANGED <<running, jobs, workerVars, listVars, ownerAt, checkVars>>

(* m_queue.out_of_limit(), without the queue's mutex.                      *)
AddLimit(c) ==
  /\ addAt[c] = "limit"
  /\ \/ ~OutOfLimit /\ AddGoes(c, "add") /\ UNCHANGED addJob
     \/ OutOfLimit /\ AddGoes(c, "idle") /\ addJob' = [addJob EXCEPT ![c] = None]
  /\ UNCHANGED <<running, jobs, workerVars, listVars, ownerAt, checkVars>>

(* Mutant of AddQueue: the newest job is put in front.                     *)
QueuesInFront(c) ==
  /\ addAt[c] = "add"
  /\ jobs' = <<addJob[c]>> \o jobs
  /\ AddGoes(c, "notify")
  /\ addJob' = [addJob EXCEPT ![c] = None]
  /\ UNCHANGED <<running, workerVars, listVars, ownerAt, checkVars>>

(* m_queue.add: emplace_back under the queue's mutex, which it releases    *)
(* before it notifies.                                                     *)
AddQueue(c) ==
  /\ addAt[c] = "add"
  /\ jobs' = Append(jobs, addJob[c])
  /\ AddGoes(c, "notify")
  /\ addJob' = [addJob EXCEPT ![c] = None]
  /\ UNCHANGED <<running, workerVars, listVars, ownerAt, checkVars>>

(* Mutant of AddNotify: it notifies only when the queue holds one job.     *)
NotifiesFirstOnly(c) ==
  /\ addAt[c] = "notify"
  /\ \/ (Asleep = {} \/ Len(jobs) > 1) /\ UNCHANGED woken
     \/ \E w \in Asleep : Len(jobs) <= 1 /\ woken' = woken \cup {w}
  /\ AddGoes(c, "decide")
  /\ UNCHANGED <<running, jobs, at, job, current, listVars, addJob, ownerAt, checkVars>>

AddNotify(c) ==
  /\ addAt[c] = "notify"
  /\ \/ Asleep = {} /\ UNCHANGED woken
     \/ \E w \in Asleep : woken' = woken \cup {w}
  /\ AddGoes(c, "decide")
  /\ UNCHANGED <<running, jobs, at, job, current, listVars, addJob, ownerAt, checkVars>>

(* Below the minimum, or over the threshold and below the maximum?  Three  *)
(* reads one after the other.                                              *)
AddDecide(c) ==
  /\ \/ addAt[c] = "decide"    /\ AddGoes(c, IF MustCreate THEN "create" ELSE "threshold")
     \/ addAt[c] = "threshold" /\ AddGoes(c, IF OutOfThreshold THEN "maximum" ELSE "check")
     \/ addAt[c] = "maximum"   /\ AddGoes(c, IF current < Max THEN "create" ELSE "check")
  /\ UNCHANGED <<running, jobs, workerVars, listVars, addJob, ownerAt, checkVars>>

(* Mutant of AddCreate: tries the mutex, and does without a new thread.    *)
CreatesIfFree(c) ==
  /\ addAt[c] = "create"
  /\ \/ Create
     \/ lock # None /\ UNCHANGED <<workerVars, listVars>>
  /\ AddGoes(c, "check")
  /\ UNCHANGED <<running, jobs, addJob, ownerAt, checkVars>>

AddCreate(c) ==
  /\ addAt[c] = "create"
  /\ Create
  /\ AddGoes(c, "check")
  /\ UNCHANGED <<running, jobs, addJob, ownerAt, checkVars>>

(* thread(check_exits).detach(), if it is time for one.                    *)
AddEnd(c) ==
  /\ addAt[c] = "check"
  /\ AddGoes(c, "idle")
  /\ \/ \E k \in Checkers :
          /\ found[k] = None /\ k \notin launched
          /\ launched' = launched \cup {k}
     \/ UNCHANGED launched
  /\ UNCHANGED <<running, jobs, workerVars, listVars, addJob, ownerAt, found>>

-----------------------------------------------------------------------------
(* worker_thread *)

Goes(w, to) == at' = [at EXCEPT ![w] = to]

(* m_policy.on_thread_start().                                             *)
Begin(w) ==
  /\ at[w] = "new"
  /\ Goes(w, "loop")
  /\ current' = current + 1
  /\ UNCHANGED <<running, jobs, job, woken, listVars, addVars, ownerAt, checkVars>>

(* Mutant of Loop: m_running is not looked at again.                       *)
LoopsForEver(w) ==
  /\ at[w] = "loop"
  /\ Goes(w, "get")
  /\ UNCHANGED <<running, jobs, job, woken, current, listVars, addVars, ownerAt, checkVars>>

(* while(work && m_running).                                               *)
Loop(w) ==
  /\ at[w] = "loop"
  /\ Goes(w, IF running THEN "get" ELSE "leave")
  /\ UNCHANGED <<running, jobs, job, woken, current, listVars, addVars, ownerAt, checkVars>>

TakeFirst(w) ==
  /\ jobs # <<>>
  /\ job' = [job EXCEPT ![w] = Head(jobs)]
  /\ jobs' = Tail(jobs)
  /\ Goes(w, "run")

(* get(): the first job, or wait_for, which releases the queue's mutex.    *)
Get(w) ==
  /\ at[w] = "get"
  /\ \/ TakeFirst(w)
     \/ jobs = <<>> /\ Goes(w, "wait") /\ UNCHANGED <<job, jobs>>
  /\ UNCHANGED <<running, woken, current, listVars, addVars, ownerAt, checkVars>>

(* wait_for returns, notified or not, with the queue's mutex.              *)
Wake(w) ==
  /\ at[w] = "wait"
  /\ woken' = woken \ {w}
  /\ \/ TakeFirst(w)
     \/ jobs = <<>> /\ Goes(w, "judge") /\ UNCHANGED <<job, jobs>>
  /\ UNCHANGED <<running, current, listVars, addVars, ownerAt, checkVars>>

(* The job returns, and with it every add_job it called.                   *)
EndJob(w) ==
  /\ at[w] = "run"
  /\ addAt[w] = "idle"
  /\ Goes(w, "loop")
  /\ job' = [job EXCEPT ![w] = None]
  /\ UNCHANGED <<running, jobs, woken, current, listVars, addVars, ownerAt, checkVars>>

(* apply_for_destory_thread: above the maximum yes, at the minimum no,     *)
(* and in between when it has been idle for long enough.                   *)
Judge(w) ==
  /\ at[w] = "judge"
  /\ \/ current > Min /\ Goes(w, "leave")
     \/ current <= Max /\ Goes(w, "loop")
  /\ UNCHANGED <<running, jobs, job, woken, current, listVars, addVars, ownerAt, checkVars>>

(* Mutant of Leave: on_thread_exit is not called.                          *)
LeavesUncounted(w) ==
  /\ at[w] = "leave"
  /\ Goes(w, "report")
  /\ UNCHANGED <<running, jobs, current, job, woken, listVars, addVars, ownerAt, checkVars>>

(* m_policy.on_thread_exit().                                              *)
Leave(w) ==
  /\ at[w] = "leave"
  /\ Goes(w, "report")
  /\ current' = current - 1
  /\ UNCHANGED <<running, jobs, job, woken, listVars, addVars, ownerAt, checkVars>>

(* m_exits.push_back, and the thread's function returns.                   *)
Report(w) ==
  /\ at[w] = "report"
  /\ Goes(w, "gone")
  /\ exits' = exits \cup {w}
  /\ UNCHANGED <<running, jobs, job, woken, current, threads, lock, addVars, ownerAt, checkVars>>

-----------------------------------------------------------------------------
(* check_exits begins: it swaps m_exits with its own empty vector, under   *)
(* m_exits_mutex, at any time after its launch, be it during or after the  *)
(* destructor.  What such a late thread does with the pool is undefined in *)
(* C++: join clears m_exits without that mutex, and afterwards the pool is *)
(* destroyed.  Here the two accesses take place in either order.           *)
Swap(k) ==
  /\ k \in launched
  /\ launched' = launched \ {k}
  /\ found' = [found EXCEPT ![k] = exits]
  /\ exits' = {}
  /\ UNCHANGED <<running, jobs, workerVars, threads, lock, addVars, ownerAt>>

(* Mutant of Reap: it tries the mutex, and drops the id if it is taken.    *)
ReapsIfFree(k) ==
  /\ found[k] # None
  /\ \/ /\ found[k] = {}
        /\ found' = [found EXCEPT ![k] = None]
        /\ UNCHANGED <<at, threads>>
     \/ \E w \in found[k] :
          /\ w \in threads => at[w] = "gone"
          /\ found' = [found EXCEPT ![k] = @ \ {w}]
          /\ threads' = IF lock = None THEN threads \ {w} ELSE threads
          /\ at' = [at EXCEPT ![w] = IF lock = None /\ w \in threads THEN "none" ELSE @]
  /\ UNCHANGED <<running, jobs, job, woken, current, exits, lock, addVars, ownerAt, launched>>

(* Then each of the ids is looked up in m_threads, its thread joined and    *)
(* removed, under m_threads_mutex.                                          *)
Reap(k) ==
  /\ found[k] # None
  /\ \/ /\ found[k] = {}
        /\ found' = [found EXCEPT ![k] = None]
        /\ UNCHANGED <<at, threads>>
     \/ \E w \in found[k] :
          /\ lock = None
          /\ w \in threads => at[w] = "gone"
          /\ found' = [found EXCEPT ![k] = @ \ {w}]
          /\ threads' = threads \ {w}
          /\ at' = [at EXCEPT ![w] = IF w \in threads THEN "none" ELSE @]
  /\ UNCHANGED <<running, jobs, job, woken, current, exits, lock, addVars, ownerAt, launched>>

-----------------------------------------------------------------------------
(* The destructor.  It is called when no thread from outside is in add_job. *)

Stop ==
  /\ ownerAt = "up"
  /\ \A c \in Callers : addAt[c] = "idle"
  /\ running' = FALSE
  /\ ownerAt' = "clear"
  /\ UNCHANGED <<jobs, workerVars, listVars, addVars, checkVars>>

(* m_queue.clear(): the deque under the queue's mutex, then notify_all.    *)
Clear ==
  /\ ownerAt = "clear"
  /\ jobs' = <<>>
  /\ ownerAt' = "notify"
  /\ UNCHANGED <<running, workerVars, listVars, addVars, checkVars>>

NotifyAll ==
  /\ ownerAt = "notify"
  /\ woken' = woken \cup Asleep
  /\ ownerAt' = "join"
  /\ UNCHANGED <<running, jobs, at, job, current, listVars, addVars, checkVars>>

(* join() takes m_threads_mutex and keeps it while it joins every thread.  *)
JoinBegin ==
  /\ ownerAt = "join"
  /\ lock = None
  /\ lock' = Owner
  /\ ownerAt' = "joining"
  /\ UNCHANGED <<running, jobs, workerVars, threads, exits, addVars, checkVars>>

JoinEnd ==
  /\ ownerAt = "joining"
  /\ \A w \in threads : at[w] = "gone"
  /\ at' = [w \in Workers |-> IF w \in threads THEN "none" ELSE at[w]]
  /\ threads' = {}
  /\ exits' = {}
  /\ lock' = None
  /\ ownerAt' = "down"
  /\ UNCHANGED <<running, jobs, job, woken, current, addVars, checkVars>>

-----------------------------------------------------------------------------
OwnerStep ==
  StartLooks \/ StartCreates \/ Clear \/ NotifyAll \/ JoinBegin \/ JoinEnd

AddStep(c) ==
  AddLimit(c) \/ AddQueue(c) \/ AddNotify(c) \/ AddDecide(c) \/ AddCreate(c) \/ AddEnd(c)

WorkerStep(w) ==
  Begin(w) \/ Loop(w) \/ Get(w) \/ Wake(w) \/ EndJob(w) \/ Judge(w) \/ Leave(w) \/ Report(w)

Next ==
  \/ OwnerStep \/ Stop
  \/ \E c \in Adders : AddStep(c) \/ \E j \in Jobs : AddBegin(c, j)
  \/ \E w \in Workers : WorkerStep(w)
  \/ \E k \in Checkers : Swap(k) \/ Reap(k)

Spec == Init /\ [][Next]_vars

(* Every thread runs when it can, waits end by time at the latest, and     *)
(* jobs return; while the pool runs they may do so as late as they like.   *)
Fairness ==
  /\ WF_vars(OwnerStep)
  /\ \A c \in Adders : WF_vars(AddStep(c))
  /\ \A w \in Workers : WF_vars(WorkerStep(w))
  /\ \A k \in Checkers : WF_vars(Swap(k) \/ Reap(k))

FairSpec == Spec /\ Fairness

-----------------------------------------------------------------------------
(* Properties *)

(* The types, and m_current counts the workers between their first and     *)
(* last step.                                                              *)
Shape ==
  /\ running \in BOOLEAN
  /\ jobs \in Seq(Jobs)
  /\ at \in [Workers -> {"none", "new", "loop", "get", "wait", "run", "judge",
                         "leave", "report", "gone"}]
  /\ job \in [Workers -> Jobs \cup {None}]
  /\ \A w \in Workers : at[w] = "run" <=> job[w] # None
  /\ woken \subseteq {w \in Workers : at[w] = "wait"}
  /\ threads \subseteq Workers /\ exits \subseteq Workers
  /\ lock \in {None, Owner}
  /\ addAt \in [Adders -> {"idle", "limit", "add", "notify", "decide", "threshold",
                          "maximum", "create", "check"}]
  /\ addJob \in [Adders -> Jobs \cup {None}]
  /\ ownerAt \in {"start", "create", "up", "clear", "notify", "join", "joining", "down"}
  /\ launched \subseteq {k \in Checkers : found[k] = None}
  /\ found \in [Checkers -> {None} \cup SUBSET Workers]

Counted == current = Cardinality({w \in Workers : Live(w)})

PoolTypeOK == Shape /\ Counted

(* No worker sleeps while there is work that nobody was woken for: as long *)
(* as one is asleep, each queued job has a worker that was notified of it, *)
(* or will be by the call that queued it.                                  *)
NoSleepOnWork ==
  Asleep # {} =>
    Len(jobs) <= Cardinality(woken) + Cardinality({c \in Adders : addAt[c] = "notify"})

(* While the pool is up, m_exits and the check_exits threads together know *)
(* exactly the threads that have returned and are not joined: none is      *)
(* forgotten, none is looked for in vain.                                  *)
ExitsExact ==
  ownerAt # "down" =>
    exits \cup UNION {found[k] : k \in {c \in Checkers : found[c] # None}}
      = {w \in threads : at[w] = "gone"}

(* When the destructor has returned, no worker runs any more or is still to *)
(* start, and nobody is in add_job or comes back to it.  Whatever still     *)
(* happens is done by the check_exits threads, which nobody waits for and   *)
(* which use the destroyed pool.                                            *)
OnlyChecksOutlive == [][ownerAt = "down" => \E k \in Checkers : Swap(k) \/ Reap(k)]_vars

(* join waits for a worker whose job is in add_job, waiting for the mutex  *)
(* that join holds.                                                        *)
JoinBlocked == ownerAt = "joining" /\ \E w \in threads : addAt[w] = "create"

(* From that there is no way out.                                          *)
JoinBlockedForGood == [][JoinBlocked => JoinBlocked']_vars

(* Otherwise the destructor returns, even if a worker slept through the    *)
(* notification of stop.                                                   *)
JoinReturns == ownerAt = "clear" ~> ownerAt = "down" \/ JoinBlocked

(* Nobody is left who would look at the queue, or who would create such a  *)
(* worker: the workers found themselves idle at the same time, each saw    *)
(* the others still counted, and add_job saw all of them.                  *)
Deserted ==
  /\ \A w \in Workers : at[w] \in {"none", "leave", "report", "gone"}
  /\ \A c \in Adders : addAt[c] \in {"idle", "limit", "add", "check"}

(* While the pool runs, every accepted job is started in the end, however  *)
(* many come after it, unless the workers desert it.                       *)
Waiting(j) == \E i \in DOMAIN jobs : jobs[i] = j

JobsStart ==
  \A j \in Jobs : Waiting(j) /\ running ~> ~Waiting(j) \/ Deserted \/ ~running

(* Jobs are started in the order in which they were accepted, once each.   *)
Active == {job[w] : w \in {v \in Workers : job[v] # None}}
Closed == ownerAt \in {"notify", "join", "joining", "down"}

Pool == INSTANCE JobPool WITH waiting <- jobs, active <- Active, closed <- Closed

ImplementsJobPool == Pool!Spec

=============================================================================
