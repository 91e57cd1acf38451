-------------------------- MODULE ThreadPoolProofs ---------------------------
(***************************************************************************)
(* What holds of ThreadPool for every number of workers, callers, jobs and *)
(* check_exits threads, and for every policy.                              *)
(***************************************************************************)
EXTENDS ThreadPool, FiniteSetTheorems, TLAPS

(* How the places where threads are depend on one another: a worker is in  *)
(* m_threads from its creation until it is joined; add_job is called from  *)
(* outside while the pool is up and from jobs that run; the mutex is kept  *)
(* by join.                                                                *)
Control ==
  /\ threads = {w \in Workers : at[w] # "none"}
  /\ lock = Owner <=> ownerAt = "joining"
  /\ \A c \in Adders : addJob[c] # None <=> addAt[c] \in {"limit", "add"}
  /\ \A w \in Workers : addAt[w] # "idle" => at[w] = "run"
  /\ ownerAt # "up" => \A c \in Callers : addAt[c] = "idle"
  /\ ownerAt = "down" => threads = {}

ControlInv == Shape /\ Control

(* A check_exits thread holds a set of workers.                            *)
LEMMA FoundWorkers ==
  ASSUME found \in [Checkers -> {None} \cup SUBSET Workers],
         NEW k \in Checkers, found[k] # None
  PROVE  found[k] \in SUBSET Workers
<1>1. found[k] \in {None} \cup SUBSET Workers
  OBVIOUS
<1>. QED
  BY <1>1

LEMMA ControlInit == Init => ControlInv
<1>. SUFFICES ASSUME Init PROVE ControlInv
  OBVIOUS
<1>1. Shape
  <2>1. found \in [Checkers -> {None} \cup SUBSET Workers]
    BY DEF Init
  <2>2. jobs \in Seq(Jobs) /\ woken \subseteq {w \in Workers : at[w] = "wait"}
    BY DEF Init
  <2>. QED
    BY <2>1, <2>2, ThreadPoolAssumption DEF Init, Shape, Adders
<1>2. Control
  BY ThreadPoolAssumption DEF Init, Control, Adders
<1>. QED
  BY <1>1, <1>2 DEF ControlInv

LEMMA ControlStep == ControlInv /\ [Next]_vars => ControlInv'
<1>. SUFFICES ASSUME ControlInv, [Next]_vars PROVE ControlInv'
  OBVIOUS
<1>. USE ThreadPoolAssumption
     DEF ControlInv, Shape, Control, Adders, workerVars, listVars, addVars, checkVars,
         Goes, AddGoes, Create, TakeFirst
<1>1. CASE StartLooks
  BY <1>1 DEF StartLooks
<1>2. CASE StartCreates
  BY <1>2 DEF StartCreates
<1>3. CASE Clear
  BY <1>3 DEF Clear
<1>4. CASE NotifyAll
  BY <1>4 DEF NotifyAll, Asleep
<1>5. CASE JoinBegin
  BY <1>5 DEF JoinBegin
<1>6. CASE JoinEnd
  BY <1>6 DEF JoinEnd
<1>7. CASE Stop
  <2>1. Shape'
    BY <1>7 DEF Stop
  <2>2. Control'
    BY <1>7 DEF Stop
  <2>. QED
    BY <2>1, <2>2
<1>8. ASSUME NEW c \in Adders, AddLimit(c) PROVE ControlInv'
  BY <1>8 DEF AddLimit
<1>9. ASSUME NEW c \in Adders, AddQueue(c) PROVE ControlInv'
  BY <1>9 DEF AddQueue
<1>10. ASSUME NEW c \in Adders, AddNotify(c) PROVE ControlInv'
  BY <1>10 DEF AddNotify, Asleep
<1>11. ASSUME NEW c \in Adders, AddDecide(c) PROVE ControlInv'
  BY <1>11 DEF AddDecide
<1>12. ASSUME NEW c \in Adders, AddCreate(c) PROVE ControlInv'
  BY <1>12 DEF AddCreate
<1>13. ASSUME NEW c \in Adders, AddEnd(c) PROVE ControlInv'
  <2>1. Shape'
    BY <1>13 DEF AddEnd
  <2>2. Control'
    BY <1>13 DEF AddEnd
  <2>. QED
    BY <2>1, <2>2
<1>14. ASSUME NEW c \in Adders, NEW j \in Jobs, AddBegin(c, j) PROVE ControlInv'
  BY <1>14 DEF AddBegin
<1>15. ASSUME NEW w \in Workers, Begin(w) PROVE ControlInv'
  BY <1>15 DEF Begin
<1>16. ASSUME NEW w \in Workers, Loop(w) PROVE ControlInv'
  BY <1>16 DEF Loop
<1>17. ASSUME NEW w \in Workers, Get(w) PROVE ControlInv'
  <2>1. CASE TakeFirst(w)
    <3>1. Head(jobs) \in Jobs /\ Tail(jobs) \in Seq(Jobs)
      BY <2>1
    <3>. QED
      BY <1>17, <2>1, <3>1 DEF Get
  <2>2. CASE jobs = <<>>
    BY <1>17, <2>2 DEF Get
  <2>. QED
    BY <1>17, <2>1, <2>2 DEF Get
<1>18. ASSUME NEW w \in Workers, Wake(w) PROVE ControlInv'
  <2>1. CASE TakeFirst(w)
    <3>1. Head(jobs) \in Jobs /\ Tail(jobs) \in Seq(Jobs)
      BY <2>1
    <3>. QED
      BY <1>18, <2>1, <3>1 DEF Wake
  <2>2. CASE jobs = <<>>
    BY <1>18, <2>2 DEF Wake
  <2>. QED
    BY <1>18, <2>1, <2>2 DEF Wake
<1>19. ASSUME NEW w \in Workers, EndJob(w) PROVE ControlInv'
  BY <1>19 DEF EndJob
<1>20. ASSUME NEW w \in Workers, Judge(w) PROVE ControlInv'
  BY <1>20 DEF Judge
<1>21. ASSUME NEW w \in Workers, Leave(w) PROVE ControlInv'
  BY <1>21 DEF Leave
<1>22. ASSUME NEW w \in Workers, Report(w) PROVE ControlInv'
  BY <1>22 DEF Report
<1>23. ASSUME NEW k \in Checkers, Reap(k) PROVE ControlInv'
  <2>1. CASE found[k] = {} /\ found' = [found EXCEPT ![k] = None] /\ UNCHANGED <<at, threads>>
    <3>1. found' \in [Checkers -> {None} \cup SUBSET Workers]
      BY <2>1
    <3>. QED
      BY <1>23, <2>1, <3>1 DEF Reap
  <2>2. ASSUME NEW w \in found[k],
               w \in threads => at[w] = "gone",
               found' = [found EXCEPT ![k] = @ \ {w}],
               threads' = threads \ {w},
               at' = [at EXCEPT ![w] = IF w \in threads THEN "none" ELSE @]
        PROVE  ControlInv'
    <3>1. found[k] \in SUBSET Workers
      BY <1>23, FoundWorkers DEF Reap
    <3>2. Shape'
      BY <1>23, <2>2, <3>1 DEF Reap
    <3>3. Control'
      BY <1>23, <2>2, <3>1 DEF Reap
    <3>. QED
      BY <3>2, <3>3
  <2>. QED
    BY <1>23, <2>1, <2>2 DEF Reap
<1>24. ASSUME NEW k \in Checkers, Swap(k) PROVE ControlInv'
  <2>1. Shape'
    <3>1. found' \in [Checkers -> {None} \cup SUBSET Workers] /\ exits' \subseteq Workers
      BY <1>24 DEF Swap
    <3>2. launched' \subseteq {l \in Checkers : found'[l] = None}
      BY <1>24 DEF Swap
    <3>. QED
      BY <1>24, <3>1, <3>2 DEF Swap
  <2>2. Control'
    BY <1>24 DEF Swap
  <2>. QED
    BY <2>1, <2>2
<1>25. CASE UNCHANGED vars
  BY <1>25 DEF vars
<1>. QED
  BY <1>1, <1>2, <1>3, <1>4, <1>5, <1>6, <1>7, <1>8, <1>9, <1>10, <1>11, <1>12,
     <1>13, <1>14, <1>15, <1>16, <1>17, <1>18, <1>19, <1>20, <1>21, <1>22, <1>23,
     <1>24, <1>25
  DEF Next, OwnerStep, AddStep, WorkerStep

LEMMA ControlAlways == Spec => []ControlInv
  BY ControlInit, ControlStep, PTL DEF Spec

-----------------------------------------------------------------------------
(* The counter.  Only Begin and Leave change it, and they alone let a      *)
(* worker come to life or end.                                             *)
LiveWorkers == {w \in Workers : Live(w)}

LEMMA CountInit == Init => Counted
<1>. SUFFICES ASSUME Init PROVE Counted
  OBVIOUS
<1>1. LiveWorkers = {}
  BY DEF Init, LiveWorkers, Live
<1>. QED
  BY <1>1, FS_EmptySet DEF Init, Counted, LiveWorkers

LEMMA CountKept ==
  ASSUME Counted, current' = current, \A w \in Workers : Live(w)' <=> Live(w)
  PROVE  Counted'
<1>1. LiveWorkers' = LiveWorkers
  BY DEF LiveWorkers
<1>. QED
  BY <1>1 DEF Counted, LiveWorkers

LEMMA CountBegin ==
  ASSUME ControlInv, Counted, NEW w \in Workers, Begin(w)
  PROVE  Counted'
<1>1. LiveWorkers' = LiveWorkers \cup {w} /\ w \notin LiveWorkers
  BY DEF Begin, Goes, ControlInv, Shape, LiveWorkers, Live
<1>2. IsFiniteSet(LiveWorkers)
  BY ThreadPoolAssumption, FS_Subset DEF LiveWorkers
<1>3. Cardinality(LiveWorkers') = Cardinality(LiveWorkers) + 1
  BY <1>1, <1>2, FS_AddElement
<1>. QED
  BY <1>3 DEF Begin, Counted, LiveWorkers

LEMMA CountLeave ==
  ASSUME ControlInv, Counted, NEW w \in Workers, Leave(w)
  PROVE  Counted'
<1>1. LiveWorkers' = LiveWorkers \ {w} /\ w \in LiveWorkers
  BY DEF Leave, Goes, ControlInv, Shape, LiveWorkers, Live
<1>2. IsFiniteSet(LiveWorkers)
  BY ThreadPoolAssumption, FS_Subset DEF LiveWorkers
<1>3. Cardinality(LiveWorkers') = Cardinality(LiveWorkers) - 1
  BY <1>1, <1>2, FS_RemoveElement
<1>. QED
  BY <1>3 DEF Leave, Counted, LiveWorkers

LEMMA CountStep == ControlInv /\ Counted /\ [Next]_vars => Counted'
<1>. SUFFICES ASSUME ControlInv, Counted, [Next]_vars PROVE Counted'
  OBVIOUS
<1>. USE DEF ControlInv, Shape, Control, workerVars, listVars, checkVars, Goes, Create, TakeFirst, Live
<1>1. CASE StartCreates \/ \E c \in Adders : AddCreate(c)
  BY <1>1, CountKept DEF StartCreates, AddCreate
<1>2. CASE JoinEnd
  BY <1>2, CountKept DEF JoinEnd
<1>3. CASE StartLooks \/ Clear \/ NotifyAll \/ JoinBegin \/ Stop
  BY <1>3, CountKept DEF StartLooks, Clear, NotifyAll, JoinBegin, Stop
<1>4. ASSUME NEW c \in Adders,
             \/ AddLimit(c) \/ AddQueue(c) \/ AddNotify(c) \/ AddDecide(c) \/ AddEnd(c)
             \/ \E j \in Jobs : AddBegin(c, j)
      PROVE  Counted'
  BY <1>4, CountKept DEF AddLimit, AddQueue, AddNotify, AddDecide, AddEnd, AddBegin
<1>5. ASSUME NEW w \in Workers,
             Loop(w) \/ Get(w) \/ Wake(w) \/ EndJob(w) \/ Judge(w) \/ Report(w)
      PROVE  Counted'
  <2>1. current' = current
    BY <1>5 DEF Loop, Get, Wake, EndJob, Judge, Report
  <2>2. \A v \in Workers : Live(v)' <=> Live(v)
    BY <1>5 DEF Loop, Get, Wake, EndJob, Judge, Report
  <2>. QED
    BY <2>1, <2>2, CountKept
<1>6. ASSUME NEW k \in Checkers, Swap(k) \/ Reap(k) PROVE Counted'
  BY <1>6, CountKept DEF Swap, Reap
<1>7. CASE UNCHANGED vars
  BY <1>7, CountKept DEF vars
<1>. QED
  BY <1>1, <1>2, <1>3, <1>4, <1>5, <1>6, <1>7, CountBegin, CountLeave
  DEF Next, OwnerStep, AddStep, WorkerStep

(* The types, and m_current is the number of workers between their first   *)
(* and last step, although start and add_job act on it before it is true.  *)
THEOREM PoolTypeCorrect == Spec => []PoolTypeOK
<1>1. ControlInv /\ Counted => PoolTypeOK
  BY DEF ControlInv, PoolTypeOK
<1>. QED
  BY CountInit, CountStep, ControlAlways, <1>1, PTL DEF Spec

-----------------------------------------------------------------------------
(* From a join that waits for a worker which waits for the mutex there is  *)
(* no way out: neither can take its next step.                             *)
THEOREM JoinBlockIsFinal == Spec => JoinBlockedForGood
<1>1. ControlInv /\ [Next]_vars => (JoinBlocked => JoinBlocked')
  <2>. SUFFICES ASSUME ControlInv, [Next]_vars, ownerAt = "joining",
                       NEW v \in threads, addAt[v] = "create"
                PROVE  JoinBlocked'
    BY DEF JoinBlocked
  <2>. USE DEF ControlInv, Shape, Control, workerVars, listVars, addVars
  <2>1. lock # None /\ v \in Adders /\ v \in Workers /\ at[v] = "run"
    BY ThreadPoolAssumption DEF Adders
  <2>2. ownerAt' = "joining" /\ addAt'[v] = "create" /\ threads' = threads
    <3>1. CASE OwnerStep \/ Stop
      BY <3>1, <2>1 DEF OwnerStep, Stop, StartLooks, StartCreates, Create, Clear,
         NotifyAll, JoinBegin, JoinEnd
    <3>2. ASSUME NEW c \in Adders, AddStep(c) \/ \E j \in Jobs : AddBegin(c, j)
          PROVE  ownerAt' = "joining" /\ addAt'[v] = "create" /\ threads' = threads
      <4>1. ~AddCreate(c)
        BY <2>1 DEF AddCreate, Create
      <4>2. CASE AddLimit(c) \/ AddQueue(c) \/ AddNotify(c)
        BY <4>2, <2>1 DEF AddLimit, AddQueue, AddNotify, AddGoes
      <4>3. CASE AddDecide(c)
        BY <4>3, <2>1 DEF AddDecide, AddGoes
      <4>4. CASE AddEnd(c) \/ \E j \in Jobs : AddBegin(c, j)
        BY <4>4, <2>1 DEF AddEnd, AddBegin, AddGoes
      <4>. QED
        BY <3>2, <4>1, <4>2, <4>3, <4>4 DEF AddStep
    <3>3. ASSUME NEW w \in Workers, WorkerStep(w)
          PROVE  ownerAt' = "joining" /\ addAt'[v] = "create" /\ threads' = threads
      BY <3>3 DEF WorkerStep, Begin, Loop, Get, Wake, EndJob, Judge, Leave, Report
    <3>4. ASSUME NEW k \in Checkers, Swap(k) \/ Reap(k)
          PROVE  ownerAt' = "joining" /\ addAt'[v] = "create" /\ threads' = threads
      BY <3>4, <2>1 DEF Swap, Reap
    <3>5. CASE UNCHANGED vars
      BY <3>5 DEF vars
    <3>. QED
      BY <3>1, <3>2, <3>3, <3>4, <3>5 DEF Next
  <2>. QED
    BY <2>2 DEF JoinBlocked
<1>. QED
  BY <1>1, ControlAlways, PTL DEF Spec, JoinBlockedForGood

(* When the destructor has returned, no worker runs or is still to start,  *)
(* and nobody is in add_job or comes back to it: only check_exits threads  *)
(* take further steps.                                                     *)
THEOREM OnlyChecksAreLeft == Spec => OnlyChecksOutlive
<1>1. ControlInv /\ [Next]_vars
        => (ownerAt = "down" => (\E k \in Checkers : Swap(k) \/ Reap(k)) \/ UNCHANGED vars)
  <2>. SUFFICES ASSUME ControlInv, Next, ownerAt = "down"
                PROVE  \E k \in Checkers : Swap(k) \/ Reap(k)
    OBVIOUS
  <2>1. /\ \A w \in Workers : at[w] = "none"
        /\ \A c \in Adders : addAt[c] = "idle"
    BY DEF ControlInv, Control, Adders
  <2>2. ~OwnerStep /\ ~Stop
    BY DEF OwnerStep, Stop, StartLooks, StartCreates, Clear, NotifyAll, JoinBegin, JoinEnd
  <2>3. \A c \in Adders : ~AddStep(c) /\ \A j \in Jobs : ~AddBegin(c, j)
    BY <2>1 DEF AddStep, AddLimit, AddQueue, AddNotify, AddDecide, AddCreate, AddEnd,
       AddBegin
  <2>4. \A w \in Workers : ~WorkerStep(w)
    BY <2>1 DEF WorkerStep, Begin, Loop, Get, Wake, EndJob, Judge, Leave, Report
  <2>. QED
    BY <2>2, <2>3, <2>4 DEF Next
<1>. QED
  BY <1>1, ControlAlways, PTL DEF Spec, OnlyChecksOutlive

-----------------------------------------------------------------------------
(* m_exits and the lists of the check_exits threads.  That they hold the   *)
(* threads that have returned is kept by each step only because no thread  *)
(* is in two of them.                                                      *)
Noted(w) == w \in exits \/ \E k \in Checkers : found[k] # None /\ w \in found[k]

NotedOnce ==
  /\ \A k \in Checkers : found[k] # None => found[k] \cap exits = {}
  /\ \A k, l \in Checkers :
       found[k] # None /\ found[l] # None /\ k # l => found[k] \cap found[l] = {}

NotedExactly == ownerAt # "down" => \A w \in Workers : Noted(w) <=> at[w] = "gone"

ExitsInv == NotedOnce /\ NotedExactly

LEMMA ExitsInit == Init => ExitsInv
  BY DEF Init, ExitsInv, NotedOnce, NotedExactly, Noted

(* Most steps touch no list and let no thread return.                      *)
LEMMA ExitsKept ==
  ASSUME ExitsInv, exits' = exits, found' = found,
         ownerAt' # "down" => ownerAt # "down",
         \A w \in Workers : at'[w] = "gone" <=> at[w] = "gone"
  PROVE  ExitsInv'
<1>1. NotedOnce'
  BY DEF ExitsInv, NotedOnce
<1>2. \A w : Noted(w)' <=> Noted(w)
  BY DEF Noted
<1>3. NotedExactly'
  BY <1>2 DEF ExitsInv, NotedExactly
<1>. QED
  BY <1>1, <1>3 DEF ExitsInv

LEMMA ExitsSwap ==
  ASSUME ControlInv, ExitsInv, NEW k \in Checkers, Swap(k)
  PROVE  ExitsInv'
<1>. USE DEF ControlInv, Shape, workerVars, Swap
<1>1. found[k] = None
  OBVIOUS
<1>2. NotedOnce'
  BY <1>1 DEF ExitsInv, NotedOnce
<1>3. exits # None
  BY ThreadPoolAssumption
<1>4. \A w : Noted(w)' <=> Noted(w)
  BY <1>1, <1>3 DEF Noted
<1>. QED
  BY <1>2, <1>4 DEF ExitsInv, NotedExactly

LEMMA ExitsReport ==
  ASSUME ControlInv, ExitsInv, NEW v \in Workers, Report(v)
  PROVE  ExitsInv'
<1>. USE DEF ControlInv, Shape, Control, checkVars, Report, Goes, ExitsInv
<1>1. at[v] = "report" /\ ownerAt # "down"
  OBVIOUS
<1>2. ~Noted(v)
  BY <1>1 DEF NotedExactly
<1>3. NotedOnce'
  BY <1>2 DEF NotedOnce, Noted
<1>4. \A w : Noted(w)' <=> Noted(w) \/ w = v
  BY DEF Noted
<1>. QED
  BY <1>1, <1>3, <1>4 DEF NotedExactly

LEMMA ExitsReap ==
  ASSUME ControlInv, ExitsInv, NEW k \in Checkers, Reap(k)
  PROVE  ExitsInv'
<1>. USE DEF ControlInv, Shape, Control, ExitsInv
<1>1. CASE found[k] = {} /\ found' = [found EXCEPT ![k] = None] /\ UNCHANGED <<at, threads>>
  <2>1. NotedOnce'
    BY <1>1 DEF NotedOnce, Reap
  <2>2. \A w : Noted(w)' <=> Noted(w)
    BY <1>1 DEF Noted, Reap
  <2>. QED
    BY <1>1, <2>1, <2>2 DEF NotedExactly, Reap
<1>2. ASSUME NEW v \in found[k],
             v \in threads => at[v] = "gone",
             found' = [found EXCEPT ![k] = @ \ {v}],
             threads' = threads \ {v},
             at' = [at EXCEPT ![v] = IF v \in threads THEN "none" ELSE @]
      PROVE  ExitsInv'
  <2>1. found[k] # None /\ found[k] \in SUBSET Workers
    BY FoundWorkers DEF Reap
  <2>2. found'[k] # None
    <3>1. found'[k] \in SUBSET Workers
      BY <1>2, <2>1
    <3>. QED
      BY <3>1, ThreadPoolAssumption
  <2>3. NotedOnce'
    BY <1>2, <2>1 DEF NotedOnce, Reap
  <2>4. \A w \in Workers : Noted(w)' <=> Noted(w) /\ w # v
    BY <1>2, <2>1, <2>2 DEF Noted, NotedOnce, Reap
  <2>5. \A w \in Workers : at'[w] = "gone" <=> at[w] = "gone" /\ w # v
    BY <1>2, <2>1
  <2>. QED
    BY <2>3, <2>4, <2>5 DEF NotedExactly, Reap
<1>. QED
  BY <1>1, <1>2 DEF Reap

LEMMA ExitsStep == ControlInv /\ ExitsInv /\ [Next]_vars => ExitsInv'
<1>. SUFFICES ASSUME ControlInv, ExitsInv, [Next]_vars PROVE ExitsInv'
  OBVIOUS
<1>. USE DEF ControlInv, Shape, Control, workerVars, listVars, checkVars, Goes, Create,
           TakeFirst
<1>1. CASE StartCreates \/ \E c \in Adders : AddCreate(c)
  BY <1>1, ExitsKept DEF StartCreates, AddCreate
<1>2. CASE JoinEnd
  <2>1. found' = found /\ exits' = {} /\ ownerAt' = "down"
    BY <1>2 DEF JoinEnd
  <2>. QED
    BY <2>1 DEF ExitsInv, NotedOnce, NotedExactly
<1>3. CASE StartLooks \/ Clear \/ NotifyAll \/ JoinBegin \/ Stop
  BY <1>3, ExitsKept DEF StartLooks, Clear, NotifyAll, JoinBegin, Stop
<1>4. ASSUME NEW c \in Adders,
             \/ AddLimit(c) \/ AddQueue(c) \/ AddNotify(c) \/ AddDecide(c) \/ AddEnd(c)
             \/ \E j \in Jobs : AddBegin(c, j)
      PROVE  ExitsInv'
  BY <1>4, ExitsKept DEF AddLimit, AddQueue, AddNotify, AddDecide, AddEnd, AddBegin
<1>5. ASSUME NEW w \in Workers,
             Begin(w) \/ Loop(w) \/ Get(w) \/ Wake(w) \/ EndJob(w) \/ Judge(w) \/ Leave(w)
      PROVE  ExitsInv'
  <2>1. exits' = exits /\ found' = found /\ ownerAt' = ownerAt
    BY <1>5 DEF Begin, Loop, Get, Wake, EndJob, Judge, Leave
  <2>2. \A v \in Workers : at'[v] = "gone" <=> at[v] = "gone"
    BY <1>5 DEF Begin, Loop, Get, Wake, EndJob, Judge, Leave
  <2>. QED
    BY <2>1, <2>2, ExitsKept
<1>6. CASE UNCHANGED vars
  BY <1>6, ExitsKept DEF vars
<1>. QED
  BY <1>1, <1>2, <1>3, <1>4, <1>5, <1>6, ExitsSwap, ExitsReport, ExitsReap
  DEF Next, OwnerStep, AddStep, WorkerStep

(* Until the destructor returns, the lists of exits hold exactly the       *)
(* threads that have returned and are still to be joined.                  *)
THEOREM ExitsKnown == Spec => []ExitsExact
<1>1. ControlInv /\ ExitsInv => ExitsExact
  <2>. SUFFICES ASSUME ControlInv, ExitsInv, ownerAt # "down"
                PROVE  exits \cup UNION {found[k] : k \in {c \in Checkers : found[c] # None}}
                         = {w \in threads : at[w] = "gone"}
    BY DEF ExitsExact
  <2>1. exits \cup UNION {found[k] : k \in {c \in Checkers : found[c] # None}}
          = {w \in Workers : Noted(w)}
    <3>1. \A k \in Checkers : found[k] # None => found[k] \subseteq Workers
      BY FoundWorkers DEF ControlInv, Shape
    <3>. QED
      BY <3>1 DEF ControlInv, Shape, Noted
  <2>2. {w \in threads : at[w] = "gone"} = {w \in Workers : at[w] = "gone"}
    BY DEF ControlInv, Control
  <2>. QED
    BY <2>1, <2>2 DEF ExitsInv, NotedExactly
<1>. QED
  BY ExitsInit, ExitsStep, ControlAlways, <1>1, PTL DEF Spec

-----------------------------------------------------------------------------
(* Notifications.  A job is put into the queue together with a call that   *)
(* is going to notify; the call wakes a worker or finds none asleep; and   *)
(* a worker that was woken takes a job or finds none.                      *)
Notifying == {c \in Adders : addAt[c] = "notify"}

LEMMA FiniteParts ==
  ASSUME Shape
  PROVE  /\ IsFiniteSet(woken) /\ IsFiniteSet(Notifying)
         /\ Cardinality(woken) \in Nat /\ Cardinality(Notifying) \in Nat
<1>1. IsFiniteSet(Adders)
  BY ThreadPoolAssumption, FS_Union DEF Adders
<1>2. IsFiniteSet(woken) /\ IsFiniteSet(Notifying)
  BY <1>1, ThreadPoolAssumption, FS_Subset DEF Shape, Notifying
<1>. QED
  BY <1>2, FS_CardinalityType

LEMMA SleepInit == Init => NoSleepOnWork
  BY DEF Init, NoSleepOnWork, Asleep

(* A step that puts nobody to sleep, queues nothing and forgets no         *)
(* notification.                                                           *)
LEMMA SleepKept ==
  ASSUME NoSleepOnWork, Asleep' \subseteq Asleep, jobs' = jobs, woken' = woken,
         Notifying' = Notifying
  PROVE  NoSleepOnWork'
  BY DEF NoSleepOnWork, Notifying

LEMMA SleepNoWork ==
  ASSUME Shape', jobs' = <<>>
  PROVE  NoSleepOnWork'
<1>1. IsFiniteSet(Adders)
  BY ThreadPoolAssumption, FS_Union DEF Adders
<1>2. IsFiniteSet(woken') /\ IsFiniteSet({c \in Adders : addAt'[c] = "notify"})
  BY <1>1, ThreadPoolAssumption, FS_Subset DEF Shape
<1>3. /\ Cardinality(woken') \in Nat
      /\ Cardinality({c \in Adders : addAt'[c] = "notify"}) \in Nat
  BY <1>2, FS_CardinalityType
<1>4. Len(jobs') = 0
  OBVIOUS
<1>. QED
  BY <1>3, <1>4 DEF NoSleepOnWork

LEMMA SleepAddQueue ==
  ASSUME ControlInv, NoSleepOnWork, NEW c \in Adders, AddQueue(c)
  PROVE  NoSleepOnWork'
<1>. USE DEF ControlInv, Shape, workerVars, AddQueue, AddGoes
<1>1. Notifying' = Notifying \cup {c} /\ c \notin Notifying
  BY DEF Notifying
<1>2. Cardinality(Notifying') = Cardinality(Notifying) + 1
  BY <1>1, FiniteParts, FS_AddElement
<1>3. Asleep' = Asleep /\ woken' = woken
  BY DEF Asleep
<1>4. Len(jobs') = Len(jobs) + 1
  OBVIOUS
<1>. QED
  BY <1>2, <1>3, <1>4, FiniteParts DEF NoSleepOnWork, Notifying

LEMMA SleepAddNotify ==
  ASSUME ControlInv, NoSleepOnWork, NEW c \in Adders, AddNotify(c)
  PROVE  NoSleepOnWork'
<1>. USE DEF ControlInv, Shape, AddNotify, AddGoes
<1>1. CASE Asleep = {}
  BY <1>1 DEF NoSleepOnWork, Asleep
<1>2. ASSUME NEW w \in Asleep, woken' = woken \cup {w}
      PROVE  NoSleepOnWork'
  <2>1. Notifying' = Notifying \ {c} /\ c \in Notifying
    BY DEF Notifying
  <2>2. Cardinality(Notifying') = Cardinality(Notifying) - 1
    BY <2>1, FiniteParts, FS_RemoveElement
  <2>3. w \notin woken
    BY DEF Asleep
  <2>4. Cardinality(woken') = Cardinality(woken) + 1
    BY <1>2, <2>3, FiniteParts, FS_AddElement
  <2>5. Len(jobs) \in Nat /\ jobs' = jobs
    OBVIOUS
  <2>. QED
    BY <1>2, <2>2, <2>4, <2>5, FiniteParts DEF NoSleepOnWork, Notifying
<1>. QED
  BY <1>1, <1>2

(* A worker takes a job, woken or not.                                     *)
LEMMA SleepTake ==
  ASSUME ControlInv, NoSleepOnWork, NEW w \in Workers,
         Get(w) \/ Wake(w), TakeFirst(w)
  PROVE  NoSleepOnWork'
<1>. USE DEF ControlInv, Shape, workerVars, addVars, TakeFirst, Goes
<1>1. Len(jobs') = Len(jobs) - 1 /\ Len(jobs) \in Nat
  OBVIOUS
<1>2. Notifying' = Notifying
  BY DEF Get, Wake, Notifying
<1>3. woken' = woken \/ (w \in woken /\ woken' = woken \ {w})
  <2>1. woken' = woken \/ woken' = woken \ {w}
    BY DEF Get, Wake
  <2>. QED
    BY ONLY <2>1
<1>4. Cardinality(woken') \in {Cardinality(woken), Cardinality(woken) - 1}
  BY <1>3, FiniteParts, FS_RemoveElement
<1>5. Asleep' \subseteq Asleep
  BY DEF Get, Wake, Asleep
<1>6. ASSUME Asleep # {}
      PROVE  Len(jobs') <= Cardinality(woken') + Cardinality(Notifying')
  <2>1. Len(jobs) <= Cardinality(woken) + Cardinality(Notifying)
    BY <1>6 DEF NoSleepOnWork, Notifying
  <2>2. Cardinality(Notifying') = Cardinality(Notifying)
    BY <1>2
  <2>3. Cardinality(woken) \in Nat /\ Cardinality(Notifying) \in Nat
    BY FiniteParts
  <2>. QED
    BY ONLY <1>1, <1>4, <2>1, <2>2, <2>3
<1>. QED
  BY <1>5, <1>6 DEF NoSleepOnWork, Notifying

LEMMA SleepStep == ControlInv /\ ControlInv' /\ NoSleepOnWork /\ [Next]_vars => NoSleepOnWork'
<1>. SUFFICES ASSUME ControlInv, ControlInv', NoSleepOnWork, [Next]_vars
              PROVE  NoSleepOnWork'
  OBVIOUS
<1>0. Shape'
  BY DEF ControlInv
<1>. USE DEF Goes, AddGoes, workerVars, addVars, listVars, checkVars
<1>1. CASE StartCreates
  BY <1>1, SleepKept DEF StartCreates, Create, Asleep, Notifying, ControlInv, Shape
<1>2. CASE JoinEnd
  BY <1>2, SleepKept DEF JoinEnd, Asleep, Notifying, ControlInv, Shape
<1>3. CASE StartLooks \/ JoinBegin \/ Stop
  BY <1>3, SleepKept DEF StartLooks, JoinBegin, Stop, Asleep, Notifying
<1>4. CASE Clear
  BY <1>0, <1>4, SleepNoWork DEF Clear
<1>5. CASE NotifyAll
  <2>1. Asleep' = {}
    BY <1>5 DEF NotifyAll, Asleep
  <2>. QED
    BY <2>1 DEF NoSleepOnWork
<1>6. ASSUME NEW c \in Adders,
             \/ AddLimit(c) \/ AddDecide(c) \/ AddCreate(c) \/ AddEnd(c)
             \/ \E j \in Jobs : AddBegin(c, j)
      PROVE  NoSleepOnWork'
  <2>1. jobs' = jobs /\ woken' = woken
    BY <1>6 DEF AddLimit, AddDecide, AddCreate, Create, AddEnd, AddBegin
  <2>2. Notifying' = Notifying
    BY <1>6 DEF AddLimit, AddDecide, AddCreate, AddEnd, AddBegin, Notifying,
       ControlInv, Shape
  <2>3. Asleep' = Asleep
    BY <1>6 DEF AddLimit, AddDecide, AddCreate, Create, AddEnd, AddBegin, Asleep,
       ControlInv, Shape
  <2>. QED
    BY <2>1, <2>2, <2>3, SleepKept
<1>7. ASSUME NEW w \in Workers, Get(w) \/ Wake(w)
      PROVE  NoSleepOnWork'
  <2>1. CASE TakeFirst(w)
    BY <1>7, <2>1, SleepTake
  <2>2. CASE jobs' = <<>>
    BY <1>0, <2>2, SleepNoWork
  <2>. QED
    BY <1>7, <2>1, <2>2 DEF Get, Wake
<1>8. ASSUME NEW w \in Workers,
             Begin(w) \/ Loop(w) \/ EndJob(w) \/ Judge(w) \/ Leave(w) \/ Report(w)
      PROVE  NoSleepOnWork'
  <2>1. jobs' = jobs /\ woken' = woken /\ addAt' = addAt
    BY <1>8 DEF Begin, Loop, EndJob, Judge, Leave, Report
  <2>2. Asleep' = Asleep
    BY <1>8 DEF Begin, Loop, EndJob, Judge, Leave, Report, Asleep, ControlInv, Shape
  <2>. QED
    BY <2>1, <2>2, SleepKept DEF Notifying
<1>9. ASSUME NEW k \in Checkers, Swap(k) \/ Reap(k) PROVE NoSleepOnWork'
  <2>1. Asleep' \subseteq Asleep
    BY <1>9 DEF Swap, Reap, Asleep, ControlInv, Shape
  <2>. QED
    BY <1>9, <2>1, SleepKept DEF Swap, Reap, Notifying
<1>10. CASE UNCHANGED vars
  BY <1>10, SleepKept DEF vars, Asleep, Notifying
<1>. QED
  BY <1>1, <1>2, <1>3, <1>4, <1>5, <1>6, <1>7, <1>8, <1>9, <1>10, SleepAddQueue,
     SleepAddNotify
  DEF Next, OwnerStep, AddStep, WorkerStep

(* While a worker sleeps, every job in the queue has a notification that   *)
(* was sent or will be sent for it.                                        *)
THEOREM NobodySleepsOnWork == Spec => []NoSleepOnWork
  BY SleepInit, SleepStep, ControlAlways, PTL DEF Spec

-----------------------------------------------------------------------------
(* A job is in one place: on its way into the queue, in it, or with one    *)
(* worker.                                                                 *)
JobsOnce ==
  /\ \A i, k \in 1..Len(jobs) : jobs[i] = jobs[k] => i = k
  /\ \A v, w \in Workers : job[v] # None /\ job[v] = job[w] => v = w
  /\ \A c, d \in Adders : addJob[c] # None /\ addJob[c] = addJob[d] => c = d
  /\ \A i \in 1..Len(jobs), w \in Workers : jobs[i] # job[w]
  /\ \A i \in 1..Len(jobs), c \in Adders : jobs[i] # addJob[c]
  /\ \A w \in Workers, c \in Adders : job[w] # None => job[w] # addJob[c]

LEMMA OnceInit == Init => JobsOnce
  BY DEF Init, JobsOnce

LEMMA OnceBegin ==
  ASSUME ControlInv, JobsOnce, NEW c \in Adders, NEW j \in Jobs, AddBegin(c, j)
  PROVE  JobsOnce'
<1>1. /\ \A i \in 1..Len(jobs) : jobs[i] # j
      /\ \A w \in Workers : job[w] # j
      /\ \A d \in Adders : addJob[d] # j
  BY DEF AddBegin, InUse, ControlInv, Shape
<1>. QED
  BY <1>1 DEF AddBegin, JobsOnce, ControlInv, Shape, workerVars

LEMMA OnceQueue ==
  ASSUME ControlInv, JobsOnce, NEW c \in Adders, AddQueue(c)
  PROVE  JobsOnce'
<1>. USE DEF ControlInv, Shape, Control, AddQueue, AddGoes, workerVars
<1>1. addJob[c] \in Jobs /\ addJob[c] # None
  OBVIOUS
<1>2. /\ Len(jobs') = Len(jobs) + 1
      /\ \A i \in 1..Len(jobs) : jobs'[i] = jobs[i]
      /\ jobs'[Len(jobs) + 1] = addJob[c]
  BY <1>1
<1>3. /\ job' = job
      /\ \A d \in Adders : addJob'[d] = IF d = c THEN None ELSE addJob[d]
  OBVIOUS
<1>4. \A i \in 1..Len(jobs) : jobs[i] # None
  BY ThreadPoolAssumption
<1>5. \A i \in 1..Len(jobs') : i \in 1..Len(jobs) \/ i = Len(jobs) + 1
  BY <1>2
<1>. QED
  BY <1>1, <1>2, <1>3, <1>4, <1>5 DEF JobsOnce

LEMMA OnceTake ==
  ASSUME ControlInv, JobsOnce, NEW w \in Workers, TakeFirst(w), addJob' = addJob
  PROVE  JobsOnce'
<1>. USE DEF ControlInv, Shape, TakeFirst, Goes
<1>1. /\ Len(jobs') = Len(jobs) - 1
      /\ \A i \in 1..Len(jobs') : i + 1 \in 1..Len(jobs) /\ jobs'[i] = jobs[i + 1]
      /\ 1 \in 1..Len(jobs)
  OBVIOUS
<1>2. \A v \in Workers : job'[v] = IF v = w THEN jobs[1] ELSE job[v]
  OBVIOUS
<1>3. \A i, k \in 1..Len(jobs') : jobs'[i] = jobs'[k] => i = k
  <2>. SUFFICES ASSUME NEW i \in 1..Len(jobs'), NEW k \in 1..Len(jobs'), jobs'[i] = jobs'[k]
                PROVE  i = k
    OBVIOUS
  <2>1. i + 1 \in 1..Len(jobs) /\ k + 1 \in 1..Len(jobs) /\ jobs[i + 1] = jobs[k + 1]
    BY <1>1
  <2>2. i + 1 = k + 1
    BY <2>1 DEF JobsOnce
  <2>. QED
    BY <2>2
<1>4. \A i \in 1..Len(jobs'), v \in Workers : jobs'[i] # job'[v]
  <2>. SUFFICES ASSUME NEW i \in 1..Len(jobs'), NEW v \in Workers
                PROVE  jobs'[i] # job'[v]
    OBVIOUS
  <2>1. i + 1 \in 1..Len(jobs) /\ i + 1 # 1 /\ jobs'[i] = jobs[i + 1]
    BY <1>1
  <2>. QED
    BY <1>1, <1>2, <2>1 DEF JobsOnce
<1>5. \A i \in 1..Len(jobs'), c \in Adders : jobs'[i] # addJob'[c]
  BY <1>1 DEF JobsOnce
<1>6. \A u, v \in Workers : job'[u] # None /\ job'[u] = job'[v] => u = v
  BY <1>1, <1>2 DEF JobsOnce
<1>7. \A v \in Workers, c \in Adders : job'[v] # None => job'[v] # addJob'[c]
  BY <1>1, <1>2 DEF JobsOnce
<1>8. \A c, d \in Adders : addJob'[c] # None /\ addJob'[c] = addJob'[d] => c = d
  BY DEF JobsOnce
<1>. QED
  BY <1>3, <1>4, <1>5, <1>6, <1>7, <1>8 DEF JobsOnce

LEMMA OnceStep == ControlInv /\ JobsOnce /\ [Next]_vars => JobsOnce'
<1>. SUFFICES ASSUME ControlInv, JobsOnce, [Next]_vars PROVE JobsOnce'
  OBVIOUS
<1>. USE DEF ControlInv, Shape, workerVars, addVars
<1>1. CASE StartLooks \/ StartCreates \/ NotifyAll \/ JoinBegin \/ JoinEnd \/ Stop
  BY <1>1 DEF StartLooks, StartCreates, Create, NotifyAll, JoinBegin, JoinEnd, Stop, JobsOnce
<1>2. CASE Clear
  BY <1>2 DEF Clear, JobsOnce
<1>3. ASSUME NEW c \in Adders, AddNotify(c) \/ AddDecide(c) \/ AddCreate(c) \/ AddEnd(c)
      PROVE  JobsOnce'
  BY <1>3 DEF AddNotify, AddDecide, AddCreate, Create, AddEnd, JobsOnce
<1>4. ASSUME NEW c \in Adders, AddLimit(c) PROVE JobsOnce'
  BY <1>4, ThreadPoolAssumption DEF AddLimit, JobsOnce
<1>5. ASSUME NEW w \in Workers, EndJob(w) PROVE JobsOnce'
  BY <1>5, ThreadPoolAssumption DEF EndJob, JobsOnce
<1>6. ASSUME NEW w \in Workers, Get(w) \/ Wake(w) PROVE JobsOnce'
  <2>1. CASE TakeFirst(w)
    BY <1>6, <2>1, OnceTake DEF Get, Wake
  <2>2. CASE UNCHANGED <<job, jobs>>
    BY <1>6, <2>2 DEF Get, Wake, JobsOnce
  <2>. QED
    BY <1>6, <2>1, <2>2 DEF Get, Wake
<1>7. ASSUME NEW w \in Workers, Begin(w) \/ Loop(w) \/ Judge(w) \/ Leave(w) \/ Report(w)
      PROVE  JobsOnce'
  BY <1>7 DEF Begin, Loop, Judge, Leave, Report, JobsOnce
<1>8. ASSUME NEW k \in Checkers, Swap(k) \/ Reap(k) PROVE JobsOnce'
  <2>1. jobs' = jobs /\ job' = job /\ addJob' = addJob
    BY <1>8 DEF Swap, Reap
  <2>. QED
    BY ONLY JobsOnce, <2>1 DEF JobsOnce
<1>9. CASE UNCHANGED vars
  BY <1>9 DEF vars, JobsOnce
<1>. QED
  BY <1>1, <1>2, <1>3, <1>4, <1>5, <1>6, <1>7, <1>8, <1>9, OnceBegin, OnceQueue
  DEF Next, OwnerStep, AddStep, WorkerStep

(* Steps that leave the queue, the workers' jobs and the closing alone     *)
(* stutter in JobPool.                                                     *)
LEMMA PoolStutters ==
  ASSUME jobs' = jobs, job' = job, Closed' = Closed
  PROVE  UNCHANGED Pool!vars
<1>1. Active' = Active
  BY DEF Active
<1>. QED
  BY <1>1 DEF Pool!vars

LEMMA PoolAdd ==
  ASSUME ControlInv, NEW c \in Adders, AddQueue(c)
  PROVE  Pool!Next
<1>1. addJob[c] \in Jobs
  BY DEF ControlInv, Shape, Control, AddQueue
<1>2. jobs' = Append(jobs, addJob[c]) /\ Active' = Active /\ Closed' = Closed
  BY DEF AddQueue, workerVars, Active, Closed
<1>. QED
  BY <1>1, <1>2 DEF Pool!Next, Pool!Add

LEMMA PoolStart ==
  ASSUME ControlInv, JobsOnce, NEW w \in Workers, Get(w) \/ Wake(w), TakeFirst(w)
  PROVE  Pool!Next
<1>. USE DEF ControlInv, Shape, TakeFirst, Goes
<1>1. /\ jobs # <<>> /\ Head(jobs) = jobs[1] /\ 1 \in 1..Len(jobs)
      /\ Head(jobs) \in Jobs /\ jobs' = Tail(jobs)
  OBVIOUS
<1>2. Head(jobs) \notin Active
  BY <1>1 DEF JobsOnce, Active
<1>3. job[w] = None /\ Head(jobs) # None
  BY <1>1, ThreadPoolAssumption DEF Get, Wake
<1>4. \A v \in Workers : job'[v] = IF v = w THEN Head(jobs) ELSE job[v]
  OBVIOUS
<1>5. Active' = Active \cup {Head(jobs)}
  BY <1>3, <1>4 DEF Active
<1>6. Closed' = Closed
  BY DEF Get, Wake, Closed
<1>. QED
  BY <1>1, <1>2, <1>5, <1>6 DEF Pool!Next, Pool!Start

LEMMA PoolFinish ==
  ASSUME ControlInv, JobsOnce, NEW w \in Workers, EndJob(w)
  PROVE  Pool!Next
<1>1. job[w] \in Jobs /\ job[w] # None
  BY DEF EndJob, ControlInv, Shape
<1>2. \A v \in Workers : job'[v] = IF v = w THEN None ELSE job[v]
  BY DEF EndJob, ControlInv, Shape
<1>3. \A v \in Workers : job[v] = job[w] => v = w
  BY <1>1 DEF JobsOnce
<1>4. Active' = Active \ {job[w]} /\ job[w] \in Active
  BY <1>1, <1>2, <1>3 DEF Active
<1>5. jobs' = jobs /\ Closed' = Closed
  BY DEF EndJob, Closed
<1>. QED
  BY <1>1, <1>4, <1>5 DEF Pool!Next, Pool!Finish

LEMMA PoolStep ==
  ControlInv /\ JobsOnce /\ [Next]_vars => [Pool!Next]_(Pool!vars)
<1>. SUFFICES ASSUME ControlInv, JobsOnce, [Next]_vars
              PROVE  Pool!Next \/ UNCHANGED Pool!vars
  OBVIOUS
<1>. USE DEF workerVars, addVars
<1>1. CASE StartLooks \/ StartCreates \/ NotifyAll \/ JoinBegin \/ JoinEnd \/ Stop
  BY <1>1, PoolStutters DEF StartLooks, StartCreates, Create, NotifyAll, JoinBegin,
     JoinEnd, Stop, Closed
<1>2. CASE Clear
  <2>1. ~Closed /\ Closed' /\ jobs' = <<>> /\ Active' = Active
    BY <1>2 DEF Clear, Closed, Active
  <2>2. Closed' = TRUE
    BY <2>1 DEF Closed
  <2>. QED
    BY <2>1, <2>2 DEF Pool!Next, Pool!Close
<1>3. ASSUME NEW c \in Adders,
             \/ AddLimit(c) \/ AddNotify(c) \/ AddDecide(c) \/ AddCreate(c) \/ AddEnd(c)
             \/ \E j \in Jobs : AddBegin(c, j)
      PROVE  UNCHANGED Pool!vars
  BY <1>3, PoolStutters DEF AddLimit, AddNotify, AddDecide, AddCreate, Create, AddEnd,
     AddBegin, Closed
<1>4. ASSUME NEW w \in Workers, Get(w) \/ Wake(w)
      PROVE  Pool!Next \/ UNCHANGED Pool!vars
  <2>1. CASE TakeFirst(w)
    BY <1>4, <2>1, PoolStart
  <2>2. CASE UNCHANGED <<job, jobs>>
    BY <1>4, <2>2, PoolStutters DEF Get, Wake, Closed
  <2>. QED
    BY <1>4, <2>1, <2>2 DEF Get, Wake
<1>5. ASSUME NEW w \in Workers, Begin(w) \/ Loop(w) \/ Judge(w) \/ Leave(w) \/ Report(w)
      PROVE  UNCHANGED Pool!vars
  BY <1>5, PoolStutters DEF Begin, Loop, Judge, Leave, Report, Closed
<1>6. ASSUME NEW k \in Checkers, Swap(k) \/ Reap(k) PROVE UNCHANGED Pool!vars
  BY <1>6, PoolStutters DEF Swap, Reap, Closed
<1>7. CASE UNCHANGED vars
  BY <1>7, PoolStutters DEF vars, Closed
<1>. QED
  BY <1>1, <1>2, <1>3, <1>4, <1>5, <1>6, <1>7, PoolAdd, PoolFinish
  DEF Next, OwnerStep, AddStep, WorkerStep

(* Whatever the number of workers and however they come and go, jobs are   *)
(* started once each in the order of their acceptance.                     *)
THEOREM PoolRefinement == Spec => ImplementsJobPool
<1>1. Init => Pool!Init
  <2>. SUFFICES ASSUME Init PROVE Pool!Init
    OBVIOUS
  <2>1. Active = {}
    BY DEF Init, Active
  <2>2. Closed = FALSE
    BY DEF Init, Closed
  <2>. QED
    BY <2>1, <2>2 DEF Init, Pool!Init
<1>. QED
  BY <1>1, OnceInit, OnceStep, ControlAlways, PoolStep, PTL
  DEF Spec, ImplementsJobPool, Pool!Spec

=============================================================================
