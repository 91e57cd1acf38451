--------------------------- MODULE JobQueuesProofs ---------------------------
(***************************************************************************)
(* What holds of the three queues for every number of workers and callers  *)
(* and all priorities and delays.                                          *)
(***************************************************************************)
EXTENDS JobQueues, FiniteSetTheorems, TLAPS

Jobs == [key : Int, id : Nat]

Before(a, b) == a.key < b.key \/ (a.key = b.key /\ a.id < b.id)

(* What the job at an earlier place is to one at a later place.            *)
Ahead(a, b) == Before(a, b) /\ a.id # b.id

(* The queue is in order, and its jobs have numbers that were given.       *)
QueueOK ==
  /\ queue \in Seq(Jobs)
  /\ \A i \in 1..Len(queue) : queue[i].id \in 1..adds
  /\ \A i \in 1..Len(queue), j \in 1..Len(queue) : i < j => Ahead(queue[i], queue[j])

RestOK ==
  /\ adds \in Nat /\ clock \in Nat
  /\ kind \in {"Sequence", "Priority", "Schedule"}
  /\ addAt \in [Callers -> {"idle", "insert", "notify"}]
  /\ addKey \in [Callers -> Int]
  /\ at \in [Workers -> {"idle", "lock", "sleep", "run"}]
  /\ watch \in [Workers -> Int \cup {Never}]
  /\ job \in [Workers -> Nat]

QueuesInv == QueueOK /\ RestOK

LEMMA QueuesInit == Init => QueuesInv
<1>. SUFFICES ASSUME Init PROVE QueuesInv
  OBVIOUS
<1>1. QueueOK
  <2>1. <<>> \in Seq(Jobs) /\ Len(<<>>) = 0
    OBVIOUS
  <2>. QED
    BY <2>1 DEF Init, QueueOK
<1>2. RestOK
  BY DEF Init, RestOK
<1>. QED
  BY <1>1, <1>2 DEF QueuesInv

(* The jobs that stay before the place for key k are exactly those with no *)
(* larger key.                                                             *)
LEMMA PlaceSplits ==
  ASSUME QueuesInv, NEW k \in Int
  PROVE  /\ Place(k) \in 1..(Len(queue) + 1)
         /\ \A i \in 1..Len(queue) : queue[i].key <= k <=> i < Place(k)
<1>. DEFINE S == {i \in DOMAIN queue : queue[i].key <= k}
            n == Len(queue)
<1>1. n \in Nat /\ DOMAIN queue = 1..n /\ \A i \in 1..n : queue[i].key \in Int
  <2>1. queue \in Seq(Jobs)
    BY DEF QueuesInv, QueueOK
  <2>2. n \in Nat /\ DOMAIN queue = 1..n /\ \A i \in 1..n : queue[i] \in Jobs
    BY <2>1
  <2>. QED
    BY <2>2 DEF Jobs
<1>2. IsFiniteSet(1..n) /\ Cardinality(1..n) = n
  BY <1>1, FS_Interval
<1>3. S \subseteq 1..n /\ IsFiniteSet(S) /\ Cardinality(S) \in 0..n
  <2>1. S \subseteq 1..n
    BY <1>1
  <2>2. IsFiniteSet(S) /\ Cardinality(S) <= n
    BY <1>2, <2>1, FS_Subset
  <2>3. Cardinality(S) \in Nat
    BY <2>2, FS_CardinalityType
  <2>. QED
    BY <1>1, <2>1, <2>2, <2>3
<1>4. ASSUME NEW i \in 1..n, i \in S PROVE i <= Cardinality(S)
  <2>1. 1..i \subseteq S
    <3>1. ASSUME NEW j \in 1..i PROVE queue[j].key <= k
      <4>1. CASE j = i
        BY <1>4, <4>1
      <4>2. CASE j # i
        <5>1. Before(queue[j], queue[i])
          BY <1>1, <4>2 DEF QueuesInv, QueueOK, Ahead
        <5>. QED
          BY <1>1, <1>4, <5>1 DEF Before
      <4>. QED
        BY <4>1, <4>2
    <3>. QED
      BY <1>1, <3>1
  <2>2. Cardinality(1..i) = i
    BY <1>1, FS_Interval
  <2>3. Cardinality(1..i) <= Cardinality(S)
    BY <1>3, <2>1, FS_Subset
  <2>. QED
    BY <2>2, <2>3
<1>5. ASSUME NEW i \in 1..n, i \notin S PROVE Cardinality(S) < i
  <2>1. S \subseteq 1..(i - 1)
    <3>1. ASSUME NEW j \in S PROVE j < i
      <4>1. SUFFICES ASSUME i < j PROVE FALSE
        BY <1>1, <1>5, <3>1
      <4>2. j \in 1..n /\ Before(queue[i], queue[j])
        BY <1>1, <3>1, <4>1 DEF QueuesInv, QueueOK, Ahead
      <4>. QED
        BY <1>1, <1>5, <3>1, <4>2 DEF Before
    <3>. QED
      BY <1>1, <3>1
  <2>2. IsFiniteSet(1..(i - 1)) /\ Cardinality(1..(i - 1)) = i - 1
    <3>1. i - 1 \in Nat /\ 1 \in Int
      BY <1>1
    <3>2. IsFiniteSet(1..(i - 1)) /\ Cardinality(1..(i - 1)) = IF 1 > i - 1 THEN 0 ELSE (i - 1) - 1 + 1
      BY <3>1, FS_Interval
    <3>. QED
      BY <3>1, <3>2
  <2>3. Cardinality(S) <= i - 1
    BY <2>1, <2>2, FS_Subset
  <2>. QED
    BY <1>1, <1>3, <2>3
<1>6. Place(k) = 1 + Cardinality(S)
  BY DEF Place
<1>7. \A i \in 1..n : i \in S <=> queue[i].key <= k
  BY <1>1
<1>. HIDE DEF S, n
<1>8. /\ Place(k) \in 1..(n + 1)
      /\ \A i \in 1..n : queue[i].key <= k <=> i < Place(k)
  BY <1>1, <1>3, <1>4, <1>5, <1>6, <1>7
<1>. QED
  BY <1>8 DEF n

LEMMA InsertedBetween ==
  ASSUME NEW q \in Seq(Jobs), NEW p \in 1..(Len(q) + 1), NEW e \in Jobs
  PROVE  LET r == InsertAt(q, p, e)
         IN  /\ r \in Seq(Jobs) /\ Len(r) = Len(q) + 1 /\ r[p] = e
             /\ \A i \in 1..(p - 1) : r[i] = q[i]
             /\ \A i \in (p + 1)..(Len(q) + 1) : r[i] = q[i - 1]
<1>. DEFINE a == SubSeq(q, 1, p - 1)
            b == SubSeq(q, p, Len(q))
            c == a \o <<e>>
            r == c \o b
<1>1. Len(q) \in Nat /\ p \in Int /\ \A i \in 1..Len(q) : q[i] \in Jobs
  OBVIOUS
<1>2. a \in Seq(Jobs) /\ Len(a) = p - 1 /\ \A i \in 1..(p - 1) : a[i] = q[i]
  BY <1>1
<1>3. b \in Seq(Jobs) /\ Len(b) = Len(q) + 1 - p /\ \A i \in 1..(Len(q) + 1 - p) : b[i] = q[p + i - 1]
  BY <1>1
<1>4. <<e>> \in Seq(Jobs) /\ Len(<<e>>) = 1 /\ <<e>>[1] = e
  OBVIOUS
<1>. HIDE DEF a, b
<1>5. c \in Seq(Jobs) /\ Len(c) = p /\ c[p] = e /\ \A i \in 1..(p - 1) : c[i] = q[i]
  BY <1>1, <1>2, <1>4
<1>. HIDE DEF c
<1>6. /\ r \in Seq(Jobs) /\ Len(r) = Len(q) + 1
      /\ \A i \in 1..p : r[i] = c[i]
      /\ \A i \in (p + 1)..(Len(q) + 1) : r[i] = b[i - p]
  <2>1. /\ r \in Seq(Jobs) /\ Len(r) = Len(c) + Len(b)
        /\ \A i \in 1..(Len(c) + Len(b)) : r[i] = IF i <= Len(c) THEN c[i] ELSE b[i - Len(c)]
    BY <1>3, <1>5
  <2>2. Len(c) + Len(b) = Len(q) + 1
    BY <1>1, <1>3, <1>5
  <2>. HIDE DEF r
  <2>3. r \in Seq(Jobs) /\ Len(r) = Len(q) + 1
    BY <2>1, <2>2
  <2>4. ASSUME NEW i \in 1..p PROVE r[i] = c[i]
    <3>1. i \in 1..(Len(c) + Len(b)) /\ i <= Len(c)
      BY <1>1, <1>5, <2>2
    <3>. QED
      BY <2>1, <3>1
  <2>5. ASSUME NEW i \in (p + 1)..(Len(q) + 1) PROVE r[i] = b[i - p]
    <3>1. i \in 1..(Len(c) + Len(b)) /\ ~(i <= Len(c)) /\ Len(c) = p
      BY <1>1, <1>5, <2>2
    <3>. QED
      BY <2>1, <3>1
  <2>. QED
    BY <2>3, <2>4, <2>5
<1>. HIDE DEF r
<1>7. \A i \in (p + 1)..(Len(q) + 1) : r[i] = q[i - 1]
  <2>. SUFFICES ASSUME NEW i \in (p + 1)..(Len(q) + 1) PROVE r[i] = q[i - 1]
    OBVIOUS
  <2>1. i - p \in 1..(Len(q) + 1 - p) /\ p + (i - p) - 1 = i - 1
    BY <1>1
  <2>. QED
    BY <1>3, <1>6, <2>1
<1>8. r = InsertAt(q, p, e)
  BY DEF r, c, a, b, InsertAt
<1>. QED
  BY <1>5, <1>6, <1>7, <1>8

(* What the steps of a worker do to the queue.                             *)
LEMMA TailOK ==
  ASSUME QueuesInv, queue # <<>>, queue' = Tail(queue), adds' = adds
  PROVE  QueueOK'
<1>1. queue \in Seq(Jobs) /\ Len(queue) \in Nat
  BY DEF QueuesInv, QueueOK
<1>2. queue' \in Seq(Jobs) /\ Len(queue') = Len(queue) - 1 /\ \A i \in 1..Len(queue') : queue'[i] = queue[i + 1]
  BY <1>1
<1>3. \A i \in 1..Len(queue') : i + 1 \in 1..Len(queue)
  BY <1>1, <1>2
<1>4. \A i, j \in 1..Len(queue') : i < j => i + 1 < j + 1
  BY <1>1, <1>2
<1>. QED
  BY <1>2, <1>3, <1>4 DEF QueuesInv, QueueOK

LEMMA InsertOK ==
  ASSUME QueuesInv, NEW c \in Callers, Insert(c)
  PROVE  QueueOK'
<1>. DEFINE k == addKey[c]
            e == [key |-> k, id |-> adds + 1]
            n == Len(queue)
<1>1. k \in Int /\ adds \in Nat /\ adds' = adds + 1 /\ e \in Jobs /\ n \in Nat
      /\ queue \in Seq(Jobs) /\ queue' = InsertAt(queue, Place(k), e)
  BY DEF QueuesInv, RestOK, QueueOK, Insert, Jobs
<1>2. PICK p \in 1..(n + 1) : p = Place(k) /\ \A i \in 1..n : queue[i].key <= k <=> i < p
  BY <1>1, PlaceSplits
<1>3. /\ queue' \in Seq(Jobs) /\ Len(queue') = n + 1 /\ queue'[p] = e
      /\ \A i \in 1..(p - 1) : queue'[i] = queue[i]
      /\ \A i \in (p + 1)..(n + 1) : queue'[i] = queue[i - 1]
  BY <1>1, <1>2, InsertedBetween, SMTT(40)
<1>4. \A i \in 1..n : queue[i] \in Jobs /\ queue[i].id \in 1..adds
  BY <1>1 DEF QueuesInv, QueueOK
<1>5. \A i \in 1..(n + 1) : queue'[i].id \in 1..adds'
  <2>. SUFFICES ASSUME NEW i \in 1..(n + 1) PROVE queue'[i].id \in 1..adds'
    OBVIOUS
  <2>1. CASE i = p
    BY <1>1, <1>3, <2>1
  <2>2. CASE i < p
    <3>1. i \in 1..(p - 1) /\ i \in 1..n
      BY <1>1, <1>2, <2>2
    <3>2. queue'[i].id \in 1..adds
      BY <1>3, <1>4, <3>1
    <3>. QED
      BY <1>1, <3>2
  <2>3. CASE i > p
    <3>1. i \in (p + 1)..(n + 1) /\ i - 1 \in 1..n
      BY <1>1, <1>2, <2>3
    <3>2. queue'[i].id \in 1..adds
      BY <1>3, <1>4, <3>1
    <3>. QED
      BY <1>1, <3>2
  <2>. QED
    BY <1>1, <1>2, <2>1, <2>2, <2>3
<1>6. ASSUME NEW i \in 1..(n + 1), NEW j \in 1..(n + 1), i < j
      PROVE  Ahead(queue'[i], queue'[j])
  <2>1. CASE i < p /\ j < p
    <3>1. i \in 1..(p - 1) /\ j \in 1..(p - 1) /\ i \in 1..n /\ j \in 1..n
      BY <1>1, <1>2, <2>1
    <3>. QED
      BY <1>3, <1>6, <3>1 DEF QueuesInv, QueueOK
  <2>2. CASE i < p /\ j = p
    <3>1. i \in 1..(p - 1) /\ i \in 1..n
      BY <1>1, <1>2, <2>2
    <3>2. queue'[i] = queue[i] /\ queue'[j] = e /\ queue[i].key <= k
      BY <1>2, <1>3, <2>2, <3>1
    <3>3. queue[i].key \in Int /\ queue[i].id \in 1..adds
      BY <1>4, <3>1 DEF Jobs
    <3>. QED
      BY <1>1, <3>2, <3>3, SMTT(40) DEF Before, Ahead
  <2>3. CASE i < p /\ j > p
    <3>1. i \in 1..(p - 1) /\ i \in 1..n /\ j \in (p + 1)..(n + 1) /\ j - 1 \in 1..n /\ i < j - 1
      BY <1>1, <1>2, <2>3
    <3>2. queue'[i] = queue[i] /\ queue'[j] = queue[j - 1]
      BY <1>3, <3>1
    <3>. QED
      BY <3>1, <3>2 DEF QueuesInv, QueueOK
  <2>4. CASE i = p
    <3>1. j \in (p + 1)..(n + 1) /\ j - 1 \in 1..n /\ ~(j - 1 < p)
      BY <1>1, <1>2, <1>6, <2>4
    <3>2. queue'[i] = e /\ queue'[j] = queue[j - 1] /\ ~(queue[j - 1].key <= k)
      BY <1>2, <1>3, <2>4, <3>1
    <3>3. queue[j - 1].key \in Int /\ queue[j - 1].id \in 1..adds
      BY <1>4, <3>1 DEF Jobs
    <3>. QED
      BY <1>1, <3>2, <3>3, SMTT(40) DEF Before, Ahead
  <2>5. CASE i > p
    <3>1. /\ i \in (p + 1)..(n + 1) /\ i - 1 \in 1..n
          /\ j \in (p + 1)..(n + 1) /\ j - 1 \in 1..n /\ i - 1 < j - 1
      BY <1>1, <1>2, <1>6, <2>5
    <3>2. queue'[i] = queue[i - 1] /\ queue'[j] = queue[j - 1]
      BY <1>3, <3>1
    <3>. QED
      BY <3>1, <3>2 DEF QueuesInv, QueueOK
  <2>. QED
    BY <1>1, <1>2, <1>6, <2>1, <2>2, <2>3, <2>4, <2>5
<1>. QED
  BY <1>3, <1>5, <1>6 DEF QueueOK

LEMMA GetFirstSteps ==
  ASSUME QueuesInv, NEW w \in Workers, GetFirst(w)
  PROVE  \/ /\ Due /\ queue' = Tail(queue) /\ queue # <<>>
            /\ job' = [job EXCEPT ![w] = queue[1].id]
            /\ queue[1].id \in Nat /\ (kind = "Schedule" => queue[1].key < clock)
         \/ UNCHANGED <<queue, job>>
<1>1. queue \in Seq(Jobs)
  BY DEF QueuesInv, QueueOK
<1>2. queue # <<>> => Head(queue) = queue[1] /\ 1 \in 1..Len(queue) /\ queue[1] \in Jobs
  BY <1>1
<1>. QED
  BY <1>2 DEF GetFirst, Due, Jobs

LEMMA RestKept == QueuesInv /\ [Next]_vars => RestOK'
<1>. SUFFICES ASSUME QueuesInv, [Next]_vars PROVE RestOK'
  OBVIOUS
<1>. USE JobQueuesAssumption DEF addVars, workerVars
<1>20. RestOK
  BY DEF QueuesInv
<1>1. CASE Tick
  BY <1>1, <1>20 DEF Tick, RestOK
<1>2. CASE Clear \/ NotifyAll
  BY <1>2, <1>20 DEF Clear, NotifyAll, RestOK
<1>3. ASSUME NEW c \in Callers, Add(c) PROVE RestOK'
  <2>1. KeysNow \subseteq Int
    BY <1>20 DEF KeysNow, RestOK, Class, PRIORITY_HIGHEST, PRIORITY_LOWEST
  <2>. QED
    BY <1>3, <1>20, <2>1 DEF Add, RestOK
<1>4. ASSUME NEW c \in Callers, Insert(c) PROVE RestOK'
  BY <1>4, <1>20 DEF Insert, RestOK
<1>5. ASSUME NEW c \in Callers, NotifyOne(c) PROVE RestOK'
  BY <1>5, <1>20 DEF NotifyOne, RestOK
<1>6. ASSUME NEW w \in Workers, Begin(w) \/ Finish(w) PROVE RestOK'
  BY <1>6, <1>20 DEF Begin, Finish, Goes, RestOK
<1>7. ASSUME NEW w \in Workers, GetFirst(w), UNCHANGED <<adds, clock, kind, addAt, addKey>> PROVE RestOK'
  <2>1. job' \in [Workers -> Nat]
    BY <1>7, <1>20, GetFirstSteps DEF RestOK
  <2>. QED
    BY <1>7, <1>20, <2>1 DEF GetFirst, Goes, RestOK
<1>8. ASSUME NEW w \in Workers, Get(w) PROVE RestOK'
  <2>1. queue # <<>> => Head(queue).key \in Int
    <3>1. queue \in Seq(Jobs)
      BY DEF QueuesInv, QueueOK
    <3>2. queue # <<>> => Head(queue) \in Jobs
      BY <3>1
    <3>. QED
      BY <3>2 DEF Jobs
  <2>. QED
    BY <1>7, <1>8, <1>20, <2>1 DEF Get, Waits, Goes, RestOK
<1>9. ASSUME NEW w \in Workers, Wake(w) PROVE RestOK'
  BY <1>7, <1>9 DEF Wake
<1>10. CASE UNCHANGED vars
  BY <1>10, <1>20 DEF vars, RestOK
<1>. QED
  BY <1>1, <1>2, <1>3, <1>4, <1>5, <1>6, <1>8, <1>9, <1>10 DEF Next

LEMMA QueueKept == QueuesInv /\ [Next]_vars => QueueOK'
<1>. SUFFICES ASSUME QueuesInv, [Next]_vars PROVE QueueOK'
  OBVIOUS
<1>1. ASSUME UNCHANGED <<queue, adds>> PROVE QueueOK'
  BY <1>1 DEF QueuesInv, QueueOK
<1>2. CASE Clear
  <2>1. <<>> \in Seq(Jobs) /\ Len(<<>>) = 0
    OBVIOUS
  <2>. QED
    BY <1>2, <2>1 DEF Clear, QueueOK
<1>3. ASSUME NEW c \in Callers, Insert(c) PROVE QueueOK'
  BY <1>3, InsertOK
<1>4. ASSUME NEW w \in Workers, Get(w) \/ Wake(w) PROVE QueueOK'
  <2>1. (GetFirst(w) \/ UNCHANGED queue) /\ adds' = adds
    BY <1>4 DEF Get, Wake, Waits
  <2>. QED
    BY <1>1, <2>1, GetFirstSteps, TailOK
<1>. QED
  BY <1>1, <1>2, <1>3, <1>4 DEF Next, vars, Tick, Add, NotifyOne, NotifyAll, Begin, Finish

LEMMA QueuesInvariant == Spec => []QueuesInv
<1>1. QueuesInv /\ [Next]_vars => QueuesInv'
  BY RestKept, QueueKept DEF QueuesInv
<1>. QED
  BY <1>1, QueuesInit, PTL DEF Spec

(* Whoever takes a job takes the oldest of the least key, and on a         *)
(* schedule none before its time.                                          *)
THEOREM JobsTakenInOrder == Spec => TakenInOrder
<1>. DEFINE First(i) == /\ \A j \in DOMAIN queue :
                             \/ i = j
                             \/ queue[i].key < queue[j].key
                             \/ queue[i].key = queue[j].key /\ queue[i].id < queue[j].id
                        /\ kind = "Schedule" => queue[i].key < clock
<1>1. ASSUME QueuesInv, [Next]_vars, NEW i \in Taken PROVE First(i)
  <2>1. /\ DOMAIN queue = 1..Len(queue) /\ Len(queue) \in Nat /\ i \in 1..Len(queue)
        /\ \A j \in 1..Len(queue) : queue[j].id \in 1..adds /\ queue[j].key \in Int
        /\ adds \in Nat /\ job \in [Workers -> Nat]
    <3>1. queue \in Seq(Jobs) /\ i \in DOMAIN queue
      BY <1>1 DEF QueuesInv, QueueOK, Taken
    <3>2. \A j \in 1..Len(queue) : queue[j] \in Jobs
      BY <3>1
    <3>. QED
      BY <1>1, <3>1, <3>2 DEF QueuesInv, QueueOK, RestOK, Jobs
  <2>2. PICK v \in Workers : job'[v] = queue[i].id /\ job[v] # job'[v]
    BY <1>1 DEF Taken
  <2>3. PICK w \in Workers : Get(w) \/ Wake(w)
    <3>1. ASSUME NEW w \in Workers, Finish(w) PROVE FALSE
      <4>1. job'[v] = 0
        BY <2>1, <2>2, <3>1 DEF Finish
      <4>2. queue[i].id # 0
        BY <2>1
      <4>. QED
        BY <2>2, <4>1, <4>2
    <3>. QED
      BY <1>1, <2>2, <3>1 DEF Next, vars, Tick, Clear, NotifyAll, Add, Insert, NotifyOne, Begin,
           workerVars
  <2>4. GetFirst(w)
    BY <2>2, <2>3 DEF Get, Wake, Waits
  <2>5. /\ job' = [job EXCEPT ![w] = queue[1].id] /\ queue # <<>>
        /\ kind = "Schedule" => queue[1].key < clock
    BY <1>1, <2>2, <2>4, GetFirstSteps
  <2>6. queue[i].id = queue[1].id
    BY <2>1, <2>2, <2>5
  <2>7. i = 1
    <3>. SUFFICES ASSUME i # 1 PROVE FALSE
      OBVIOUS
    <3>1. 1 \in 1..Len(queue) /\ 1 < i
      BY <2>1
    <3>2. Ahead(queue[1], queue[i])
      BY <1>1, <2>1, <3>1 DEF QueuesInv, QueueOK
    <3>. QED
      BY <2>6, <3>2 DEF Ahead
  <2>8. \A j \in 1..Len(queue) : j # 1 => Before(queue[1], queue[j])
    BY <1>1, <2>1 DEF QueuesInv, QueueOK, Ahead
  <2>. QED
    BY <2>1, <2>5, <2>7, <2>8 DEF Before
<1>2. QueuesInv /\ [Next]_vars => [\A i \in Taken : First(i)]_vars
  BY <1>1
<1>3. Spec => [][\A i \in Taken : First(i)]_vars
  BY <1>2, QueuesInvariant, PTL DEF Spec
<1>. QED
  BY <1>3 DEF TakenInOrder

(* While no worker is busy the first job is watched.                       *)
THEOREM FirstJobWatched == Spec => []SomebodyWatches
<1>1. Init => SomebodyWatches
  BY DEF Init, SomebodyWatches
<1>2. QueuesInv /\ SomebodyWatches /\ [Next]_vars => SomebodyWatches'
  <2>. SUFFICES ASSUME QueuesInv, SomebodyWatches, [Next]_vars PROVE SomebodyWatches'
    OBVIOUS
  <2>20. RestOK
    BY DEF QueuesInv
  <2>1. ASSUME NEW c \in Callers, addAt'[c] = "notify" PROVE SomebodyWatches'
    BY <2>1 DEF SomebodyWatches
  <2>2. ASSUME NEW w \in Workers, at'[w] \in {"idle", "lock", "run"} \/ w \in woken' PROVE SomebodyWatches'
    BY <2>2 DEF SomebodyWatches
  <2>3. ASSUME UNCHANGED <<queue, at, watch, woken>>,
               \A c \in Callers : addAt[c] = "notify" => addAt'[c] = "notify"
        PROVE  SomebodyWatches'
    BY <2>3 DEF SomebodyWatches, Asleep
  <2>4. ASSUME NEW c \in Callers, Add(c) PROVE SomebodyWatches'
    BY <2>3, <2>4, <2>20 DEF Add, RestOK, workerVars
  <2>5. ASSUME NEW c \in Callers, Insert(c) PROVE SomebodyWatches'
    BY <2>1, <2>5, <2>20 DEF Insert, RestOK
  <2>6. ASSUME NEW c \in Callers, NotifyOne(c) PROVE SomebodyWatches'
    <3>1. CASE Asleep = {} /\ UNCHANGED woken
      <4>1. PICK w \in Workers : TRUE
        BY JobQueuesAssumption
      <4>2. at'[w] \in {"idle", "lock", "run"} \/ w \in woken'
        BY <2>6, <2>20, <3>1 DEF NotifyOne, RestOK, Asleep
      <4>. QED
        BY <2>2, <4>2
    <3>2. CASE \E w \in Asleep : woken' = woken \cup {w}
      BY <2>2, <3>2 DEF Asleep
    <3>. QED
      BY <2>6, <3>1, <3>2 DEF NotifyOne
  <2>7. CASE Clear
    BY <2>7 DEF Clear, SomebodyWatches
  <2>8. ASSUME NEW w \in Workers, Begin(w) \/ Finish(w) PROVE SomebodyWatches'
    BY <2>2, <2>8, <2>20 DEF Begin, Finish, Goes, RestOK
  <2>9. ASSUME NEW w \in Workers, GetFirst(w) PROVE SomebodyWatches'
    BY <2>2, <2>9, <2>20 DEF GetFirst, Goes, RestOK
  <2>10. ASSUME NEW w \in Workers, Get(w) PROVE SomebodyWatches'
    <3>1. CASE queue = <<>> /\ Waits(w, Never)
      BY <3>1 DEF Waits, SomebodyWatches
    <3>2. CASE queue # <<>> /\ Waits(w, Head(queue).key)
      <4>1. Head(queue).key \in Int
        <5>1. queue \in Seq(Jobs)
          BY DEF QueuesInv, QueueOK
        <5>2. Head(queue) \in Jobs
          BY <3>2, <5>1
        <5>. QED
          BY <5>2 DEF Jobs
      <4>2. at'[w] = "sleep" /\ watch'[w] = Head(queue').key /\ queue' = queue
        BY <2>20, <3>2 DEF Waits, Goes, RestOK
      <4>3. watch'[w] # Never /\ watch'[w] <= Head(queue').key
        BY <4>1, <4>2, JobQueuesAssumption
      <4>. QED
        BY <2>2, <4>2, <4>3 DEF SomebodyWatches, Asleep
    <3>. QED
      BY <2>9, <2>10, <3>1, <3>2 DEF Get
  <2>11. ASSUME NEW w \in Workers, Wake(w) PROVE SomebodyWatches'
    BY <2>9, <2>11 DEF Wake
  <2>12. CASE Tick \/ UNCHANGED vars
    BY <2>3, <2>12 DEF Tick, vars, addVars, workerVars
  <2>13. CASE NotifyAll
    <3>1. /\ queue' = queue /\ at' = at /\ addAt' = addAt
          /\ \A w \in woken \cup Asleep : w \in woken'
      BY <2>13 DEF NotifyAll, addVars
    <3>2. CASE \E w \in Workers : w \in woken \cup Asleep
      BY <2>2, <3>1, <3>2
    <3>3. CASE ~ \E w \in Workers : w \in woken \cup Asleep
      BY <3>1, <3>3 DEF SomebodyWatches, Asleep
    <3>. QED
      BY <3>2, <3>3
  <2>. QED
    BY <2>4, <2>5, <2>6, <2>7, <2>8, <2>10, <2>11, <2>12, <2>13 DEF Next
<1>. QED
  BY <1>1, <1>2, QueuesInvariant, PTL DEF Spec

=============================================================================
