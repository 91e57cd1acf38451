----------------------------- MODULE RingProofs ------------------------------
(***************************************************************************)
(* What holds of Ring for every number of producers, consumers, items and  *)
(* slots.                                                                  *)
(***************************************************************************)
EXTENDS Ring, FiniteSetTheorems, TLAPS

-----------------------------------------------------------------------------
(* Indices *)

Mod(a) == IF a < 0 THEN a + Slots ELSE IF a < Slots THEN a ELSE a - Slots

(* The remainders of all that the indices and a count add up to.           *)
LEMMA Remainders == \A a \in (-Slots)..(2 * Slots - 1) : a % Slots = Mod(a)
<1>. SUFFICES ASSUME NEW a \in (-Slots)..(2 * Slots - 1) PROVE a % Slots = Mod(a)
  OBVIOUS
<1>1. Slots \in Nat \ {0}
  BY RingAssumption DEF Slots
<1>. HIDE DEF Slots
<1>2. CASE a < 0
  BY <1>1, <1>2, Z3 DEF Mod
<1>3. CASE 0 <= a /\ a < Slots
  BY <1>1, <1>3, Z3 DEF Mod
<1>4. CASE Slots <= a
  BY <1>1, <1>4, Z3 DEF Mod
<1>. QED
  BY <1>1, <1>2, <1>3, <1>4

Indices == head \in 0..Slots /\ tail \in 0..Slots

(* The slot of the i-th item.                                              *)
Slot(i) == Mod(head + i - 1)

CountFacts ==
  /\ Count = Mod(tail - head) /\ Count \in 0..Length
  /\ Contents = [i \in 1..Count |-> items[Slot(i)]]
  /\ \A i \in 1..Slots : Slot(i) \in 0..Length

LEMMA CountAndSlots == Indices => CountFacts
<1>. SUFFICES ASSUME Indices PROVE CountFacts
  OBVIOUS
<1>1. Slots = Length + 1 /\ Length \in Nat
  BY RingAssumption DEF Slots
<1>2. tail - head \in (-Slots)..(2 * Slots - 1)
  BY <1>1 DEF Indices
<1>3. Count = Mod(tail - head)
  BY <1>2, Remainders DEF Count
<1>4. Count \in 0..Length
  BY <1>1, <1>2, <1>3 DEF Mod, Indices
<1>5. \A i \in 1..Slots : head + i - 1 \in (-Slots)..(2 * Slots - 1)
  BY <1>1 DEF Indices
<1>6. \A i \in 1..Count : (head + i - 1) % Slots = Slot(i)
  BY <1>1, <1>4, <1>5, Remainders DEF Slot
<1>7. Contents = [i \in 1..Count |-> items[Slot(i)]]
  BY <1>6 DEF Contents
<1>8. \A i \in 1..Slots : Slot(i) \in 0..Length
  BY <1>1, <1>5 DEF Slot, Mod, Indices
<1>. QED
  BY <1>3, <1>4, <1>7, <1>8 DEF CountFacts

LEMMA CountAndSlotsNext == Indices' => CountFacts'
  BY CountAndSlots, PTL

-----------------------------------------------------------------------------
(* The inductive invariant *)

CallsOK ==
  /\ at \in [Threads -> {"idle", "sleep", "clear"} \cup Inside]
  /\ kind \in [Threads -> {"try", "block", "timed"}]
  /\ offer \in [Producers -> Items \cup {None}]
  /\ \A p \in Producers : at[p] \notin {"idle", "clear"} => offer[p] \in Items

MemoryOK ==
  /\ items \in [0..Length -> Items \cup {None}]
  /\ last \in [op : {"none", "push", "pop"}, item : Items \cup {None}]
  /\ mixed \in BOOLEAN /\ fault \in BOOLEAN

HeardOK ==
  /\ woken \subseteq {t \in Threads : at[t] = "sleep"}
  /\ missed \subseteq {t \in Threads : at[t] \in {"sleepy", "sleep"}}

(* One thread of a side at a time is past its mutex.                       *)
Alone ==
  /\ \A p \in Producers, q \in Producers : at[p] \in Inside /\ at[q] \in Inside => p = q
  /\ \A c \in Consumers, d \in Consumers : at[c] \in Inside /\ at[d] \in Inside => c = d

(* An index is past the end only while its thread is to wrap it, and all   *)
(* that time unless a clear came between.                                  *)
PastTheEnd ==
  /\ tail = Slots => \E p \in Producers : at[p] = "wrap"
  /\ head = Slots => \E c \in Consumers : at[c] = "wrap"
  /\ ~mixed => /\ \A p \in Producers : at[p] = "wrap" => tail = Slots
               /\ \A c \in Consumers : at[c] = "wrap" => head = Slots

(* A clear that has met nobody has the ring to itself.                     *)
ClearsAlone ==
  ~mixed => /\ \A t \in Threads, u \in Threads : at[t] = "clear" => at[u] \notin Inside
            /\ \A t \in Threads : at[t] = "clear" => head = 0

RingInv == Indices /\ CallsOK /\ MemoryOK /\ HeardOK /\ Alone /\ PastTheEnd /\ ClearsAlone

LEMMA RingInvTypes == RingInv => RingTypeOK
<1>. SUFFICES ASSUME RingInv PROVE RingTypeOK
  OBVIOUS
<1>1. \A t \in Threads, u \in Threads :
        at[t] \in Inside /\ at[u] \in Inside /\ Side(t) = Side(u) => t = u
  BY RingAssumption DEF RingInv, Alone, Side, Threads
<1>2. ASSUME \A t \in Threads : at[t] # "wrap" PROVE Size = Count
  <2>1. tail # Slots /\ head # Slots
    BY <1>2 DEF RingInv, PastTheEnd, Threads
  <2>2. Count = Mod(tail - head)
    BY CountAndSlots DEF RingInv, CountFacts
  <2>. QED
    BY <2>1, <2>2, RingAssumption DEF RingInv, Indices, Size, Mod, Slots
<1>3. \A t \in Threads :
        at[t] = "wrap" /\ ~mixed => IF t \in Producers THEN tail = Slots ELSE head = Slots
  BY DEF RingInv, PastTheEnd, Threads
<1>. QED
  BY <1>1, <1>2, <1>3 DEF RingInv, Indices, CallsOK, MemoryOK, HeardOK, PastTheEnd, RingTypeOK

LEMMA RingInvInit == Init => RingInv
<1>. SUFFICES ASSUME Init PROVE RingInv
  OBVIOUS
<1>. USE RingAssumption DEF Init
<1>1. Indices /\ PastTheEnd
  BY DEF Indices, PastTheEnd, Slots, Threads
<1>2. CallsOK /\ HeardOK /\ Alone /\ ClearsAlone
  BY DEF CallsOK, HeardOK, Alone, ClearsAlone, Inside, Threads
<1>3. MemoryOK
  BY DEF MemoryOK
<1>. QED
  BY <1>1, <1>2, <1>3 DEF RingInv

(* A thread at check or wrap is alone there on its side, and its index is  *)
(* inside the array, or past its end unless a clear has met a call.        *)
LEMMA AtCheck ==
  ASSUME RingInv
  PROVE  /\ \A p \in Producers : at[p] = "check" => tail \in 0..Length
         /\ \A c \in Consumers : at[c] = "check" => head \in 0..Length
         /\ \A p \in Producers : at[p] = "wrap" /\ ~mixed => tail = Slots
         /\ \A c \in Consumers : at[c] = "wrap" /\ ~mixed => head = Slots
  BY RingAssumption DEF RingInv, Indices, Alone, PastTheEnd, Inside, Slots

(* The step of a thread of the side that the mutex of side protects.       *)
LEMMA StepKeepsAlone ==
  ASSUME RingInv, NEW t \in Threads, NEW place \in {"idle", "sleep", "clear"} \cup Inside, Goes(t, place),
         at[t] \in Inside \/ MutexFree(t) \/ place \notin Inside
  PROVE  /\ at' \in [Threads -> {"idle", "sleep", "clear"} \cup Inside]
         /\ at'[t] = place /\ \A u \in Threads : u # t => at'[u] = at[u]
         /\ Alone' /\ mixed' \in BOOLEAN /\ (~mixed' => ~mixed /\ ~Meets')
<1>4. mixed' \in BOOLEAN /\ (~mixed' => ~mixed /\ ~Meets')
  BY DEF Goes
<1>1. /\ at' \in [Threads -> {"idle", "sleep", "clear"} \cup Inside]
      /\ at'[t] = place /\ \A u \in Threads : u # t => at'[u] = at[u]
  BY DEF Goes, RingInv, CallsOK
<1>2. CASE t \in Producers /\ (at[t] \in Inside \/ MutexFree(t))
  <2>1. \A q \in Producers : q # t => at[q] \notin Inside
    BY <1>2 DEF MutexFree, Side, RingInv, Alone
  <2>. QED
    BY <1>1, <1>2, <1>4, <2>1, RingAssumption DEF RingInv, Alone, Threads
<1>3. CASE t \in Consumers /\ (at[t] \in Inside \/ MutexFree(t))
  <2>1. \A q \in Consumers : q # t => at[q] \notin Inside
    BY <1>3, RingAssumption DEF MutexFree, Side, RingInv, Alone
  <2>. QED
    BY <1>1, <1>3, <1>4, <2>1, RingAssumption DEF RingInv, Alone, Threads
<1>5. CASE place \notin Inside
  BY <1>1, <1>4, <1>5 DEF RingInv, Alone, Threads
<1>. QED
  BY <1>1, <1>2, <1>3, <1>4, <1>5 DEF Threads

(* A thread whose mutex or wait ends while a clear runs has met it, and    *)
(* there is no other that could go on.                                     *)
LEMMA ClearsAloneStep == RingInv /\ [Next]_vars => ClearsAlone'
<1>. SUFFICES ASSUME RingInv, [Next]_vars, ~mixed', NEW t \in Threads, at'[t] = "clear"
              PROVE  head' = 0 /\ \A u \in Threads : at'[u] \notin Inside
  BY DEF ClearsAlone
<1>1. CASE UNCHANGED vars
  BY <1>1 DEF vars, RingInv, ClearsAlone
<1>2. CASE \E c \in Consumers : Overrun(c)
  BY <1>2 DEF Overrun, callVars, RingInv, ClearsAlone
<1>3. ASSUME NEW u \in Threads, NEW place \in {"idle", "sleep", "clear"} \cup Inside, Goes(u, place),
             at[u] \in {"idle", "sleep"} => head' = 0 \/ place \in Inside,
             place = "clear" => head' = 0,
             at[u] \in Inside \cup {"idle", "sleep", "clear"}, at[u] = "clear" => head' = head
      PROVE  head' = 0 /\ \A v \in Threads : at'[v] \notin Inside
  <2>1. ~mixed /\ ~Meets'
    BY <1>3 DEF Goes
  <2>2. \A v \in Threads : at'[v] \notin Inside
    BY <2>1 DEF Meets, Clearing
  <2>3. at'[u] = place /\ \A v \in Threads : v # u => at'[v] = at[v]
    BY <1>3 DEF Goes, RingInv, CallsOK
  <2>4. CASE at[t] = "clear"
    BY <1>3, <2>1, <2>2, <2>3, <2>4 DEF RingInv, ClearsAlone
  <2>5. CASE at[t] # "clear"
    BY <1>3, <2>2, <2>3, <2>5
  <2>. QED
    BY <2>2, <2>4, <2>5
<1>20. ASSUME NEW u \in Threads PROVE at[u] \in Inside \cup {"idle", "sleep", "clear"}
  BY <1>20 DEF RingInv, CallsOK
<1>4. ASSUME NEW u \in Threads, Call(u) \/ Wake(u) \/ Timeout(u)
      PROVE  head' = 0 /\ \A v \in Threads : at'[v] \notin Inside
  <2>1. PICK place \in {"test", "check"} : Goes(u, place)
    BY <1>4 DEF Call, Wake, Timeout
  <2>2. at[u] \in {"idle", "sleep"} /\ place \in Inside
    BY <1>4 DEF Call, Wake, Timeout, Inside
  <2>. QED
    BY <1>3, <1>20, <2>1, <2>2
<1>5. ASSUME NEW u \in Threads, ClearHead(u)
      PROVE  head' = 0 /\ \A v \in Threads : at'[v] \notin Inside
  BY <1>3, <1>5 DEF ClearHead
<1>6. ASSUME NEW u \in Threads, ClearTail(u)
      PROVE  head' = 0 /\ \A v \in Threads : at'[v] \notin Inside
  BY <1>3, <1>6 DEF ClearTail, Returns
<1>7. ASSUME NEW u \in Threads, at[u] \in Inside, NEW place \in {"idle", "sleep"} \cup Inside, Goes(u, place)
      PROVE  head' = 0 /\ \A v \in Threads : at'[v] \notin Inside
  BY <1>3, <1>7 DEF Inside
<1>8. ASSUME NEW u \in Threads, Test(u) \/ Sleep(u) \/ Refuse(u) \/ Wrap(u) \/ Notify(u)
                                   \/ Push(u) \/ Pop(u) \/ MoveMixed(u)
      PROVE  head' = 0 /\ \A v \in Threads : at'[v] \notin Inside
  <2>1. at[u] \in Inside
    BY <1>8 DEF Test, Sleep, Refuse, Wrap, Notify, Push, Pop, MoveMixed, Inside
  <2>2. PICK place \in {"idle", "sleep", "check", "sleepy", "notify", "wrap"} : Goes(u, place)
    BY <1>8 DEF Test, Sleep, Refuse, Wrap, Notify, Push, Pop, MoveMixed, Returns, Past
  <2>. QED
    BY <1>7, <2>1, <2>2 DEF Inside
<1>. QED
  BY <1>1, <1>2, <1>4, <1>5, <1>6, <1>8 DEF Next, Step, Move, Threads

LEMMA RingInvStep == RingInv /\ [Next]_vars => RingInv'
<1>. SUFFICES ASSUME RingInv, [Next]_vars PROVE RingInv'
  OBVIOUS
<1>20. /\ Slots = Length + 1 /\ Length \in Nat \ {0} /\ Producers \cap Consumers = {}
       /\ Threads = Producers \cup Consumers
       /\ Inside = {"test", "sleepy", "check", "wrap", "notify"}
       /\ Indices /\ CallsOK /\ MemoryOK /\ HeardOK /\ PastTheEnd
  BY RingAssumption DEF Slots, Threads, Inside, RingInv
<1>22. ClearsAlone'
  BY ClearsAloneStep
<1>23. ASSUME Remembers PROVE /\ items' \in [0..Length -> Items \cup {None}]
                              /\ last' \in [op : {"none", "push", "pop"}, item : Items \cup {None}]
  BY <1>20, <1>23 DEF Remembers, Forgotten, MemoryOK
<1>21. ASSUME NEW t \in Threads, NEW place \in {"idle", "sleep", "clear"} \cup Inside, Goes(t, place),
              at[t] \in Inside \/ MutexFree(t) \/ place \notin Inside
       PROVE  /\ at' \in [Threads -> {"idle", "sleep", "clear"} \cup Inside]
              /\ at'[t] = place /\ \A u \in Threads : u # t => at'[u] = at[u]
              /\ Alone' /\ mixed' \in BOOLEAN /\ (~mixed' => ~mixed /\ ~Meets')
  BY <1>21, StepKeepsAlone
<1>1. ASSUME NEW t \in Threads, Call(t) PROVE RingInv'
  <2>1. PICK place \in {"check", "test"} : Goes(t, place)
    BY <1>1 DEF Call
  <2>2. /\ at' \in [Threads -> {"idle", "sleep", "clear"} \cup Inside]
        /\ at'[t] = place /\ \A u \in Threads : u # t => at'[u] = at[u]
        /\ Alone' /\ mixed' \in BOOLEAN /\ (~mixed' => ~mixed /\ ~Meets')
    BY <1>20, <1>21, <1>1, <2>1 DEF Call
  <2>3. CallsOK'
    BY <1>20, <1>1, <2>1, <2>2 DEF Call, CallsOK
  <2>4. HeardOK'
    BY <1>20, <1>1, <2>2 DEF Call, HeardOK
  <2>5. MemoryOK'
    BY <1>20, <1>23, <1>1, <2>2 DEF Call, MemoryOK
  <2>6. Indices' /\ PastTheEnd'
    BY <1>20, <1>1, <2>1, <2>2, AtCheck DEF Call, Indices, PastTheEnd
  <2>. QED
    BY <1>22, <2>2, <2>3, <2>4, <2>5, <2>6 DEF RingInv
<1>2. ASSUME NEW t \in Threads, Test(t) PROVE RingInv'
  <2>1. PICK place \in {"check", "sleepy"} : Goes(t, place)
    BY <1>2 DEF Test
  <2>2. /\ at' \in [Threads -> {"idle", "sleep", "clear"} \cup Inside]
        /\ at'[t] = place /\ \A u \in Threads : u # t => at'[u] = at[u]
        /\ Alone' /\ mixed' \in BOOLEAN /\ (~mixed' => ~mixed /\ ~Meets')
    BY <1>20, <1>21, <1>2, <2>1 DEF Test
  <2>3. CallsOK'
    BY <1>20, <1>2, <2>1, <2>2 DEF Test, CallsOK
  <2>4. HeardOK'
    BY <1>20, <1>2, <2>2 DEF Test, HeardOK
  <2>5. MemoryOK'
    BY <1>20, <1>2, <2>2 DEF Test, MemoryOK
  <2>6. Indices' /\ PastTheEnd'
    BY <1>20, <1>2, <2>1, <2>2, AtCheck DEF Test, Indices, PastTheEnd
  <2>. QED
    BY <1>22, <2>2, <2>3, <2>4, <2>5, <2>6 DEF RingInv
<1>3. ASSUME NEW t \in Threads, Sleep(t) PROVE RingInv'
  <2>1. PICK place \in {"sleep"} : Goes(t, place)
    BY <1>3 DEF Sleep
  <2>2. /\ at' \in [Threads -> {"idle", "sleep", "clear"} \cup Inside]
        /\ at'[t] = place /\ \A u \in Threads : u # t => at'[u] = at[u]
        /\ Alone' /\ mixed' \in BOOLEAN /\ (~mixed' => ~mixed /\ ~Meets')
    BY <1>20, <1>21, <1>3, <2>1 DEF Sleep
  <2>3. CallsOK'
    BY <1>20, <1>3, <2>1, <2>2 DEF Sleep, CallsOK
  <2>4. HeardOK'
    BY <1>20, <1>3, <2>2 DEF Sleep, HeardOK
  <2>5. MemoryOK'
    BY <1>20, <1>3, <2>2 DEF Sleep, MemoryOK
  <2>6. Indices' /\ PastTheEnd'
    BY <1>20, <1>3, <2>1, <2>2, AtCheck DEF Sleep, Indices, PastTheEnd
  <2>. QED
    BY <1>22, <2>2, <2>3, <2>4, <2>5, <2>6 DEF RingInv
<1>4. ASSUME NEW t \in Threads, Wake(t) PROVE RingInv'
  <2>1. PICK place \in {"test"} : Goes(t, place)
    BY <1>4 DEF Wake
  <2>2. /\ at' \in [Threads -> {"idle", "sleep", "clear"} \cup Inside]
        /\ at'[t] = place /\ \A u \in Threads : u # t => at'[u] = at[u]
        /\ Alone' /\ mixed' \in BOOLEAN /\ (~mixed' => ~mixed /\ ~Meets')
    BY <1>20, <1>21, <1>4, <2>1 DEF Wake
  <2>3. CallsOK'
    BY <1>20, <1>4, <2>1, <2>2 DEF Wake, CallsOK
  <2>4. HeardOK'
    BY <1>20, <1>4, <2>2 DEF Wake, HeardOK
  <2>5. MemoryOK'
    BY <1>20, <1>23, <1>4, <2>2 DEF Wake, MemoryOK
  <2>6. Indices' /\ PastTheEnd'
    BY <1>20, <1>4, <2>1, <2>2, AtCheck DEF Wake, Indices, PastTheEnd
  <2>. QED
    BY <1>22, <2>2, <2>3, <2>4, <2>5, <2>6 DEF RingInv
<1>5. ASSUME NEW t \in Threads, Timeout(t) PROVE RingInv'
  <2>1. PICK place \in {"check"} : Goes(t, place)
    BY <1>5 DEF Timeout
  <2>2. /\ at' \in [Threads -> {"idle", "sleep", "clear"} \cup Inside]
        /\ at'[t] = place /\ \A u \in Threads : u # t => at'[u] = at[u]
        /\ Alone' /\ mixed' \in BOOLEAN /\ (~mixed' => ~mixed /\ ~Meets')
    BY <1>20, <1>21, <1>5, <2>1 DEF Timeout
  <2>3. CallsOK'
    BY <1>20, <1>5, <2>1, <2>2 DEF Timeout, CallsOK
  <2>4. HeardOK'
    BY <1>20, <1>5, <2>2 DEF Timeout, HeardOK
  <2>5. MemoryOK'
    BY <1>20, <1>23, <1>5, <2>2 DEF Timeout, MemoryOK
  <2>6. Indices' /\ PastTheEnd'
    BY <1>20, <1>5, <2>1, <2>2, AtCheck DEF Timeout, Indices, PastTheEnd
  <2>. QED
    BY <1>22, <2>2, <2>3, <2>4, <2>5, <2>6 DEF RingInv
<1>6. ASSUME NEW t \in Threads, Refuse(t) PROVE RingInv'
  <2>1. PICK place \in {"idle"} : Goes(t, place)
    BY <1>6 DEF Refuse, Returns
  <2>2. /\ at' \in [Threads -> {"idle", "sleep", "clear"} \cup Inside]
        /\ at'[t] = place /\ \A u \in Threads : u # t => at'[u] = at[u]
        /\ Alone' /\ mixed' \in BOOLEAN /\ (~mixed' => ~mixed /\ ~Meets')
    BY <1>20, <1>21, <1>6, <2>1 DEF Refuse
  <2>3. CallsOK'
    BY <1>20, <1>6, <2>1, <2>2 DEF Refuse, Returns, CallsOK
  <2>4. HeardOK'
    BY <1>20, <1>6, <2>2 DEF Refuse, Returns, HeardOK
  <2>5. MemoryOK'
    BY <1>20, <1>6, <2>2 DEF Refuse, Returns, MemoryOK
  <2>6. Indices' /\ PastTheEnd'
    BY <1>20, <1>6, <2>1, <2>2, AtCheck DEF Refuse, Returns, Indices, PastTheEnd
  <2>. QED
    BY <1>22, <2>2, <2>3, <2>4, <2>5, <2>6 DEF RingInv
<1>7. ASSUME NEW p \in Producers, Push(p) PROVE RingInv'
  <2>1. PICK place \in {"wrap", "notify"} : Goes(p, place)
    BY <1>7 DEF Push, Past
  <2>2. /\ at' \in [Threads -> {"idle", "sleep", "clear"} \cup Inside]
        /\ at'[p] = place /\ \A u \in Threads : u # p => at'[u] = at[u]
        /\ Alone' /\ mixed' \in BOOLEAN /\ (~mixed' => ~mixed /\ ~Meets')
    BY <1>20, <1>21, <1>7, <2>1 DEF Push
  <2>3. CallsOK'
    BY <1>20, <1>7, <2>1, <2>2 DEF Push, CallsOK
  <2>4. HeardOK'
    BY <1>20, <1>7, <2>2 DEF Push, HeardOK
  <2>5. MemoryOK'
    BY <1>20, <1>7, <2>2, AtCheck DEF Push, MemoryOK, CallsOK, Indices
  <2>6. Indices' /\ PastTheEnd'
    <3>1. tail \in 0..Length /\ tail' = tail + 1 /\ head' = head
      BY <1>7, AtCheck DEF Push
    <3>2. at'[p] = "wrap" <=> tail' = Slots
      BY <1>20, <1>7, <2>2, <3>1 DEF Push, Past, Goes, CallsOK
    <3>3. \A u \in Producers : u # p => at'[u] # "wrap"
      BY <1>20, <1>7, <2>2, <3>1 DEF Push, RingInv, Alone
    <3>4. \A u \in Consumers : at'[u] = at[u]
      BY <1>20, <2>2
    <3>. QED
      BY <1>20, <2>2, <3>1, <3>2, <3>3, <3>4 DEF Indices, PastTheEnd
  <2>. QED
    BY <1>22, <2>2, <2>3, <2>4, <2>5, <2>6 DEF RingInv
<1>8. ASSUME NEW c \in Consumers, Pop(c) PROVE RingInv'
  <2>1. PICK place \in {"wrap", "notify"} : Goes(c, place)
    BY <1>8 DEF Pop, Past
  <2>2. /\ at' \in [Threads -> {"idle", "sleep", "clear"} \cup Inside]
        /\ at'[c] = place /\ \A u \in Threads : u # c => at'[u] = at[u]
        /\ Alone' /\ mixed' \in BOOLEAN /\ (~mixed' => ~mixed /\ ~Meets')
    BY <1>20, <1>21, <1>8, <2>1 DEF Pop
  <2>3. CallsOK'
    BY <1>20, <1>8, <2>1, <2>2 DEF Pop, CallsOK
  <2>4. HeardOK'
    BY <1>20, <1>8, <2>2 DEF Pop, HeardOK
  <2>5. MemoryOK'
    BY <1>20, <1>8, <2>2, AtCheck DEF Pop, MemoryOK, CallsOK, Indices
  <2>6. Indices' /\ PastTheEnd'
    <3>1. head \in 0..Length /\ head' = head + 1 /\ tail' = tail
      BY <1>8, AtCheck DEF Pop
    <3>2. at'[c] = "wrap" <=> head' = Slots
      BY <1>20, <1>8, <2>2, <3>1 DEF Pop, Past, Goes, CallsOK
    <3>3. \A u \in Consumers : u # c => at'[u] # "wrap"
      BY <1>20, <1>8, <2>2, <3>1 DEF Pop, RingInv, Alone
    <3>4. \A u \in Producers : at'[u] = at[u]
      BY <1>20, <2>2
    <3>. QED
      BY <1>20, <2>2, <3>1, <3>2, <3>3, <3>4 DEF Indices, PastTheEnd
  <2>. QED
    BY <1>22, <2>2, <2>3, <2>4, <2>5, <2>6 DEF RingInv
<1>9. ASSUME NEW t \in Threads, Wrap(t) PROVE RingInv'
  <2>1. PICK place \in {"notify"} : Goes(t, place)
    BY <1>9 DEF Wrap
  <2>2. /\ at' \in [Threads -> {"idle", "sleep", "clear"} \cup Inside]
        /\ at'[t] = place /\ \A u \in Threads : u # t => at'[u] = at[u]
        /\ Alone' /\ mixed' \in BOOLEAN /\ (~mixed' => ~mixed /\ ~Meets')
    BY <1>20, <1>21, <1>9, <2>1 DEF Wrap
  <2>3. CallsOK'
    BY <1>20, <1>9, <2>1, <2>2 DEF Wrap, CallsOK
  <2>4. HeardOK'
    BY <1>20, <1>9, <2>2 DEF Wrap, HeardOK
  <2>5. MemoryOK'
    BY <1>20, <1>9, <2>2 DEF Wrap, MemoryOK
  <2>6. Indices' /\ PastTheEnd'
    <3>1. CASE t \in Producers
      <4>1. tail' = 0 /\ head' = head
        BY <1>20, <1>9, <3>1 DEF Wrap
      <4>2. \A q \in Producers : at'[q] # "wrap"
        BY <1>20, <1>9, <2>1, <2>2, <3>1 DEF Wrap, RingInv, Alone
      <4>3. \A u \in Consumers : at'[u] = at[u]
        BY <1>20, <2>2, <3>1
      <4>. QED
        BY <1>20, <2>2, <4>1, <4>2, <4>3 DEF Indices, PastTheEnd
    <3>2. CASE t \in Consumers
      <4>1. head' = 0 /\ tail' = tail
        BY <1>20, <1>9, <3>2 DEF Wrap
      <4>2. \A q \in Consumers : at'[q] # "wrap"
        BY <1>20, <1>9, <2>1, <2>2, <3>2 DEF Wrap, RingInv, Alone
      <4>3. \A u \in Producers : at'[u] = at[u]
        BY <1>20, <2>2, <3>2
      <4>. QED
        BY <1>20, <2>2, <4>1, <4>2, <4>3 DEF Indices, PastTheEnd
    <3>. QED
      BY <1>20, <3>1, <3>2
  <2>. QED
    BY <1>22, <2>2, <2>3, <2>4, <2>5, <2>6 DEF RingInv
<1>10. ASSUME NEW t \in Threads, Notify(t) PROVE RingInv'
  <2>1. PICK place \in {"idle"} : Goes(t, place)
    BY <1>10 DEF Notify, Returns
  <2>2. /\ at' \in [Threads -> {"idle", "sleep", "clear"} \cup Inside]
        /\ at'[t] = place /\ \A u \in Threads : u # t => at'[u] = at[u]
        /\ Alone' /\ mixed' \in BOOLEAN /\ (~mixed' => ~mixed /\ ~Meets')
    BY <1>20, <1>21, <1>10, <2>1 DEF Notify
  <2>3. CallsOK'
    BY <1>20, <1>10, <2>1, <2>2 DEF Notify, Returns, CallsOK
  <2>4. HeardOK'
    BY <1>20, <1>10, <2>2 DEF Notify, Returns, HeardOK, Other
  <2>5. MemoryOK'
    BY <1>20, <1>10, <2>2 DEF Notify, Returns, MemoryOK
  <2>6. Indices' /\ PastTheEnd'
    BY <1>20, <1>10, <2>1, <2>2, AtCheck DEF Notify, Returns, Indices, PastTheEnd
  <2>. QED
    BY <1>22, <2>2, <2>3, <2>4, <2>5, <2>6 DEF RingInv
<1>11. ASSUME NEW c \in Consumers, Overrun(c) PROVE RingInv'
  BY <1>20, <1>22, <1>11 DEF Overrun, RingInv, Indices, CallsOK, MemoryOK, HeardOK, Alone, PastTheEnd, callVars
<1>12. ASSUME NEW t \in Threads, MoveMixed(t) PROVE RingInv'
  <2>1. PICK place \in {"wrap", "notify"} : Goes(t, place)
    BY <1>12 DEF MoveMixed, Past
  <2>2. /\ at' \in [Threads -> {"idle", "sleep", "clear"} \cup Inside]
        /\ at'[t] = place /\ \A u \in Threads : u # t => at'[u] = at[u]
        /\ Alone' /\ mixed' = TRUE
    BY <1>20, <1>21, <1>12, <2>1 DEF MoveMixed, Goes
  <2>3. CallsOK'
    BY <1>20, <1>12, <2>1, <2>2 DEF MoveMixed, CallsOK
  <2>4. HeardOK'
    BY <1>20, <1>12, <2>2 DEF MoveMixed, HeardOK
  <2>5. MemoryOK'
    BY <1>20, <1>12, <2>2 DEF MoveMixed, MemoryOK
  <2>6. Indices' /\ PastTheEnd'
    <3>1. CASE t \in Producers
      <4>1. tail \in 0..Length /\ tail' = tail + 1 /\ head' = head /\ Goes(t, Past(tail))
        BY <1>20, <1>12, <3>1, AtCheck DEF MoveMixed
      <4>2. tail' = Slots => at'[t] = "wrap"
        BY <1>20, <2>2, <4>1 DEF Goes, Past, CallsOK
      <4>. QED
        BY <1>20, <2>2, <3>1, <4>1, <4>2 DEF Indices, PastTheEnd
    <3>2. CASE t \in Consumers
      <4>1. head \in 0..Length /\ head' = head + 1 /\ tail' = tail /\ Goes(t, Past(head))
        BY <1>20, <1>12, <3>2, AtCheck DEF MoveMixed
      <4>2. head' = Slots => at'[t] = "wrap"
        BY <1>20, <2>2, <4>1 DEF Goes, Past, CallsOK
      <4>. QED
        BY <1>20, <2>2, <3>2, <4>1, <4>2 DEF Indices, PastTheEnd
    <3>. QED
      BY <1>20, <3>1, <3>2
  <2>. QED
    BY <1>22, <2>2, <2>3, <2>4, <2>5, <2>6 DEF RingInv
<1>14. ASSUME NEW t \in Threads, ClearHead(t) PROVE RingInv'
  <2>1. Goes(t, "clear")
    BY <1>14 DEF ClearHead
  <2>2. /\ at' \in [Threads -> {"idle", "sleep", "clear"} \cup Inside]
        /\ at'[t] = "clear" /\ \A u \in Threads : u # t => at'[u] = at[u]
        /\ Alone' /\ mixed' \in BOOLEAN /\ (~mixed' => ~mixed /\ ~Meets')
    BY <1>20, <1>21, <2>1
  <2>3. CallsOK' /\ HeardOK'
    BY <1>20, <1>14, <2>2 DEF ClearHead, CallsOK, HeardOK
  <2>4. MemoryOK'
    BY <1>20, <1>23, <1>14, <2>2 DEF ClearHead, MemoryOK
  <2>5. Indices' /\ PastTheEnd'
    <3>1. ~mixed' => \A u \in Threads : at'[u] # "wrap"
      BY <1>20, <2>2 DEF Meets, Clearing
    <3>. QED
      BY <1>20, <1>14, <2>2, <3>1 DEF ClearHead, Indices, PastTheEnd
  <2>. QED
    BY <1>22, <2>2, <2>3, <2>4, <2>5 DEF RingInv
<1>15. ASSUME NEW t \in Threads, ClearTail(t) PROVE RingInv'
  <2>1. Goes(t, "idle")
    BY <1>15 DEF ClearTail, Returns
  <2>2. /\ at' \in [Threads -> {"idle", "sleep", "clear"} \cup Inside]
        /\ at'[t] = "idle" /\ \A u \in Threads : u # t => at'[u] = at[u]
        /\ Alone' /\ mixed' \in BOOLEAN /\ (~mixed' => ~mixed /\ ~Meets')
    BY <1>20, <1>21, <2>1
  <2>3. CallsOK' /\ HeardOK'
    BY <1>20, <1>15, <2>2 DEF ClearTail, Returns, CallsOK, HeardOK
  <2>4. MemoryOK'
    BY <1>20, <1>15, <2>2 DEF ClearTail, MemoryOK
  <2>5. Indices' /\ PastTheEnd'
    <3>1. ~mixed' => \A u \in Threads : at'[u] # "wrap"
      BY <1>20, <1>15, <2>2 DEF ClearTail, RingInv, ClearsAlone
    <3>. QED
      BY <1>20, <1>15, <2>2, <3>1 DEF ClearTail, Indices, PastTheEnd
  <2>. QED
    BY <1>22, <2>2, <2>3, <2>4, <2>5 DEF RingInv
<1>13. CASE UNCHANGED vars
  BY <1>20, <1>22, <1>13 DEF vars, RingInv, Indices, CallsOK, MemoryOK, HeardOK, Alone, PastTheEnd
<1>. QED
  BY <1>1, <1>2, <1>3, <1>4, <1>5, <1>6, <1>7, <1>8, <1>9, <1>10, <1>11, <1>12, <1>13, <1>14, <1>15
     DEF Next, Step, Move

LEMMA RingInvariant == Spec => []RingInv
  BY RingInvInit, RingInvStep, PTL DEF Spec

(* The types; the mutexes exclude; an index is out of the array only on    *)
(* its way round; size() is right when none is.                            *)
THEOREM RingTypeCorrect == Spec => []RingTypeOK
  BY RingInvariant, RingInvTypes, PTL

(* A pop takes what is not there only while a push has its tail past the   *)
(* end, or once a clear has met a call.                                    *)
THEOREM OverrunsNeedWrap == Spec => OverrunOnlyInWrap
<1>1. ASSUME RingInv, [Next]_vars, fault', ~fault PROVE mixed \/ \E p \in Producers : at[p] = "wrap"
  <2>1. (\E t \in Threads : MoveMixed(t)) \/ \E c \in Consumers : Overrun(c)
    BY <1>1 DEF Next, vars, ClearHead, ClearTail, Call, Wake, Timeout, Step, Test, Sleep, Refuse, Move, Push,
                Pop, Wrap, Notify
  <2>2. CASE \E t \in Threads : MoveMixed(t)
    BY <2>2 DEF MoveMixed
  <2>3. ASSUME NEW c \in Consumers, Overrun(c) PROVE \E p \in Producers : at[p] = "wrap"
    <3>1. head \in 0..Length /\ tail # head /\ Mod(tail - head) = 0
      BY <1>1, <2>3, AtCheck, CountAndSlots DEF Overrun, Empty, RingInv, CountFacts
    <3>2. tail = Slots
      BY <1>1, <3>1, RingAssumption DEF RingInv, Indices, Mod, Slots
    <3>. QED
      BY <1>1, <3>2 DEF RingInv, PastTheEnd
  <2>. QED
    BY <2>1, <2>2, <2>3
<1>. QED
  BY <1>1, RingInvariant, PTL DEF Spec, OverrunOnlyInWrap

-----------------------------------------------------------------------------
(* The refinement *)

QueueFacts ==
  /\ Len(Contents) = Count /\ DOMAIN Contents = 1..Count
  /\ \A i \in 1..Count : Contents[i] = items[Slot(i)]
  /\ Contents = <<>> <=> Count = 0

LEMMA ContentsIsQueue == Indices => QueueFacts
<1>. SUFFICES ASSUME Indices PROVE QueueFacts
  OBVIOUS
<1>1. Count \in Nat /\ Contents = [i \in 1..Count |-> items[Slot(i)]]
  BY CountAndSlots DEF CountFacts
<1>2. Len(Contents) = Count /\ DOMAIN Contents = 1..Count
  BY <1>1
<1>3. \A i \in 1..Count : Contents[i] = items[Slot(i)]
  BY <1>1
<1>4. Contents = <<>> <=> Count = 0
  BY <1>1, <1>2
<1>. QED
  BY <1>2, <1>3, <1>4 DEF QueueFacts

LEMMA ContentsIsQueueNext == Indices' => QueueFacts'
  BY ContentsIsQueue, PTL

(* A thread that has its mutex, and has met no clear, goes on alone.       *)
LEMMA NoClearMeanwhile ==
  ASSUME RingInv, NEW t \in Threads, at[t] \in Inside, ~mixed, NEW place, place # "clear", Goes(t, place)
  PROVE  ~Clearing /\ ~Clearing'
<1>1. \A u \in Threads : at[u] # "clear"
  BY DEF RingInv, ClearsAlone
<1>2. \A u \in Threads : at'[u] # "clear"
  BY <1>1 DEF Goes, RingInv, CallsOK
<1>. QED
  BY <1>1, <1>2 DEF Clearing

(* Contents changes only with the indices and the items between them.      *)
LEMMA PushAppends ==
  ASSUME RingInv, NEW p \in Producers, Push(p)
  PROVE  Queue!Push(offer[p])
<1>20. /\ Slots = Length + 1 /\ Length \in Nat \ {0}
       /\ tail \in 0..Length /\ head \in 0..Slots /\ Indices
       /\ items \in [0..Length -> Items \cup {None}]
       /\ items' = [items EXCEPT ![tail] = offer[p]] /\ tail' = tail + 1 /\ head' = head
       /\ last' = [op |-> "push", item |-> offer[p]]
  BY AtCheck, RingAssumption DEF RingInv, Indices, MemoryOK, Push, Slots
<1>21. Indices' /\ Count = Mod(tail - head) /\ Count' = Mod(tail' - head')
  <2>1. Indices'
    BY <1>20 DEF Indices, Slots
  <2>. QED
    BY <1>20, <2>1, CountAndSlots, CountAndSlotsNext DEF CountFacts, Indices
<1>1. Count \in 0..(Length - 1) /\ Count' = Count + 1
  BY <1>20, <1>21, SMTT(40) DEF Mod, Push, Full
<1>2. Slot(Count + 1) = tail /\ \A i \in 1..Count : Slot(i) # tail /\ Slot(i) \in 0..Length
  BY <1>20, <1>21, <1>1 DEF Slot, Mod
<1>3. /\ Contents = [i \in 1..Count |-> items[Slot(i)]]
      /\ Contents' = [i \in 1..(Count + 1) |-> items'[Slot(i)]]
  <2>1. \A i : Slot(i)' = Slot(i)
    BY <1>20 DEF Slot, Mod, Slots
  <2>. QED
    BY <1>20, <1>21, <1>1, <2>1, CountAndSlots, CountAndSlotsNext DEF CountFacts
<1>4. \A i \in 1..(Count + 1) : items'[Slot(i)] = IF i <= Count THEN Contents[i] ELSE offer[p]
  BY <1>20, <1>1, <1>2, <1>3
<1>5. Contents' = Append(Contents, offer[p])
  BY <1>1, <1>3, <1>4
<1>6. Len(Contents) < Length
  BY <1>20, <1>1, ContentsIsQueue DEF QueueFacts
<1>7. ~Clearing /\ ~Clearing'
  <2>1. PICK place \in {"wrap", "notify"} : Goes(p, place)
    BY DEF Push, Past
  <2>. QED
    BY <2>1, NoClearMeanwhile DEF Push, Inside, Threads
<1>. QED
  BY <1>20, <1>5, <1>6, <1>7 DEF Queue!Push

LEMMA PopTakesFirst ==
  ASSUME RingInv, NEW c \in Consumers, Pop(c)
  PROVE  Queue!Pop
<1>20. /\ Slots = Length + 1 /\ Length \in Nat \ {0}
       /\ head \in 0..Length /\ tail \in 0..Slots /\ Indices
       /\ items \in [0..Length -> Items \cup {None}]
       /\ items' = [items EXCEPT ![head] = None] /\ tail' = tail /\ head' = head + 1
       /\ last' = [op |-> "pop", item |-> items[head]]
       /\ Count > 0
  BY AtCheck, RingAssumption DEF RingInv, Indices, MemoryOK, Pop, Slots
<1>21. /\ Indices' /\ Count = Mod(tail - head) /\ Count' = Mod(tail' - head')
       /\ Count \in 1..Length
  <2>1. Indices'
    BY <1>20 DEF Indices, Slots
  <2>. QED
    BY <1>20, <2>1, CountAndSlots, CountAndSlotsNext DEF CountFacts, Indices
<1>1. Count' = Count - 1
  BY <1>20, <1>21 DEF Mod
<1>2. Slot(1) = head /\ \A i \in 2..Count : Slot(i) # head /\ Slot(i) \in 0..Length
  BY <1>20, <1>21 DEF Slot, Mod
<1>3. /\ Contents = [i \in 1..Count |-> items[Slot(i)]]
      /\ Contents' = [i \in 1..(Count - 1) |-> items'[Slot(i + 1)]]
  <2>1. \A i \in 1..(Count - 1) : Slot(i)' = Slot(i + 1)
    BY <1>20, <1>21 DEF Slot, Mod, Slots
  <2>2. Contents' = [i \in 1..(Count - 1) |-> items'[Slot(i)']]
    BY <1>21, <1>1, CountAndSlotsNext DEF CountFacts
  <2>. QED
    BY <1>20, <1>21, <2>1, <2>2, CountAndSlots, SMTT(40) DEF CountFacts
<1>4. \A i \in 1..(Count - 1) : items'[Slot(i + 1)] = Contents[i + 1]
  BY <1>20, <1>21, <1>2, <1>3
<1>5. Contents # <<>> /\ Head(Contents) = items[head] /\ Len(Contents) = Count
  BY <1>20, <1>21, <1>2, <1>3, ContentsIsQueue DEF QueueFacts
<1>6. Contents' = Tail(Contents)
  BY <1>21, <1>3, <1>4, <1>5
<1>7. ~Clearing /\ ~Clearing'
  <2>1. PICK place \in {"wrap", "notify"} : Goes(c, place)
    BY DEF Pop, Past
  <2>. QED
    BY <2>1, NoClearMeanwhile DEF Pop, Inside, Threads
<1>. QED
  BY <1>20, <1>5, <1>6, <1>7 DEF Queue!Pop

LEMMA WrapChangesNothing ==
  ASSUME RingInv, ~mixed, NEW t \in Threads, Wrap(t)
  PROVE  UNCHANGED <<Contents, last>>
<1>20. /\ Slots = Length + 1 /\ Length \in Nat \ {0} /\ Indices
       /\ items' = items /\ last' = last
       /\ \/ tail = Slots /\ tail' = 0 /\ head' = head
          \/ head = Slots /\ head' = 0 /\ tail' = tail
  BY AtCheck, RingAssumption DEF RingInv, Wrap, Slots
<1>21. /\ Indices' /\ Count = Mod(tail - head) /\ Count' = Mod(tail' - head')
       /\ Count \in 0..Length
  <2>1. Indices'
    BY <1>20 DEF Indices, Slots
  <2>. QED
    BY <1>20, <2>1, CountAndSlots, CountAndSlotsNext DEF CountFacts, Indices
<1>22. Slots \in Nat /\ head \in 0..Slots /\ tail \in 0..Slots
  BY <1>20 DEF Indices
<1>1. Count' = Count
  <2>1. CASE tail = Slots /\ tail' = 0 /\ head' = head
    BY <1>20, <1>21, <1>22, <2>1 DEF Mod
  <2>2. CASE head = Slots /\ head' = 0 /\ tail' = tail
    BY <1>20, <1>21, <1>22, <2>2 DEF Mod
  <2>. QED
    BY <1>20, <2>1, <2>2
<1>2. \A i \in 1..Count : Slot(i)' = Slot(i)
  <2>. SUFFICES ASSUME NEW i \in 1..Count PROVE Slot(i)' = Slot(i)
    OBVIOUS
  <2>1. i \in 1..Length
    BY <1>20, <1>21
  <2>2. CASE head' = head
    BY <2>2 DEF Slot, Mod, Slots
  <2>3. CASE head = Slots /\ head' = 0
    <3>1. Slot(i) = i - 1
      BY <1>20, <2>1, <2>3 DEF Slot, Mod
    <3>2. Slot(i)' = i - 1
      BY <1>20, <2>1, <2>3 DEF Slot, Mod, Slots
    <3>. QED
      BY <3>1, <3>2
  <2>. QED
    BY <1>20, <2>2, <2>3
<1>3. /\ Contents = [i \in 1..Count |-> items[Slot(i)]]
      /\ Contents' = [i \in 1..Count |-> items'[Slot(i)']]
  BY <1>20, <1>21, <1>1, CountAndSlots, CountAndSlotsNext DEF CountFacts
<1>4. Contents' = Contents
  BY <1>20, <1>2, <1>3
<1>. QED
  BY <1>20, <1>4

LEMMA RefuseIsRefused ==
  ASSUME RingInv, ~mixed, NEW t \in Threads, Refuse(t)
  PROVE  Queue!PushRefused \/ Queue!PopRefused
<1>20. /\ Slots = Length + 1 /\ Length \in Nat \ {0} /\ Indices
       /\ items' = items /\ head' = head /\ tail' = tail
       /\ Count = Mod(tail - head)
  BY CountAndSlots, RingAssumption DEF RingInv, Refuse, Slots, CountFacts
<1>1. Contents' = Contents
  BY <1>20 DEF Contents, Count, Slots
<1>4. ~Clearing /\ ~Clearing'
  BY NoClearMeanwhile DEF Refuse, Returns, Inside
<1>2. CASE t \in Producers
  <2>1. tail \in 0..Length /\ Full
    BY <1>2, AtCheck DEF Refuse, Ready, Finds
  <2>2. Count = Length
    BY <1>20, <2>1 DEF Full, Mod, Indices
  <2>3. last' = [op |-> "push", item |-> None]
    BY <1>2 DEF Refuse
  <2>. QED
    BY <1>20, <1>1, <1>4, <2>2, <2>3, ContentsIsQueue DEF QueueFacts, Queue!PushRefused
<1>3. CASE t \notin Producers
  <2>1. head = tail
    BY <1>3 DEF Refuse, Ready, Finds, Empty
  <2>2. Count = 0
    BY <1>20, <2>1 DEF Mod, Indices
  <2>3. last' = [op |-> "pop", item |-> None]
    BY <1>3 DEF Refuse
  <2>. QED
    BY <1>20, <1>1, <1>4, <2>2, <2>3, ContentsIsQueue DEF QueueFacts, Queue!PopRefused
<1>. QED
  BY <1>2, <1>3

Held == IF Clearing THEN <<>> ELSE Contents

LEMMA StepIsQueued == RingInv /\ [Next]_vars => [mixed' \/ Queue!Next]_(Queue!vars)
<1>. SUFFICES ASSUME RingInv, [Next]_vars, ~mixed' PROVE Queue!Next \/ UNCHANGED <<Held, last>>
  BY DEF Queue!vars, Held
<1>1. ASSUME UNCHANGED <<items, head, tail, last>>, Clearing' <=> Clearing PROVE UNCHANGED <<Held, last>>
  BY <1>1 DEF Held, Contents, Count, Slots
<1>2. ASSUME NEW t \in Threads, Test(t) \/ Sleep(t) \/ Notify(t) PROVE UNCHANGED <<Held, last>>
  <2>1. PICK place \in {"check", "sleepy", "sleep", "idle"} : Goes(t, place)
    BY <1>2 DEF Test, Sleep, Notify, Returns
  <2>2. ~mixed
    BY <2>1 DEF Goes
  <2>3. ~Clearing /\ ~Clearing'
    BY <1>2, <2>1, <2>2, NoClearMeanwhile DEF Test, Sleep, Notify, Inside
  <2>. QED
    BY <1>1, <1>2, <2>3 DEF Test, Sleep, Notify
<1>3. ASSUME NEW t \in Threads, Refuse(t) PROVE Queue!Next
  <2>1. ~mixed
    BY <1>3 DEF Refuse, Returns, Goes
  <2>. QED
    BY <1>3, <2>1, RefuseIsRefused DEF Queue!Next
<1>4. ASSUME NEW p \in Producers, Push(p) PROVE Queue!Next
  <2>1. offer[p] \in Items
    BY <1>4 DEF Push, RingInv, CallsOK
  <2>. QED
    BY <1>4, <2>1, PushAppends DEF Queue!Next
<1>5. ASSUME NEW c \in Consumers, Pop(c) PROVE Queue!Next
  BY <1>5, PopTakesFirst DEF Queue!Next
<1>6. ASSUME NEW c \in Consumers, Overrun(c) PROVE UNCHANGED <<Held, last>>
  BY <1>1, <1>6 DEF Overrun, callVars, Clearing
<1>7. ASSUME NEW t \in Threads, Wrap(t) PROVE UNCHANGED <<Held, last>>
  <2>1. ~mixed /\ Goes(t, "notify") /\ at[t] \in Inside
    BY <1>7 DEF Wrap, Goes, Inside
  <2>2. ~Clearing /\ ~Clearing'
    BY <2>1, NoClearMeanwhile
  <2>. QED
    BY <1>7, <2>1, <2>2, WrapChangesNothing DEF Held
<1>8. ASSUME NEW t \in Threads, Call(t) \/ Wake(t) \/ Timeout(t) PROVE UNCHANGED <<Held, last>>
  <2>1. PICK place \in {"test", "check"} : Goes(t, place)
    BY <1>8 DEF Call, Wake, Timeout
  <2>2. at[t] # "clear"
    BY <1>8 DEF Call, Wake, Timeout
  <2>3. Clearing' <=> Clearing
    BY <2>1, <2>2 DEF Clearing, Goes, RingInv, CallsOK
  <2>4. UNCHANGED <<items, head, tail, last>>
    BY <1>8 DEF Call, Wake, Timeout, Remembers
  <2>. QED
    BY <1>1, <2>3, <2>4
<1>10. ASSUME NEW t \in Threads, ClearHead(t) PROVE Queue!Next
  <2>1. Clearing' /\ last' = last
    BY <1>10 DEF ClearHead, Goes, Clearing, RingInv, CallsOK, Remembers
  <2>. QED
    BY <2>1 DEF Queue!Next, Queue!Clear
<1>11. ASSUME NEW t \in Threads, ClearTail(t) PROVE UNCHANGED <<Held, last>>
  <2>1. ~mixed /\ Clearing
    BY <1>11 DEF ClearTail, Returns, Goes, Clearing
  <2>2. Indices' /\ Slots \in Nat \ {0} /\ head' = 0 /\ tail' = 0 /\ last' = last
    BY <1>11, <2>1, RingAssumption DEF ClearTail, Indices, Slots, RingInv, ClearsAlone
  <2>3. Count' = 0
    BY <2>2, CountAndSlotsNext DEF CountFacts, Mod
  <2>4. Contents' = <<>>
    BY <2>2, <2>3, ContentsIsQueueNext DEF QueueFacts
  <2>. QED
    BY <2>1, <2>2, <2>4 DEF Held
<1>12. ASSUME NEW t \in Threads, MoveMixed(t) PROVE FALSE
  BY <1>12 DEF MoveMixed, Goes
<1>9. CASE UNCHANGED vars
  BY <1>1, <1>9 DEF vars, Clearing
<1>. QED
  BY <1>2, <1>3, <1>4, <1>5, <1>6, <1>7, <1>8, <1>9, <1>10, <1>11, <1>12 DEF Next, Step, Move

(* Until a clear has met a call, and up to an overrun, which ends the      *)
(* model, the ring is a FIFO queue of at most Length items: every push and *)
(* pop is one of the queue, and is refused only when that is full or       *)
(* empty, and a clear empties it.                                          *)
THEOREM RingRefinement == Spec => ImplementsBoundedQueue
<1>1. Init => Queue!Init
  <2>. SUFFICES ASSUME Init PROVE Queue!Init
    OBVIOUS
  <2>1. Indices /\ Slots \in Nat \ {0} /\ head = 0 /\ tail = 0
    BY RingAssumption DEF Init, Indices, Slots
  <2>2. Count = 0
    BY <2>1, CountAndSlots DEF CountFacts, Mod
  <2>. QED
    BY <2>1, <2>2, ContentsIsQueue DEF QueueFacts, Init, Queue!Init
<1>. QED
  BY <1>1, RingInvariant, StepIsQueued, PTL DEF Spec, ImplementsBoundedQueue

-----------------------------------------------------------------------------
(* Lost notifications *)

(* What t waits for: items, or free slots.                                 *)
Load(t) == IF t \in Producers THEN Length - Count ELSE Count

Silent(t) == at[t] \in {"sleepy", "sleep"} /\ t \notin woken \cup missed

(* WakeupsLostInTwoWays thread by thread, and from the test on.            *)
NoSilence == \A t \in Threads : Silent(t) => Load(t) <= Cardinality(OnTheWay(Side(t)))

(* Is u on its way to what t waits for?                                    *)
Same(t, u) == t \in Producers <=> u \in Producers
OnWay(t, u) == IF Same(t, u) THEN u \in woken \/ at[u] \in {"test", "check"} ELSE at[u] \in {"wrap", "notify"}
Weight(t, u) == IF OnWay(t, u) THEN 1 ELSE 0

LEMMA WhoIsOnTheWay ==
  RingInv => \A t \in Threads :
               /\ OnTheWay(Side(t)) = {u \in Threads : OnWay(t, u)}
               /\ IsFiniteSet(OnTheWay(Side(t))) /\ Cardinality(OnTheWay(Side(t))) \in Nat
<1>. SUFFICES ASSUME RingInv, NEW t \in Threads
              PROVE  /\ OnTheWay(Side(t)) = {u \in Threads : OnWay(t, u)}
                     /\ IsFiniteSet(OnTheWay(Side(t))) /\ Cardinality(OnTheWay(Side(t))) \in Nat
  OBVIOUS
<1>1. OnTheWay(Side(t)) = {u \in Threads : OnWay(t, u)}
  BY RingAssumption DEF OnTheWay, Side, OnWay, Same, Threads, RingInv, HeardOK
<1>2. IsFiniteSet(Threads)
  BY RingAssumption
<1>3. IsFiniteSet(OnTheWay(Side(t)))
  BY <1>1, <1>2, FS_Subset
<1>. QED
  BY <1>1, <1>3, FS_CardinalityType

LEMMA WhoIsOnTheWayNext ==
  RingInv' => \A t \in Threads :
                /\ OnTheWay(Side(t))' = {u \in Threads : OnWay(t, u)'}
                /\ IsFiniteSet(OnTheWay(Side(t))') /\ Cardinality(OnTheWay(Side(t)))' \in Nat
<1>1. (RingInv => \A t \in Threads :
               /\ OnTheWay(Side(t)) = {u \in Threads : OnWay(t, u)}
               /\ IsFiniteSet(OnTheWay(Side(t))) /\ Cardinality(OnTheWay(Side(t))) \in Nat)'
  BY WhoIsOnTheWay, PTL
<1>. QED
  BY <1>1

(* A step of u changes their number by what it changes of u.               *)
LEMMA WayChanges ==
  ASSUME RingInv, RingInv', NEW t \in Threads, NEW u \in Threads,
         \A v \in Threads : v # u => at'[v] = at[v] /\ (v \in woken' <=> v \in woken)
  PROVE  Cardinality(OnTheWay(Side(t)))' = Cardinality(OnTheWay(Side(t))) + Weight(t, u)' - Weight(t, u)
<1>. DEFINE A == OnTheWay(Side(t))
            B == OnTheWay(Side(t))'
<1>1. /\ A = {v \in Threads : OnWay(t, v)} /\ IsFiniteSet(A) /\ Cardinality(A) \in Nat
      /\ B = {v \in Threads : OnWay(t, v)'} /\ IsFiniteSet(B) /\ Cardinality(B) \in Nat
  BY WhoIsOnTheWay, WhoIsOnTheWayNext
<1>2. \A v \in Threads : v # u => (OnWay(t, v)' <=> OnWay(t, v))
  BY DEF OnWay, Same
<1>. HIDE DEF A, B
<1>3. A \cup {u} = B \cup {u}
  BY <1>1, <1>2
<1>4. /\ Cardinality(A \cup {u}) = IF u \in A THEN Cardinality(A) ELSE Cardinality(A) + 1
      /\ Cardinality(B \cup {u}) = IF u \in B THEN Cardinality(B) ELSE Cardinality(B) + 1
  BY <1>1, FS_AddElement
<1>5. (u \in A <=> OnWay(t, u)) /\ (u \in B <=> OnWay(t, u)')
  BY <1>1
<1>6. Cardinality(B) = Cardinality(A) + Weight(t, u)' - Weight(t, u)
  <2>1. /\ Weight(t, u) = IF u \in A THEN 1 ELSE 0
        /\ Weight(t, u)' = IF u \in B THEN 1 ELSE 0
    BY <1>5 DEF Weight
  <2>2. Cardinality(A \cup {u}) = Cardinality(B \cup {u})
    BY <1>3
  <2>3. CASE u \in A /\ u \in B
    BY <1>1, <1>4, <2>1, <2>2, <2>3
  <2>4. CASE u \in A /\ u \notin B
    BY <1>1, <1>4, <2>1, <2>2, <2>4
  <2>5. CASE u \notin A
    BY <1>1, <1>4, <2>1, <2>2, <2>5
  <2>. QED
    BY <2>3, <2>4, <2>5
<1>. QED
  BY <1>6 DEF A, B

(* So it is enough that a step of u, other than a notification, adds no    *)
(* more to what is waited for than to those on their way.                  *)
LEMMA SilenceStep ==
  ASSUME RingInv, RingInv', NoSilence, NEW u \in Threads,
         \A v \in Threads : v # u => at'[v] = at[v] /\ (v \in woken' <=> v \in woken),
         \A t \in Threads : Silent(t)' =>
           Load(t)' <= 0 \/ (Silent(t) /\ Load(t)' <= Load(t) + Weight(t, u)' - Weight(t, u))
  PROVE  NoSilence'
<1>. SUFFICES ASSUME NEW t \in Threads, Silent(t)'
              PROVE  Load(t)' <= Cardinality(OnTheWay(Side(t)))'
  BY DEF NoSilence, Side
<1>. DEFINE m == Cardinality(OnTheWay(Side(t)))
            n == Cardinality(OnTheWay(Side(t)))'
<1>1. m \in Nat /\ n \in Nat
  BY WhoIsOnTheWay, WhoIsOnTheWayNext
<1>2. n = m + Weight(t, u)' - Weight(t, u)
  BY WayChanges
<1>3. Load(t) \in Int /\ Load(t)' \in Int
  <2>1. Count \in Int /\ Count' \in Int
    BY CountAndSlots, CountAndSlotsNext, RingAssumption DEF RingInv, CountFacts
  <2>. QED
    BY <2>1, RingAssumption DEF Load
<1>4. Weight(t, u) \in {0, 1} /\ Weight(t, u)' \in {0, 1}
  BY DEF Weight
<1>5. Silent(t) => Load(t) <= m
  BY DEF NoSilence
<1>. HIDE DEF m, n
<1>6. Load(t)' <= n
  BY <1>1, <1>2, <1>3, <1>4, <1>5
<1>. QED
  BY <1>6 DEF n

(* A push takes a free slot and adds an item, a pop the other way round.   *)
LEMMA MovesCount ==
  ASSUME RingInv, ~mixed, [Next]_vars
  PROVE  /\ \A p \in Producers : Push(p) => Count' = Count + 1
         /\ \A c \in Consumers : Pop(c) => Count' = Count - 1
         /\ \A t \in Threads : Wrap(t) => Count' = Count
<1>1. Indices /\ Indices'
  BY RingInvStep DEF RingInv
<1>2. Len(Contents) = Count /\ Len(Contents)' = Count'
  BY <1>1, ContentsIsQueue, ContentsIsQueueNext DEF QueueFacts
<1>3. Contents \in Seq(Items \cup {None}) /\ Count \in Nat
  <2>1. Contents = [i \in 1..Count |-> items[Slot(i)]] /\ Count \in 0..Length
    BY <1>1, CountAndSlots DEF CountFacts
  <2>2. \A i \in 1..Count : items[Slot(i)] \in Items \cup {None}
    BY <1>1, <2>1, CountAndSlots, RingAssumption DEF CountFacts, RingInv, MemoryOK, Slots
  <2>. QED
    BY <2>1, <2>2
<1>4. ASSUME NEW p \in Producers, Push(p) PROVE Count' = Count + 1
  <2>3. ~Clearing /\ ~Clearing'
    BY <1>4, NoClearMeanwhile DEF Push, Past, Inside, Threads
  <2>1. Contents' = Append(Contents, offer[p])
    BY <1>4, <2>3, PushAppends DEF Queue!Push
  <2>2. offer[p] \in Items \cup {None}
    BY DEF RingInv, CallsOK
  <2>. QED
    BY <1>2, <1>3, <2>1, <2>2
<1>5. ASSUME NEW c \in Consumers, Pop(c) PROVE Count' = Count - 1
  <2>3. ~Clearing /\ ~Clearing'
    BY <1>5, NoClearMeanwhile DEF Pop, Past, Inside, Threads
  <2>1. Contents' = Tail(Contents) /\ Contents # <<>>
    BY <1>5, <2>3, PopTakesFirst DEF Queue!Pop
  <2>. QED
    BY <1>2, <1>3, <2>1
<1>6. ASSUME NEW t \in Threads, Wrap(t) PROVE Count' = Count
  BY <1>2, <1>6, WrapChangesNothing
<1>. QED
  BY <1>4, <1>5, <1>6

(* Nothing to wait for, as a thread that is not Ready has seen.            *)
LEMMA NotReady ==
  ASSUME RingInv, NEW t \in Threads, at[t] \in {"test", "check"}, ~Ready(t)
  PROVE  Load(t) = 0
<1>1. /\ Slots = Length + 1 /\ Length \in Nat \ {0} /\ Indices
      /\ Count = Mod(tail - head)
  BY CountAndSlots, RingAssumption DEF RingInv, Slots, CountFacts
<1>2. CASE t \in Producers
  <2>1. tail # Slots /\ Full
    BY <1>2 DEF Ready, RingInv, Alone, PastTheEnd, Inside
  <2>. QED
    BY <1>1, <1>2, <2>1 DEF Full, Mod, Indices, Load
<1>3. CASE t \notin Producers
  <2>1. head = tail
    BY <1>3 DEF Ready, Empty
  <2>. QED
    BY <1>1, <1>3, <2>1 DEF Mod, Indices, Load
<1>. QED
  BY <1>2, <1>3

LEMMA NotifyKeeps ==
  ASSUME RingInv, RingInv', NoSilence, NEW u \in Threads, Notify(u)
  PROVE  NoSilence'
<1>. SUFFICES ASSUME NEW t \in Threads, Silent(t)'
              PROVE  Load(t)' <= Cardinality(OnTheWay(Side(t)))'
  BY DEF NoSilence, Side
<1>20. /\ at[u] = "notify" /\ at'[u] = "idle" /\ \A v \in Threads : v # u => at'[v] = at[v]
       /\ Threads = Producers \cup Consumers /\ Producers \cap Consumers = {}
       /\ woken \subseteq {v \in Threads : at[v] = "sleep"}
  BY RingAssumption DEF Notify, Returns, Goes, RingInv, CallsOK, HeardOK, Threads
<1>1. Load(t)' = Load(t)
  BY DEF Notify, Load, Count, Slots
<1>2. Silent(t)
  BY <1>20 DEF Silent, Notify
<1>3. Load(t) <= Cardinality(OnTheWay(Side(t)))
  BY <1>2 DEF NoSilence
<1>4. CASE Same(t, u)
  <2>1. \A v \in Threads : OnWay(t, v)' <=> OnWay(t, v)
    BY <1>20, <1>4 DEF OnWay, Same, Notify, Other, Side
  <2>2. OnTheWay(Side(t))' = OnTheWay(Side(t))
    BY <2>1, WhoIsOnTheWay, WhoIsOnTheWayNext
  <2>. QED
    BY <1>1, <1>3, <2>2
<1>5. CASE ~Same(t, u)
  <2>1. t \in Other(u) /\ t # u
    BY <1>20, <1>5 DEF Same, Other, Side
  <2>2. at[t] = "sleep" /\ t \notin woken
    BY <1>20, <2>1 DEF Silent, Notify
  <2>3. PICK v \in {w \in Other(u) : at[w] = "sleep"} \ woken : woken' = woken \cup {v}
    BY <2>1, <2>2 DEF Notify
  <2>4. v \in Threads /\ v # u /\ Same(t, v)
    BY <1>20, <1>5, <2>3 DEF Other, Side, Same
  <2>. DEFINE A == OnTheWay(Side(t))
              B == OnTheWay(Side(t))'
  <2>5. /\ A = {w \in Threads : OnWay(t, w)} /\ IsFiniteSet(A) /\ Cardinality(A) \in Nat
        /\ B = {w \in Threads : OnWay(t, w)'} /\ IsFiniteSet(B) /\ Cardinality(B) \in Nat
    BY WhoIsOnTheWay, WhoIsOnTheWayNext
  <2>6. /\ OnWay(t, u) /\ ~OnWay(t, u)' /\ ~OnWay(t, v) /\ OnWay(t, v)'
        /\ \A w \in Threads : w # u /\ w # v => (OnWay(t, w)' <=> OnWay(t, w))
    BY <1>20, <1>5, <2>3, <2>4 DEF OnWay, Same
  <2>. HIDE DEF A, B
  <2>7. u \in A /\ u \notin B /\ v \notin A /\ v \in B /\ A \cup {v} = B \cup {u}
    BY <2>4, <2>5, <2>6
  <2>8. Cardinality(A \cup {v}) = Cardinality(A) + 1 /\ Cardinality(B \cup {u}) = Cardinality(B) + 1
    BY <2>5, <2>7, FS_AddElement
  <2>9. Cardinality(A) = Cardinality(B)
    BY <2>5, <2>7, <2>8
  <2>. QED
    BY <1>1, <1>3, <2>9 DEF A, B
<1>. QED
  BY <1>4, <1>5

LEMMA NoSilenceStep ==
  ASSUME RingInv, NoSilence, ~mixed, ~mixed', ~Clearing, ~Clearing', [Next]_vars
  PROVE  NoSilence'
<1>20. /\ RingInv' /\ Threads = Producers \cup Consumers /\ Producers \cap Consumers = {}
       /\ Length \in Nat /\ Count \in Int /\ Count' \in Int
       /\ woken \subseteq {t \in Threads : at[t] = "sleep"}
       /\ at \in [Threads -> {"idle", "sleep", "clear"} \cup Inside]
  <2>1. RingInv'
    BY RingInvStep
  <2>. QED
    BY <2>1, CountAndSlots, CountAndSlotsNext, RingAssumption DEF RingInv, CountFacts, HeardOK, Threads, CallsOK
<1>21. ASSUME UNCHANGED <<head, tail>> PROVE \A t \in Threads : Load(t)' = Load(t)
  BY <1>21 DEF Load, Count, Slots
<1>22. \A t \in Threads : Load(t) \in Int
  BY <1>20 DEF Load
<1>1. ASSUME NEW u \in Threads, Call(u) PROVE NoSilence'
  <2>1. /\ \A v \in Threads : v # u => /\ at'[v] = at[v]
                                       /\ v \in woken' <=> v \in woken
                                       /\ v \in missed' <=> v \in missed
        /\ at[u] \in {"idle", "sleep"} /\ at'[u] \in {"test", "check"}
    BY <1>20, <1>1 DEF Call, Goes
  <2>2. \A t \in Threads : Load(t)' = Load(t) /\ Load(t) \in Int
    BY <1>21, <1>22, <1>1 DEF Call
  <2>3. ASSUME NEW t \in Threads, Silent(t)'
        PROVE  Silent(t) /\ Load(t)' <= Load(t) + Weight(t, u)' - Weight(t, u)
    <3>1. t # u /\ Silent(t)
      BY <2>1, <2>3 DEF Silent
    <3>2. OnWay(t, u) => OnWay(t, u)'
      BY <1>20, <2>1 DEF OnWay, Same
    <3>. QED
      BY <2>2, <3>1, <3>2 DEF Weight
  <2>. QED
    BY <1>20, <2>1, <2>3, SilenceStep
<1>2. ASSUME NEW u \in Threads, Wake(u) PROVE NoSilence'
  <2>1. /\ \A v \in Threads : v # u => /\ at'[v] = at[v]
                                       /\ v \in woken' <=> v \in woken
                                       /\ v \in missed' <=> v \in missed
        /\ at[u] \in {"idle", "sleep"} /\ at'[u] \in {"test", "check"}
    BY <1>20, <1>2 DEF Wake, Goes
  <2>2. \A t \in Threads : Load(t)' = Load(t) /\ Load(t) \in Int
    BY <1>21, <1>22, <1>2 DEF Wake
  <2>3. ASSUME NEW t \in Threads, Silent(t)'
        PROVE  Silent(t) /\ Load(t)' <= Load(t) + Weight(t, u)' - Weight(t, u)
    <3>1. t # u /\ Silent(t)
      BY <2>1, <2>3 DEF Silent
    <3>2. OnWay(t, u) => OnWay(t, u)'
      BY <1>20, <2>1 DEF OnWay, Same
    <3>. QED
      BY <2>2, <3>1, <3>2 DEF Weight
  <2>. QED
    BY <1>20, <2>1, <2>3, SilenceStep
<1>3. ASSUME NEW u \in Threads, Timeout(u) PROVE NoSilence'
  <2>1. /\ \A v \in Threads : v # u => /\ at'[v] = at[v]
                                       /\ v \in woken' <=> v \in woken
                                       /\ v \in missed' <=> v \in missed
        /\ at[u] \in {"idle", "sleep"} /\ at'[u] \in {"test", "check"}
    BY <1>20, <1>3 DEF Timeout, Goes
  <2>2. \A t \in Threads : Load(t)' = Load(t) /\ Load(t) \in Int
    BY <1>21, <1>22, <1>3 DEF Timeout
  <2>3. ASSUME NEW t \in Threads, Silent(t)'
        PROVE  Silent(t) /\ Load(t)' <= Load(t) + Weight(t, u)' - Weight(t, u)
    <3>1. t # u /\ Silent(t)
      BY <2>1, <2>3 DEF Silent
    <3>2. OnWay(t, u) => OnWay(t, u)'
      BY <1>20, <2>1 DEF OnWay, Same
    <3>. QED
      BY <2>2, <3>1, <3>2 DEF Weight
  <2>. QED
    BY <1>20, <2>1, <2>3, SilenceStep
<1>4. ASSUME NEW u \in Threads, Test(u) PROVE NoSilence'
  <2>1. /\ \A v \in Threads : v # u => /\ at'[v] = at[v]
                                       /\ v \in woken' <=> v \in woken
                                       /\ v \in missed' <=> v \in missed
        /\ at[u] = "test" /\ at'[u] = IF Ready(u) THEN "check" ELSE "sleepy"
        /\ woken' = woken
    BY <1>20, <1>4 DEF Test, Finds, Goes
  <2>2. \A t \in Threads : Load(t)' = Load(t) /\ Load(t) \in Int
    BY <1>21, <1>22, <1>4 DEF Test
  <2>3. ASSUME NEW t \in Threads, Silent(t)'
        PROVE  Load(t)' <= 0 \/ (Silent(t) /\ Load(t)' <= Load(t) + Weight(t, u)' - Weight(t, u))
    <3>1. CASE Ready(u)
      <4>1. t # u /\ Silent(t)
        BY <2>1, <2>3, <3>1 DEF Silent
      <4>2. OnWay(t, u) => OnWay(t, u)'
        BY <2>1, <3>1 DEF OnWay, Same
      <4>. QED
        BY <2>2, <4>1, <4>2 DEF Weight
    <3>2. CASE ~Ready(u) /\ Same(t, u)
      <4>1. Load(t) = Load(u) /\ Load(u) = 0
        BY <2>1, <3>2, NotReady DEF Same, Load
      <4>. QED
        BY <2>2, <4>1
    <3>3. CASE ~Ready(u) /\ ~Same(t, u)
      <4>1. t # u /\ Silent(t)
        BY <2>1, <2>3, <3>3 DEF Silent, Same
      <4>2. ~OnWay(t, u) /\ ~OnWay(t, u)'
        BY <2>1, <3>3 DEF OnWay, Same
      <4>. QED
        BY <2>2, <4>1, <4>2 DEF Weight
    <3>. QED
      BY <3>1, <3>2, <3>3
  <2>. QED
    BY <1>20, <2>1, <2>3, SilenceStep
<1>5. ASSUME NEW u \in Threads, Sleep(u) PROVE NoSilence'
  <2>1. /\ \A v \in Threads : v # u => /\ at'[v] = at[v]
                                       /\ v \in woken' <=> v \in woken
                                       /\ v \in missed' <=> v \in missed
        /\ at[u] = "sleepy" /\ at'[u] = "sleep" /\ woken' = woken /\ missed' = missed
    BY <1>20, <1>5 DEF Sleep, Goes
  <2>2. \A t \in Threads : Load(t)' = Load(t) /\ Load(t) \in Int
    BY <1>21, <1>22, <1>5 DEF Sleep
  <2>3. ASSUME NEW t \in Threads, Silent(t)'
        PROVE  Silent(t) /\ Load(t)' <= Load(t) + Weight(t, u)' - Weight(t, u)
    <3>1. Silent(t)
      BY <2>1, <2>3 DEF Silent
    <3>2. OnWay(t, u) => OnWay(t, u)'
      BY <2>1 DEF OnWay, Same
    <3>. QED
      BY <2>2, <3>1, <3>2 DEF Weight
  <2>. QED
    BY <1>20, <2>1, <2>3, SilenceStep
<1>6. ASSUME NEW u \in Threads, Refuse(u) PROVE NoSilence'
  <2>1. /\ \A v \in Threads : v # u => /\ at'[v] = at[v]
                                       /\ v \in woken' <=> v \in woken
                                       /\ v \in missed' <=> v \in missed
        /\ at[u] = "check" /\ at'[u] = "idle" /\ ~Ready(u)
    BY <1>20, <1>6 DEF Refuse, Finds, Returns, Goes
  <2>2. \A t \in Threads : Load(t)' = Load(t) /\ Load(t) \in Int
    BY <1>21, <1>22, <1>6 DEF Refuse
  <2>3. ASSUME NEW t \in Threads, Silent(t)'
        PROVE  Load(t)' <= 0 \/ (Silent(t) /\ Load(t)' <= Load(t) + Weight(t, u)' - Weight(t, u))
    <3>1. t # u /\ Silent(t)
      BY <2>1, <2>3 DEF Silent
    <3>2. CASE Same(t, u)
      <4>1. Load(t) = Load(u) /\ Load(u) = 0
        BY <2>1, <3>2, NotReady DEF Same, Load
      <4>. QED
        BY <2>2, <4>1
    <3>3. CASE ~Same(t, u)
      <4>1. ~OnWay(t, u)
        BY <2>1, <3>3 DEF OnWay
      <4>. QED
        BY <2>2, <3>1, <4>1 DEF Weight
    <3>. QED
      BY <3>2, <3>3
  <2>. QED
    BY <1>20, <2>1, <2>3, SilenceStep
<1>7. ASSUME NEW u \in Producers, Push(u) PROVE NoSilence'
  <2>1. /\ \A v \in Threads : v # u => /\ at'[v] = at[v]
                                       /\ v \in woken' <=> v \in woken
                                       /\ v \in missed' <=> v \in missed
        /\ at[u] = "check" /\ at'[u] \in {"wrap", "notify"} /\ woken' = woken /\ u \in Threads
        /\ u \notin woken
    BY <1>20, <1>7 DEF Push, Past, Goes
  <2>2. Count' = Count + 1
    BY <1>7, MovesCount
  <2>3. ASSUME NEW t \in Threads, Silent(t)'
        PROVE  Silent(t) /\ Load(t)' <= Load(t) + Weight(t, u)' - Weight(t, u)
    <3>1. t # u /\ Silent(t)
      BY <2>1, <2>3 DEF Silent
    <3>2. CASE Same(t, u)
      <4>1. OnWay(t, u) /\ ~OnWay(t, u)'
        BY <2>1, <3>2 DEF OnWay, Same
      <4>2. Load(t)' = Load(t) - 1 /\ Load(t) \in Int
        BY <1>20, <2>2, <3>2 DEF Load, Same
      <4>. QED
        BY <3>1, <4>1, <4>2 DEF Weight
    <3>3. CASE ~Same(t, u)
      <4>1. ~OnWay(t, u) /\ OnWay(t, u)'
        BY <2>1, <3>3 DEF OnWay, Same
      <4>2. Load(t)' = Load(t) + 1 /\ Load(t) \in Int
        BY <1>20, <2>2, <3>3 DEF Load, Same
      <4>. QED
        BY <3>1, <4>1, <4>2 DEF Weight
    <3>. QED
      BY <3>2, <3>3
  <2>. QED
    BY <1>20, <2>1, <2>3, SilenceStep
<1>8. ASSUME NEW u \in Consumers, Pop(u) PROVE NoSilence'
  <2>1. /\ \A v \in Threads : v # u => /\ at'[v] = at[v]
                                       /\ v \in woken' <=> v \in woken
                                       /\ v \in missed' <=> v \in missed
        /\ at[u] = "check" /\ at'[u] \in {"wrap", "notify"} /\ woken' = woken /\ u \in Threads
        /\ u \notin woken
    BY <1>20, <1>8 DEF Pop, Past, Goes
  <2>2. Count' = Count - 1
    BY <1>8, MovesCount
  <2>3. ASSUME NEW t \in Threads, Silent(t)'
        PROVE  Silent(t) /\ Load(t)' <= Load(t) + Weight(t, u)' - Weight(t, u)
    <3>1. t # u /\ Silent(t)
      BY <2>1, <2>3 DEF Silent
    <3>2. CASE Same(t, u)
      <4>1. OnWay(t, u) /\ ~OnWay(t, u)'
        BY <2>1, <3>2 DEF OnWay, Same
      <4>2. Load(t)' = Load(t) - 1 /\ Load(t) \in Int
        BY <1>20, <2>2, <3>2 DEF Load, Same
      <4>. QED
        BY <3>1, <4>1, <4>2 DEF Weight
    <3>3. CASE ~Same(t, u)
      <4>1. ~OnWay(t, u) /\ OnWay(t, u)'
        BY <2>1, <3>3 DEF OnWay, Same
      <4>2. Load(t)' = Load(t) + 1 /\ Load(t) \in Int
        BY <1>20, <2>2, <3>3 DEF Load, Same
      <4>. QED
        BY <3>1, <4>1, <4>2 DEF Weight
    <3>. QED
      BY <3>2, <3>3
  <2>. QED
    BY <1>20, <2>1, <2>3, SilenceStep
<1>9. ASSUME NEW u \in Threads, Wrap(u) PROVE NoSilence'
  <2>1. /\ \A v \in Threads : v # u => /\ at'[v] = at[v]
                                       /\ v \in woken' <=> v \in woken
                                       /\ v \in missed' <=> v \in missed
        /\ at[u] = "wrap" /\ at'[u] = "notify" /\ woken' = woken
    BY <1>20, <1>9 DEF Wrap, Goes
  <2>2. \A t \in Threads : Load(t)' = Load(t) /\ Load(t) \in Int
    BY <1>22, <1>9, MovesCount DEF Load
  <2>3. ASSUME NEW t \in Threads, Silent(t)'
        PROVE  Silent(t) /\ Load(t)' <= Load(t) + Weight(t, u)' - Weight(t, u)
    <3>1. Silent(t)
      BY <2>1, <2>3 DEF Silent
    <3>2. OnWay(t, u) => OnWay(t, u)'
      BY <2>1 DEF OnWay, Same
    <3>. QED
      BY <2>2, <3>1, <3>2 DEF Weight
  <2>. QED
    BY <1>20, <2>1, <2>3, SilenceStep
<1>10. ASSUME NEW u \in Threads, Notify(u) PROVE NoSilence'
  BY <1>20, <1>10, NotifyKeeps
<1>11. ASSUME NEW u \in Threads, ClearTail(u) PROVE FALSE
  BY <1>11 DEF ClearTail, Clearing
<1>14. ASSUME NEW u \in Threads, ClearHead(u) \/ MoveMixed(u) PROVE FALSE
  <2>1. ~MoveMixed(u)
    BY DEF MoveMixed
  <2>2. Goes(u, "clear")
    BY <1>14, <2>1 DEF ClearHead
  <2>. QED
    BY <1>20, <2>2 DEF Goes, Clearing
<1>12. ASSUME UNCHANGED <<head, tail, at, woken, missed>> PROVE NoSilence'
  BY <1>12 DEF NoSilence, Silent, Load, Count, Slots, OnTheWay, Side
<1>13. ASSUME NEW u \in Consumers, Overrun(u) PROVE NoSilence'
  BY <1>12, <1>13 DEF Overrun, callVars
<1>. QED
  BY <1>1, <1>2, <1>3, <1>4, <1>5, <1>6, <1>7, <1>8, <1>9, <1>10, <1>11, <1>12, <1>13, <1>14
     DEF Next, Step, Move, vars

(* A clear leaves nothing to a consumer, and every producer that sleeps in *)
(* missed.                                                                 *)
LEMMA NoSilenceAfterClear ==
  ASSUME RingInv, ~mixed, ~mixed', Clearing, ~Clearing', [Next]_vars
  PROVE  NoSilence'
<1>20. RingInv' /\ at \in [Threads -> {"idle", "sleep", "clear"} \cup Inside]
  BY RingInvStep DEF RingInv, CallsOK
<1>1. ASSUME NEW u \in Threads, ClearTail(u) PROVE NoSilence'
  <2>1. Clearing /\ head' = 0 /\ tail' = 0
    BY <1>1 DEF ClearTail, Clearing, RingInv, ClearsAlone
  <2>2. Count' = 0
    BY <1>20, <2>1, CountAndSlotsNext, RingAssumption DEF RingInv, CountFacts, Mod, Slots
  <2>3. ASSUME NEW p \in Producers, Silent(p)' PROVE FALSE
    <3>1. at'[p] = "sleep" \/ at'[p] = "sleepy"
      BY <2>3 DEF Silent
    <3>2. at[p] = at'[p]
      BY <1>1, <1>20, <3>1 DEF ClearTail, Returns, Goes
    <3>3. at[p] = "sleep"
      BY <1>1, <1>20, <3>1, <3>2 DEF ClearTail, RingInv, ClearsAlone, Inside, Threads
    <3>. QED
      BY <1>1, <2>3, <3>3 DEF Silent, ClearTail
  <2>4. ASSUME NEW t \in Threads, Silent(t)' PROVE Load(t)' <= Cardinality(OnTheWay(Side(t)))'
    <3>1. Load(t)' = 0
      BY <2>2, <2>3, <2>4 DEF Load
    <3>2. Cardinality(OnTheWay(Side(t)))' \in Nat
      BY <1>20, WhoIsOnTheWayNext
    <3>. QED
      BY <3>1, <3>2
  <2>. QED
    BY <2>4 DEF NoSilence, Side
<1>2. PICK t \in Threads : at[t] = "clear" /\ at'[t] # "clear"
  BY DEF Clearing
<1>3. ~UNCHANGED at
  BY <1>2
<1>4. ASSUME NEW u \in Threads, NEW place \in {"idle", "sleep"} \cup Inside, Goes(u, place), at[u] # "clear"
      PROVE  FALSE
  BY <1>2, <1>4, <1>20 DEF Goes
<1>5. ASSUME NEW u \in Threads, Call(u) \/ Wake(u) \/ Timeout(u) \/ Test(u) \/ Sleep(u) \/ Refuse(u)
                                   \/ Push(u) \/ Pop(u) \/ MoveMixed(u) \/ Wrap(u) \/ Notify(u)
      PROVE  FALSE
  <2>1. at[u] # "clear"
    BY <1>5 DEF Call, Wake, Timeout, Test, Sleep, Refuse, Push, Pop, MoveMixed, Wrap, Notify
  <2>2. PICK place \in {"idle", "sleep", "check", "test", "sleepy", "wrap", "notify"} : Goes(u, place)
    BY <1>5 DEF Call, Wake, Timeout, Test, Sleep, Refuse, Push, Pop, MoveMixed, Wrap, Notify, Returns, Past
  <2>. QED
    BY <1>4, <2>1, <2>2 DEF Inside
<1>6. ASSUME NEW u \in Threads, ClearHead(u) PROVE FALSE
  BY <1>6, <1>20 DEF ClearHead, Goes, Clearing
<1>7. ASSUME NEW c \in Consumers, Overrun(c) PROVE FALSE
  BY <1>3, <1>7 DEF Overrun, callVars
<1>. QED
  BY <1>1, <1>3, <1>5, <1>6, <1>7 DEF Next, Step, Move, vars, Threads

Quiet == ~mixed /\ ~Clearing => NoSilence

LEMMA QuietInit == Init => Quiet
  BY DEF Init, Quiet, NoSilence, Silent

LEMMA QuietStep == RingInv /\ Quiet /\ [Next]_vars => Quiet'
<1>. SUFFICES ASSUME RingInv, Quiet, [Next]_vars, ~mixed', ~Clearing' PROVE NoSilence'
  BY DEF Quiet
<1>1. ~mixed
  BY DEF Next, vars, callVars, Step, Move, Call, Wake, Timeout, Test, Sleep, Refuse, Push, Pop, Overrun,
         MoveMixed, Wrap, Notify, ClearHead, ClearTail, Returns, Goes
<1>2. CASE ~Clearing
  BY <1>1, <1>2, NoSilenceStep DEF Quiet
<1>3. CASE Clearing
  BY <1>1, <1>3, NoSilenceAfterClear
<1>. QED
  BY <1>2, <1>3

(* As long as no clear meets a call, only a notification that falls        *)
(* between a test and its wait, or that a clear does not send, is lost:    *)
(* nobody else sleeps on an item or a free slot that has no thread on its  *)
(* way to it.                                                              *)
THEOREM NoOtherWakeupLost == Spec => []WakeupsLostInTwoWays
<1>1. RingInv /\ Quiet => WakeupsLostInTwoWays
  <2>. SUFFICES ASSUME RingInv, NoSilence
                PROVE  /\ Asleep(Consumers) # {} /\ Asleep(Consumers) \cap missed = {} =>
                            Count <= Cardinality(OnTheWay(Consumers))
                       /\ Asleep(Producers) # {} /\ Asleep(Producers) \cap missed = {} =>
                            Length - Count <= Cardinality(OnTheWay(Producers))
    BY DEF Quiet, WakeupsLostInTwoWays
  <2>1. ASSUME Asleep(Consumers) # {}, Asleep(Consumers) \cap missed = {}
        PROVE  Count <= Cardinality(OnTheWay(Consumers))
    <3>1. PICK c \in Consumers : at[c] = "sleep" /\ c \notin woken \cup missed
      BY <2>1 DEF Asleep
    <3>2. c \in Threads /\ c \notin Producers
      BY <3>1, RingAssumption DEF Threads
    <3>. QED
      BY <3>1, <3>2 DEF NoSilence, Silent, Load, Side
  <2>2. ASSUME Asleep(Producers) # {}, Asleep(Producers) \cap missed = {}
        PROVE  Length - Count <= Cardinality(OnTheWay(Producers))
    <3>1. PICK p \in Producers : at[p] = "sleep" /\ p \notin woken \cup missed
      BY <2>2 DEF Asleep
    <3>2. p \in Threads
      BY <3>1 DEF Threads
    <3>. QED
      BY <3>1, <3>2 DEF NoSilence, Silent, Load, Side
  <2>. QED
    BY <2>1, <2>2
<1>2. Spec => []Quiet
  BY RingInvariant, QuietInit, QuietStep, PTL DEF Spec
<1>. QED
  BY <1>1, <1>2, RingInvariant, PTL

=============================================================================
