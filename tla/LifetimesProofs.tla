--------------------------- MODULE LifetimesProofs ---------------------------
(***************************************************************************)
(* That no pointer leads to a destroyed actor, that nothing is kept alive  *)
(* by nobody, and that locks, mailboxes and counts of calls fit together,  *)
(* for any number of actors, clients, workers and calls.                   *)
(***************************************************************************)
EXTENDS Lifetimes, FiniteSetTheorems, TLAPS

-----------------------------------------------------------------------------
(* Stacks *)

FrameSet == [at : Places, on : Actors]

(* A call at one of these places, about a.                                 *)
SeqHas(s, a, ats) == \E i \in DOMAIN s : s[i].on = a /\ s[i].at \in ats
Has(a, ats) == \E u \in Threads : SeqHas(stack[u], a, ats)

(* The same with s for t's stack.                                          *)
With(t, s, a, ats) == (\E u \in Threads \ {t} : SeqHas(stack[u], a, ats)) \/ SeqHas(s, a, ats)
Base(t, a, ats) == With(t, Tail(stack[t]), a, ats)

StacksOK == stack \in [Threads -> Seq(FrameSet)]

LEMMA SeqPush ==
  ASSUME NEW s \in Seq(FrameSet), NEW f \in FrameSet
  PROVE  /\ <<f>> \o s \in Seq(FrameSet) /\ <<f>> \o s # <<>>
         /\ Head(<<f>> \o s) = f /\ Tail(<<f>> \o s) = s
         /\ \A a, ats : SeqHas(<<f>> \o s, a, ats) <=> (f.on = a /\ f.at \in ats) \/ SeqHas(s, a, ats)
<1>. DEFINE r == <<f>> \o s
<1>1. /\ r \in Seq(FrameSet) /\ Len(r) = Len(s) + 1 /\ r[1] = f /\ Len(s) \in Nat
      /\ \A i \in 1..Len(s) : r[i + 1] = s[i]
  OBVIOUS
<1>2. DOMAIN r = 1..(Len(s) + 1) /\ DOMAIN s = 1..Len(s)
  BY <1>1
<1>3. r # <<>> /\ Head(r) = f
  BY <1>1
<1>4. Tail(r) = s
  <2>1. Tail(r) \in Seq(FrameSet) /\ Len(Tail(r)) = Len(s) /\ \A i \in 1..Len(s) : Tail(r)[i] = r[i + 1]
    BY <1>1, <1>3
  <2>. QED
    BY <1>1, <2>1
<1>. HIDE DEF r
<1>5. ASSUME NEW a, NEW ats
      PROVE  SeqHas(r, a, ats) <=> (f.on = a /\ f.at \in ats) \/ SeqHas(s, a, ats)
  <2>1. ASSUME SeqHas(r, a, ats) PROVE (f.on = a /\ f.at \in ats) \/ SeqHas(s, a, ats)
    <3>1. PICK i \in DOMAIN r : r[i].on = a /\ r[i].at \in ats
      BY <2>1 DEF SeqHas
    <3>2. CASE i = 1
      BY <1>1, <3>1, <3>2
    <3>3. CASE i # 1
      <4>1. i - 1 \in 1..Len(s) /\ (i - 1) + 1 = i
        BY <1>1, <1>2, <3>3
      <4>. QED
        BY <1>1, <1>2, <3>1, <4>1 DEF SeqHas
    <3>. QED
      BY <3>2, <3>3
  <2>2. ASSUME f.on = a /\ f.at \in ats PROVE SeqHas(r, a, ats)
    BY <1>1, <1>2, <2>2 DEF SeqHas
  <2>3. ASSUME SeqHas(s, a, ats) PROVE SeqHas(r, a, ats)
    <3>1. PICK i \in DOMAIN s : s[i].on = a /\ s[i].at \in ats
      BY <2>3 DEF SeqHas
    <3>2. i + 1 \in DOMAIN r /\ r[i + 1] = s[i]
      BY <1>1, <1>2
    <3>. QED
      BY <3>1, <3>2 DEF SeqHas
  <2>. QED
    BY <2>1, <2>2, <2>3
<1>. QED
  BY <1>1, <1>3, <1>4, <1>5 DEF r

LEMMA SeqSplit ==
  ASSUME NEW s \in Seq(FrameSet), s # <<>>
  PROVE  Head(s) \in FrameSet /\ Tail(s) \in Seq(FrameSet) /\ s = <<Head(s)>> \o Tail(s)
<1>1. Head(s) \in FrameSet /\ Tail(s) \in Seq(FrameSet) /\ Len(s) \in Nat /\ Len(s) > 0
  OBVIOUS
<1>. DEFINE r == <<Head(s)>> \o Tail(s)
<1>2. r \in Seq(FrameSet) /\ Len(r) = Len(s)
  BY <1>1
<1>3. \A i \in 1..Len(s) : r[i] = s[i]
  BY <1>1
<1>. QED
  BY <1>1, <1>2, <1>3

(* What t's stack is replaced by decides who is where.                     *)
LEMMA HasWith ==
  ASSUME StacksOK, NEW t \in Threads, NEW s \in Seq(FrameSet), stack' = [stack EXCEPT ![t] = s]
  PROVE  StacksOK' /\ \A a, ats : Has(a, ats)' <=> With(t, s, a, ats)
<1>1. stack'[t] = s /\ \A u \in Threads \ {t} : stack'[u] = stack[u]
  BY DEF StacksOK
<1>2. StacksOK'
  BY DEF StacksOK
<1>3. ASSUME NEW a, NEW ats PROVE Has(a, ats)' <=> With(t, s, a, ats)
  BY <1>1 DEF Has, With
<1>. QED
  BY <1>2, <1>3

LEMMA HasTop ==
  ASSUME StacksOK, NEW t \in Threads, stack[t] # <<>>
  PROVE  /\ Head(stack[t]) \in FrameSet /\ Tail(stack[t]) \in Seq(FrameSet)
         /\ \A a, ats : Has(a, ats) <=> Base(t, a, ats) \/ (On(t) = a /\ Head(stack[t]).at \in ats)
<1>1. stack[t] \in Seq(FrameSet)
  BY DEF StacksOK
<1>2. Head(stack[t]) \in FrameSet /\ Tail(stack[t]) \in Seq(FrameSet)
      /\ stack[t] = <<Head(stack[t])>> \o Tail(stack[t])
  BY <1>1, SeqSplit
<1>3. \A a, ats : SeqHas(stack[t], a, ats) <=>
                    (On(t) = a /\ Head(stack[t]).at \in ats) \/ SeqHas(Tail(stack[t]), a, ats)
  <2>1. ASSUME NEW h \in FrameSet, NEW r \in Seq(FrameSet), stack[t] = <<h>> \o r
        PROVE  \A a, ats : SeqHas(stack[t], a, ats) <=> (h.on = a /\ h.at \in ats) \/ SeqHas(r, a, ats)
    BY <2>1, SeqPush
  <2>. QED
    BY <1>2, <2>1 DEF On
<1>. QED
  BY <1>2, <1>3 DEF Has, Base, With

LEMMA MoveHas ==
  ASSUME StacksOK, NEW t \in Threads, stack[t] # <<>>, NEW q \in Places, Moves(t, q)
  PROVE  StacksOK' /\ \A a, ats : Has(a, ats)' <=> Base(t, a, ats) \/ (On(t) = a /\ q \in ats)
<1>. DEFINE f == Frame(q, On(t))
            r == Tail(stack[t])
<1>1. f \in FrameSet /\ f.on = On(t) /\ f.at = q /\ r \in Seq(FrameSet)
  BY HasTop DEF FrameSet, Frame, On
<1>2. stack' = [stack EXCEPT ![t] = <<f>> \o r]
  BY DEF Moves, Moved
<1>. HIDE DEF f, r
<1>3. <<f>> \o r \in Seq(FrameSet)
      /\ \A a, ats : SeqHas(<<f>> \o r, a, ats) <=> (f.on = a /\ f.at \in ats) \/ SeqHas(r, a, ats)
  BY <1>1, SeqPush
<1>. DEFINE g == <<f>> \o r
<1>. HIDE DEF g
<1>4. StacksOK' /\ \A a, ats : Has(a, ats)' <=> With(t, g, a, ats)
  BY <1>2, <1>3, HasWith DEF g
<1>5. \A a, ats : SeqHas(g, a, ats) <=> (On(t) = a /\ q \in ats) \/ SeqHas(r, a, ats)
  BY <1>1, <1>3 DEF g
<1>. QED
  BY <1>4, <1>5 DEF With, Base, r

LEMMA LeaveHas ==
  ASSUME StacksOK, NEW t \in Threads, stack[t] # <<>>, Leaves(t)
  PROVE  StacksOK' /\ \A a, ats : Has(a, ats)' <=> Base(t, a, ats)
<1>. DEFINE r == Tail(stack[t])
<1>1. r \in Seq(FrameSet)
  BY HasTop
<1>2. stack' = [stack EXCEPT ![t] = r]
  BY DEF Leaves
<1>. HIDE DEF r
<1>3. StacksOK' /\ \A a, ats : Has(a, ats)' <=> With(t, r, a, ats)
  BY <1>1, <1>2, HasWith
<1>. QED
  BY <1>3 DEF Base, r

LEMMA EnterHas ==
  ASSUME StacksOK, NEW t \in Threads, NEW q \in Places, NEW b \in Actors, Enters(t, q, b)
  PROVE  StacksOK' /\ \A a, ats : Has(a, ats)' <=> Has(a, ats) \/ (b = a /\ q \in ats)
<1>. DEFINE f == Frame(q, b)
            r == stack[t]
            g == <<f>> \o r
<1>1. f \in FrameSet /\ f.on = b /\ f.at = q /\ r \in Seq(FrameSet)
  BY DEF FrameSet, Frame, StacksOK
<1>2. stack' = [stack EXCEPT ![t] = g]
  BY DEF Enters
<1>. HIDE DEF f, r
<1>3. g \in Seq(FrameSet)
      /\ \A a, ats : SeqHas(g, a, ats) <=> (f.on = a /\ f.at \in ats) \/ SeqHas(r, a, ats)
  BY <1>1, SeqPush
<1>. HIDE DEF g
<1>4. StacksOK' /\ \A a, ats : Has(a, ats)' <=> With(t, g, a, ats)
  BY <1>2, <1>3, HasWith
<1>. QED
  BY <1>1, <1>3, <1>4 DEF With, Has, r

-----------------------------------------------------------------------------
(* Pointers *)

Running == {"run", "next"}
Queued(a) == \E i \in DOMAIN jobs : jobs[i] = a

(* ActorHeld, of the state.                                                *)
Held(a) ==
  \/ a \in reg \/ a \in kept \/ Has(a, SendHolds) \/ Has(a, Running)
  \/ box[a] > 0 /\ (Has(a, JobHolds) \/ Queued(a))

LEMMA HeldIs == \A a : ActorHeld(a, stack, reg, kept) <=> Held(a)
  BY DEF ActorHeld, MailboxHeld, IdHeld, Frames, Held, Has, SeqHas, Queued, Running

(* And of the state without the last pointer: t's stack is s, the registry *)
(* r, and the program keeps k.                                             *)
HeldWith(t, a, s, r, k) ==
  \/ a \in r \/ a \in k \/ With(t, s, a, SendHolds) \/ With(t, s, a, Running)
  \/ box[a] > 0 /\ (a \in r \/ With(t, s, a, SendHolds) \/ With(t, s, a, JobHolds) \/ Queued(a))

LEMMA HeldWithIs ==
  ASSUME StacksOK, NEW t \in Threads, NEW s \in Seq(FrameSet), NEW r, NEW k, NEW a
  PROVE  ActorHeld(a, [stack EXCEPT ![t] = s], r, k) <=> HeldWith(t, a, s, r, k)
<1>. DEFINE st == [stack EXCEPT ![t] = s]
<1>1. st[t] = s /\ \A u \in Threads \ {t} : st[u] = stack[u]
  BY DEF StacksOK
<1>. HIDE DEF st
<1>2. \A ats : Frames(st, a, ats) <=> With(t, s, a, ats)
  BY <1>1 DEF Frames, With, SeqHas
<1>3. ActorHeld(a, st, r, k) <=> HeldWith(t, a, s, r, k)
  BY <1>2 DEF ActorHeld, MailboxHeld, IdHeld, HeldWith, Queued, Running
<1>. QED
  BY <1>3 DEF st

(* The destructor is a place like any other.                               *)
LEMMA DropHas ==
  ASSUME StacksOK, NEW t \in Threads, NEW b \in Actors, NEW s \in Seq(FrameSet), NEW r, NEW k,
         Drops(t, b, s, r, k)
  PROVE  /\ StacksOK'
         /\ \A a, ats : "dtor" \notin ats => (Has(a, ats)' <=> With(t, s, a, ats))
         /\ \A a, ats : Has(a, ats)' => With(t, s, a, ats) \/ a = b
         /\ dead' = dead \cup (IF b \notin dead /\ ~HeldWith(t, b, s, r, k) THEN {b} ELSE {})
<1>. DEFINE f == Frame("dtor", b)
            last == b \notin dead /\ ~HeldWith(t, b, s, r, k)
            g == <<f>> \o s
<1>1. f \in FrameSet /\ f.on = b /\ f.at = "dtor"
  BY DEF FrameSet, Frame, Places
<1>2. /\ stack' = [stack EXCEPT ![t] = (IF last THEN <<f>> ELSE <<>>) \o s]
      /\ dead' = dead \cup (IF last THEN {b} ELSE {})
  BY HeldWithIs DEF Drops
<1>. HIDE DEF f, last
<1>3. g \in Seq(FrameSet)
      /\ \A a, ats : SeqHas(g, a, ats) <=> (f.on = a /\ f.at \in ats) \/ SeqHas(s, a, ats)
  BY <1>1, SeqPush
<1>4. <<>> \o s = s
  OBVIOUS
<1>5. CASE last
  <2>1. stack' = [stack EXCEPT ![t] = g]
    BY <1>2, <1>5
  <2>. HIDE DEF g
  <2>2. StacksOK' /\ \A a, ats : Has(a, ats)' <=> With(t, g, a, ats)
    BY <1>3, <2>1, HasWith
  <2>3. \A a, ats : With(t, g, a, ats) <=> With(t, s, a, ats) \/ (b = a /\ "dtor" \in ats)
    BY <1>1, <1>3 DEF With
  <2>. QED
    BY <1>2, <2>2, <2>3 DEF last
<1>6. CASE ~last
  <2>1. stack' = [stack EXCEPT ![t] = s]
    BY <1>2, <1>4, <1>6
  <2>2. StacksOK' /\ \A a, ats : Has(a, ats)' <=> With(t, s, a, ats)
    BY <2>1, HasWith
  <2>. QED
    BY <1>2, <2>2 DEF last
<1>. QED
  BY <1>5, <1>6

-----------------------------------------------------------------------------
(* The lock: a thread is in stop under m_lock_maps once at a time, and     *)
(* until it has erased the actor it is in nothing else.                    *)
LockPlaces == {"clear", "erase", "unlock"}
Erasing == {"clear", "erase"}

NoneAt(s, ats) == \A a : ~SeqHas(s, a, ats)
OneLock(s) == \A i, j \in DOMAIN s : s[i].at \in LockPlaces /\ s[j].at \in LockPlaces => i = j

(* What is below the innermost call, and a stack.                          *)
Under(s) == OneLock(s) /\ NoneAt(s, Erasing)
Fine(s) == OneLock(s) /\ (s # <<>> => NoneAt(Tail(s), Erasing))

LEMMA OneLockPush ==
  ASSUME NEW s \in Seq(FrameSet), NEW f \in FrameSet
  PROVE  OneLock(<<f>> \o s) <=> OneLock(s) /\ (f.at \in LockPlaces => NoneAt(s, LockPlaces))
<1>. DEFINE r == <<f>> \o s
<1>1. /\ r \in Seq(FrameSet) /\ DOMAIN r = 1..(Len(s) + 1) /\ DOMAIN s = 1..Len(s) /\ r[1] = f
      /\ Len(s) \in Nat /\ \A i \in 1..Len(s) : r[i + 1] = s[i]
  OBVIOUS
<1>. HIDE DEF r
<1>2. \A i \in DOMAIN r : i = 1 \/ (i - 1 \in DOMAIN s /\ r[i] = s[i - 1])
  <2>. SUFFICES ASSUME NEW i \in DOMAIN r, i # 1 PROVE i - 1 \in DOMAIN s /\ r[i] = s[i - 1]
    OBVIOUS
  <2>1. i - 1 \in 1..Len(s) /\ (i - 1) + 1 = i
    BY <1>1
  <2>. QED
    BY <1>1, <2>1
<1>3. \A i \in DOMAIN s : i + 1 \in DOMAIN r /\ r[i + 1] = s[i] /\ i + 1 # 1
  BY <1>1
<1>4. ASSUME OneLock(r), NEW i \in DOMAIN s, NEW j \in DOMAIN s, s[i].at \in LockPlaces, s[j].at \in LockPlaces
      PROVE  i = j
  <2>1. i + 1 = j + 1
    BY <1>3, <1>4 DEF OneLock
  <2>. QED
    BY <1>1, <2>1
<1>5. ASSUME OneLock(r), f.at \in LockPlaces, NEW i \in DOMAIN s, s[i].at \in LockPlaces
      PROVE  FALSE
  <2>1. 1 \in DOMAIN r
    BY <1>1
  <2>2. i + 1 = 1
    BY <1>1, <1>3, <1>5, <2>1 DEF OneLock
  <2>. QED
    BY <1>3, <2>2
<1>6. ASSUME OneLock(s), f.at \in LockPlaces => NoneAt(s, LockPlaces),
             NEW i \in DOMAIN r, NEW j \in DOMAIN r, r[i].at \in LockPlaces, r[j].at \in LockPlaces
      PROVE  i = j
  <2>1. CASE i = 1 /\ j = 1
    BY <2>1
  <2>2. CASE i = 1 /\ j # 1
    BY <1>1, <1>2, <1>6, <2>2 DEF NoneAt, SeqHas
  <2>3. CASE i # 1 /\ j = 1
    BY <1>1, <1>2, <1>6, <2>3 DEF NoneAt, SeqHas
  <2>4. CASE i # 1 /\ j # 1
    <3>1. i - 1 = j - 1
      BY <1>2, <1>6, <2>4 DEF OneLock
    <3>. QED
      BY <1>1, <3>1
  <2>. QED
    BY <2>1, <2>2, <2>3, <2>4
<1>7. OneLock(r) => OneLock(s) /\ (f.at \in LockPlaces => NoneAt(s, LockPlaces))
  BY <1>4, <1>5 DEF OneLock, NoneAt, SeqHas
<1>8. OneLock(s) /\ (f.at \in LockPlaces => NoneAt(s, LockPlaces)) => OneLock(r)
  BY <1>6 DEF OneLock
<1>. QED
  BY <1>7, <1>8 DEF r

LEMMA FinePush ==
  ASSUME NEW s \in Seq(FrameSet), NEW f \in FrameSet, Under(s), f.at \in LockPlaces => NoneAt(s, LockPlaces)
  PROVE  Fine(<<f>> \o s) /\ (f.at \notin Erasing => Under(<<f>> \o s))
<1>1. OneLock(<<f>> \o s)
  BY OneLockPush DEF Under
<1>2. Tail(<<f>> \o s) = s /\ \A a, ats : SeqHas(<<f>> \o s, a, ats) <=> (f.on = a /\ f.at \in ats) \/ SeqHas(s, a, ats)
  BY SeqPush
<1>. QED
  BY <1>1, <1>2 DEF Fine, Under, NoneAt

LEMMA FinePop ==
  ASSUME NEW s \in Seq(FrameSet), s # <<>>, Fine(s)
  PROVE  /\ Under(Tail(s))
         /\ \A ats : NoneAt(s, ats) => NoneAt(Tail(s), ats)
         /\ Head(s).at \in LockPlaces => NoneAt(Tail(s), LockPlaces)
         /\ Head(s).at \notin Erasing => Under(s)
<1>. DEFINE h == Head(s)
            r == Tail(s)
<1>1. h \in FrameSet /\ r \in Seq(FrameSet) /\ s = <<h>> \o r
  BY SeqSplit
<1>. HIDE DEF h, r
<1>2. OneLock(r) /\ (h.at \in LockPlaces => NoneAt(r, LockPlaces))
  BY <1>1, OneLockPush DEF Fine
<1>3. \A a, ats : SeqHas(s, a, ats) <=> (h.on = a /\ h.at \in ats) \/ SeqHas(r, a, ats)
  BY <1>1, SeqPush
<1>4. NoneAt(r, Erasing)
  BY DEF Fine, r
<1>. QED
  BY <1>2, <1>3, <1>4 DEF Under, NoneAt, Fine, h, r

LEMMA UnderFine ==
  ASSUME NEW s \in Seq(FrameSet), Under(s)
  PROVE  Fine(s)
<1>1. CASE s = <<>>
  BY <1>1 DEF Fine, Under
<1>2. CASE s # <<>>
  <2>. DEFINE h == Head(s)
              r == Tail(s)
  <2>1. h \in FrameSet /\ r \in Seq(FrameSet) /\ s = <<h>> \o r
    BY <1>2, SeqSplit
  <2>. HIDE DEF h, r
  <2>2. \A a, ats : SeqHas(s, a, ats) <=> (h.on = a /\ h.at \in ats) \/ SeqHas(r, a, ats)
    BY <2>1, SeqPush
  <2>. QED
    BY <2>2 DEF Fine, Under, NoneAt, r
<1>. QED
  BY <1>1, <1>2

LocksOK ==
  /\ holder \in Threads \cup {None}
  /\ \A t \in Threads : Fine(stack[t])
  /\ \A t \in Threads : ~NoneAt(stack[t], LockPlaces) => holder = t

LEMMA LocksStep ==
  ASSUME StacksOK, LocksOK, NEW t \in Threads, NEW s \in Seq(FrameSet), stack' = [stack EXCEPT ![t] = s],
         Fine(s), ~NoneAt(s, LockPlaces) => holder' = t,
         holder' # holder => holder \in {None, t} /\ holder' \in {None, t}
  PROVE  LocksOK'
<1>1. stack'[t] = s /\ \A u \in Threads \ {t} : stack'[u] = stack[u]
  BY DEF StacksOK
<1>2. ASSUME NEW u \in Threads, ~NoneAt(stack'[u], LockPlaces) PROVE holder' = u
  BY <1>1, <1>2, LifetimesAssumption DEF LocksOK
<1>3. \A u \in Threads : Fine(stack'[u])
  BY <1>1 DEF LocksOK
<1>. QED
  BY <1>2, <1>3 DEF LocksOK

(* The locks after a thread has gone from the place it was in to one       *)
(* outside stop, has left it, or has called or dropped something.          *)
LEMMA LocksMove ==
  ASSUME StacksOK, LocksOK, NEW t \in Threads, stack[t] # <<>>, NEW q \in Places \ LockPlaces,
         Moves(t, q), holder' = holder
  PROVE  LocksOK'
<1>. DEFINE f == Frame(q, On(t))
            r == Tail(stack[t])
            g == <<f>> \o r
<1>1. f \in FrameSet /\ f.at = q /\ r \in Seq(FrameSet) /\ stack[t] \in Seq(FrameSet)
  BY HasTop DEF FrameSet, Frame, On, StacksOK
<1>2. stack' = [stack EXCEPT ![t] = g]
  BY DEF Moves, Moved
<1>3. Under(r) /\ (NoneAt(stack[t], LockPlaces) => NoneAt(r, LockPlaces))
  BY <1>1, FinePop DEF LocksOK
<1>4. ~NoneAt(r, LockPlaces) => holder = t
  BY <1>3 DEF LocksOK
<1>. HIDE DEF f, r
<1>5. g \in Seq(FrameSet) /\ Fine(g) /\ (NoneAt(r, LockPlaces) => NoneAt(g, LockPlaces))
  BY <1>1, <1>3, FinePush, SeqPush DEF NoneAt
<1>. HIDE DEF g
<1>. QED
  BY <1>2, <1>4, <1>5, LocksStep

LEMMA LocksDrop ==
  ASSUME StacksOK, LocksOK, NEW t \in Threads, NEW b \in Actors, NEW s \in Seq(FrameSet), NEW r, NEW k,
         Drops(t, b, s, r, k), Under(s), ~NoneAt(s, LockPlaces) => holder = t, holder' = holder
  PROVE  LocksOK'
<1>. DEFINE f == Frame("dtor", b)
            g == <<f>> \o s
<1>1. f \in FrameSet /\ f.at = "dtor" /\ f.at \notin LockPlaces
  BY DEF FrameSet, Frame, Places, LockPlaces
<1>2. <<>> \o s = s
  OBVIOUS
<1>3. stack' = [stack EXCEPT ![t] = g] \/ stack' = [stack EXCEPT ![t] = s]
  BY <1>2 DEF Drops
<1>. HIDE DEF f
<1>4. g \in Seq(FrameSet) /\ Fine(g) /\ (NoneAt(s, LockPlaces) => NoneAt(g, LockPlaces))
  BY <1>1, FinePush, SeqPush DEF NoneAt
<1>5. Fine(s)
  BY UnderFine
<1>. HIDE DEF g
<1>. QED
  BY <1>3, <1>4, <1>5, LocksStep

LEMMA LocksLeave ==
  ASSUME StacksOK, LocksOK, NEW t \in Threads, stack[t] # <<>>
  PROVE  /\ Tail(stack[t]) \in Seq(FrameSet) /\ Under(Tail(stack[t]))
         /\ ~NoneAt(Tail(stack[t]), LockPlaces) => holder = t
         /\ Leaves(t) /\ holder' = holder => LocksOK'
<1>. DEFINE r == Tail(stack[t])
<1>1. r \in Seq(FrameSet) /\ stack[t] \in Seq(FrameSet)
  BY HasTop DEF StacksOK
<1>2. Under(r) /\ (NoneAt(stack[t], LockPlaces) => NoneAt(r, LockPlaces))
  BY <1>1, FinePop DEF LocksOK
<1>3. ~NoneAt(r, LockPlaces) => holder = t
  BY <1>2 DEF LocksOK
<1>4. Leaves(t) => stack' = [stack EXCEPT ![t] = r]
  BY DEF Leaves
<1>. HIDE DEF r
<1>5. Leaves(t) /\ holder' = holder => LocksOK'
  BY <1>1, <1>2, <1>3, <1>4, UnderFine, LocksStep
<1>. QED
  BY <1>1, <1>2, <1>3, <1>5 DEF r

(* User code is called with no call of stop below it that would still      *)
(* erase something.                                                        *)
LEMMA LocksUser ==
  ASSUME StacksOK, LocksOK, NEW t \in Threads, UserCode(t) \/ stack[t] = <<>>
  PROVE  stack[t] \in Seq(FrameSet) /\ Under(stack[t]) /\ (~NoneAt(stack[t], LockPlaces) => holder = t)
<1>1. stack[t] \in Seq(FrameSet)
  BY DEF StacksOK
<1>2. CASE stack[t] = <<>>
  BY <1>1, <1>2 DEF Under, OneLock, NoneAt, SeqHas, LocksOK
<1>3. CASE stack[t] # <<>>
  <2>1. Head(stack[t]).at \notin Erasing
    BY <1>3 DEF UserCode, In, Erasing
  <2>. QED
    BY <1>1, <1>3, <2>1, FinePop DEF LocksOK
<1>. QED
  BY <1>2, <1>3

LEMMA LocksEnter ==
  ASSUME StacksOK, LocksOK, NEW t \in Threads, UserCode(t) \/ stack[t] = <<>>,
         NEW q \in Places \ LockPlaces, NEW b \in Actors, Enters(t, q, b), holder' = holder
  PROVE  LocksOK'
<1>. DEFINE f == Frame(q, b)
            r == stack[t]
            g == <<f>> \o r
<1>1. f \in FrameSet /\ f.at = q
  BY DEF FrameSet, Frame
<1>2. stack' = [stack EXCEPT ![t] = g]
  BY DEF Enters
<1>3. r \in Seq(FrameSet) /\ Under(r) /\ (~NoneAt(r, LockPlaces) => holder = t)
  BY LocksUser
<1>. HIDE DEF f, r
<1>4. g \in Seq(FrameSet) /\ Fine(g) /\ (NoneAt(r, LockPlaces) => NoneAt(g, LockPlaces))
  BY <1>1, <1>3, FinePush, SeqPush DEF NoneAt
<1>. HIDE DEF g
<1>. QED
  BY <1>2, <1>3, <1>4, LocksStep

-----------------------------------------------------------------------------
(* The invariant *)

Shape ==
  /\ StacksOK
  /\ spawned \subseteq Actors /\ reg \subseteq spawned /\ kept \subseteq spawned /\ dead \subseteq spawned
  /\ jobs \in Seq(Actors)
  /\ box \in [Actors -> Nat]
  /\ inPool \in [Actors -> BOOLEAN]
  /\ \A a : Has(a, Places) \/ Queued(a) => a \in spawned

(* What stop is about to clear is still registered: nobody else can erase  *)
(* it meanwhile.                                                           *)
ClearsOK == \A a : Has(a, {"clear"}) => a \in reg

(* Somebody will drain a mailbox that is marked as in the pool: it is      *)
(* queued, or one of these calls has it.                                   *)
Owners == {"submit", "first", "run", "next", "leave", "resubmit"}
OwnersOK == \A a \in Actors : inPool[a] => Queued(a) \/ Has(a, Owners)

DeadOK == \A a \in spawned : a \in dead <=> ~Held(a)

IInv == Shape /\ LocksOK /\ ClearsOK /\ OwnersOK /\ DeadOK

LEMMA IInvInit == Init => IInv
<1>. SUFFICES ASSUME Init PROVE IInv
  OBVIOUS
<1>1. StacksOK /\ \A a, ats : ~Has(a, ats)
  BY DEF Init, StacksOK, Has, SeqHas
<1>2. \A a : ~Queued(a)
  BY DEF Init, Queued
<1>3. LocksOK
  BY DEF Init, LocksOK, Fine, OneLock, NoneAt, SeqHas
<1>. QED
  BY <1>1, <1>2, <1>3 DEF Init, IInv, Shape, ClearsOK, OwnersOK, DeadOK

LEMMA IInvStutter ==
  ASSUME IInv, UNCHANGED <<regVars, holder, boxVars, stack, kept, dead>>
  PROVE  IInv'
  BY DEF regVars, boxVars, IInv, Shape, StacksOK, LocksOK, ClearsOK, OwnersOK, DeadOK, Held, Has, Queued

(* Where the innermost call is, and what the stacks tell without it.       *)
LEMMA At ==
  ASSUME Shape, NEW t \in Threads, NEW p, In(t, p)
  PROVE  /\ stack[t] # <<>> /\ On(t) \in Actors /\ Tail(stack[t]) \in Seq(FrameSet)
         /\ p \in Places => On(t) \in spawned
         /\ \A a, ats : Has(a, ats) <=> Base(t, a, ats) \/ (On(t) = a /\ p \in ats)
<1>1. stack[t] # <<>> /\ Head(stack[t]).at = p
  BY DEF In
<1>2. /\ Head(stack[t]) \in FrameSet /\ Tail(stack[t]) \in Seq(FrameSet)
      /\ \A a, ats : Has(a, ats) <=> Base(t, a, ats) \/ (On(t) = a /\ p \in ats)
  BY <1>1, HasTop DEF Shape
<1>. QED
  BY <1>1, <1>2 DEF FrameSet, On, Shape

(* The places, by what they hold.                                          *)
LEMMA PlacesDo ==
  /\ SendHolds \subseteq Places /\ JobHolds \subseteq Places /\ Running \subseteq Owners /\ Owners \subseteq Places
  /\ Running \subseteq JobHolds /\ LockPlaces \subseteq Places
  /\ \A at \in {"lookup", "deref", "find", "copy", "stop", "erase", "unlock", "dtor"} :
       at \in Places /\ at \notin SendHolds \cup JobHolds \cup Owners \cup Running \cup {"clear"}
  /\ \A ats \in {SendHolds, JobHolds, Owners, Running, {"clear"}} : "dtor" \notin ats
  /\ \A at \in {"lookup", "deref", "find", "copy", "stop", "dtor"} \cup SendHolds \cup JobHolds :
       at \in Places \ LockPlaces
  BY DEF Places, SendHolds, JobHolds, Owners, Running, LockPlaces

(* Somebody may have become unreachable only where a pointer is dropped.   *)
LEMMA Settles ==
  ASSUME Shape, DeadOK, NEW t \in Threads, NEW b \in spawned, NEW s \in Seq(FrameSet),
         Drops(t, b, s, reg', kept'), spawned' = spawned,
         \A a \in Actors : box'[a] = box[a] /\ (box[a] > 0 => (Queued(a)' <=> Queued(a))),
         \A a \in spawned : Held(a)' => Held(a),
         \A a \in spawned \ {b} : Held(a) => Held(a)'
  PROVE  DeadOK' /\ dead' \subseteq spawned
<1>1. /\ \A a, ats : "dtor" \notin ats => (Has(a, ats)' <=> With(t, s, a, ats))
      /\ dead' = dead \cup (IF b \notin dead /\ ~HeldWith(t, b, s, reg', kept') THEN {b} ELSE {})
  BY DropHas DEF Shape
<1>2. Held(b)' <=> HeldWith(t, b, s, reg', kept')
  <2>1. /\ Has(b, SendHolds)' <=> With(t, s, b, SendHolds)
        /\ Has(b, JobHolds)' <=> With(t, s, b, JobHolds)
        /\ Has(b, Running)' <=> With(t, s, b, Running)
    BY <1>1, PlacesDo
  <2>2. b \in Actors
    BY DEF Shape
  <2>. QED
    BY <2>1, <2>2 DEF Held, HeldWith
<1>. QED
  BY <1>1, <1>2 DEF DeadOK, Shape

(* A step between places where nothing is held.                            *)
Pointers == {SendHolds, JobHolds, Owners, Running}

LEMMA Plain ==
  ASSUME IInv, UNCHANGED <<regVars, boxVars, kept, dead>>, StacksOK', LocksOK',
         \A a : \A ats \in Pointers : Has(a, ats)' <=> Has(a, ats),
         \A a : Has(a, Places)' => a \in spawned,
         \A a : Has(a, {"clear"})' => a \in reg
  PROVE  IInv'
<1>1. \A a : /\ Has(a, SendHolds)' <=> Has(a, SendHolds)
             /\ Has(a, JobHolds)' <=> Has(a, JobHolds)
             /\ Has(a, Running)' <=> Has(a, Running)
             /\ Has(a, Owners)' <=> Has(a, Owners)
  BY DEF Pointers
<1>2. \A a : Queued(a)' <=> Queued(a)
  BY DEF boxVars, Queued
<1>3. \A a : Held(a)' <=> Held(a)
  BY <1>1, <1>2 DEF Held, regVars, boxVars
<1>. HIDE DEF Held, Has, Queued
<1>4. Shape'
  BY <1>2 DEF IInv, Shape, regVars, boxVars
<1>5. ClearsOK' /\ OwnersOK'
  BY <1>1, <1>2 DEF IInv, ClearsOK, OwnersOK, regVars, boxVars
<1>6. DeadOK'
  BY <1>3 DEF IInv, DeadOK, regVars
<1>. QED
  BY <1>4, <1>5, <1>6 DEF IInv

LEMMA SpawnStep == ASSUME IInv, NEW t \in Threads, NEW a \in Actors, Spawn(t, a) PROVE IInv'
<1>1. \A b, ats : (Has(b, ats)' <=> Has(b, ats)) /\ (Queued(b)' <=> Queued(b))
  BY DEF Spawn, boxVars, Has, Queued
<1>2. Shape' /\ LocksOK' /\ ClearsOK' /\ OwnersOK'
  BY <1>1 DEF IInv, Shape, StacksOK, LocksOK, ClearsOK, OwnersOK, Spawn, boxVars
<1>3. /\ \A b \in spawned : Held(b)' <=> Held(b)
      /\ Held(a)' /\ a \notin dead
  BY <1>1 DEF IInv, Shape, Spawn, boxVars, Held
<1>4. DeadOK'
  BY <1>3 DEF IInv, DeadOK, Spawn
<1>. QED
  BY <1>2, <1>4 DEF IInv

LEMMA CallsStep ==
  ASSUME IInv, NEW t \in Threads, NEW at \in {"lookup", "find", "stop"}, NEW a \in Actors, Calls(t, at, a)
  PROVE  IInv'
<1>1. at \in Places \ LockPlaces /\ \A ats \in Pointers \cup {{"clear"}} : at \notin ats
  BY PlacesDo DEF Pointers
<1>2. StacksOK' /\ \A b, ats : Has(b, ats)' <=> Has(b, ats) \/ (a = b /\ at \in ats)
  BY <1>1, EnterHas DEF Calls, IInv, Shape
<1>3. LocksOK'
  BY <1>1, LocksEnter DEF Calls, IInv, Shape
<1>4. \A b : Has(b, Places)' => b \in spawned
  BY <1>2 DEF IInv, Shape, Calls
<1>5. \A b : Has(b, {"clear"})' => b \in reg
  BY <1>1, <1>2 DEF IInv, ClearsOK
<1>6. \A b : \A ats \in Pointers : Has(b, ats)' <=> Has(b, ats)
  BY <1>1, <1>2
<1>. QED
  BY <1>2, <1>3, <1>4, <1>5, <1>6, Plain DEF Calls

(* From one place without a pointer to another, or out of it.              *)
LEMMA PlainMove ==
  ASSUME IInv, NEW t \in Threads, NEW p \in {"lookup", "find", "stop", "deref", "copy", "unlock", "dtor"}, In(t, p),
         UNCHANGED <<regVars, boxVars, kept, dead>>,
         \/ holder' = holder /\ \E q \in {"deref", "copy"} : Moves(t, q)
         \/ Leaves(t) /\ LocksOK'
  PROVE  IInv'
<1>1. /\ stack[t] # <<>> /\ On(t) \in spawned
      /\ \A a, ats : Has(a, ats) <=> Base(t, a, ats) \/ (On(t) = a /\ p \in ats)
      /\ p \in Places /\ \A ats \in Pointers \cup {{"clear"}} : p \notin ats
  BY At, PlacesDo DEF IInv, Pointers
<1>2. ASSUME NEW q \in {"deref", "copy"}, Moves(t, q), holder' = holder
      PROVE  /\ StacksOK' /\ LocksOK'
             /\ \A a : \A ats \in Pointers \cup {{"clear"}} : Has(a, ats)' <=> Base(t, a, ats)
             /\ \A a : Has(a, Places)' => Base(t, a, Places) \/ a = On(t)
  <2>1. q \in Places \ LockPlaces /\ \A ats \in Pointers \cup {{"clear"}} : q \notin ats
    BY PlacesDo DEF Pointers
  <2>2. StacksOK' /\ \A a, ats : Has(a, ats)' <=> Base(t, a, ats) \/ (On(t) = a /\ q \in ats)
    BY <1>1, <1>2, <2>1, MoveHas DEF IInv, Shape
  <2>3. LocksOK'
    BY <1>1, <1>2, <2>1, LocksMove DEF IInv, Shape
  <2>. QED
    BY <2>1, <2>2, <2>3
<1>3. ASSUME Leaves(t), LocksOK'
      PROVE  StacksOK' /\ \A a, ats : Has(a, ats)' <=> Base(t, a, ats)
  BY <1>1, <1>3, LeaveHas DEF IInv, Shape
<1>4. /\ StacksOK' /\ LocksOK'
      /\ \A a : \A ats \in Pointers \cup {{"clear"}} : Has(a, ats)' <=> Base(t, a, ats)
      /\ \A a : Has(a, Places)' => Base(t, a, Places) \/ a = On(t)
  BY <1>2, <1>3
<1>5. \A a : \A ats \in Pointers \cup {{"clear"}} : Has(a, ats)' <=> Has(a, ats)
  BY <1>1, <1>4
<1>6. \A a : Has(a, {"clear"})' => a \in reg
  BY <1>5 DEF IInv, ClearsOK
<1>7. \A a : Has(a, Places)' => a \in spawned
  BY <1>1, <1>4 DEF IInv, Shape
<1>. QED
  BY <1>4, <1>5, <1>6, <1>7, Plain

LEMMA FindsStep ==
  ASSUME IInv, NEW t \in Threads, NEW at \in {"lookup", "find"}, NEW found \in {"deref", "copy"}, Finds(t, at, found)
  PROVE  IInv'
<1>1. stack[t] # <<>>
  BY DEF Finds, In
<1>2. Leaves(t) => LocksOK'
  BY <1>1, LocksLeave DEF Finds, IInv, Shape
<1>. QED
  BY <1>2, PlainMove DEF Finds

LEMMA UserReturnsStep == ASSUME IInv, NEW t \in Threads, UserReturns(t) PROVE IInv'
<1>1. CASE In(t, "dtor") /\ Leaves(t)
  <2>1. stack[t] # <<>>
    BY <1>1 DEF In
  <2>2. LocksOK'
    BY <1>1, <2>1, LocksLeave DEF UserReturns, IInv, Shape
  <2>. QED
    BY <1>1, <2>2, PlainMove DEF UserReturns
<1>2. CASE In(t, "run") /\ Moves(t, "next")
  <2>1. /\ stack[t] # <<>> /\ On(t) \in spawned
        /\ \A a, ats : Has(a, ats) <=> Base(t, a, ats) \/ (On(t) = a /\ "run" \in ats)
        /\ "next" \in Places \ LockPlaces
    BY <1>2, At, PlacesDo DEF IInv, JobHolds
  <2>2. StacksOK' /\ \A a, ats : Has(a, ats)' <=> Base(t, a, ats) \/ (On(t) = a /\ "next" \in ats)
    BY <1>2, <2>1, MoveHas DEF IInv, Shape
  <2>3. LocksOK'
    BY <1>2, <2>1, LocksMove DEF IInv, Shape, UserReturns
  <2>4. \A ats \in Pointers : "next" \in ats <=> "run" \in ats
    BY DEF Pointers, SendHolds, JobHolds, Owners, Running
  <2>5. \A a : \A ats \in Pointers : Has(a, ats)' <=> Has(a, ats)
    BY <2>1, <2>2, <2>4
  <2>6. \A a : Has(a, {"clear"})' => a \in reg
    BY <2>1, <2>2 DEF IInv, ClearsOK
  <2>7. \A a : Has(a, Places)' => a \in spawned
    BY <2>1, <2>2 DEF IInv, Shape
  <2>. QED
    BY <2>2, <2>3, <2>5, <2>6, <2>7, Plain DEF UserReturns
<1>. QED
  BY <1>1, <1>2 DEF UserReturns

(* What every move, and every return, has in common.                       *)
LEMMA Moving ==
  ASSUME IInv, NEW t \in Threads, NEW p \in Places, In(t, p), NEW q \in Places \ LockPlaces,
         Moves(t, q), holder' = holder, spawned' = spawned, reg' = reg
  PROVE  /\ StacksOK' /\ LocksOK' /\ ClearsOK'
         /\ On(t) \in spawned /\ On(t) \in Actors
         /\ \A a, ats : Has(a, ats) <=> Base(t, a, ats) \/ (On(t) = a /\ p \in ats)
         /\ \A a, ats : Has(a, ats)' <=> Base(t, a, ats) \/ (On(t) = a /\ q \in ats)
         /\ \A a : Has(a, Places)' => a \in spawned'
<1>1. /\ stack[t] # <<>> /\ On(t) \in spawned /\ On(t) \in Actors
      /\ \A a, ats : Has(a, ats) <=> Base(t, a, ats) \/ (On(t) = a /\ p \in ats)
  BY At DEF IInv
<1>2. StacksOK' /\ \A a, ats : Has(a, ats)' <=> Base(t, a, ats) \/ (On(t) = a /\ q \in ats)
  BY <1>1, MoveHas DEF IInv, Shape
<1>3. LocksOK'
  BY <1>1, LocksMove DEF IInv, Shape
<1>4. q \notin {"clear"}
  BY DEF LockPlaces
<1>5. ClearsOK'
  BY <1>1, <1>2, <1>4 DEF IInv, ClearsOK
<1>6. \A a : Has(a, Places)' => a \in spawned'
  BY <1>1, <1>2 DEF IInv, Shape
<1>. QED
  BY <1>1, <1>2, <1>3, <1>5, <1>6

LEMMA Leaving ==
  ASSUME IInv, NEW t \in Threads, NEW p \in Places, In(t, p),
         Leaves(t), holder' = holder, spawned' = spawned, reg' = reg
  PROVE  /\ StacksOK' /\ LocksOK' /\ ClearsOK'
         /\ On(t) \in spawned /\ On(t) \in Actors
         /\ \A a, ats : Has(a, ats) <=> Base(t, a, ats) \/ (On(t) = a /\ p \in ats)
         /\ \A a, ats : Has(a, ats)' <=> Base(t, a, ats)
         /\ \A a : Has(a, Places)' => a \in spawned'
<1>1. /\ stack[t] # <<>> /\ On(t) \in spawned /\ On(t) \in Actors
      /\ \A a, ats : Has(a, ats) <=> Base(t, a, ats) \/ (On(t) = a /\ p \in ats)
  BY At DEF IInv
<1>2. StacksOK' /\ \A a, ats : Has(a, ats)' <=> Base(t, a, ats)
  BY <1>1, LeaveHas DEF IInv, Shape
<1>3. LocksOK'
  BY <1>1, LocksLeave DEF IInv, Shape
<1>4. ClearsOK' /\ \A a : Has(a, Places)' => a \in spawned'
  BY <1>1, <1>2 DEF IInv, ClearsOK, Shape
<1>. QED
  BY <1>1, <1>2, <1>3, <1>4

(* Nothing is dropped: the destroyed are the same, and who is held.        *)
LEMMA SameDead ==
  ASSUME DeadOK, spawned' = spawned, dead' = dead, \A a \in spawned : Held(a)' <=> Held(a)
  PROVE  DeadOK'
  BY DEF DeadOK

LEMMA DerefStep == ASSUME IInv, NEW t \in Threads, Deref(t) PROVE IInv'
<1>1. CASE ~Entry(t)
  BY <1>1, IInvStutter DEF Deref
<1>2. CASE Entry(t)
  <2>1. "deref" \in Places /\ "push" \in Places \ LockPlaces
    BY PlacesDo DEF SendHolds
  <2>2. In(t, "deref") /\ Moves(t, "push") /\ UNCHANGED <<regVars, holder, boxVars, kept, dead>>
    BY <1>2 DEF Deref
  <2>3. /\ StacksOK' /\ LocksOK' /\ ClearsOK'
        /\ On(t) \in spawned /\ On(t) \in Actors
        /\ \A a, ats : Has(a, ats) <=> Base(t, a, ats) \/ (On(t) = a /\ "deref" \in ats)
        /\ \A a, ats : Has(a, ats)' <=> Base(t, a, ats) \/ (On(t) = a /\ "push" \in ats)
        /\ \A a : Has(a, Places)' => a \in spawned'
    BY <2>1, <2>2, Moving DEF regVars
  <2>4. \A a : Queued(a)' <=> Queued(a)
    BY <2>2 DEF boxVars, Queued
  <2>5. "deref" \notin SendHolds \cup JobHolds \cup Owners \cup Running
        /\ "push" \in SendHolds /\ "push" \notin JobHolds \cup Owners \cup Running
    BY DEF SendHolds, JobHolds, Owners, Running
  <2>6. Shape'
    BY <2>2, <2>3, <2>4 DEF IInv, Shape, regVars, boxVars
  <2>7. OwnersOK'
    BY <2>2, <2>3, <2>4, <2>5 DEF IInv, OwnersOK, boxVars
  <2>8. \A a : Held(a)' <=> Held(a)
    BY <1>2, <2>2, <2>3, <2>4, <2>5 DEF Held, Entry, regVars, boxVars
  <2>9. DeadOK'
    BY <2>2, <2>8, SameDead DEF IInv, regVars
  <2>. QED
    BY <2>3, <2>6, <2>7, <2>9 DEF IInv
<1>. QED
  BY <1>1, <1>2

LEMMA PushStep == ASSUME IInv, NEW t \in Threads, Push(t) PROVE IInv'
<1>1. "push" \in Places /\ "check" \in Places \ LockPlaces
  BY PlacesDo DEF SendHolds
<1>2. In(t, "push") /\ Moves(t, "check") /\ UNCHANGED <<regVars, holder, inPool, jobs, kept, dead>>
      /\ box' = [box EXCEPT ![On(t)] = @ + 1]
  BY DEF Push
<1>3. /\ StacksOK' /\ LocksOK' /\ ClearsOK'
      /\ On(t) \in spawned /\ On(t) \in Actors
      /\ \A a, ats : Has(a, ats) <=> Base(t, a, ats) \/ (On(t) = a /\ "push" \in ats)
      /\ \A a, ats : Has(a, ats)' <=> Base(t, a, ats) \/ (On(t) = a /\ "check" \in ats)
      /\ \A a : Has(a, Places)' => a \in spawned'
  BY <1>1, <1>2, Moving DEF regVars
<1>4. \A a : Queued(a)' <=> Queued(a)
  BY <1>2 DEF Queued
<1>5. \A at \in {"push", "check"} : at \in SendHolds /\ at \notin JobHolds \cup Owners \cup Running
  BY DEF SendHolds, JobHolds, Owners, Running
<1>6. box' \in [Actors -> Nat] /\ \A a \in Actors : a # On(t) => box'[a] = box[a]
  BY <1>2, <1>3 DEF IInv, Shape
<1>7. Shape'
  BY <1>2, <1>3, <1>4, <1>6 DEF IInv, Shape, regVars
<1>8. OwnersOK'
  BY <1>2, <1>3, <1>4, <1>5 DEF IInv, OwnersOK
<1>9. \A a \in Actors : Held(a)' <=> Held(a)
  BY <1>2, <1>3, <1>4, <1>5, <1>6 DEF Held, regVars
<1>10. DeadOK'
  BY <1>2, <1>9, SameDead DEF IInv, Shape, regVars
<1>. QED
  BY <1>3, <1>7, <1>8, <1>10 DEF IInv

(* What every drop has in common, and the three stacks it happens with.    *)
LEMMA Dropping ==
  ASSUME IInv, NEW t \in Threads, NEW b \in spawned, NEW s \in Seq(FrameSet), NEW r, NEW k,
         Drops(t, b, s, r, k), Under(s), ~NoneAt(s, LockPlaces) => holder = t,
         holder' = holder, spawned' = spawned, \A a : With(t, s, a, Places) => a \in spawned
  PROVE  /\ StacksOK' /\ LocksOK'
         /\ \A a, ats : "dtor" \notin ats => (Has(a, ats)' <=> With(t, s, a, ats))
         /\ \A a : Has(a, Places)' => a \in spawned'
<1>1. b \in Actors
  BY DEF IInv, Shape
<1>2. /\ StacksOK'
      /\ \A a, ats : "dtor" \notin ats => (Has(a, ats)' <=> With(t, s, a, ats))
      /\ \A a, ats : Has(a, ats)' => With(t, s, a, ats) \/ a = b
  BY <1>1, DropHas DEF IInv, Shape
<1>3. LocksOK'
  BY <1>1, LocksDrop DEF IInv, Shape
<1>. QED
  BY <1>2, <1>3

LEMMA TailUnder ==
  ASSUME IInv, NEW t \in Threads, NEW p \in Places, In(t, p)
  PROVE  /\ Tail(stack[t]) \in Seq(FrameSet) /\ Under(Tail(stack[t]))
         /\ ~NoneAt(Tail(stack[t]), LockPlaces) => holder = t
         /\ p \in LockPlaces => NoneAt(Tail(stack[t]), LockPlaces) /\ holder = t
         /\ \A a : With(t, Tail(stack[t]), a, Places) => a \in spawned
<1>1. /\ stack[t] # <<>> /\ Head(stack[t]).at = p /\ stack[t] \in Seq(FrameSet)
      /\ \A a, ats : Has(a, ats) <=> Base(t, a, ats) \/ (On(t) = a /\ p \in ats)
  BY At DEF In, IInv, Shape, StacksOK
<1>2. /\ Tail(stack[t]) \in Seq(FrameSet) /\ Under(Tail(stack[t]))
      /\ ~NoneAt(Tail(stack[t]), LockPlaces) => holder = t
  BY <1>1, LocksLeave DEF IInv, Shape
<1>3. p \in LockPlaces => NoneAt(Tail(stack[t]), LockPlaces)
  BY <1>1, FinePop DEF IInv, LocksOK
<1>4. p \in LockPlaces => holder = t
  <2>1. SeqHas(stack[t], On(t), {p})
    BY <1>1 DEF SeqHas, On
  <2>2. p \in LockPlaces => ~NoneAt(stack[t], LockPlaces)
    BY <2>1 DEF SeqHas, NoneAt
  <2>. QED
    BY <2>2 DEF IInv, LocksOK
<1>5. \A a : With(t, Tail(stack[t]), a, Places) => a \in spawned
  BY <1>1 DEF Base, IInv, Shape
<1>. QED
  BY <1>2, <1>3, <1>4, <1>5

LEMMA MovedUnder ==
  ASSUME IInv, NEW t \in Threads, NEW p \in Places, In(t, p), NEW q \in Places \ Erasing,
         q \in LockPlaces => p \in LockPlaces
  PROVE  /\ Moved(t, q) \in Seq(FrameSet) /\ Under(Moved(t, q))
         /\ ~NoneAt(Moved(t, q), LockPlaces) => holder = t
         /\ \A a, ats : With(t, Moved(t, q), a, ats) <=> Base(t, a, ats) \/ (On(t) = a /\ q \in ats)
         /\ \A a : With(t, Moved(t, q), a, Places) => a \in spawned
<1>. DEFINE f == Frame(q, On(t))
            r == Tail(stack[t])
            g == <<f>> \o r
<1>1. On(t) \in Actors /\ On(t) \in spawned
  BY At DEF IInv
<1>2. f \in FrameSet /\ f.at = q /\ f.on = On(t)
  BY <1>1 DEF FrameSet, Frame
<1>3. /\ r \in Seq(FrameSet) /\ Under(r)
      /\ ~NoneAt(r, LockPlaces) => holder = t
      /\ p \in LockPlaces => NoneAt(r, LockPlaces) /\ holder = t
      /\ \A a : With(t, r, a, Places) => a \in spawned
  BY TailUnder
<1>. HIDE DEF f, r
<1>4. /\ g \in Seq(FrameSet)
      /\ \A a, ats : SeqHas(g, a, ats) <=> (f.on = a /\ f.at \in ats) \/ SeqHas(r, a, ats)
  BY <1>2, <1>3, SeqPush
<1>5. Under(g)
  BY <1>2, <1>3, FinePush
<1>. HIDE DEF g
<1>6. ~NoneAt(g, LockPlaces) => holder = t
  BY <1>2, <1>3, <1>4 DEF NoneAt
<1>7. \A a, ats : With(t, g, a, ats) <=> With(t, r, a, ats) \/ (On(t) = a /\ q \in ats)
  BY <1>2, <1>4 DEF With
<1>8. \A a : With(t, g, a, Places) => a \in spawned
  BY <1>1, <1>3, <1>7
<1>9. Moved(t, q) = g
  BY DEF Moved, f, r, g
<1>. QED
  BY <1>4, <1>5, <1>6, <1>7, <1>8, <1>9 DEF Base, r

LEMMA CheckStep == ASSUME IInv, NEW t \in Threads, Check(t) PROVE IInv'
<1>. DEFINE b == On(t)
<1>1. "check" \in Places /\ "submit" \in Places \ LockPlaces
  BY PlacesDo DEF SendHolds
<1>2. "check" \in SendHolds /\ "check" \notin JobHolds \cup Owners \cup Running
      /\ "submit" \in SendHolds \cap Owners /\ "submit" \notin JobHolds \cup Running
  BY DEF SendHolds, JobHolds, Owners, Running
<1>3. In(t, "check") /\ UNCHANGED <<regVars, holder, box, jobs, kept>>
  BY DEF Check
<1>4. b \in Actors /\ b \in spawned
      /\ \A a, ats : Has(a, ats) <=> Base(t, a, ats) \/ (b = a /\ "check" \in ats)
  BY <1>1, <1>3, At DEF IInv
<1>5. \A a : Queued(a)' <=> Queued(a)
  BY <1>3 DEF Queued
<1>. HIDE DEF b
<1>6. CASE Claims(b) /\ inPool' = [inPool EXCEPT ![b] = TRUE] /\ Moves(t, "submit") /\ UNCHANGED dead
  <2>1. /\ StacksOK' /\ LocksOK' /\ ClearsOK'
        /\ \A a, ats : Has(a, ats)' <=> Base(t, a, ats) \/ (b = a /\ "submit" \in ats)
        /\ \A a : Has(a, Places)' => a \in spawned'
    BY <1>1, <1>3, <1>6, Moving DEF regVars, b
  <2>2. Shape'
    BY <1>3, <1>5, <1>6, <2>1 DEF IInv, Shape, regVars
  <2>3. OwnersOK'
    BY <1>2, <1>4, <1>5, <1>6, <2>1 DEF IInv, OwnersOK, Shape
  <2>4. \A a \in spawned : Held(a)' <=> Held(a)
    BY <1>2, <1>3, <1>4, <1>5, <2>1 DEF Held, regVars
  <2>5. DeadOK'
    BY <1>3, <1>6, <2>4, SameDead DEF IInv, regVars
  <2>. QED
    BY <2>1, <2>2, <2>3, <2>5 DEF IInv
<1>7. CASE Drops(t, b, Tail(stack[t]), reg, kept) /\ UNCHANGED inPool
  <2>. DEFINE s == Tail(stack[t])
  <2>1. /\ s \in Seq(FrameSet) /\ Under(s) /\ (~NoneAt(s, LockPlaces) => holder = t)
        /\ \A a : With(t, s, a, Places) => a \in spawned
    BY <1>1, <1>3, TailUnder
  <2>2. \A a, ats : Base(t, a, ats) <=> With(t, s, a, ats)
    BY DEF Base
  <2>3. Drops(t, b, s, reg', kept')
    BY <1>3, <1>7 DEF regVars
  <2>. HIDE DEF s
  <2>4. /\ StacksOK' /\ LocksOK'
        /\ \A a, ats : "dtor" \notin ats => (Has(a, ats)' <=> Base(t, a, ats))
        /\ \A a : Has(a, Places)' => a \in spawned'
    BY <1>3, <1>4, <2>1, <2>2, <2>3, Dropping DEF regVars
  <2>5. \A a : \A ats \in Pointers \cup {{"clear"}} : Has(a, ats)' <=> Base(t, a, ats)
    BY <2>4, PlacesDo DEF Pointers
  <2>6. \A a \in spawned : (Held(a)' => Held(a)) /\ (a # b => (Held(a) => Held(a)'))
    BY <1>2, <1>3, <1>4, <1>5, <2>5 DEF Held, regVars, Pointers
  <2>7. DeadOK' /\ dead' \subseteq spawned
    BY <1>3, <1>4, <1>5, <2>1, <2>3, <2>6, Settles DEF IInv, regVars
  <2>8. Shape'
    BY <1>3, <1>5, <1>7, <2>4, <2>7 DEF IInv, Shape, regVars
  <2>9. ClearsOK' /\ OwnersOK'
    BY <1>2, <1>3, <1>4, <1>5, <1>7, <2>5 DEF IInv, ClearsOK, OwnersOK, regVars, Pointers
  <2>. QED
    BY <2>4, <2>7, <2>8, <2>9 DEF IInv
<1>. QED
  BY <1>6, <1>7 DEF Check, b

(* What is queued after a mailbox has been.                                *)
LEMMA QueuedAppend ==
  ASSUME jobs \in Seq(Actors), NEW b \in Actors, jobs' = Append(jobs, b)
  PROVE  jobs' \in Seq(Actors) /\ \A a : Queued(a)' <=> Queued(a) \/ a = b
<1>1. /\ jobs' \in Seq(Actors) /\ DOMAIN jobs = 1..Len(jobs) /\ DOMAIN jobs' = 1..(Len(jobs) + 1)
      /\ Len(jobs) \in Nat /\ jobs'[Len(jobs) + 1] = b
      /\ \A i \in DOMAIN jobs : jobs'[i] = jobs[i]
  OBVIOUS
<1>2. \A i \in DOMAIN jobs' : i \in DOMAIN jobs \/ i = Len(jobs) + 1
  BY <1>1
<1>3. DOMAIN jobs \subseteq DOMAIN jobs' /\ Len(jobs) + 1 \in DOMAIN jobs'
  BY <1>1
<1>. QED
  BY <1>1, <1>2, <1>3 DEF Queued

LEMMA SubmitStep == ASSUME IInv, NEW t \in Threads, Submit(t) PROVE IInv'
<1>. DEFINE b == On(t)
<1>1. "submit" \in Places
  BY PlacesDo DEF SendHolds
<1>2. "submit" \in SendHolds \cap Owners /\ "submit" \notin JobHolds \cup Running
  BY DEF SendHolds, JobHolds, Owners, Running
<1>3. In(t, "submit") /\ UNCHANGED <<regVars, holder, box, inPool, kept>> /\ jobs' = Append(jobs, b)
  BY DEF Submit
<1>4. b \in Actors /\ b \in spawned
      /\ \A a, ats : Has(a, ats) <=> Base(t, a, ats) \/ (b = a /\ "submit" \in ats)
  BY <1>1, <1>3, At DEF IInv
<1>. HIDE DEF b
<1>5. jobs' \in Seq(Actors) /\ \A a : Queued(a)' <=> Queued(a) \/ a = b
  BY <1>3, <1>4, QueuedAppend DEF IInv, Shape
<1>6. CASE box[b] > 0 /\ Leaves(t) /\ UNCHANGED dead
  <2>1. /\ StacksOK' /\ LocksOK' /\ ClearsOK'
        /\ \A a, ats : Has(a, ats)' <=> Base(t, a, ats)
        /\ \A a : Has(a, Places)' => a \in spawned'
    BY <1>1, <1>3, <1>6, Leaving DEF regVars, b
  <2>2. Shape'
    BY <1>3, <1>4, <1>5, <1>6, <2>1 DEF IInv, Shape, regVars
  <2>3. OwnersOK'
    BY <1>3, <1>4, <1>5, <2>1 DEF IInv, OwnersOK
  <2>4. \A a \in spawned : Held(a)' <=> Held(a)
    BY <1>2, <1>3, <1>4, <1>5, <1>6, <2>1 DEF Held, regVars
  <2>5. DeadOK'
    BY <1>3, <1>6, <2>4, SameDead DEF IInv, regVars
  <2>. QED
    BY <2>1, <2>2, <2>3, <2>5 DEF IInv
<1>7. CASE box[b] = 0 /\ Drops(t, b, Tail(stack[t]), reg, kept)
  <2>. DEFINE s == Tail(stack[t])
  <2>1. /\ s \in Seq(FrameSet) /\ Under(s) /\ (~NoneAt(s, LockPlaces) => holder = t)
        /\ \A a : With(t, s, a, Places) => a \in spawned
    BY <1>1, <1>3, TailUnder
  <2>2. \A a, ats : Base(t, a, ats) <=> With(t, s, a, ats)
    BY DEF Base
  <2>3. Drops(t, b, s, reg', kept')
    BY <1>3, <1>7 DEF regVars
  <2>. HIDE DEF s
  <2>4. /\ StacksOK' /\ LocksOK'
        /\ \A a, ats : "dtor" \notin ats => (Has(a, ats)' <=> Base(t, a, ats))
        /\ \A a : Has(a, Places)' => a \in spawned'
    BY <1>3, <1>4, <2>1, <2>2, <2>3, Dropping DEF regVars
  <2>5. \A a : \A ats \in Pointers \cup {{"clear"}} : Has(a, ats)' <=> Base(t, a, ats)
    BY <2>4, PlacesDo DEF Pointers
  <2>6. \A a \in spawned : (Held(a)' => Held(a)) /\ (a # b => (Held(a) => Held(a)'))
    BY <1>2, <1>3, <1>4, <1>5, <1>7, <2>5 DEF Held, regVars, Pointers
  <2>7. \A a \in Actors : box'[a] = box[a] /\ (box[a] > 0 => (Queued(a)' <=> Queued(a)))
    BY <1>3, <1>5, <1>7
  <2>8. DeadOK' /\ dead' \subseteq spawned
    BY <1>3, <1>4, <2>1, <2>3, <2>6, <2>7, Settles DEF IInv, regVars
  <2>9. Shape'
    BY <1>3, <1>4, <1>5, <2>4, <2>8 DEF IInv, Shape, regVars
  <2>10. ClearsOK' /\ OwnersOK'
    BY <1>3, <1>4, <1>5, <2>5 DEF IInv, ClearsOK, OwnersOK, regVars, Pointers
  <2>. QED
    BY <2>4, <2>8, <2>9, <2>10 DEF IInv
<1>. QED
  BY <1>6, <1>7 DEF Submit, b

LEMMA PopStep == ASSUME IInv, NEW w \in Workers, Pop(w) PROVE IInv'
<1>. DEFINE b == On(w)
<1>0. w \in Threads
  BY DEF Threads
<1>1. PICK p \in {"first", "next"} : In(w, p)
  BY DEF Pop
<1>2. /\ p \in JobHolds \cap Owners /\ p \notin SendHolds
      /\ p = "next" \/ p \notin Running
      /\ "run" \in JobHolds \cap Owners \cap Running /\ "run" \notin SendHolds
      /\ "leave" \in JobHolds \cap Owners /\ "leave" \notin SendHolds \cup Running
  BY DEF SendHolds, JobHolds, Owners, Running
<1>3. p \in Places /\ "run" \in Places \ LockPlaces /\ "leave" \in Places \ LockPlaces /\ "leave" \notin Erasing
  BY <1>2, PlacesDo DEF LockPlaces, Erasing
<1>4. UNCHANGED <<regVars, holder, inPool, jobs, kept>>
  BY DEF Pop
<1>5. b \in Actors /\ b \in spawned
      /\ \A a, ats : Has(a, ats) <=> Base(w, a, ats) \/ (b = a /\ p \in ats)
  BY <1>0, <1>1, <1>3, At DEF IInv
<1>. HIDE DEF b
<1>6. \A a : Queued(a)' <=> Queued(a)
  BY <1>4 DEF Queued
<1>7. CASE box[b] > 0 /\ box' = [box EXCEPT ![b] = @ - 1] /\ Moves(w, "run") /\ UNCHANGED dead
  <2>1. /\ StacksOK' /\ LocksOK' /\ ClearsOK'
        /\ \A a, ats : Has(a, ats)' <=> Base(w, a, ats) \/ (b = a /\ "run" \in ats)
        /\ \A a : Has(a, Places)' => a \in spawned'
    BY <1>0, <1>1, <1>3, <1>4, <1>7, Moving DEF regVars, b
  <2>2. box' \in [Actors -> Nat] /\ \A a \in Actors : a # b => box'[a] = box[a]
    BY <1>5, <1>7 DEF IInv, Shape
  <2>3. Shape'
    BY <1>4, <1>6, <1>7, <2>1, <2>2 DEF IInv, Shape, regVars
  <2>4. OwnersOK'
    BY <1>2, <1>4, <1>5, <1>6, <2>1 DEF IInv, OwnersOK
  <2>5. \A a \in Actors : Held(a)' <=> Held(a)
    BY <1>2, <1>4, <1>5, <1>6, <1>7, <2>1, <2>2 DEF Held, regVars
  <2>6. DeadOK'
    BY <1>4, <1>7, <2>5, SameDead DEF IInv, Shape, regVars
  <2>. QED
    BY <2>1, <2>3, <2>4, <2>6 DEF IInv
<1>8. CASE box[b] = 0 /\ Drops(w, b, Moved(w, "leave"), reg, kept) /\ UNCHANGED box
  <2>. DEFINE s == Moved(w, "leave")
  <2>1. /\ s \in Seq(FrameSet) /\ Under(s) /\ (~NoneAt(s, LockPlaces) => holder = w)
        /\ \A a, ats : With(w, s, a, ats) <=> Base(w, a, ats) \/ (b = a /\ "leave" \in ats)
        /\ \A a : With(w, s, a, Places) => a \in spawned
    BY <1>0, <1>1, <1>3, MovedUnder DEF b
  <2>2. Drops(w, b, s, reg', kept')
    BY <1>4, <1>8 DEF regVars
  <2>. HIDE DEF s
  <2>3. /\ StacksOK' /\ LocksOK'
        /\ \A a, ats : "dtor" \notin ats => (Has(a, ats)' <=> With(w, s, a, ats))
        /\ \A a : Has(a, Places)' => a \in spawned'
    BY <1>0, <1>4, <1>5, <2>1, <2>2, Dropping DEF regVars
  <2>4. \A a : \A ats \in Pointers \cup {{"clear"}} : Has(a, ats)' <=> Base(w, a, ats) \/ (b = a /\ "leave" \in ats)
    BY <2>1, <2>3, PlacesDo DEF Pointers
  <2>5. \A a \in spawned : (Held(a)' => Held(a)) /\ (a # b => (Held(a) => Held(a)'))
    BY <1>2, <1>4, <1>5, <1>6, <1>8, <2>4 DEF Held, regVars, Pointers
  <2>6. DeadOK' /\ dead' \subseteq spawned
    BY <1>0, <1>4, <1>5, <1>6, <1>8, <2>1, <2>2, <2>5, Settles DEF IInv, regVars
  <2>7. Shape'
    BY <1>4, <1>6, <1>8, <2>3, <2>6 DEF IInv, Shape, regVars
  <2>8. ClearsOK' /\ OwnersOK'
    BY <1>2, <1>4, <1>5, <1>6, <2>4 DEF IInv, ClearsOK, OwnersOK, regVars, Pointers
  <2>. QED
    BY <2>3, <2>6, <2>7, <2>8 DEF IInv
<1>. QED
  BY <1>7, <1>8 DEF Pop, b

(* A step of stop, with the lock.                                          *)
LEMMA LockedMove ==
  ASSUME IInv, NEW t \in Threads, NEW p \in Places, In(t, p), NEW q \in LockPlaces, Moves(t, q),
         holder' = t, holder \in {None, t}, p \in LockPlaces \/ holder = None
  PROVE  /\ StacksOK' /\ LocksOK'
         /\ On(t) \in spawned /\ On(t) \in Actors
         /\ \A a, ats : Has(a, ats) <=> Base(t, a, ats) \/ (On(t) = a /\ p \in ats)
         /\ \A a, ats : Has(a, ats)' <=> Base(t, a, ats) \/ (On(t) = a /\ q \in ats)
         /\ \A a : Has(a, Places)' => a \in spawned
<1>. DEFINE f == Frame(q, On(t))
            r == Tail(stack[t])
            g == <<f>> \o r
<1>1. /\ stack[t] # <<>> /\ On(t) \in spawned /\ On(t) \in Actors
      /\ \A a, ats : Has(a, ats) <=> Base(t, a, ats) \/ (On(t) = a /\ p \in ats)
  BY At DEF IInv
<1>2. q \in Places
  BY PlacesDo
<1>3. StacksOK' /\ \A a, ats : Has(a, ats)' <=> Base(t, a, ats) \/ (On(t) = a /\ q \in ats)
  BY <1>1, <1>2, MoveHas DEF IInv, Shape
<1>4. f \in FrameSet
  BY <1>1, <1>2 DEF FrameSet, Frame
<1>5. stack' = [stack EXCEPT ![t] = g]
  BY DEF Moves, Moved
<1>6. r \in Seq(FrameSet) /\ Under(r) /\ NoneAt(r, LockPlaces)
  BY TailUnder, LifetimesAssumption
<1>. HIDE DEF f, r
<1>7. g \in Seq(FrameSet) /\ Fine(g)
  BY <1>4, <1>6, FinePush, SeqPush
<1>. HIDE DEF g
<1>8. LocksOK'
  BY <1>5, <1>7, LocksStep DEF IInv, Shape
<1>9. \A a : Has(a, Places)' => a \in spawned
  BY <1>1, <1>2, <1>3 DEF IInv, Shape
<1>. QED
  BY <1>1, <1>3, <1>8, <1>9

LEMMA StopLockStep == ASSUME IInv, NEW t \in Threads, StopLock(t) PROVE IInv'
<1>1. PICK q \in Erasing : Moves(t, q) /\ (q = "clear" => On(t) \in reg)
  BY DEF StopLock, Erasing
<1>2. /\ In(t, "stop") /\ "stop" \in Places /\ q \in LockPlaces
      /\ \A ats \in Pointers : q \notin ats /\ "stop" \notin ats
      /\ "stop" \notin {"clear"}
  BY PlacesDo DEF StopLock, Erasing, LockPlaces, Pointers, SendHolds, JobHolds, Owners, Running
<1>3. /\ StacksOK' /\ LocksOK'
      /\ \A a, ats : Has(a, ats) <=> Base(t, a, ats) \/ (On(t) = a /\ "stop" \in ats)
      /\ \A a, ats : Has(a, ats)' <=> Base(t, a, ats) \/ (On(t) = a /\ q \in ats)
      /\ \A a : Has(a, Places)' => a \in spawned
  BY <1>1, <1>2, LockedMove DEF StopLock
<1>4. \A a : \A ats \in Pointers : Has(a, ats)' <=> Has(a, ats)
  BY <1>2, <1>3
<1>5. \A a : Has(a, {"clear"})' => a \in reg
  BY <1>1, <1>2, <1>3 DEF IInv, ClearsOK
<1>. QED
  BY <1>3, <1>4, <1>5, Plain DEF StopLock

LEMMA UnlockStep == ASSUME IInv, NEW t \in Threads, Unlock(t) PROVE IInv'
<1>. DEFINE r == Tail(stack[t])
<1>1. In(t, "unlock") /\ "unlock" \in Places /\ "unlock" \in LockPlaces
  BY PlacesDo DEF Unlock, LockPlaces
<1>2. r \in Seq(FrameSet) /\ Under(r) /\ NoneAt(r, LockPlaces) /\ holder = t
  BY <1>1, TailUnder
<1>3. stack' = [stack EXCEPT ![t] = r] /\ holder' = None
  BY DEF Unlock, Leaves
<1>. HIDE DEF r
<1>4. LocksOK'
  BY <1>2, <1>3, UnderFine, LocksStep DEF IInv, Shape
<1>. QED
  BY <1>1, <1>4, PlainMove DEF Unlock

LEMMA ClearStep == ASSUME IInv, NEW t \in Threads, Clear(t) PROVE IInv'
<1>. DEFINE b == On(t)
<1>1. /\ In(t, "clear") /\ Moves(t, "erase") /\ UNCHANGED <<regVars, holder, inPool, jobs, kept, dead>>
      /\ box' = [box EXCEPT ![b] = 0]
  BY DEF Clear
<1>2. /\ "clear" \in Places /\ "clear" \in LockPlaces /\ "erase" \in LockPlaces
      /\ \A ats \in Pointers : "clear" \notin ats /\ "erase" \notin ats
  BY PlacesDo DEF LockPlaces, Pointers, SendHolds, JobHolds, Owners, Running
<1>3. holder = t
  BY <1>1, <1>2, TailUnder
<1>4. /\ StacksOK' /\ LocksOK' /\ b \in spawned /\ b \in Actors
      /\ \A a, ats : Has(a, ats) <=> Base(t, a, ats) \/ (b = a /\ "clear" \in ats)
      /\ \A a, ats : Has(a, ats)' <=> Base(t, a, ats) \/ (b = a /\ "erase" \in ats)
      /\ \A a : Has(a, Places)' => a \in spawned
  BY <1>1, <1>2, <1>3, LockedMove
<1>. HIDE DEF b
<1>5. \A a : \A ats \in Pointers : Has(a, ats)' <=> Has(a, ats)
  BY <1>2, <1>4
<1>6. b \in reg
  BY <1>4 DEF IInv, ClearsOK
<1>7. \A a : Queued(a)' <=> Queued(a)
  BY <1>1 DEF Queued
<1>8. box' \in [Actors -> Nat] /\ \A a \in Actors : a # b => box'[a] = box[a]
  BY <1>1, <1>4 DEF IInv, Shape
<1>9. Shape'
  BY <1>1, <1>4, <1>7, <1>8 DEF IInv, Shape, regVars
<1>10. ClearsOK'
  BY <1>1, <1>4 DEF IInv, ClearsOK, regVars
<1>11. OwnersOK'
  BY <1>1, <1>5, <1>7 DEF IInv, OwnersOK, Pointers
<1>12. \A a \in Actors : Held(a)' <=> Held(a)
  BY <1>1, <1>5, <1>6, <1>7, <1>8 DEF Held, regVars, Pointers
<1>13. DeadOK'
  BY <1>1, <1>12, SameDead DEF IInv, Shape, regVars
<1>. QED
  BY <1>4, <1>9, <1>10, <1>11, <1>13 DEF IInv

LEMMA EraseStep == ASSUME IInv, NEW t \in Threads, Erase(t) PROVE IInv'
<1>. DEFINE b == On(t)
            s == Moved(t, "unlock")
<1>1. /\ In(t, "erase") /\ UNCHANGED <<spawned, holder, box, inPool, jobs, kept>> /\ reg' = reg \ {b}
      /\ Drops(t, b, s, reg', kept) /\ Drops(t, b, s, reg', kept')
  BY DEF Erase, boxVars
<1>2. /\ "erase" \in Places /\ "unlock" \in Places \ Erasing /\ "erase" \in LockPlaces
      /\ \A ats \in Pointers \cup {{"clear"}} : "erase" \notin ats /\ "unlock" \notin ats
  BY PlacesDo DEF LockPlaces, Erasing, Pointers, SendHolds, JobHolds, Owners, Running
<1>3. b \in Actors /\ b \in spawned
      /\ \A a, ats : Has(a, ats) <=> Base(t, a, ats) \/ (b = a /\ "erase" \in ats)
  BY <1>1, <1>2, At DEF IInv
<1>4. /\ s \in Seq(FrameSet) /\ Under(s) /\ (~NoneAt(s, LockPlaces) => holder = t)
      /\ \A a, ats : With(t, s, a, ats) <=> Base(t, a, ats) \/ (b = a /\ "unlock" \in ats)
      /\ \A a : With(t, s, a, Places) => a \in spawned
  BY <1>1, <1>2, MovedUnder
<1>5. ~Has(b, {"clear"})
  <2>1. ASSUME NEW u \in Threads, SeqHas(stack[u], b, {"clear"}) PROVE u = t
    <3>1. ~NoneAt(stack[u], LockPlaces)
      BY <2>1 DEF NoneAt, SeqHas, LockPlaces
    <3>2. holder = u
      BY <3>1 DEF IInv, LocksOK
    <3>. QED
      BY <1>1, <1>2, <3>2, TailUnder
  <2>2. ~SeqHas(Tail(stack[t]), b, {"clear"})
    <3>1. NoneAt(Tail(stack[t]), LockPlaces)
      BY <1>1, <1>2, TailUnder
    <3>. QED
      BY <3>1 DEF NoneAt, SeqHas, LockPlaces
  <2>3. ~Base(t, b, {"clear"})
    BY <2>1, <2>2 DEF Base, With
  <2>. QED
    BY <1>3, <2>3
<1>. HIDE DEF b, s
<1>6. /\ StacksOK' /\ LocksOK'
      /\ \A a, ats : "dtor" \notin ats => (Has(a, ats)' <=> With(t, s, a, ats))
      /\ \A a : Has(a, Places)' => a \in spawned'
  BY <1>1, <1>3, <1>4, Dropping
<1>7. \A a : \A ats \in Pointers \cup {{"clear"}} : Has(a, ats)' <=> Has(a, ats)
  BY <1>2, <1>3, <1>4, <1>6, PlacesDo DEF Pointers
<1>8. \A a : Queued(a)' <=> Queued(a)
  BY <1>1 DEF Queued
<1>9. \A a \in spawned : (Held(a)' => Held(a)) /\ (a # b => (Held(a) => Held(a)'))
  BY <1>1, <1>7, <1>8 DEF Held, Pointers
<1>10. DeadOK' /\ dead' \subseteq spawned
  BY <1>1, <1>3, <1>4, <1>8, <1>9, Settles DEF IInv
<1>11. Shape'
  BY <1>1, <1>6, <1>8, <1>10 DEF IInv, Shape
<1>12. ClearsOK' /\ OwnersOK'
  BY <1>1, <1>5, <1>7, <1>8 DEF IInv, ClearsOK, OwnersOK, Pointers
<1>. QED
  BY <1>6, <1>10, <1>11, <1>12 DEF IInv

LEMMA CopyStep == ASSUME IInv, NEW t \in Threads, Copy(t) PROVE IInv'
<1>1. CASE ~Entry(t)
  BY <1>1, IInvStutter DEF Copy
<1>2. CASE Entry(t)
  <2>1. /\ In(t, "copy") /\ Leaves(t) /\ UNCHANGED <<regVars, holder, boxVars, dead>>
        /\ On(t) \in reg /\ kept' = kept \cup {On(t)}
    BY <1>2 DEF Copy, Entry
  <2>2. "copy" \in Places /\ \A ats \in Pointers : "copy" \notin ats
    BY PlacesDo DEF Pointers
  <2>3. /\ StacksOK' /\ LocksOK' /\ ClearsOK' /\ On(t) \in spawned
        /\ \A a, ats : Has(a, ats) <=> Base(t, a, ats) \/ (On(t) = a /\ "copy" \in ats)
        /\ \A a, ats : Has(a, ats)' <=> Base(t, a, ats)
        /\ \A a : Has(a, Places)' => a \in spawned'
    BY <2>1, <2>2, Leaving DEF regVars
  <2>4. \A a : \A ats \in Pointers : Has(a, ats)' <=> Has(a, ats)
    BY <2>2, <2>3
  <2>5. \A a : Queued(a)' <=> Queued(a)
    BY <2>1 DEF boxVars, Queued
  <2>6. Shape'
    BY <2>1, <2>3, <2>5 DEF IInv, Shape, regVars, boxVars
  <2>7. OwnersOK'
    BY <2>1, <2>4, <2>5 DEF IInv, OwnersOK, boxVars, Pointers
  <2>8. \A a : Held(a)' <=> Held(a)
    BY <2>1, <2>4, <2>5 DEF Held, regVars, boxVars, Pointers
  <2>9. DeadOK'
    BY <2>1, <2>8, SameDead DEF IInv, regVars
  <2>. QED
    BY <2>3, <2>6, <2>7, <2>9 DEF IInv
<1>. QED
  BY <1>1, <1>2

LEMMA ReleaseStep == ASSUME IInv, NEW t \in Threads, NEW b \in Actors, Release(t, b) PROVE IInv'
<1>. DEFINE s == stack[t]
<1>1. /\ UserCode(t) /\ b \in kept /\ kept' = kept \ {b} /\ UNCHANGED <<regVars, holder, boxVars>>
      /\ Drops(t, b, s, reg, kept') /\ Drops(t, b, s, reg', kept')
  BY DEF Release, regVars
<1>2. s \in Seq(FrameSet) /\ Under(s) /\ (~NoneAt(s, LockPlaces) => holder = t)
  BY <1>1, LocksUser DEF IInv, Shape
<1>3. \A a, ats : With(t, s, a, ats) <=> Has(a, ats)
  BY DEF With, Has
<1>4. b \in spawned /\ \A a : With(t, s, a, Places) => a \in spawned
  BY <1>1, <1>3 DEF IInv, Shape
<1>. HIDE DEF s
<1>5. /\ StacksOK' /\ LocksOK'
      /\ \A a, ats : "dtor" \notin ats => (Has(a, ats)' <=> With(t, s, a, ats))
      /\ \A a : Has(a, Places)' => a \in spawned'
  BY <1>1, <1>2, <1>4, Dropping DEF regVars
<1>6. \A a : \A ats \in Pointers \cup {{"clear"}} : Has(a, ats)' <=> Has(a, ats)
  BY <1>3, <1>5, PlacesDo DEF Pointers
<1>7. \A a : Queued(a)' <=> Queued(a)
  BY <1>1 DEF boxVars, Queued
<1>8. \A a \in spawned : (Held(a)' => Held(a)) /\ (a # b => (Held(a) => Held(a)'))
  BY <1>1, <1>6, <1>7 DEF Held, regVars, boxVars, Pointers
<1>9. DeadOK' /\ dead' \subseteq spawned
  BY <1>1, <1>2, <1>4, <1>7, <1>8, Settles DEF IInv, regVars, boxVars
<1>10. Shape'
  BY <1>1, <1>5, <1>7, <1>9 DEF IInv, Shape, regVars, boxVars
<1>11. ClearsOK' /\ OwnersOK'
  BY <1>1, <1>6, <1>7 DEF IInv, ClearsOK, OwnersOK, regVars, boxVars, Pointers
<1>. QED
  BY <1>5, <1>9, <1>10, <1>11 DEF IInv

LEMMA TakeJobStep == ASSUME IInv, NEW w \in Workers, TakeJob(w) PROVE IInv'
<1>. DEFINE b == Head(jobs)
<1>1. /\ w \in Threads /\ stack[w] = <<>> /\ jobs # <<>> /\ jobs \in Seq(Actors)
      /\ Enters(w, "first", b) /\ jobs' = Tail(jobs) /\ inPool' = [inPool EXCEPT ![b] = TRUE]
      /\ UNCHANGED <<regVars, holder, box, kept, dead>>
  BY DEF TakeJob, Threads, IInv, Shape
<1>2. b \in Actors /\ jobs' \in Seq(Actors)
  BY <1>1
<1>3. Queued(b) /\ \A a : (Queued(a)' => Queued(a)) /\ (Queued(a) => Queued(a)' \/ a = b)
  <2>1. /\ Len(jobs) \in Nat /\ Len(jobs) > 0 /\ DOMAIN jobs = 1..Len(jobs)
        /\ DOMAIN jobs' = 1..(Len(jobs) - 1) /\ b = jobs[1]
        /\ \A i \in DOMAIN jobs' : jobs'[i] = jobs[i + 1] /\ i + 1 \in DOMAIN jobs
    BY <1>1
  <2>2. 1 \in DOMAIN jobs
    BY <2>1
  <2>3. \A i \in DOMAIN jobs : i = 1 \/ (i - 1 \in DOMAIN jobs' /\ jobs'[i - 1] = jobs[i])
    <3>. SUFFICES ASSUME NEW i \in DOMAIN jobs, i # 1
                  PROVE  i - 1 \in DOMAIN jobs' /\ jobs'[i - 1] = jobs[i]
      OBVIOUS
    <3>1. i - 1 \in DOMAIN jobs' /\ (i - 1) + 1 = i
      BY <2>1
    <3>. QED
      BY <2>1, <3>1
  <2>. HIDE DEF b
  <2>. QED
    BY <2>1, <2>2, <2>3 DEF Queued
<1>. HIDE DEF b
<1>4. b \in spawned
  BY <1>3 DEF IInv, Shape
<1>5. /\ "first" \in Places \ LockPlaces /\ "first" \in JobHolds \cap Owners
      /\ "first" \notin SendHolds \cup Running /\ "first" \notin {"clear"}
  BY PlacesDo DEF JobHolds, Owners, SendHolds, Running
<1>6. StacksOK' /\ \A a, ats : Has(a, ats)' <=> Has(a, ats) \/ (b = a /\ "first" \in ats)
  BY <1>1, <1>2, <1>5, EnterHas DEF IInv, Shape
<1>7. LocksOK'
  BY <1>1, <1>2, <1>5, LocksEnter DEF IInv, Shape
<1>8. Shape'
  <2>1. inPool' \in [Actors -> BOOLEAN]
    BY <1>1 DEF IInv, Shape
  <2>2. \A a : Has(a, Places)' \/ Queued(a)' => a \in spawned
    BY <1>3, <1>4, <1>6 DEF IInv, Shape
  <2>. QED
    BY <1>1, <1>2, <1>6, <2>1, <2>2 DEF IInv, Shape, regVars
<1>9. ClearsOK'
  BY <1>1, <1>5, <1>6 DEF IInv, ClearsOK, regVars
<1>10. OwnersOK'
  BY <1>1, <1>2, <1>3, <1>5, <1>6 DEF IInv, OwnersOK, Shape
<1>11. \A a : Held(a)' <=> Held(a)
  BY <1>1, <1>3, <1>5, <1>6 DEF Held, regVars
<1>12. DeadOK'
  BY <1>1, <1>11, SameDead DEF IInv, regVars
<1>. QED
  BY <1>7, <1>8, <1>9, <1>10, <1>12 DEF IInv

LEMMA LeaveStep == ASSUME IInv, NEW w \in Workers, Leave(w) PROVE IInv'
<1>. DEFINE b == On(w)
<1>1. /\ w \in Threads /\ In(w, "leave") /\ Moves(w, "recheck") /\ inPool' = [inPool EXCEPT ![b] = FALSE]
      /\ UNCHANGED <<regVars, holder, box, jobs, kept, dead>>
  BY DEF Leave, Threads
<1>2. /\ "leave" \in Places /\ "recheck" \in Places \ LockPlaces
      /\ \A at \in {"leave", "recheck"} : at \in JobHolds /\ at \notin SendHolds \cup Running
  BY PlacesDo DEF JobHolds, SendHolds, Running
<1>3. /\ StacksOK' /\ LocksOK' /\ ClearsOK' /\ b \in spawned /\ b \in Actors
      /\ \A a, ats : Has(a, ats) <=> Base(w, a, ats) \/ (b = a /\ "leave" \in ats)
      /\ \A a, ats : Has(a, ats)' <=> Base(w, a, ats) \/ (b = a /\ "recheck" \in ats)
      /\ \A a : Has(a, Places)' => a \in spawned'
  BY <1>1, <1>2, Moving DEF regVars
<1>. HIDE DEF b
<1>4. \A a : Queued(a)' <=> Queued(a)
  BY <1>1 DEF Queued
<1>5. Shape'
  BY <1>1, <1>3, <1>4 DEF IInv, Shape, regVars
<1>6. OwnersOK'
  BY <1>1, <1>3, <1>4 DEF IInv, OwnersOK, Shape
<1>7. \A a : Held(a)' <=> Held(a)
  BY <1>1, <1>2, <1>3, <1>4 DEF Held, regVars
<1>8. DeadOK'
  BY <1>1, <1>7, SameDead DEF IInv, regVars
<1>. QED
  BY <1>3, <1>5, <1>6, <1>8 DEF IInv

(* A job that does not take its mailbox back leaves nothing in it, unless  *)
(* somebody else has marked it and will drain it.                          *)
LEMMA RecheckStep == ASSUME IInv, NEW w \in Workers, Recheck(w) PROVE IInv'
<1>. DEFINE b == On(w)
<1>1. w \in Threads /\ In(w, "recheck") /\ UNCHANGED <<regVars, holder, box, jobs, kept, dead>>
  BY DEF Recheck, Threads
<1>2. /\ "recheck" \in Places /\ "resubmit" \in Places \ LockPlaces
      /\ "recheck" \in JobHolds /\ "recheck" \notin SendHolds \cup Running \cup Owners
      /\ "resubmit" \in JobHolds \cap Owners /\ "resubmit" \notin SendHolds \cup Running
  BY PlacesDo DEF JobHolds, SendHolds, Running, Owners
<1>3. b \in Actors /\ b \in spawned
      /\ \A a, ats : Has(a, ats) <=> Base(w, a, ats) \/ (b = a /\ "recheck" \in ats)
  BY <1>1, <1>2, At DEF IInv
<1>4. \A a : Queued(a)' <=> Queued(a)
  BY <1>1 DEF Queued
<1>. HIDE DEF b
<1>5. CASE Claims(b) /\ inPool' = [inPool EXCEPT ![b] = TRUE] /\ Moves(w, "resubmit")
  <2>1. /\ StacksOK' /\ LocksOK' /\ ClearsOK'
        /\ \A a, ats : Has(a, ats)' <=> Base(w, a, ats) \/ (b = a /\ "resubmit" \in ats)
        /\ \A a : Has(a, Places)' => a \in spawned'
    BY <1>1, <1>2, <1>5, Moving DEF regVars, b
  <2>2. Shape'
    BY <1>1, <1>4, <1>5, <2>1 DEF IInv, Shape, regVars
  <2>3. OwnersOK'
    BY <1>1, <1>2, <1>3, <1>4, <1>5, <2>1 DEF IInv, OwnersOK, Shape
  <2>4. \A a : Held(a)' <=> Held(a)
    BY <1>1, <1>2, <1>3, <1>4, <2>1 DEF Held, regVars
  <2>5. DeadOK'
    BY <1>1, <2>4, SameDead DEF IInv, regVars
  <2>. QED
    BY <2>1, <2>2, <2>3, <2>5 DEF IInv
<1>6. CASE ~Claims(b) /\ Leaves(w) /\ UNCHANGED inPool
  <2>1. /\ StacksOK' /\ LocksOK' /\ ClearsOK'
        /\ \A a, ats : Has(a, ats)' <=> Base(w, a, ats)
        /\ \A a : Has(a, Places)' => a \in spawned'
    BY <1>1, <1>2, <1>6, Leaving DEF regVars
  <2>2. Shape'
    BY <1>1, <1>4, <1>6, <2>1 DEF IInv, Shape, regVars
  <2>3. OwnersOK'
    BY <1>1, <1>2, <1>3, <1>4, <1>6, <2>1 DEF IInv, OwnersOK
  <2>4. box[b] > 0 => Queued(b) \/ Base(w, b, Owners)
    BY <1>2, <1>3, <1>6 DEF Claims, IInv, OwnersOK
  <2>5. Base(w, b, Owners) => Base(w, b, SendHolds) \/ Base(w, b, JobHolds)
    BY DEF Base, With, SeqHas, Owners, SendHolds, JobHolds
  <2>6. ASSUME NEW a, a = b
        PROVE  /\ Has(a, SendHolds)' <=> Has(a, SendHolds)
               /\ Has(a, Running)' <=> Has(a, Running)
               /\ Has(a, JobHolds)' => Has(a, JobHolds)
               /\ box[a] > 0 => Has(a, SendHolds)' \/ Has(a, JobHolds)' \/ Queued(a)'
    BY <1>2, <1>3, <1>4, <2>1, <2>4, <2>5, <2>6
  <2>7. \A a : a = b => (Held(a)' <=> Held(a))
    BY <1>1, <1>4, <2>6 DEF Held, regVars
  <2>8. \A a : a # b => (Held(a)' <=> Held(a))
    BY <1>1, <1>2, <1>3, <1>4, <2>1 DEF Held, regVars
  <2>9. DeadOK'
    BY <1>1, <2>7, <2>8, SameDead DEF IInv, regVars
  <2>. QED
    BY <2>1, <2>2, <2>3, <2>9 DEF IInv
<1>. QED
  BY <1>5, <1>6 DEF Recheck, b

LEMMA ResubmitStep == ASSUME IInv, NEW w \in Workers, Resubmit(w) PROVE IInv'
<1>. DEFINE b == On(w)
<1>1. /\ w \in Threads /\ In(w, "resubmit") /\ Leaves(w) /\ jobs' = Append(jobs, b)
      /\ UNCHANGED <<regVars, holder, box, inPool, kept, dead>>
  BY DEF Resubmit, Threads
<1>2. "resubmit" \in Places /\ "resubmit" \in JobHolds \cap Owners /\ "resubmit" \notin SendHolds \cup Running
  BY PlacesDo DEF JobHolds, SendHolds, Running, Owners
<1>3. /\ StacksOK' /\ LocksOK' /\ ClearsOK' /\ b \in spawned /\ b \in Actors
      /\ \A a, ats : Has(a, ats) <=> Base(w, a, ats) \/ (b = a /\ "resubmit" \in ats)
      /\ \A a, ats : Has(a, ats)' <=> Base(w, a, ats)
      /\ \A a : Has(a, Places)' => a \in spawned'
  BY <1>1, <1>2, Leaving DEF regVars
<1>. HIDE DEF b
<1>4. jobs' \in Seq(Actors) /\ \A a : Queued(a)' <=> Queued(a) \/ a = b
  BY <1>1, <1>3, QueuedAppend DEF IInv, Shape
<1>5. Shape'
  BY <1>1, <1>3, <1>4 DEF IInv, Shape, regVars
<1>6. OwnersOK'
  BY <1>1, <1>3, <1>4 DEF IInv, OwnersOK
<1>7. \A a : Held(a)' <=> Held(a)
  BY <1>1, <1>2, <1>3, <1>4 DEF Held, regVars
<1>8. DeadOK'
  BY <1>1, <1>7, SameDead DEF IInv, regVars
<1>. QED
  BY <1>3, <1>5, <1>6, <1>8 DEF IInv

-----------------------------------------------------------------------------
LEMMA UserStepStep == ASSUME IInv, NEW t \in Threads, UserStep(t) PROVE IInv'
  BY SpawnStep, CallsStep, ReleaseStep DEF UserStep, CallStop

LEMMA GoesStep == ASSUME IInv, NEW t \in Threads, Goes(t) PROVE IInv'
  BY FindsStep, DerefStep, PushStep, CheckStep, SubmitStep, StopLockStep, ClearStep, EraseStep,
     UnlockStep, CopyStep, UserReturnsStep DEF Goes

LEMMA WorksStep == ASSUME IInv, NEW w \in Workers, Works(w) PROVE IInv'
  BY TakeJobStep, PopStep, LeaveStep, RecheckStep, ResubmitStep DEF Works

LEMMA Invariant == Spec => []IInv
<1>1. IInv /\ [Next]_vars => IInv'
  <2>. SUFFICES ASSUME IInv, [Next]_vars PROVE IInv'
    OBVIOUS
  <2>1. CASE UNCHANGED vars
    BY <2>1, IInvStutter DEF vars, regVars, boxVars
  <2>2. CASE Next
    BY <2>2, UserStepStep, GoesStep, WorksStep DEF Next
  <2>. QED
    BY <2>1, <2>2
<1>. QED
  BY IInvInit, <1>1, PTL DEF Spec

(* An actor is destroyed in the very step in which its last pointer is     *)
(* dropped, whoever drops it, and no send, job, handler or destructor      *)
(* finds a way back to it, however the threads of the actor system         *)
(* interleave.                                                             *)
THEOREM DeadForGood == Spec => []DeadStayDead
<1>1. IInv => DeadStayDead
  BY HeldIs DEF IInv, DeadOK, DeadStayDead
<1>. QED
  BY <1>1, Invariant, PTL

(* m_lock_maps is free or with the one thread that is in stop, which is    *)
(* there once: a destructor that it runs cannot get into a second stop,    *)
(* and no other thread is past the lock with it.                           *)
THEOREM OneInStop == Spec => []LocksOK
<1>1. IInv => LocksOK
  BY DEF IInv
<1>. QED
  BY <1>1, Invariant, PTL

-----------------------------------------------------------------------------
(* What goes together *)

Stopping == {"stop", "clear", "erase"}
Tending == {"check", "recheck"}

(* Only actors with a name are stopped, whoever has the lock is in stop,    *)
(* and closures that wait are in a mailbox that is marked as in the pool,   *)
(* or that somebody is about to look at.                                    *)
Ties ==
  /\ named \subseteq spawned /\ spawned \ reg \subseteq named
  /\ \A a : Has(a, Stopping) => a \in named
  /\ holder # None => \E a : Has(a, LockPlaces)
  /\ \A a \in Actors : box[a] > 0 => inPool[a] \/ Has(a, Tending)

(* A step at the other places changes nothing of it.                        *)
Watched == {Stopping, LockPlaces, Tending}
Others ==
  {"lookup", "deref", "push", "find", "copy", "dtor", "submit", "first", "run", "next", "leave", "resubmit"}

LEMMA OthersDo ==
  /\ Others \subseteq Places \ LockPlaces /\ \A at \in Others : \A ats \in Watched : at \notin ats
  /\ Stopping \in Watched /\ LockPlaces \in Watched /\ Tending \in Watched
  /\ \A ats \in Watched : "dtor" \notin ats
  BY DEF Others, Places, SendHolds, JobHolds, LockPlaces, Watched, Stopping, Tending

SameHas == \A a : \A ats \in Watched : Has(a, ats)' <=> Has(a, ats)

LEMMA SameMove ==
  ASSUME StacksOK, NEW t \in Threads, NEW p \in Others, NEW q \in Others, In(t, p), Moves(t, q)
  PROVE  SameHas
<1>1. stack[t] # <<>> /\ Head(stack[t]).at = p
  BY DEF In
<1>2. \A a, ats : Has(a, ats) <=> Base(t, a, ats) \/ (On(t) = a /\ p \in ats)
  BY <1>1, HasTop
<1>3. \A a, ats : Has(a, ats)' <=> Base(t, a, ats) \/ (On(t) = a /\ q \in ats)
  BY <1>1, OthersDo, MoveHas
<1>. QED
  BY <1>2, <1>3, OthersDo DEF SameHas

LEMMA SameLeave ==
  ASSUME StacksOK, NEW t \in Threads, NEW p \in Others, In(t, p), Leaves(t)
  PROVE  SameHas
<1>1. stack[t] # <<>> /\ Head(stack[t]).at = p
  BY DEF In
<1>2. \A a, ats : Has(a, ats) <=> Base(t, a, ats) \/ (On(t) = a /\ p \in ats)
  BY <1>1, HasTop
<1>3. \A a, ats : Has(a, ats)' <=> Base(t, a, ats)
  BY <1>1, LeaveHas
<1>. QED
  BY <1>2, <1>3, OthersDo DEF SameHas

LEMMA SameEnter ==
  ASSUME StacksOK, NEW t \in Threads, NEW q \in Others, NEW b \in Actors, Enters(t, q, b)
  PROVE  SameHas
<1>1. \A a, ats : Has(a, ats)' <=> Has(a, ats) \/ (b = a /\ q \in ats)
  BY OthersDo, EnterHas
<1>. QED
  BY <1>1, OthersDo DEF SameHas

(* A pointer is dropped, by a call that goes on elsewhere or returns, or by *)
(* the program.                                                             *)
LEMMA SameDrop ==
  ASSUME IInv, NEW t \in Threads, NEW b \in Actors, NEW r, NEW k,
         \/ /\ Drops(t, b, Tail(stack[t]), r, k)
            /\ \E p \in Others : In(t, p)
         \/ /\ \E q \in Others : Drops(t, b, Moved(t, q), r, k)
            /\ \E p \in Others : In(t, p)
         \/ Drops(t, b, stack[t], r, k)
  PROVE  SameHas
<1>0. StacksOK /\ \A s \in Seq(FrameSet) : Drops(t, b, s, r, k) =>
        \A a : \A ats \in Watched : Has(a, ats)' <=> With(t, s, a, ats)
  BY DropHas, OthersDo DEF IInv, Shape
<1>1. ASSUME NEW p \in Others, In(t, p), Drops(t, b, Tail(stack[t]), r, k) PROVE SameHas
  <2>1. Tail(stack[t]) \in Seq(FrameSet)
        /\ \A a, ats : Has(a, ats) <=> Base(t, a, ats) \/ (On(t) = a /\ p \in ats)
    BY <1>1, At DEF IInv
  <2>2. \A a : \A ats \in Watched : Has(a, ats)' <=> Base(t, a, ats)
    BY <1>0, <1>1, <2>1 DEF Base
  <2>. QED
    BY <2>1, <2>2, OthersDo DEF SameHas
<1>2. ASSUME NEW p \in Others, In(t, p), NEW q \in Others, Drops(t, b, Moved(t, q), r, k) PROVE SameHas
  <2>1. \A a, ats : Has(a, ats) <=> Base(t, a, ats) \/ (On(t) = a /\ p \in ats)
    BY <1>2, At DEF IInv
  <2>2. p \in Places /\ q \in Places \ Erasing /\ q \notin LockPlaces
    BY OthersDo DEF Erasing, LockPlaces
  <2>3. Moved(t, q) \in Seq(FrameSet)
        /\ \A a, ats : With(t, Moved(t, q), a, ats) <=> Base(t, a, ats) \/ (On(t) = a /\ q \in ats)
    BY <1>2, <2>2, MovedUnder
  <2>4. \A a : \A ats \in Watched : Has(a, ats)' <=> With(t, Moved(t, q), a, ats)
    BY <1>0, <1>2, <2>3
  <2>. QED
    BY <2>1, <2>3, <2>4, OthersDo DEF SameHas
<1>3. ASSUME Drops(t, b, stack[t], r, k) PROVE SameHas
  <2>1. stack[t] \in Seq(FrameSet)
    BY DEF IInv, Shape, StacksOK
  <2>2. \A a, ats : With(t, stack[t], a, ats) <=> Has(a, ats)
    BY DEF With, Has
  <2>3. \A a : \A ats \in Watched : Has(a, ats)' <=> With(t, stack[t], a, ats)
    BY <1>0, <1>3, <2>1
  <2>. QED
    BY <2>2, <2>3 DEF SameHas
<1>. QED
  BY <1>1, <1>2, <1>3

LEMMA TiesSame ==
  ASSUME Ties, SameHas, UNCHANGED <<regVars, holder>>,
         \A a \in Actors : box'[a] > 0 => box[a] > 0, \A a \in Actors : inPool[a] => inPool'[a]
  PROVE  Ties'
<1>1. \A a : /\ Has(a, Stopping)' <=> Has(a, Stopping)
             /\ Has(a, LockPlaces)' <=> Has(a, LockPlaces)
             /\ Has(a, Tending)' <=> Has(a, Tending)
  BY OthersDo DEF SameHas
<1>2. holder' # None => \E a : Has(a, LockPlaces)'
  BY <1>1 DEF Ties
<1>3. \A a : Has(a, Stopping)' => a \in named'
  BY <1>1 DEF Ties, regVars
<1>4. \A a \in Actors : box'[a] > 0 => inPool'[a] \/ Has(a, Tending)'
  BY <1>1 DEF Ties
<1>. QED
  BY <1>2, <1>3, <1>4 DEF Ties, regVars

LEMMA TiesSpawn == ASSUME IInv, Ties, NEW t \in Threads, NEW a \in Actors, Spawn(t, a) PROVE Ties'
<1>1. /\ \A b, ats : Has(b, ats)' <=> Has(b, ats)
      /\ UNCHANGED <<holder, box, inPool>>
  BY DEF Spawn, boxVars, Has
<1>2. named' \subseteq spawned' /\ spawned' \ reg' \subseteq named' /\ named \subseteq named'
  BY DEF Ties, Spawn
<1>. QED
  BY <1>1, <1>2 DEF Ties

LEMMA TiesCalls ==
  ASSUME IInv, Ties, NEW t \in Threads, NEW at \in {"lookup", "find", "stop"}, NEW a \in Actors,
         Calls(t, at, a), at = "stop" => a \in named
  PROVE  Ties'
<1>1. /\ Enters(t, at, a) /\ UNCHANGED <<regVars, holder, box, inPool>>
      /\ StacksOK /\ at \in Places
  BY OthersDo DEF Calls, boxVars, IInv, Shape, Places
<1>2. CASE at # "stop"
  <2>1. at \in Others
    BY <1>2 DEF Others
  <2>2. SameHas
    BY <1>1, <2>1, SameEnter
  <2>. QED
    BY <1>1, <2>2, TiesSame
<1>3. CASE at = "stop"
  <2>1. \A b, ats : Has(b, ats)' <=> Has(b, ats) \/ (a = b /\ "stop" \in ats)
    BY <1>1, <1>3, EnterHas
  <2>2. \A b : Has(b, Stopping)' => b \in named
    BY <1>3, <2>1 DEF Ties
  <2>. QED
    BY <1>1, <2>1, <2>2 DEF Ties, regVars
<1>. QED
  BY <1>2, <1>3

LEMMA TiesRelease == ASSUME IInv, Ties, NEW t \in Threads, NEW b \in Actors, Release(t, b) PROVE Ties'
<1>1. Drops(t, b, stack[t], reg, kept') /\ UNCHANGED <<regVars, holder, box, inPool>>
  BY DEF Release, boxVars
<1>2. SameHas
  BY <1>1, SameDrop
<1>. QED
  BY <1>1, <1>2, TiesSame

(* The steps between the other places.                                      *)
LEMMA TiesOthers ==
  ASSUME IInv, Ties, NEW t \in Threads,
         \/ Finds(t, "lookup", "deref") \/ Finds(t, "find", "copy") \/ Deref(t) \/ Copy(t) \/ UserReturns(t)
         \/ Submit(t) \/ Pop(t) \/ Resubmit(t)
  PROVE  Ties'
<1>1. /\ UNCHANGED <<regVars, holder>> /\ UNCHANGED inPool
      /\ \A a \in Actors : box'[a] > 0 => box[a] > 0
  <2>1. CASE Pop(t)
    <3>1. box \in [Actors -> Nat] /\ (box' = box \/ box' = [box EXCEPT ![On(t)] = @ - 1])
      BY <2>1 DEF Pop, IInv, Shape
    <3>2. \A a \in Actors : box'[a] > 0 => box[a] > 0
      <4>1. CASE box' = box
        BY <4>1
      <4>2. CASE box' = [box EXCEPT ![On(t)] = @ - 1]
        BY <3>1, <4>2
      <4>. QED
        BY <3>1, <4>1, <4>2
    <3>. QED
      BY <2>1, <3>2 DEF Pop
  <2>2. CASE ~Pop(t)
    BY <2>2 DEF Finds, Deref, Copy, UserReturns, Submit, Resubmit, boxVars
  <2>. QED
    BY <2>1, <2>2
<1>2. StacksOK
  BY DEF IInv, Shape
<1>. USE DEF Others
<1>3. CASE Finds(t, "lookup", "deref")
  BY <1>2, <1>3, SameMove, SameLeave, <1>1, TiesSame DEF Finds
<1>4. CASE Finds(t, "find", "copy")
  BY <1>2, <1>4, SameMove, SameLeave, <1>1, TiesSame DEF Finds
<1>5. ASSUME UNCHANGED stack PROVE SameHas
  BY <1>5 DEF SameHas, Has
<1>6. CASE Deref(t)
  BY <1>2, <1>5, <1>6, SameMove, <1>1, TiesSame DEF Deref
<1>7. CASE Copy(t)
  BY <1>2, <1>5, <1>7, SameLeave, <1>1, TiesSame DEF Copy
<1>8. CASE UserReturns(t)
  BY <1>2, <1>8, SameMove, SameLeave, <1>1, TiesSame DEF UserReturns
<1>9. CASE Submit(t)
  <2>1. In(t, "submit") /\ On(t) \in Actors
    BY <1>9, At DEF Submit, IInv
  <2>. QED
    BY <1>2, <1>9, <2>1, SameLeave, SameDrop, <1>1, TiesSame DEF Submit
<1>10. CASE Pop(t)
  <2>1. (In(t, "first") \/ In(t, "next")) /\ On(t) \in Actors
    BY <1>10, At DEF Pop, IInv
  <2>2. Moves(t, "run") \/ Drops(t, On(t), Moved(t, "leave"), reg, kept)
    BY <1>10 DEF Pop
  <2>3. SameHas
    BY <1>2, <2>1, <2>2, SameMove, SameDrop
  <2>. QED
    BY <1>1, <2>3, TiesSame
<1>11. CASE Resubmit(t)
  BY <1>2, <1>11, SameLeave, <1>1, TiesSame DEF Resubmit
<1>. QED
  BY <1>3, <1>4, <1>6, <1>7, <1>8, <1>9, <1>10, <1>11

LEMMA TiesTakeJob == ASSUME IInv, Ties, NEW w \in Workers, TakeJob(w) PROVE Ties'
<1>1. /\ w \in Threads /\ jobs # <<>> /\ jobs \in Seq(Actors) /\ inPool \in [Actors -> BOOLEAN]
      /\ Enters(w, "first", Head(jobs)) /\ inPool' = [inPool EXCEPT ![Head(jobs)] = TRUE]
      /\ UNCHANGED <<regVars, holder>> /\ box' = box /\ StacksOK
  BY DEF TakeJob, Threads, IInv, Shape
<1>2. Head(jobs) \in Actors
  BY <1>1
<1>3. SameHas
  BY <1>1, <1>2, SameEnter DEF Others
<1>. QED
  BY <1>1, <1>3, TiesSame

(* What is pushed is looked at, and who does not take the mailbox then      *)
(* leaves it to the one that has marked it, or leaves nothing.              *)
LEMMA TiesPush == ASSUME IInv, Ties, NEW t \in Threads, Push(t) PROVE Ties'
<1>. DEFINE b == On(t)
<1>1. /\ In(t, "push") /\ Moves(t, "check") /\ box' = [box EXCEPT ![b] = @ + 1]
      /\ UNCHANGED <<regVars, holder>> /\ inPool' = inPool /\ box \in [Actors -> Nat] /\ StacksOK
  BY DEF Push, IInv, Shape
<1>2. \A a, ats : Has(a, ats) <=> Base(t, a, ats) \/ (b = a /\ "push" \in ats)
  BY <1>1, At DEF IInv
<1>3. \A a, ats : Has(a, ats)' <=> Base(t, a, ats) \/ (b = a /\ "check" \in ats)
  BY <1>1, MoveHas DEF In, Places, SendHolds
<1>. HIDE DEF b
<1>4. \A a : (Has(a, Stopping)' <=> Has(a, Stopping)) /\ (Has(a, LockPlaces)' <=> Has(a, LockPlaces))
  BY <1>2, <1>3 DEF Stopping, LockPlaces
<1>5. \A a : Has(a, Tending)' <=> Has(a, Tending) \/ a = b
  BY <1>2, <1>3 DEF Tending
<1>6. \A a \in Actors : box'[a] > 0 => inPool'[a] \/ Has(a, Tending)'
  BY <1>1, <1>5 DEF Ties
<1>. QED
  BY <1>1, <1>4, <1>6 DEF Ties, regVars

LEMMA TiesCheck == ASSUME IInv, Ties, NEW t \in Threads, Check(t) PROVE Ties'
<1>. DEFINE b == On(t)
<1>1. /\ In(t, "check") /\ UNCHANGED <<regVars, holder>> /\ box' = box
      /\ StacksOK /\ inPool \in [Actors -> BOOLEAN] /\ box \in [Actors -> Nat]
  BY DEF Check, IInv, Shape
<1>2. /\ b \in Actors /\ Tail(stack[t]) \in Seq(FrameSet)
      /\ \A a, ats : Has(a, ats) <=> Base(t, a, ats) \/ (b = a /\ "check" \in ats)
  BY <1>1, At DEF IInv
<1>3. \/ Claims(b) /\ inPool' = [inPool EXCEPT ![b] = TRUE] /\ Moves(t, "submit")
      \/ ~Claims(b) /\ Drops(t, b, Tail(stack[t]), reg, kept) /\ inPool' = inPool
  BY DEF Check
<1>4. \A a : \A ats \in Watched : Has(a, ats)' <=> Base(t, a, ats)
  <2>1. CASE Moves(t, "submit")
    <3>1. \A a, ats : Has(a, ats)' <=> Base(t, a, ats) \/ (b = a /\ "submit" \in ats)
      BY <1>1, <2>1, MoveHas DEF In, Places, SendHolds
    <3>. QED
      BY <3>1, OthersDo DEF Others
  <2>2. CASE Drops(t, b, Tail(stack[t]), reg, kept)
    BY <1>1, <1>2, <2>2, DropHas, OthersDo DEF Base
  <2>. QED
    BY <1>3, <2>1, <2>2
<1>5. \A a : (Has(a, Stopping)' <=> Has(a, Stopping)) /\ (Has(a, LockPlaces)' <=> Has(a, LockPlaces))
  BY <1>2, <1>4, OthersDo DEF Stopping, LockPlaces
<1>6. \A a : Has(a, Tending) => Has(a, Tending)' \/ a = b
  BY <1>2, <1>4, OthersDo
<1>7. box[b] > 0 => inPool'[b]
  BY <1>1, <1>2, <1>3 DEF Claims
<1>8. \A a \in Actors : inPool[a] => inPool'[a]
  BY <1>1, <1>2, <1>3
<1>. HIDE DEF b
<1>9. \A a \in Actors : box'[a] > 0 => inPool'[a] \/ Has(a, Tending)'
  BY <1>1, <1>6, <1>7, <1>8 DEF Ties
<1>. QED
  BY <1>1, <1>5, <1>9 DEF Ties, regVars

LEMMA TiesRecheck == ASSUME IInv, Ties, NEW t \in Threads, Recheck(t) PROVE Ties'
<1>. DEFINE b == On(t)
<1>1. /\ In(t, "recheck") /\ UNCHANGED <<regVars, holder>> /\ box' = box
      /\ StacksOK /\ inPool \in [Actors -> BOOLEAN] /\ box \in [Actors -> Nat]
  BY DEF Recheck, IInv, Shape
<1>2. /\ b \in Actors /\ stack[t] # <<>>
      /\ \A a, ats : Has(a, ats) <=> Base(t, a, ats) \/ (b = a /\ "recheck" \in ats)
  BY <1>1, At DEF IInv
<1>3. \/ Claims(b) /\ inPool' = [inPool EXCEPT ![b] = TRUE] /\ Moves(t, "resubmit")
      \/ ~Claims(b) /\ Leaves(t) /\ inPool' = inPool
  BY DEF Recheck
<1>4. \A a : \A ats \in Watched : Has(a, ats)' <=> Base(t, a, ats)
  <2>1. CASE Moves(t, "resubmit")
    <3>1. \A a, ats : Has(a, ats)' <=> Base(t, a, ats) \/ (b = a /\ "resubmit" \in ats)
      BY <1>1, <1>2, <2>1, MoveHas DEF Places, JobHolds
    <3>. QED
      BY <3>1, OthersDo DEF Others
  <2>2. CASE Leaves(t)
    BY <1>1, <1>2, <2>2, LeaveHas
  <2>. QED
    BY <1>3, <2>1, <2>2
<1>5. \A a : (Has(a, Stopping)' <=> Has(a, Stopping)) /\ (Has(a, LockPlaces)' <=> Has(a, LockPlaces))
  BY <1>2, <1>4, OthersDo DEF Stopping, LockPlaces
<1>6. \A a : Has(a, Tending) => Has(a, Tending)' \/ a = b
  BY <1>2, <1>4, OthersDo
<1>7. box[b] > 0 => inPool'[b]
  BY <1>1, <1>2, <1>3 DEF Claims
<1>8. \A a \in Actors : inPool[a] => inPool'[a]
  BY <1>1, <1>2, <1>3
<1>. HIDE DEF b
<1>9. \A a \in Actors : box'[a] > 0 => inPool'[a] \/ Has(a, Tending)'
  BY <1>1, <1>6, <1>7, <1>8 DEF Ties
<1>. QED
  BY <1>1, <1>5, <1>9 DEF Ties, regVars

LEMMA TiesLeave == ASSUME IInv, Ties, NEW t \in Threads, Leave(t) PROVE Ties'
<1>. DEFINE b == On(t)
<1>1. /\ In(t, "leave") /\ Moves(t, "recheck") /\ inPool' = [inPool EXCEPT ![b] = FALSE]
      /\ UNCHANGED <<regVars, holder>> /\ box' = box /\ StacksOK
      /\ inPool \in [Actors -> BOOLEAN]
  BY DEF Leave, IInv, Shape
<1>2. \A a, ats : Has(a, ats) <=> Base(t, a, ats) \/ (b = a /\ "leave" \in ats)
  BY <1>1, At DEF IInv
<1>3. \A a, ats : Has(a, ats)' <=> Base(t, a, ats) \/ (b = a /\ "recheck" \in ats)
  BY <1>1, MoveHas DEF In, Places, JobHolds
<1>. HIDE DEF b
<1>4. \A a : (Has(a, Stopping)' <=> Has(a, Stopping)) /\ (Has(a, LockPlaces)' <=> Has(a, LockPlaces))
  BY <1>2, <1>3 DEF Stopping, LockPlaces
<1>5. \A a : Has(a, Tending)' <=> Has(a, Tending) \/ a = b
  BY <1>2, <1>3 DEF Tending
<1>6. \A a \in Actors : box'[a] > 0 => inPool'[a] \/ Has(a, Tending)'
  BY <1>1, <1>5 DEF Ties
<1>. QED
  BY <1>1, <1>4, <1>6 DEF Ties, regVars

(* stop: the lock is taken, and given back by the one that has it.          *)
LEMMA TiesStop ==
  ASSUME IInv, Ties, NEW t \in Threads, StopLock(t) \/ Clear(t)
  PROVE  Ties'
<1>. DEFINE b == On(t)
<1>1. PICK p \in {"stop", "clear"}, q \in {"clear", "erase"} : In(t, p) /\ Moves(t, q)
  BY DEF StopLock, Clear
<1>2. UNCHANGED regVars /\ inPool' = inPool /\ StacksOK /\ box \in [Actors -> Nat]
  BY DEF StopLock, Clear, boxVars, IInv, Shape
<1>3. \A a \in Actors : box'[a] > 0 => box[a] > 0
  <2>1. box' = box \/ box' = [box EXCEPT ![b] = 0]
    BY DEF StopLock, Clear, boxVars
  <2>. QED
    BY <1>2, <2>1
<1>4. \A a, ats : Has(a, ats) <=> Base(t, a, ats) \/ (b = a /\ p \in ats)
  BY <1>1, At DEF IInv
<1>5. \A a, ats : Has(a, ats)' <=> Base(t, a, ats) \/ (b = a /\ q \in ats)
  BY <1>1, <1>2, MoveHas DEF In, Places
<1>. HIDE DEF b
<1>6. \A a : Has(a, Stopping)' => Has(a, Stopping)
  BY <1>4, <1>5 DEF Stopping
<1>7. \A a : Has(a, Tending) => Has(a, Tending)'
  BY <1>1, <1>4, <1>5 DEF Tending
<1>8. \E a : Has(a, LockPlaces)'
  BY <1>5 DEF LockPlaces
<1>. QED
  BY <1>2, <1>3, <1>6, <1>7, <1>8 DEF Ties, regVars

LEMMA TiesErase == ASSUME IInv, Ties, NEW t \in Threads, Erase(t) PROVE Ties'
<1>. DEFINE b == On(t)
<1>1. /\ In(t, "erase") /\ reg' = reg \ {b} /\ Drops(t, b, Moved(t, "unlock"), reg', kept)
      /\ UNCHANGED <<spawned, named, holder>> /\ box' = box /\ inPool' = inPool
  BY DEF Erase, boxVars
<1>2. /\ b \in Actors
      /\ \A a, ats : Has(a, ats) <=> Base(t, a, ats) \/ (b = a /\ "erase" \in ats)
  BY <1>1, At DEF IInv
<1>3. /\ Moved(t, "unlock") \in Seq(FrameSet)
      /\ \A a, ats : With(t, Moved(t, "unlock"), a, ats) <=> Base(t, a, ats) \/ (b = a /\ "unlock" \in ats)
  BY <1>1, MovedUnder DEF Places, Erasing, LockPlaces
<1>4. \A a : \A ats \in Watched : Has(a, ats)' <=> Base(t, a, ats) \/ (b = a /\ "unlock" \in ats)
  BY <1>1, <1>2, <1>3, DropHas, OthersDo DEF IInv, Shape
<1>. HIDE DEF b
<1>5. \A a : Has(a, Stopping)' => Has(a, Stopping)
  BY <1>2, <1>4, OthersDo DEF Stopping
<1>6. \A a : Has(a, Tending) => Has(a, Tending)'
  BY <1>2, <1>4, OthersDo DEF Tending
<1>7. \E a : Has(a, LockPlaces)'
  BY <1>4, OthersDo DEF LockPlaces
<1>8. b \in named
  BY <1>2 DEF Ties, Stopping
<1>. QED
  BY <1>1, <1>5, <1>6, <1>7, <1>8 DEF Ties

LEMMA TiesUnlock == ASSUME IInv, Ties, NEW t \in Threads, Unlock(t) PROVE Ties'
<1>1. /\ In(t, "unlock") /\ holder' = None /\ Leaves(t) /\ UNCHANGED regVars
      /\ box' = box /\ inPool' = inPool
  BY DEF Unlock, boxVars
<1>2. stack[t] # <<>> /\ \A a, ats : Has(a, ats) <=> Base(t, a, ats) \/ (On(t) = a /\ "unlock" \in ats)
  BY <1>1, At DEF IInv
<1>3. \A a, ats : Has(a, ats)' <=> Base(t, a, ats)
  BY <1>1, <1>2, LeaveHas DEF IInv, Shape
<1>4. \A a : (Has(a, Stopping)' <=> Has(a, Stopping)) /\ (Has(a, Tending)' <=> Has(a, Tending))
  BY <1>2, <1>3 DEF Stopping, Tending
<1>. QED
  BY <1>1, <1>4 DEF Ties, regVars

LEMMA TiesStep == ASSUME IInv, Ties, [Next]_vars PROVE Ties'
<1>1. ASSUME NEW t \in Threads, UserStep(t) PROVE Ties'
  BY <1>1, TiesSpawn, TiesCalls, TiesRelease DEF UserStep, CallStop
<1>2. ASSUME NEW t \in Threads, Goes(t) PROVE Ties'
  BY <1>2, TiesOthers, TiesPush, TiesCheck, TiesStop, TiesErase, TiesUnlock DEF Goes
<1>3. ASSUME NEW w \in Workers, Works(w) PROVE Ties'
  <2>1. w \in Threads
    BY DEF Threads
  <2>. QED
    BY <1>3, <2>1, TiesTakeJob, TiesOthers, TiesLeave, TiesRecheck DEF Works
<1>4. CASE UNCHANGED vars
  BY <1>4 DEF Ties, Has, vars, regVars, boxVars
<1>. QED
  BY <1>1, <1>2, <1>3, <1>4 DEF Next

-----------------------------------------------------------------------------
(* How many closures there can be *)

(* The calls of send_as that have still to push, by how deep they are below *)
(* the outermost call of their thread: that does not change until they do.  *)
Sending == {"lookup", "deref", "push"}
Sends(s, a) == {d \in 1..Len(s) : s[Len(s) + 1 - d].on = a /\ s[Len(s) + 1 - d].at \in Sending}
Pending(a) == {x \in Threads \X Nat : x[2] \in Sends(stack[x[1]], a)}

(* Each closure that waits has been sent by a call of its own, and so will  *)
(* be each that is still to come.                                           *)
Counts ==
  /\ calls \in 0..MaxCalls
  /\ \A a \in Actors : IsFiniteSet(Pending(a)) /\ box[a] + Cardinality(Pending(a)) <= calls

LEMMA SendsPush ==
  ASSUME NEW s \in Seq(FrameSet), NEW f \in FrameSet, NEW a
  PROVE  /\ Sends(<<f>> \o s, a) =
              Sends(s, a) \cup (IF f.on = a /\ f.at \in Sending THEN {Len(s) + 1} ELSE {})
         /\ Len(s) + 1 \notin Sends(s, a) /\ Len(s) + 1 \in Nat
<1>. DEFINE r == <<f>> \o s
            n == Len(s)
<1>1. n \in Nat /\ Len(r) = n + 1 /\ r[1] = f /\ \A i \in 1..n : r[i + 1] = s[i]
  OBVIOUS
<1>. HIDE DEF r, n
<1>2. ASSUME NEW d \in 1..n PROVE r[(n + 1) + 1 - d] = s[n + 1 - d]
  <2>1. n + 1 - d \in 1..n /\ (n + 1 - d) + 1 = (n + 1) + 1 - d
    BY <1>1
  <2>. QED
    BY <1>1, <2>1
<1>3. (n + 1) + 1 - (n + 1) = 1
  BY <1>1
<1>4. \A d : d \in 1..(n + 1) <=> d \in 1..n \/ d = n + 1
  BY <1>1
<1>5. n + 1 \notin 1..n
  BY <1>1
<1>6. \A d : d \in Sends(r, a) <=>
               d \in 1..(n + 1) /\ r[(n + 1) + 1 - d].on = a /\ r[(n + 1) + 1 - d].at \in Sending
  BY <1>1 DEF Sends
<1>7. \A d : d \in Sends(s, a) <=> d \in 1..n /\ s[n + 1 - d].on = a /\ s[n + 1 - d].at \in Sending
  BY DEF Sends, n
<1>8. \A d \in 1..n : d \in Sends(r, a) <=> d \in Sends(s, a)
  BY <1>2, <1>4, <1>6, <1>7
<1>9. n + 1 \in Sends(r, a) <=> f.on = a /\ f.at \in Sending
  BY <1>1, <1>3, <1>4, <1>6
<1>10. \A d : d \in Sends(r, a) <=> d \in Sends(s, a) \/ (d = n + 1 /\ f.on = a /\ f.at \in Sending)
  BY <1>4, <1>5, <1>6, <1>7, <1>8, <1>9
<1>11. Sends(r, a) = Sends(s, a) \cup (IF f.on = a /\ f.at \in Sending THEN {n + 1} ELSE {})
  BY <1>10
<1>. QED
  BY <1>1, <1>5, <1>7, <1>11 DEF r, n

(* What t's stack is replaced by decides what is pending.                   *)
LEMMA PendingIs ==
  ASSUME StacksOK, NEW t \in Threads, NEW s \in Seq(FrameSet), stack' = [stack EXCEPT ![t] = s],
         NEW a, NEW u \in Threads, NEW e \in Nat
  PROVE  /\ <<u, e>> \in Pending(a)' <=> e \in IF u = t THEN Sends(s, a) ELSE Sends(stack[u], a)
         /\ <<u, e>> \in Pending(a) <=> e \in Sends(stack[u], a)
<1>1. stack'[u] = IF u = t THEN s ELSE stack[u]
  BY DEF StacksOK
<1>2. <<u, e>> \in Threads \X Nat /\ <<u, e>>[1] = u /\ <<u, e>>[2] = e
  OBVIOUS
<1>3. <<u, e>> \in Pending(a)' <=> e \in Sends(stack'[u], a)
  BY <1>2 DEF Pending
<1>4. <<u, e>> \in Pending(a) <=> e \in Sends(stack[u], a)
  BY <1>2 DEF Pending
<1>. QED
  BY <1>1, <1>3, <1>4

(* No more than before, one more, or one less.                              *)
LEMMA PendingSame ==
  ASSUME StacksOK, NEW t \in Threads, NEW s \in Seq(FrameSet), stack' = [stack EXCEPT ![t] = s],
         NEW a, Sends(s, a) \subseteq Sends(stack[t], a)
  PROVE  Pending(a)' \subseteq Pending(a)
<1>1. Pending(a)' \subseteq Threads \X Nat
  BY DEF Pending
<1>2. ASSUME NEW u \in Threads, NEW e \in Nat, <<u, e>> \in Pending(a)' PROVE <<u, e>> \in Pending(a)
  BY <1>2, PendingIs
<1>. QED
  BY <1>1, <1>2

OneMore(S, T, d) == S = T \cup {d} /\ d \notin T

LEMMA PendingMore ==
  ASSUME StacksOK, NEW t \in Threads, NEW s \in Seq(FrameSet), stack' = [stack EXCEPT ![t] = s],
         NEW a, NEW d \in Nat, OneMore(Sends(s, a), Sends(stack[t], a), d)
  PROVE  OneMore(Pending(a)', Pending(a), <<t, d>>)
<1>1. Pending(a)' \subseteq Threads \X Nat /\ Pending(a) \subseteq Threads \X Nat
  BY DEF Pending
<1>2. ASSUME NEW u \in Threads, NEW e \in Nat
      PROVE  <<u, e>> \in Pending(a)' <=> <<u, e>> \in Pending(a) \/ (u = t /\ e = d)
  BY PendingIs DEF OneMore
<1>3. <<t, d>> \notin Pending(a)
  BY PendingIs DEF OneMore
<1>4. Pending(a)' = Pending(a) \cup {<<t, d>>}
  BY <1>1, <1>2
<1>. QED
  BY <1>3, <1>4 DEF OneMore

LEMMA PendingLess ==
  ASSUME StacksOK, NEW t \in Threads, NEW s \in Seq(FrameSet), stack' = [stack EXCEPT ![t] = s],
         NEW a, NEW d \in Nat, OneMore(Sends(stack[t], a), Sends(s, a), d)
  PROVE  <<t, d>> \in Pending(a) /\ Pending(a)' = Pending(a) \ {<<t, d>>}
<1>1. Pending(a)' \subseteq Threads \X Nat /\ Pending(a) \subseteq Threads \X Nat
  BY DEF Pending
<1>2. ASSUME NEW u \in Threads, NEW e \in Nat
      PROVE  <<u, e>> \in Pending(a)' <=> <<u, e>> \in Pending(a) /\ ~(u = t /\ e = d)
  BY PendingIs DEF OneMore
<1>3. <<t, d>> \in Pending(a)
  BY PendingIs DEF OneMore
<1>. QED
  BY <1>1, <1>2, <1>3

(* A step with which no call of send_as begins.                             *)
Quiet == \A a \in Actors : Pending(a)' \subseteq Pending(a)

LEMMA CountsQuiet ==
  ASSUME Counts, Quiet, box \in [Actors -> Nat], box' \in [Actors -> Nat],
         \A a \in Actors : box'[a] <= box[a], calls' \in calls..MaxCalls
  PROVE  Counts'
<1>1. ASSUME NEW a \in Actors
      PROVE  IsFiniteSet(Pending(a)') /\ box'[a] + Cardinality(Pending(a)') <= calls'
  <2>1. IsFiniteSet(Pending(a)) /\ box[a] + Cardinality(Pending(a)) <= calls /\ calls \in Nat
    BY DEF Counts
  <2>2. Pending(a)' \subseteq Pending(a)
    BY DEF Quiet
  <2>3. IsFiniteSet(Pending(a)') /\ Cardinality(Pending(a)') <= Cardinality(Pending(a))
        /\ Cardinality(Pending(a)') \in Nat /\ Cardinality(Pending(a)) \in Nat
    BY <2>1, <2>2, FS_Subset, FS_CardinalityType
  <2>4. box'[a] \in Nat /\ box[a] \in Nat /\ box'[a] <= box[a] /\ calls' >= calls /\ calls' \in Nat
    BY <2>1 DEF Counts
  <2>. HIDE DEF Pending
  <2>. QED
    BY <2>1, <2>3, <2>4
<1>2. calls' \in 0..MaxCalls
  BY LifetimesAssumption DEF Counts
<1>. QED
  BY <1>1, <1>2 DEF Counts

LEMMA QuietMove ==
  ASSUME StacksOK, NEW t \in Threads, stack[t] # <<>>, NEW q \in Places,
         q \in Sending => Head(stack[t]).at \in Sending
  PROVE  /\ Moved(t, q) \in Seq(FrameSet)
         /\ \A a : Sends(Moved(t, q), a) \subseteq Sends(stack[t], a)
         /\ Moves(t, q) => Quiet
<1>. DEFINE h == Head(stack[t])
            r == Tail(stack[t])
            f == Frame(q, On(t))
<1>1. h \in FrameSet /\ r \in Seq(FrameSet) /\ stack[t] = <<h>> \o r
  BY SeqSplit DEF StacksOK
<1>2. f \in FrameSet /\ f.on = h.on /\ f.at = q
  BY <1>1 DEF FrameSet, Frame, On
<1>3. Moved(t, q) = <<f>> \o r
  BY DEF Moved
<1>4. q \in Sending => h.at \in Sending
  OBVIOUS
<1>. HIDE DEF h, r, f
<1>5. Moved(t, q) \in Seq(FrameSet)
  BY <1>1, <1>2, <1>3, SeqPush
<1>6. ASSUME NEW a PROVE Sends(Moved(t, q), a) \subseteq Sends(stack[t], a)
  <2>1. Sends(<<f>> \o r, a) = Sends(r, a) \cup (IF f.on = a /\ f.at \in Sending THEN {Len(r) + 1} ELSE {})
    BY <1>1, <1>2, SendsPush
  <2>2. Sends(<<h>> \o r, a) = Sends(r, a) \cup (IF h.on = a /\ h.at \in Sending THEN {Len(r) + 1} ELSE {})
    BY <1>1, SendsPush
  <2>. QED
    BY <1>1, <1>2, <1>3, <1>4, <2>1, <2>2
<1>7. Moves(t, q) => stack' = [stack EXCEPT ![t] = Moved(t, q)]
  BY DEF Moves
<1>8. Moves(t, q) => Quiet
  BY <1>5, <1>6, <1>7, PendingSame DEF Quiet
<1>. QED
  BY <1>5, <1>6, <1>8

LEMMA QuietLeave ==
  ASSUME StacksOK, NEW t \in Threads, stack[t] # <<>>
  PROVE  /\ Tail(stack[t]) \in Seq(FrameSet)
         /\ \A a : Sends(Tail(stack[t]), a) \subseteq Sends(stack[t], a)
         /\ Leaves(t) => Quiet
<1>. DEFINE h == Head(stack[t])
            r == Tail(stack[t])
<1>1. h \in FrameSet /\ r \in Seq(FrameSet) /\ stack[t] = <<h>> \o r
  BY SeqSplit DEF StacksOK
<1>2. Leaves(t) => stack' = [stack EXCEPT ![t] = r]
  BY DEF Leaves
<1>. HIDE DEF h, r
<1>3. \A a : Sends(r, a) \subseteq Sends(stack[t], a)
  BY <1>1, SendsPush
<1>4. Leaves(t) => Quiet
  BY <1>1, <1>2, <1>3, PendingSame DEF Quiet
<1>. QED
  BY <1>1, <1>3, <1>4 DEF r

LEMMA QuietEnter ==
  ASSUME StacksOK, NEW t \in Threads, NEW q \in Places \ Sending, NEW b \in Actors, Enters(t, q, b)
  PROVE  Quiet
<1>. DEFINE f == Frame(q, b)
            g == <<f>> \o stack[t]
<1>1. f \in FrameSet /\ f.on = b /\ f.at = q /\ stack[t] \in Seq(FrameSet)
  BY DEF FrameSet, Frame, StacksOK
<1>2. stack' = [stack EXCEPT ![t] = g]
  BY DEF Enters
<1>. HIDE DEF f
<1>3. g \in Seq(FrameSet) /\ \A a : Sends(g, a) \subseteq Sends(stack[t], a)
  BY <1>1, SeqPush, SendsPush
<1>. HIDE DEF g
<1>. QED
  BY <1>2, <1>3, PendingSame DEF Quiet

LEMMA QuietDrop ==
  ASSUME StacksOK, NEW t \in Threads, NEW b \in Actors, NEW s \in Seq(FrameSet), NEW r, NEW k,
         Drops(t, b, s, r, k), \A a : Sends(s, a) \subseteq Sends(stack[t], a)
  PROVE  Quiet
<1>. DEFINE f == Frame("dtor", b)
            g == <<f>> \o s
<1>1. f \in FrameSet /\ f.at \notin Sending
  BY DEF FrameSet, Frame, Places, Sending
<1>2. <<>> \o s = s
  OBVIOUS
<1>3. stack' = [stack EXCEPT ![t] = g] \/ stack' = [stack EXCEPT ![t] = s]
  BY <1>2 DEF Drops
<1>. HIDE DEF f
<1>4. g \in Seq(FrameSet) /\ \A a : Sends(g, a) \subseteq Sends(stack[t], a)
  BY <1>1, SeqPush, SendsPush
<1>. HIDE DEF g
<1>5. CASE stack' = [stack EXCEPT ![t] = g]
  BY <1>4, <1>5, PendingSame DEF Quiet
<1>6. CASE stack' = [stack EXCEPT ![t] = s]
  BY <1>6, PendingSame DEF Quiet
<1>. QED
  BY <1>3, <1>5, <1>6

(* Entering send_as makes one call more of that actor, at the depth of the  *)
(* new frame.                                                               *)
LEMMA PendingEnter ==
  ASSUME StacksOK, NEW t \in Threads, NEW a \in Actors, Enters(t, "lookup", a), NEW b \in Actors
  PROVE  \/ Pending(b)' \subseteq Pending(b)
         \/ Pending(b)' = Pending(b) \cup {<<t, Len(stack[t]) + 1>>}
<1>. DEFINE f == Frame("lookup", a)
            g == <<f>> \o stack[t]
            d == Len(stack[t]) + 1
<1>1. f \in FrameSet /\ f.on = a /\ f.at \in Sending /\ stack[t] \in Seq(FrameSet)
  BY DEF FrameSet, Frame, StacksOK, Sending, Places
<1>2. stack' = [stack EXCEPT ![t] = g]
  BY DEF Enters
<1>. HIDE DEF f
<1>3. /\ Sends(g, b) = Sends(stack[t], b) \cup (IF f.on = b /\ f.at \in Sending THEN {d} ELSE {})
      /\ d \notin Sends(stack[t], b)
  BY <1>1, SendsPush
<1>4. g \in Seq(FrameSet)
  BY <1>1, SeqPush
<1>5. d \in Nat
  BY <1>1
<1>. HIDE DEF g, d
<1>6. CASE b = a
  <2>1. OneMore(Sends(g, b), Sends(stack[t], b), d)
    BY <1>1, <1>3, <1>6 DEF OneMore
  <2>2. OneMore(Pending(b)', Pending(b), <<t, d>>)
    BY <1>2, <1>4, <1>5, <2>1, PendingMore
  <2>. QED
    BY <2>2 DEF d, OneMore
<1>7. CASE b # a
  <2>1. Sends(g, b) \subseteq Sends(stack[t], b)
    BY <1>1, <1>3, <1>7
  <2>2. Pending(b)' \subseteq Pending(b)
    BY <1>2, <1>4, <2>1, PendingSame
  <2>. QED
    BY <2>2
<1>. QED
  BY <1>6, <1>7

LEMMA CountsCalls ==
  ASSUME IInv, Counts, NEW t \in Threads, NEW at \in {"lookup", "find", "stop"}, NEW a \in Actors, Calls(t, at, a)
  PROVE  Counts'
<1>1. /\ StacksOK /\ box \in [Actors -> Nat] /\ box' = box /\ calls' = calls + 1 /\ calls < MaxCalls
      /\ Enters(t, at, a) /\ at \in Places
  BY DEF Calls, boxVars, IInv, Shape, Places
<1>2. calls' \in calls..MaxCalls /\ calls' \in 0..MaxCalls /\ calls \in Nat
  BY <1>1, LifetimesAssumption DEF Counts
<1>3. CASE at # "lookup"
  <2>1. Quiet
    BY <1>1, <1>3, QuietEnter DEF Sending
  <2>. QED
    BY <1>1, <1>2, <2>1, CountsQuiet
<1>4. CASE at = "lookup"
  <2>. DEFINE d == Len(stack[t]) + 1
  <2>1. Enters(t, "lookup", a)
    BY <1>1, <1>4
  <2>2. StacksOK
    BY <1>1
  <2>. HIDE DEF d
  <2>4. ASSUME NEW b \in Actors
        PROVE  IsFiniteSet(Pending(b)') /\ box'[b] + Cardinality(Pending(b)') <= calls'
    <3>1. IsFiniteSet(Pending(b)) /\ box[b] + Cardinality(Pending(b)) <= calls /\ box[b] \in Nat
      BY <1>1 DEF Counts
    <3>2. \/ Pending(b)' \subseteq Pending(b)
          \/ Pending(b)' = Pending(b) \cup {<<t, d>>}
      BY <2>1, <2>2, PendingEnter DEF d
    <3>3. /\ IsFiniteSet(Pending(b)') /\ Cardinality(Pending(b)') <= Cardinality(Pending(b)) + 1
          /\ Cardinality(Pending(b)) \in Nat /\ Cardinality(Pending(b)') \in Nat
      <4>. DEFINE P == Pending(b)
                  Q == Pending(b)'
      <4>. HIDE DEF P, Q
      <4>1. IsFiniteSet(P) /\ Cardinality(P) \in Nat
        BY <3>1, FS_CardinalityType DEF P
      <4>2. CASE Q \subseteq P
        BY <4>1, <4>2, FS_Subset, FS_CardinalityType DEF P, Q
      <4>3. CASE Q = P \cup {<<t, d>>}
        <5>1. IsFiniteSet(Q) /\ (Cardinality(Q) = Cardinality(P) \/ Cardinality(Q) = Cardinality(P) + 1)
          BY <4>1, <4>3, FS_AddElement
        <5>. QED
          BY <4>1, <5>1, FS_CardinalityType DEF P, Q
      <4>. QED
        BY <3>2, <4>2, <4>3 DEF P, Q
    <3>. HIDE DEF Pending
    <3>. QED
      BY <1>1, <1>2, <3>1, <3>3
  <2>. QED
    BY <1>2, <2>4 DEF Counts
<1>. QED
  BY <1>3, <1>4

LEMMA CountsPush == ASSUME IInv, Counts, NEW t \in Threads, Push(t) PROVE Counts'
<1>. DEFINE b == On(t)
            h == Head(stack[t])
            r == Tail(stack[t])
            f == Frame("check", b)
            g == <<f>> \o r
            d == Len(r) + 1
<1>1. /\ StacksOK /\ box \in [Actors -> Nat] /\ box' = [box EXCEPT ![b] = @ + 1] /\ calls' = calls
      /\ stack' = [stack EXCEPT ![t] = g] /\ stack[t] # <<>> /\ h.at = "push"
  BY DEF Push, IInv, Shape, Moves, Moved, In
<1>2. h \in FrameSet /\ r \in Seq(FrameSet) /\ stack[t] = <<h>> \o r
  BY <1>1, SeqSplit DEF StacksOK
<1>3. b \in Actors /\ h.on = b /\ f \in FrameSet /\ f.at = "check"
  BY <1>2 DEF FrameSet, Frame, On, Places, SendHolds
<1>. HIDE DEF b, h, f, r
<1>4. /\ d \in Nat /\ g \in Seq(FrameSet)
      /\ \A a : Sends(g, a) = Sends(r, a) /\ d \notin Sends(r, a)
      /\ \A a : Sends(stack[t], a) = IF a = b THEN Sends(r, a) \cup {d} ELSE Sends(r, a)
  <2>1. \A a : /\ Sends(g, a) = Sends(r, a) \cup (IF f.on = a /\ f.at \in Sending THEN {d} ELSE {})
               /\ d \notin Sends(r, a) /\ d \in Nat
    BY <1>2, <1>3, SendsPush
  <2>2. \A a : Sends(<<h>> \o r, a) = Sends(r, a) \cup (IF h.on = a /\ h.at \in Sending THEN {d} ELSE {})
    BY <1>2, SendsPush
  <2>3. f.at \notin Sending /\ h.at \in Sending
    BY <1>1, <1>3 DEF Sending
  <2>4. g \in Seq(FrameSet)
    BY <1>2, <1>3, SeqPush
  <2>. HIDE DEF g, d
  <2>. QED
    BY <1>2, <1>3, <2>1, <2>2, <2>3, <2>4
<1>. HIDE DEF g, d
<1>5. ASSUME NEW a \in Actors
      PROVE  IsFiniteSet(Pending(a)') /\ box'[a] + Cardinality(Pending(a)') <= calls'
  <2>1. IsFiniteSet(Pending(a)) /\ box[a] + Cardinality(Pending(a)) <= calls /\ box[a] \in Nat /\ calls \in Nat
    BY <1>1 DEF Counts
  <2>2. IF a = b THEN <<t, d>> \in Pending(a) /\ Pending(a)' = Pending(a) \ {<<t, d>>}
                 ELSE Pending(a)' \subseteq Pending(a)
    <3>1. stack' = [stack EXCEPT ![t] = g] /\ StacksOK /\ d \in Nat /\ g \in Seq(FrameSet)
          /\ d \notin Sends(g, a)
      BY <1>1, <1>4
    <3>2. CASE a = b
      <4>1. OneMore(Sends(stack[t], a), Sends(g, a), d)
        BY <1>4, <3>2 DEF OneMore
      <4>2. <<t, d>> \in Pending(a) /\ Pending(a)' = Pending(a) \ {<<t, d>>}
        BY <3>1, <4>1, PendingLess
      <4>. QED
        BY <3>2, <4>2
    <3>3. CASE a # b
      <4>1. Sends(g, a) \subseteq Sends(stack[t], a)
        BY <1>4, <3>3
      <4>. QED
        BY <3>1, <3>3, <4>1, PendingSame
    <3>. QED
      BY <3>2, <3>3
  <2>. DEFINE P == Pending(a)
              Q == Pending(a)'
  <2>. HIDE DEF P, Q
  <2>3. IsFiniteSet(P) /\ Cardinality(P) \in Nat
    BY <2>1, FS_CardinalityType DEF P
  <2>4. CASE a = b
    <3>1. <<t, d>> \in P /\ Q = P \ {<<t, d>>}
      BY <2>2, <2>4 DEF P, Q
    <3>2. IsFiniteSet(Q) /\ Cardinality(Q) = Cardinality(P) - 1
      BY <2>3, <3>1, FS_RemoveElement
    <3>3. box'[a] = box[a] + 1
      BY <1>1, <2>4
    <3>4. box[a] + Cardinality(P) <= calls
      BY <2>1 DEF P
    <3>5. IsFiniteSet(Q) /\ box'[a] + Cardinality(Q) <= calls'
      BY <1>1, <2>1, <2>3, <3>2, <3>3, <3>4
    <3>. QED
      BY <3>5 DEF Q
  <2>5. CASE a # b
    <3>1. Q \subseteq P
      BY <2>2, <2>5 DEF P, Q
    <3>2. IsFiniteSet(Q) /\ Cardinality(Q) <= Cardinality(P) /\ Cardinality(Q) \in Nat
      BY <2>3, <3>1, FS_Subset, FS_CardinalityType
    <3>3. box'[a] = box[a] /\ box[a] + Cardinality(P) <= calls
      BY <1>1, <2>1, <2>5 DEF P
    <3>4. IsFiniteSet(Q) /\ box'[a] + Cardinality(Q) <= calls'
      BY <1>1, <2>1, <2>3, <3>2, <3>3
    <3>. QED
      BY <3>4 DEF Q
  <2>. QED
    BY <2>4, <2>5
<1>. QED
  BY <1>1, <1>5 DEF Counts

(* With every other step what is pending only gets less.                    *)
LEMMA QuietSteps ==
  ASSUME IInv, NEW t \in Threads,
         \/ \E a \in Actors : Spawn(t, a) \/ Release(t, a)
         \/ (Goes(t) /\ ~Push(t))
         \/ Works(t)
  PROVE  Quiet
<1>1. StacksOK /\ (t \in Threads)
  BY DEF IInv, Shape
<1>2. ASSUME UNCHANGED stack PROVE Quiet
  BY <1>2 DEF Quiet, Pending
(* From one place to another, out of a call, or into a job.                 *)
<1>3. ASSUME NEW p, In(t, p), NEW q \in Places, q \in Sending => p \in Sending, Moves(t, q) PROVE Quiet
  BY <1>1, <1>3, QuietMove DEF In
<1>4. ASSUME NEW p, In(t, p), Leaves(t) PROVE Quiet
  BY <1>1, <1>4, QuietLeave DEF In
<1>5. ASSUME NEW p \in Places, In(t, p), NEW r, NEW k, Drops(t, On(t), Tail(stack[t]), r, k) PROVE Quiet
  <2>1. On(t) \in Actors /\ stack[t] # <<>>
    BY <1>5, At DEF IInv
  <2>. QED
    BY <1>1, <1>5, <2>1, QuietLeave, QuietDrop
<1>6. ASSUME NEW p \in Places, In(t, p), NEW q \in Places \ Sending, NEW r, NEW k, Drops(t, On(t), Moved(t, q), r, k)
      PROVE  Quiet
  <2>1. On(t) \in Actors /\ stack[t] # <<>>
    BY <1>6, At DEF IInv
  <2>. QED
    BY <1>1, <1>6, <2>1, QuietMove, QuietDrop
<1>. USE DEF Places, SendHolds, JobHolds, Sending
<1>7. CASE \E a \in Actors : Spawn(t, a)
  BY <1>2, <1>7 DEF Spawn
<1>8. CASE \E a \in Actors : Release(t, a)
  <2>1. PICK a \in Actors : Drops(t, a, stack[t], reg, kept')
    BY <1>8 DEF Release
  <2>2. stack[t] \in Seq(FrameSet)
    BY <1>1 DEF StacksOK
  <2>. QED
    BY <1>1, <2>1, <2>2, QuietDrop
<1>9. CASE Finds(t, "lookup", "deref")
  BY <1>3, <1>4, <1>9 DEF Finds
<1>10. CASE Finds(t, "find", "copy")
  BY <1>3, <1>4, <1>10 DEF Finds
<1>11. CASE Deref(t)
  BY <1>2, <1>3, <1>11 DEF Deref
<1>12. CASE Check(t)
  BY <1>3, <1>5, <1>12 DEF Check
<1>13. CASE Submit(t)
  BY <1>4, <1>5, <1>13 DEF Submit
<1>14. CASE StopLock(t) \/ Clear(t)
  BY <1>3, <1>14 DEF StopLock, Clear
<1>15. CASE Erase(t)
  BY <1>6, <1>15 DEF Erase
<1>16. CASE Unlock(t)
  BY <1>4, <1>16 DEF Unlock
<1>17. CASE Copy(t)
  BY <1>2, <1>4, <1>17 DEF Copy
<1>18. CASE UserReturns(t)
  BY <1>3, <1>4, <1>18 DEF UserReturns
<1>19. CASE TakeJob(t)
  <2>1. jobs \in Seq(Actors) /\ jobs # <<>> /\ Enters(t, "first", Head(jobs))
    BY <1>19 DEF TakeJob, IInv, Shape
  <2>2. Head(jobs) \in Actors
    BY <2>1
  <2>. QED
    BY <1>1, <2>1, <2>2, QuietEnter
<1>20. CASE Pop(t)
  BY <1>3, <1>6, <1>20 DEF Pop
<1>21. CASE Leave(t) \/ Recheck(t) \/ Resubmit(t)
  BY <1>3, <1>4, <1>21 DEF Leave, Recheck, Resubmit
<1>. QED
  BY <1>7, <1>8, <1>9, <1>10, <1>11, <1>12, <1>13, <1>14, <1>15, <1>16, <1>17, <1>18, <1>19, <1>20, <1>21
  DEF Goes, Works

(* No such step puts anything into a mailbox.                               *)
LEMMA BoxesDrain ==
  ASSUME IInv, NEW t \in Threads,
         \/ \E a \in Actors : Spawn(t, a) \/ Release(t, a)
         \/ (Goes(t) /\ ~Push(t))
         \/ Works(t)
  PROVE  box' \in [Actors -> Nat] /\ calls' = calls /\ \A a \in Actors : box'[a] <= box[a]
<1>1. box \in [Actors -> Nat]
  BY DEF IInv, Shape
<1>2. ASSUME NEW b, b \in Actors => box[b] > 0, box' = [box EXCEPT ![b] = @ - 1]
      PROVE  box' \in [Actors -> Nat] /\ \A a \in Actors : box'[a] <= box[a]
  <2>1. ASSUME NEW a \in Actors PROVE box'[a] \in Nat /\ box'[a] <= box[a]
    <3>1. box[a] \in Nat /\ box'[a] = IF a = b THEN box[a] - 1 ELSE box[a]
      BY <1>1, <1>2
    <3>. QED
      BY <1>2, <3>1
  <2>2. box' = [a \in Actors |-> box'[a]]
    BY <1>1, <1>2
  <2>. QED
    BY <2>1, <2>2
<1>3. ASSUME NEW b, box' = [box EXCEPT ![b] = 0]
      PROVE  box' \in [Actors -> Nat] /\ \A a \in Actors : box'[a] <= box[a]
  <2>1. ASSUME NEW a \in Actors PROVE box'[a] \in Nat /\ box'[a] <= box[a]
    <3>1. box[a] \in Nat /\ box'[a] = IF a = b THEN 0 ELSE box[a]
      BY <1>1, <1>3
    <3>. QED
      BY <3>1
  <2>2. box' = [a \in Actors |-> box'[a]]
    BY <1>1, <1>3
  <2>. QED
    BY <2>1, <2>2
<1>4. ASSUME box' = box
      PROVE  box' \in [Actors -> Nat] /\ \A a \in Actors : box'[a] <= box[a]
  BY <1>1, <1>4
<1>5. \/ box' = box \/ \E b : box' = [box EXCEPT ![b] = 0]
      \/ \E b : box[b] > 0 /\ box' = [box EXCEPT ![b] = @ - 1]
  BY DEF Spawn, Release, Goes, Works, Finds, Deref, Check, Submit, StopLock, Clear, Erase, Unlock, Copy,
         UserReturns, TakeJob, Pop, Leave, Recheck, Resubmit, boxVars
<1>6. calls' = calls
  BY DEF Spawn, Release, Goes, Works, Finds, Deref, Check, Submit, StopLock, Clear, Erase, Unlock, Copy,
         UserReturns, TakeJob, Pop, Leave, Recheck, Resubmit, boxVars
<1>. QED
  BY <1>2, <1>3, <1>4, <1>5, <1>6

LEMMA CountsStep == ASSUME IInv, Counts, [Next]_vars PROVE Counts'
<1>1. ASSUME NEW t \in Threads,
             \/ \E a \in Actors : Spawn(t, a) \/ Release(t, a)
             \/ (Goes(t) /\ ~Push(t))
             \/ Works(t)
      PROVE  Counts'
  <2>1. Quiet /\ box' \in [Actors -> Nat] /\ calls' = calls /\ \A a \in Actors : box'[a] <= box[a]
    BY <1>1, QuietSteps, BoxesDrain
  <2>2. calls' \in calls..MaxCalls /\ box \in [Actors -> Nat]
    BY <2>1, LifetimesAssumption DEF Counts, IInv, Shape
  <2>. QED
    BY <2>1, <2>2, CountsQuiet
<1>2. ASSUME NEW t \in Threads, UserStep(t) PROVE Counts'
  BY <1>1, <1>2, CountsCalls DEF UserStep, CallStop
<1>3. ASSUME NEW t \in Threads, Goes(t) PROVE Counts'
  BY <1>1, <1>3, CountsPush
<1>4. ASSUME NEW w \in Workers, Works(w) PROVE Counts'
  <2>1. w \in Threads
    BY DEF Threads
  <2>. QED
    BY <1>1, <1>4, <2>1
<1>5. CASE UNCHANGED vars
  BY <1>5 DEF Counts, Pending, vars
<1>. QED
  BY <1>2, <1>3, <1>4, <1>5 DEF Next

-----------------------------------------------------------------------------
LEMMA TogetherInvariant == Spec => [](IInv /\ Ties /\ Counts /\ fault \in BOOLEAN)
<1>1. Init => Ties /\ Counts /\ fault \in BOOLEAN
  <2>. SUFFICES ASSUME Init PROVE Ties /\ Counts /\ fault \in BOOLEAN
    OBVIOUS
  <2>1. \A a, ats : ~Has(a, ats)
    BY DEF Init, Has, SeqHas
  <2>2. ASSUME NEW a PROVE Pending(a) = {}
    <3>1. \A t \in Threads : Sends(stack[t], a) = {}
      BY DEF Init, Sends
    <3>. QED
      BY <3>1 DEF Pending
  <2>3. IsFiniteSet({}) /\ Cardinality({}) = 0
    BY FS_EmptySet
  <2>4. calls = 0 /\ fault = FALSE /\ \A a \in Actors : box[a] = 0
    BY DEF Init
  <2>5. Ties
    BY <2>1, <2>4 DEF Init, Ties
  <2>6. Counts
    BY <2>2, <2>3, <2>4, LifetimesAssumption DEF Counts
  <2>. QED
    BY <2>4, <2>5, <2>6
<1>2. fault \in BOOLEAN /\ [Next]_vars => fault' \in BOOLEAN
  <2>. SUFFICES ASSUME fault \in BOOLEAN, [Next]_vars PROVE fault' \in BOOLEAN
    OBVIOUS
  <2>1. ASSUME NEW t \in Threads, UserStep(t) PROVE fault' \in BOOLEAN
    BY <2>1 DEF UserStep, CallStop, Spawn, Calls, Release
  <2>2. ASSUME NEW t \in Threads, Deref(t) \/ Copy(t) PROVE fault' \in BOOLEAN
    BY <2>2 DEF Deref, Copy
  <2>3. ASSUME NEW t \in Threads, Push(t) \/ Pop(t) PROVE fault' \in BOOLEAN
    <3>1. MeetsClear(On(t))
      BY <2>3 DEF Push, Pop
    <3>. QED
      BY <3>1, Zenon DEF MeetsClear, Frames
  <2>4. ASSUME NEW t \in Threads, Goes(t) PROVE fault' \in BOOLEAN
    BY <2>2, <2>3, <2>4 DEF Goes, Finds, Check, Submit, StopLock, Clear, Erase, Unlock, UserReturns
  <2>5. ASSUME NEW w \in Workers, Works(w) PROVE fault' \in BOOLEAN
    <3>1. w \in Threads
      BY DEF Threads
    <3>. QED
      BY <2>3, <2>5, <3>1 DEF Works, TakeJob, Leave, Recheck, Resubmit
  <2>6. UNCHANGED vars => fault' \in BOOLEAN
    BY DEF vars
  <2>. QED
    BY <2>1, <2>4, <2>5, <2>6 DEF Next
<1>3. IInv /\ (Ties /\ Counts /\ fault \in BOOLEAN) /\ [Next]_vars
        => (Ties /\ Counts /\ fault \in BOOLEAN)'
  BY <1>2, TiesStep, CountsStep
<1>. QED
  BY <1>1, <1>3, Invariant, PTL DEF Spec

LEMMA SeqOf ==
  ASSUME NEW A, NEW B, NEW s \in Seq(A), \A i \in 1..Len(s) : s[i] \in B
  PROVE  s \in Seq(B)
  OBVIOUS

(* The types; the lock is held exactly while its holder is in stop; only    *)
(* actors with a name are ever stopped; closures wait only in mailboxes     *)
(* that somebody holds; and there are no more of them than calls.           *)
THEOREM LifetimesFitTogether == Spec => []LifeTypeOK
<1>1. ASSUME IInv, Ties, Counts, fault \in BOOLEAN PROVE LifeTypeOK
  <2>1. /\ reg \subseteq spawned /\ spawned \subseteq Actors /\ kept \subseteq spawned /\ dead \subseteq spawned
        /\ inPool \in [Actors -> BOOLEAN] /\ jobs \in Seq(Actors) /\ StacksOK /\ box \in [Actors -> Nat]
    BY <1>1 DEF IInv, Shape
  <2>2. named \subseteq spawned /\ spawned \ reg \subseteq named
    BY <1>1 DEF Ties
  <2>3. calls \in 0..MaxCalls /\ holder \in Threads \cup {None}
    BY <1>1 DEF Counts, IInv, LocksOK
  <2>4. box \in [Actors -> 0..MaxCalls]
    <3>1. ASSUME NEW a \in Actors PROVE box[a] \in 0..MaxCalls
      <4>1. box[a] + Cardinality(Pending(a)) <= calls /\ Cardinality(Pending(a)) \in Nat /\ box[a] \in Nat
        BY <1>1, <2>1, FS_CardinalityType DEF Counts
      <4>. HIDE DEF Pending
      <4>. QED
        BY <2>3, <4>1, LifetimesAssumption
    <3>. QED
      BY <2>1, <3>1
  <2>5. stack \in [Threads -> Seq([at : Places, on : spawned])]
    <3>1. ASSUME NEW t \in Threads PROVE stack[t] \in Seq([at : Places, on : spawned])
      <4>1. stack[t] \in Seq(FrameSet) /\ Len(stack[t]) \in Nat
        BY <2>1 DEF StacksOK
      <4>2. \A i \in 1..Len(stack[t]) : stack[t][i] \in FrameSet /\ stack[t][i].at \in Places
        <5>1. \A i \in 1..Len(stack[t]) : stack[t][i] \in FrameSet
          BY <4>1
        <5>. QED
          BY <5>1 DEF FrameSet
      <4>3. \A i \in 1..Len(stack[t]) : stack[t][i].on \in spawned
        BY <1>1, <4>1, <4>2 DEF IInv, Shape, Has, SeqHas
      <4>4. \A i \in 1..Len(stack[t]) : stack[t][i] \in [at : Places, on : spawned]
        BY <4>2, <4>3 DEF FrameSet
      <4>. QED
        BY <4>1, <4>4, SeqOf
    <3>. QED
      BY <2>1, <3>1 DEF StacksOK
  <2>6. ASSUME NEW t \in Threads
        PROVE  holder = t <=> \E i \in DOMAIN stack[t] : stack[t][i].at \in {"clear", "erase", "unlock"}
    <3>1. (\E i \in DOMAIN stack[t] : stack[t][i].at \in {"clear", "erase", "unlock"})
            <=> ~NoneAt(stack[t], LockPlaces)
      BY DEF NoneAt, SeqHas, LockPlaces
    <3>2. ASSUME holder = t PROVE ~NoneAt(stack[t], LockPlaces)
      <4>1. PICK a : Has(a, LockPlaces)
        BY <1>1, <3>2, LifetimesAssumption DEF Ties
      <4>2. PICK u \in Threads : SeqHas(stack[u], a, LockPlaces)
        BY <4>1 DEF Has
      <4>3. holder = u
        BY <1>1, <4>2 DEF IInv, LocksOK, NoneAt
      <4>. QED
        BY <3>2, <4>2, <4>3 DEF NoneAt
    <3>3. ~NoneAt(stack[t], LockPlaces) => holder = t
      BY <1>1 DEF IInv, LocksOK
    <3>. QED
      BY <3>1, <3>2, <3>3
  <2>7. ASSUME NEW a \in Actors, box[a] > 0 PROVE MailboxHeld(a, stack, reg)
    <3>1. Queued(a) \/ Has(a, Owners) \/ Has(a, Tending)
      BY <1>1, <2>7 DEF Ties, IInv, OwnersOK
    <3>2. Owners \subseteq SendHolds \cup JobHolds /\ Tending \subseteq SendHolds \cup JobHolds
      BY DEF Owners, Tending, SendHolds, JobHolds
    <3>3. Queued(a) \/ Has(a, SendHolds) \/ Has(a, JobHolds)
      BY <3>1, <3>2 DEF Has, SeqHas
    <3>. QED
      BY <3>3 DEF MailboxHeld, IdHeld, Frames, Has, SeqHas, Queued
  <2>. QED
    BY <1>1, <2>1, <2>2, <2>3, <2>4, <2>5, <2>6, <2>7 DEF LifeTypeOK
<1>. QED
  BY <1>1, TogetherInvariant, PTL

=============================================================================
