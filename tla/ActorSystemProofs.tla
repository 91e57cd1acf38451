-------------------------- MODULE ActorSystemProofs --------------------------
(***************************************************************************)
(* What holds of Mailboxes, and then of ActorSystem, for every number of   *)
(* actors, names, threads and messages, whenever actors are stopped.       *)
(***************************************************************************)
EXTENDS ActorSystem, FiniteSetTheorems, TLAPS

-----------------------------------------------------------------------------
(* Mailboxes *)

(* Whoever sends, and in whose name, the step is a push by some thread.    *)
LEMMA SendIsPush ==
  ASSUME TypeOK,
         \/ \E t \in Clients : ClientStep(t)
         \/ \E w \in Workers : HandlerStep(w)
  PROVE  \E t \in Threads, a \in Actors, from \in Actors \cup {None} :
           Push(t, a, from)
<1>1. ASSUME NEW t \in Clients, ClientStep(t)
      PROVE  \E a \in Actors, from \in Actors \cup {None} : Push(t, a, from)
  BY <1>1 DEF ClientStep, ClientSend, ClientSendAs
<1>2. ASSUME NEW w \in Workers, HandlerStep(w)
      PROVE  \E a \in Actors, from \in Actors \cup {None} : Push(w, a, from)
  <2>1. jobOn[w] \in Actors \cup {None}
    BY DEF TypeOK
  <2>2. jobAt[w] = "handle" => jobOn[w] \in Actors /\ sender[jobOn[w]] \in Actors \cup {None}
    BY DEF TypeOK
  <2>. QED
    BY <1>2, <2>1, <2>2 DEF HandlerStep, ActorSend, ActorReply, ActorForward
<1>. QED
  BY <1>1, <1>2 DEF Threads

(* A worker comes or goes between two jobs, which is nothing to a mailbox. *)
StaffOnly ==
  /\ jobAt' \in [Workers -> {"idle", "enter", "pop", "run", "handle", "leave", "recheck", "gone"}]
  /\ jobOn' \in [Workers -> Actors \cup {None}]
  /\ func' = func
  /\ \A w \in Workers :
       \/ jobAt'[w] = jobAt[w] /\ jobOn'[w] = jobOn[w]
       \/ /\ jobAt[w] \in {"idle", "gone"} /\ jobAt'[w] \in {"idle", "gone"}
          /\ jobOn'[w] = None
          /\ callAt[w] # "idle" => jobAt'[w] = "idle"

LEMMA StaffSteps ==
  ASSUME TypeOK,
         (\E t \in Threads : Enqueue(t)) \/ (\E w \in Workers : Retire(w))
  PROVE  StaffOnly
<1>1. ASSUME NEW t \in Threads, Enqueue(t) PROVE StaffOnly
  <2>1. CASE UNCHANGED <<jobAt, jobOn>>
    BY <1>1, <2>1 DEF Enqueue, StaffOnly, TypeOK
  <2>2. ASSUME NEW w \in Workers, jobAt[w] = "gone", Job(w, "idle", None) PROVE StaffOnly
    BY <1>1, <2>2 DEF Enqueue, Job, StaffOnly, TypeOK
  <2>. QED
    BY <1>1, <2>1, <2>2 DEF Enqueue, Created
<1>2. ASSUME NEW w \in Workers, Retire(w) PROVE StaffOnly
  BY <1>2 DEF Retire, Job, StaffOnly, TypeOK
<1>. QED
  BY <1>1, <1>2

(* So every mailbox keeps who drains it, who asks about it and who handles *)
(* its messages.                                                           *)
LEMMA StaffIsNobody ==
  ASSUME TypeOK, StaffOnly, NEW w \in Workers, NEW a \in Actors
  PROVE  /\ Draining(w, a)' <=> Draining(w, a)
         /\ Handling(w, a)' <=> Handling(w, a)
         /\ jobAt'[w] = "recheck" /\ jobOn'[w] = a <=> jobAt[w] = "recheck" /\ jobOn[w] = a
         /\ jobOn'[w] = a => jobOn[w] = a
         /\ func[w] # None => jobOn'[w] = jobOn[w]
  BY MailboxesAssumption DEF TypeOK, StaffOnly, Draining, Handling

(* The types hold initially and every step keeps them.                     *)
LEMMA TypeInit == Init => TypeOK
  BY MailboxesAssumption DEF Init, TypeOK

LEMMA TypeStep == TypeOK /\ [Next]_vars => TypeOK'
<1>. SUFFICES ASSUME TypeOK, [Next]_vars PROVE TypeOK'
  OBVIOUS
<1>. USE MailboxesAssumption DEF Threads, Call, Return, Job, callVars, jobVars
<1>1. ASSUME NEW t \in Threads, NEW a \in Actors, NEW from \in Actors \cup {None},
             Push(t, a, from)
      PROVE  TypeOK'
  <2>1. [n |-> sent + 1, from |-> from] \in Msg
    BY <1>1 DEF TypeOK, Msg, Push, MaySend
  <2>2. mbox' \in [Actors -> Seq(Msg)]
    BY <1>1, <2>1 DEF TypeOK, Push
  <2>3. sent' \in 0..MaxSends
    BY <1>1 DEF TypeOK, Push, MaySend
  <2>4. t \in Workers => jobAt[t] = "handle"
    BY <1>1 DEF Push, MaySend
  <2>. QED
    BY <1>1, <2>2, <2>3, <2>4 DEF TypeOK, Push
<1>2. ASSUME NEW t \in Threads, AddToPool(t) PROVE TypeOK'
  BY <1>2, ZenonT(60) DEF TypeOK, AddToPool
<1>3. ASSUME NEW t \in Threads, Submit(t) PROVE TypeOK'
  BY <1>3, ZenonT(60) DEF TypeOK, Submit
<1>4. ASSUME NEW t \in Threads, Enqueue(t) PROVE TypeOK'
  <2>1. StaffOnly
    BY <1>4, StaffSteps
  <2>2. jobs' \in Seq(Actors)
    BY <1>4 DEF TypeOK, Enqueue
  <2>3. /\ callAt' = [callAt EXCEPT ![t] = "idle"]
        /\ callOn' = [callOn EXCEPT ![t] = None]
        /\ UNCHANGED <<mbox, inPool, func, sender, sent>>
    BY <1>4 DEF Enqueue
  <2>4. TypeOK
    OBVIOUS
  <2>. QED
    BY ONLY <2>1, <2>2, <2>3, <2>4 DEF TypeOK, StaffOnly, Threads
<1>5. ASSUME NEW w \in Workers, TakeJob(w) PROVE TypeOK'
  BY <1>5 DEF TypeOK, TakeJob
<1>6. ASSUME NEW w \in Workers, Enter(w) PROVE TypeOK'
  BY <1>6 DEF TypeOK, Enter
<1>7. ASSUME NEW w \in Workers, Pop(w) PROVE TypeOK'
  <2>1. CASE mbox[jobOn[w]] = <<>>
    BY <1>7, <2>1, ZenonT(60) DEF TypeOK, Pop
  <2>2. CASE mbox[jobOn[w]] # <<>>
    <3>1. jobOn[w] \in Actors
      BY <1>7 DEF TypeOK, Pop
    <3>2. /\ Head(mbox[jobOn[w]]) \in Msg
          /\ Tail(mbox[jobOn[w]]) \in Seq(Msg)
      BY <2>2, <3>1 DEF TypeOK
    <3>3. /\ func' = [func EXCEPT ![w] = Head(mbox[jobOn[w]])]
          /\ mbox' = [mbox EXCEPT ![jobOn[w]] = Tail(@)]
          /\ Job(w, "run", jobOn[w])
          /\ UNCHANGED <<inPool, jobs, callVars, sender, sent>>
      BY <1>7, <2>2 DEF Pop
    <3>. QED
      BY <1>7, <3>1, <3>2, <3>3 DEF TypeOK, Pop
  <2>. QED
    BY <2>1, <2>2
<1>8. ASSUME NEW w \in Workers, RunBegin(w) PROVE TypeOK'
  <2>1. func[w].from \in Actors \cup {None}
    BY <1>8 DEF TypeOK, RunBegin, Msg
  <2>. QED
    BY <1>8, <2>1 DEF TypeOK, RunBegin
<1>9. ASSUME NEW w \in Workers, RunEnd(w) PROVE TypeOK'
  BY <1>9 DEF TypeOK, RunEnd
<1>10. ASSUME NEW w \in Workers, Leave(w) PROVE TypeOK'
  BY <1>10 DEF TypeOK, Leave
<1>11. ASSUME NEW w \in Workers, Recheck(w) PROVE TypeOK'
  BY <1>11, ZenonT(60) DEF TypeOK, Recheck, Threads
<1>12. CASE UNCHANGED vars
  BY <1>12 DEF TypeOK, vars
<1>13. ASSUME NEW w \in Workers, Retire(w) PROVE TypeOK'
  BY <1>13 DEF TypeOK, Retire
<1>. QED
  BY SendIsPush, <1>1, <1>2, <1>3, <1>4, <1>5, <1>6, <1>7, <1>8, <1>9, <1>10,
     <1>11, <1>12, <1>13 DEF Next, CallStep, JobStep

(* The variables have their types in every reachable state.                *)
THEOREM TypeCorrect == Spec => []TypeOK
  BY TypeInit, TypeStep, PTL DEF Spec

-----------------------------------------------------------------------------
(* At most one place of the pool has a mailbox.  Nothing else than TypeOK  *)
(* is needed: a mailbox is claimed only while m_in_pool is clear, and then *)
(* nobody owns it; from there it is handed from one owner to the next.     *)
LEMMA OwnerInit == Init => OneOwner
  BY MailboxesAssumption DEF Init, OneOwner, Owned, Queued, Submitting, Draining

(* A step after which nobody owns a mailbox that he did not own before, and *)
(* which clears no flag.                                                    *)
LEMMA OwnersKept ==
  ASSUME OneOwner,
         jobs' = jobs,
         \A t \in Threads, a \in Actors : Submitting(t, a)' => Submitting(t, a),
         \A w \in Workers, a \in Actors : Draining(w, a)' => Draining(w, a),
         \A a \in Actors : inPool[a] => inPool'[a]
  PROVE  OneOwner'
<1>1. \A a \in Actors : Queued(a)' <=> Queued(a)
  BY DEF Queued
<1>2. \A a \in Actors : Owned(a)' => Owned(a)
  BY <1>1 DEF Owned
<1>. QED
  BY <1>1, <1>2 DEF OneOwner

(* A thread that add_to_pool has answered true owns the mailbox: it was    *)
(* not in the pool, so nobody did.                                         *)
LEMMA OwnerClaims ==
  ASSUME TypeOK, OneOwner, NEW s \in Threads, NEW b \in Actors, ~inPool[b],
         jobs' = jobs,
         inPool' = [inPool EXCEPT ![b] = TRUE],
         \A t \in Threads, a \in Actors :
           Submitting(t, a)' => Submitting(t, a) \/ (t = s /\ a = b),
         \A w \in Workers, a \in Actors : Draining(w, a)' => Draining(w, a)
  PROVE  OneOwner'
<1>1. ~Owned(b)
  BY DEF OneOwner
<1>2. \A a \in Actors : Queued(a)' <=> Queued(a)
  BY DEF Queued
<1>3. \A a \in Actors : Owned(a)' => Owned(a) \/ a = b
  BY <1>2 DEF Owned
<1>4. \A a \in Actors : Owned(a)' => inPool'[a]
  BY <1>3 DEF OneOwner, TypeOK
<1>5. \A i, j \in DOMAIN jobs' : jobs'[i] = jobs'[j] => i = j
  BY DEF OneOwner
<1>6. \A a \in Actors : a # b =>
        /\ \A t \in Threads : Submitting(t, a)' => Submitting(t, a)
        /\ \A w \in Workers : Draining(w, a)' => Draining(w, a)
  OBVIOUS
<1>7. /\ \A t \in Threads : Submitting(t, b)' => t = s
      /\ \A w \in Workers : ~Draining(w, b)'
      /\ ~Queued(b)'
  BY <1>1, <1>2 DEF Owned
<1>. QED
  BY <1>2, <1>4, <1>5, <1>6, <1>7 DEF OneOwner

LEMMA OwnerStep == TypeOK /\ OneOwner /\ [Next]_vars => OneOwner'
<1>. SUFFICES ASSUME TypeOK, OneOwner, [Next]_vars PROVE OneOwner'
  OBVIOUS
<1>. USE DEF Call, Return, Job, callVars, jobVars
<1>0. Workers \subseteq Threads
  BY DEF Threads
<1>1. ASSUME NEW t \in Threads, NEW a \in Actors, NEW from \in Actors \cup {None},
             Push(t, a, from)
      PROVE  OneOwner'
  BY <1>1, OwnersKept DEF TypeOK, Submitting, Draining, Push, MaySend
<1>2. ASSUME NEW t \in Threads, AddToPool(t) PROVE OneOwner'
  <2>1. CASE Claims(callOn[t])
    <3>1. callOn[t] \in Actors /\ ~inPool[callOn[t]]
      BY <1>2, <2>1 DEF TypeOK, AddToPool, Claims
    <3>2. /\ inPool' = [inPool EXCEPT ![callOn[t]] = TRUE]
          /\ Call(t, "submit", callOn[t])
          /\ UNCHANGED <<jobs, jobVars>>
      BY <1>2, <2>1 DEF AddToPool
    <3>3. \A u \in Threads, a \in Actors :
            Submitting(u, a)' => Submitting(u, a) \/ (u = t /\ a = callOn[t])
      BY <3>2 DEF TypeOK, Submitting
    <3>4. \A w \in Workers, a \in Actors : Draining(w, a)' => Draining(w, a)
      BY <3>2 DEF Draining
    <3>. QED
      BY <3>1, <3>2, <3>3, <3>4, OwnerClaims
  <2>2. CASE ~Claims(callOn[t])
    BY <1>2, <2>2, OwnersKept DEF TypeOK, AddToPool, Submitting, Draining
  <2>. QED
    BY <2>1, <2>2
<1>3. ASSUME NEW t \in Threads, Submit(t) PROVE OneOwner'
  BY <1>3, OwnersKept DEF TypeOK, Submitting, Draining, Submit
<1>4. ASSUME NEW t \in Threads, Enqueue(t) PROVE OneOwner'
  <2>1. \A w \in Workers, a \in Actors : Draining(w, a)' <=> Draining(w, a)
    BY <1>4, StaffSteps, StaffIsNobody
  <2>2. /\ callAt[t] = "enqueue" /\ callOn[t] \in Actors
        /\ jobs' = Append(jobs, callOn[t]) /\ jobs \in Seq(Actors)
        /\ callAt' = [callAt EXCEPT ![t] = "idle"] /\ callOn' = [callOn EXCEPT ![t] = None]
        /\ inPool' = inPool
    BY <1>4 DEF TypeOK, Enqueue
  <2>3. /\ Len(jobs') = Len(jobs) + 1
        /\ \A i \in DOMAIN jobs' : (i \in DOMAIN jobs /\ jobs'[i] = jobs[i]) \/ i = Len(jobs) + 1
        /\ jobs'[Len(jobs) + 1] = callOn[t]
    BY <2>2
  <2>4. \A s \in Threads, a \in Actors : Submitting(s, a)' <=> Submitting(s, a) /\ s # t
    BY <2>2 DEF TypeOK, Submitting
  <2>5. Submitting(t, callOn[t])
    BY <2>2 DEF Submitting
  <2>6. \A a \in Actors : Queued(a)' => Queued(a) \/ a = callOn[t]
    BY <2>3 DEF Queued
  <2>7. ~Queued(callOn[t])
    BY <2>2, <2>5 DEF OneOwner
  <2>8. \A i, j \in DOMAIN jobs' : jobs'[i] = jobs'[j] => i = j
    BY <2>3, <2>7 DEF OneOwner, Queued
  <2>9. \A a \in Actors : Owned(a)' => Owned(a)
    BY <2>1, <2>4, <2>5, <2>6 DEF Owned
  <2>. QED
    BY <2>1, <2>2, <2>4, <2>5, <2>6, <2>8, <2>9 DEF OneOwner
<1>5. ASSUME NEW w \in Workers, TakeJob(w) PROVE OneOwner'
  BY <1>0, <1>5, SMTT(40) DEF TypeOK, OneOwner, Owned, Queued, Submitting, Draining, TakeJob
<1>6. ASSUME NEW w \in Workers, Enter(w) PROVE OneOwner'
  BY <1>6, OwnersKept DEF TypeOK, Submitting, Draining, Enter
<1>7. ASSUME NEW w \in Workers, Pop(w) PROVE OneOwner'
  <2>1. /\ jobAt[w] = "pop"
        /\ \E at \in {"run", "leave"} : Job(w, at, jobOn[w])
        /\ UNCHANGED <<inPool, jobs, callVars>>
    BY <1>7 DEF Pop
  <2>. QED
    BY <2>1, OwnersKept DEF TypeOK, Submitting, Draining
<1>8. ASSUME NEW w \in Workers, RunBegin(w) PROVE OneOwner'
  BY <1>8, OwnersKept DEF TypeOK, Submitting, Draining, RunBegin
<1>9. ASSUME NEW w \in Workers, RunEnd(w) PROVE OneOwner'
  BY <1>9, OwnersKept DEF TypeOK, Submitting, Draining, RunEnd
<1>10. ASSUME NEW w \in Workers, Leave(w) PROVE OneOwner'
  BY <1>0, <1>10 DEF TypeOK, OneOwner, Owned, Queued, Submitting, Draining, Leave
<1>11. ASSUME NEW w \in Workers, Recheck(w) PROVE OneOwner'
  <2>1. CASE Claims(jobOn[w])
    <3>1. jobOn[w] \in Actors /\ ~inPool[jobOn[w]]
      BY <1>11, <2>1 DEF TypeOK, Recheck, Claims
    <3>2. /\ inPool' = [inPool EXCEPT ![jobOn[w]] = TRUE]
          /\ Call(w, "submit", jobOn[w])
          /\ Job(w, "idle", None)
          /\ UNCHANGED jobs
      BY <1>11, <2>1 DEF Recheck
    <3>3. \A u \in Threads, a \in Actors :
            Submitting(u, a)' => Submitting(u, a) \/ (u = w /\ a = jobOn[w])
      BY <1>0, <3>2 DEF TypeOK, Submitting
    <3>4. \A v \in Workers, a \in Actors : Draining(v, a)' => Draining(v, a)
      BY <3>2 DEF TypeOK, Draining
    <3>. QED
      BY <1>0, <3>1, <3>2, <3>3, <3>4, OwnerClaims
  <2>2. CASE ~Claims(jobOn[w])
    BY <1>11, <2>2, OwnersKept DEF TypeOK, Recheck, Submitting, Draining
  <2>. QED
    BY <2>1, <2>2
<1>12. CASE UNCHANGED vars
  BY <1>12, OwnersKept DEF Submitting, Draining, vars
<1>13. ASSUME NEW w \in Workers, Retire(w) PROVE OneOwner'
  <2>1. \A v \in Workers, a \in Actors : Draining(v, a)' <=> Draining(v, a)
    BY <1>13, StaffSteps, StaffIsNobody
  <2>2. UNCHANGED <<inPool, jobs, callAt, callOn>>
    BY <1>13 DEF Retire
  <2>. QED
    BY <2>1, <2>2, OwnersKept DEF Submitting
<1>. QED
  BY SendIsPush, <1>1, <1>2, <1>3, <1>4, <1>5, <1>6, <1>7, <1>8, <1>9, <1>10,
     <1>11, <1>12, <1>13 DEF Next, CallStep, JobStep

-----------------------------------------------------------------------------
(* No message is left behind: a push is followed by a question, and the    *)
(* flag is cleared only by a worker that will ask again.                   *)
LEMMA WakeupInit == Init => NoLostWakeup
  BY DEF Init, NoLostWakeup

(* A step that fills no mailbox, clears no flag and stops nobody asking.   *)
LEMMA WakeupKept ==
  ASSUME NoLostWakeup,
         \A a \in Actors : mbox[a] = <<>> => mbox'[a] = <<>>,
         \A a \in Actors : inPool[a] => inPool'[a],
         \A a \in Actors : Asking(a) => Asking(a)' \/ inPool'[a] \/ mbox'[a] = <<>>
  PROVE  NoLostWakeup'
  BY DEF NoLostWakeup

LEMMA WakeupStep == TypeOK /\ NoLostWakeup /\ [Next]_vars => NoLostWakeup'
<1>. SUFFICES ASSUME TypeOK, NoLostWakeup, [Next]_vars PROVE NoLostWakeup'
  OBVIOUS
<1>. USE DEF Call, Return, Job, callVars, jobVars
<1>0. Workers \subseteq Threads
  BY DEF Threads
<1>1. ASSUME NEW t \in Threads, NEW a \in Actors, NEW from \in Actors \cup {None},
             Push(t, a, from)
      PROVE  NoLostWakeup'
  <2>1. Asking(a)'
    BY <1>1 DEF TypeOK, Push, Asking
  <2>2. \A b \in Actors : Asking(b) => Asking(b)'
    BY <1>0, <1>1 DEF TypeOK, Push, MaySend, Asking
  <2>3. \A b \in Actors : b # a => mbox'[b] = mbox[b]
    BY <1>1 DEF TypeOK, Push
  <2>4. inPool' = inPool
    BY <1>1 DEF Push
  <2>. QED
    BY <2>1, <2>2, <2>3, <2>4 DEF NoLostWakeup
<1>2. ASSUME NEW t \in Threads, AddToPool(t) PROVE NoLostWakeup'
  <2>1. /\ callAt[t] = "check"
        /\ callOn[t] \in Actors
        /\ mbox' = mbox
        /\ \E at \in {"submit", "idle"}, c \in Actors \cup {None} : Call(t, at, c)
        /\ UNCHANGED jobVars
    BY <1>2 DEF TypeOK, AddToPool
  <2>2. inPool'[callOn[t]] \/ mbox'[callOn[t]] = <<>>
    BY <1>2, <2>1 DEF TypeOK, AddToPool, Claims
  <2>3. \A a \in Actors : inPool[a] => inPool'[a]
    BY <1>2, <2>1 DEF TypeOK, AddToPool
  <2>4. \A a \in Actors : Asking(a) => Asking(a)' \/ a = callOn[t]
    BY <1>0, <2>1 DEF TypeOK, Asking
  <2>. QED
    BY <2>1, <2>2, <2>3, <2>4, WakeupKept
<1>3. ASSUME NEW t \in Threads, Submit(t) PROVE NoLostWakeup'
  BY <1>0, <1>3, WakeupKept DEF TypeOK, Asking, Submit
<1>4. ASSUME NEW t \in Threads, Enqueue(t) PROVE NoLostWakeup'
  <2>1. \A w \in Workers, a \in Actors :
          jobAt[w] = "recheck" /\ jobOn[w] = a => jobAt'[w] = "recheck" /\ jobOn'[w] = a
    BY <1>4, StaffSteps, StaffIsNobody
  <2>2. \A s \in Threads, a \in Actors :
          callAt[s] = "check" /\ callOn[s] = a => callAt'[s] = "check" /\ callOn'[s] = a
    BY <1>4 DEF TypeOK, Enqueue
  <2>3. \A a \in Actors : Asking(a) => Asking(a)'
    BY <2>1, <2>2 DEF Asking
  <2>. QED
    BY <1>4, <2>3, WakeupKept DEF Enqueue
<1>5. ASSUME NEW w \in Workers, TakeJob(w) PROVE NoLostWakeup'
  BY <1>0, <1>5, WakeupKept DEF TypeOK, Asking, TakeJob
<1>6. ASSUME NEW w \in Workers, Enter(w) PROVE NoLostWakeup'
  BY <1>0, <1>6, WakeupKept DEF TypeOK, Asking, Enter
<1>7. ASSUME NEW w \in Workers, Pop(w) PROVE NoLostWakeup'
  <2>1. /\ jobAt[w] = "pop"
        /\ \E at \in {"run", "leave"} : Job(w, at, jobOn[w])
        /\ UNCHANGED <<inPool, callVars>>
    BY <1>7 DEF Pop
  <2>2. \A a \in Actors : mbox[a] = <<>> => mbox'[a] = <<>>
    BY <1>7 DEF TypeOK, Pop
  <2>3. \A a \in Actors : Asking(a) => Asking(a)'
    BY <1>0, <2>1 DEF TypeOK, Asking
  <2>. QED
    BY <2>1, <2>2, <2>3, WakeupKept
<1>8. ASSUME NEW w \in Workers, RunBegin(w) PROVE NoLostWakeup'
  BY <1>0, <1>8, WakeupKept DEF TypeOK, Asking, RunBegin
<1>9. ASSUME NEW w \in Workers, RunEnd(w) PROVE NoLostWakeup'
  BY <1>0, <1>9, WakeupKept DEF TypeOK, Asking, RunEnd
<1>10. ASSUME NEW w \in Workers, Leave(w) PROVE NoLostWakeup'
  <2>1. /\ jobAt[w] = "leave"
        /\ jobOn[w] \in Actors
        /\ Job(w, "recheck", jobOn[w])
        /\ inPool' = [inPool EXCEPT ![jobOn[w]] = FALSE]
        /\ UNCHANGED <<mbox, callVars>>
    BY <1>10 DEF TypeOK, Leave
  <2>2. Asking(jobOn[w])'
    BY <2>1 DEF TypeOK, Asking
  <2>3. \A a \in Actors : Asking(a) => Asking(a)'
    BY <1>0, <2>1 DEF TypeOK, Asking
  <2>4. \A a \in Actors : a # jobOn[w] => inPool'[a] = inPool[a]
    BY <2>1 DEF TypeOK
  <2>. QED
    BY <2>1, <2>2, <2>3, <2>4 DEF NoLostWakeup
<1>11. ASSUME NEW w \in Workers, Recheck(w) PROVE NoLostWakeup'
  <2>1. /\ jobAt[w] = "recheck"
        /\ jobOn[w] \in Actors
        /\ Job(w, "idle", None)
        /\ mbox' = mbox
    BY <1>11 DEF TypeOK, Recheck
  <2>2. inPool'[jobOn[w]] \/ mbox'[jobOn[w]] = <<>>
    BY <1>11, <2>1 DEF TypeOK, Recheck, Claims
  <2>3. \A a \in Actors : inPool[a] => inPool'[a]
    BY <1>11, <2>1 DEF TypeOK, Recheck
  <2>4. \A t \in Threads : callAt[t] = "check" => callAt'[t] = callAt[t] /\ callOn'[t] = callOn[t]
    BY <1>0, <1>11 DEF TypeOK, Recheck
  <2>5. \A a \in Actors : Asking(a) => Asking(a)' \/ a = jobOn[w]
    BY <2>1, <2>4 DEF TypeOK, Asking
  <2>. QED
    BY <2>1, <2>2, <2>3, <2>5, WakeupKept
<1>12. CASE UNCHANGED vars
  BY <1>12, WakeupKept DEF Asking, vars
<1>13. ASSUME NEW w \in Workers, Retire(w) PROVE NoLostWakeup'
  <2>1. \A v \in Workers, a \in Actors :
          jobAt[v] = "recheck" /\ jobOn[v] = a => jobAt'[v] = "recheck" /\ jobOn'[v] = a
    BY <1>13, StaffSteps, StaffIsNobody
  <2>2. UNCHANGED <<mbox, inPool, callAt, callOn>>
    BY <1>13 DEF Retire
  <2>3. \A a \in Actors : Asking(a) => Asking(a)'
    BY <2>1, <2>2 DEF Asking
  <2>. QED
    BY <2>2, <2>3, WakeupKept
<1>. QED
  BY SendIsPush, <1>1, <1>2, <1>3, <1>4, <1>5, <1>6, <1>7, <1>8, <1>9, <1>10,
     <1>11, <1>12, <1>13 DEF Next, CallStep, JobStep

-----------------------------------------------------------------------------
(* m_sender is the current message's sender: only the one worker that      *)
(* drains the mailbox writes it.                                           *)
LEMMA SenderInit == Init => SenderIsCurrent
  BY DEF Init, SenderIsCurrent, Handling

LEMMA SenderStep ==
  TypeOK /\ OneOwner /\ SenderIsCurrent /\ [Next]_vars => SenderIsCurrent'
<1>. SUFFICES ASSUME TypeOK, OneOwner, SenderIsCurrent, [Next]_vars
              PROVE  SenderIsCurrent'
  OBVIOUS
<1>. USE DEF Call, Return, Job, callVars, jobVars
<1>0. \A a \in Actors : \A v, w \in Workers : Draining(v, a) /\ Draining(w, a) => v = w
  BY DEF OneOwner
<1>1. ASSUME NEW t \in Threads, NEW a \in Actors, NEW from \in Actors \cup {None},
             Push(t, a, from)
      PROVE  SenderIsCurrent'
  BY <1>0, <1>1 DEF TypeOK, SenderIsCurrent, Handling, Push, MaySend
<1>2. ASSUME NEW t \in Threads, AddToPool(t) PROVE SenderIsCurrent'
  BY <1>0, <1>2 DEF TypeOK, SenderIsCurrent, Handling, AddToPool, Claims
<1>3. ASSUME NEW t \in Threads, Submit(t) PROVE SenderIsCurrent'
  BY <1>0, <1>3 DEF TypeOK, SenderIsCurrent, Handling, Submit
<1>4. ASSUME NEW t \in Threads, Enqueue(t) PROVE SenderIsCurrent'
  <2>1. \A w \in Workers, a \in Actors : Handling(w, a)' <=> Handling(w, a)
    BY <1>4, StaffSteps, StaffIsNobody
  <2>2. UNCHANGED <<func, sender>>
    BY <1>4 DEF Enqueue
  <2>. QED
    BY <2>1, <2>2 DEF SenderIsCurrent
<1>5. ASSUME NEW w \in Workers, TakeJob(w) PROVE SenderIsCurrent'
  BY <1>0, <1>5 DEF TypeOK, SenderIsCurrent, Handling, TakeJob
<1>6. ASSUME NEW w \in Workers, Enter(w) PROVE SenderIsCurrent'
  BY <1>0, <1>6 DEF TypeOK, SenderIsCurrent, Handling, Enter
<1>7. ASSUME NEW w \in Workers, Pop(w) PROVE SenderIsCurrent'
  <2>1. /\ jobAt[w] = "pop"
        /\ \E at \in {"run", "leave"} : Job(w, at, jobOn[w])
        /\ \A v \in Workers : v # w => func'[v] = func[v]
        /\ sender' = sender
    BY <1>7 DEF TypeOK, Pop
  <2>. QED
    BY <2>1 DEF TypeOK, SenderIsCurrent, Handling
<1>8. ASSUME NEW w \in Workers, RunBegin(w) PROVE SenderIsCurrent'
  BY <1>0, <1>8 DEF TypeOK, SenderIsCurrent, Handling, Draining, RunBegin
<1>9. ASSUME NEW w \in Workers, RunEnd(w) PROVE SenderIsCurrent'
  BY <1>0, <1>9 DEF TypeOK, SenderIsCurrent, Handling, Draining, RunEnd
<1>10. ASSUME NEW w \in Workers, Leave(w) PROVE SenderIsCurrent'
  BY <1>0, <1>10 DEF TypeOK, SenderIsCurrent, Handling, Leave
<1>11. ASSUME NEW w \in Workers, Recheck(w) PROVE SenderIsCurrent'
  BY <1>0, <1>11 DEF TypeOK, SenderIsCurrent, Handling, Recheck, Claims
<1>12. CASE UNCHANGED vars
  BY <1>12 DEF TypeOK, SenderIsCurrent, Handling, vars
<1>13. ASSUME NEW w \in Workers, Retire(w) PROVE SenderIsCurrent'
  <2>1. \A v \in Workers, a \in Actors : Handling(v, a)' <=> Handling(v, a)
    BY <1>13, StaffSteps, StaffIsNobody
  <2>2. UNCHANGED <<func, sender>>
    BY <1>13 DEF Retire
  <2>. QED
    BY <2>1, <2>2 DEF SenderIsCurrent
<1>. QED
  BY SendIsPush, <1>1, <1>2, <1>3, <1>4, <1>5, <1>6, <1>7, <1>8, <1>9, <1>10,
     <1>11, <1>12, <1>13 DEF Next, CallStep, JobStep

-----------------------------------------------------------------------------
(* With no more actors than the job queue may hold, add_job never refuses. *)

(* An injective sequence over S that misses an element is shorter than S.  *)
LEMMA ShortQueue ==
  ASSUME NEW S, IsFiniteSet(S), NEW q \in Seq(S), NEW x \in S,
         \A i, j \in DOMAIN q : q[i] = q[j] => i = j,
         \A i \in DOMAIN q : q[i] # x
  PROVE  Len(q) < Cardinality(S)
<1>1. /\ IsFiniteSet(S \ {x})
      /\ Cardinality(S \ {x}) = Cardinality(S) - 1
  BY FS_RemoveElement
<1>2. /\ DOMAIN q = 1..Len(q)
      /\ Len(q) \in Nat
  OBVIOUS
<1>3. /\ IsFiniteSet(1..Len(q))
      /\ Cardinality(1..Len(q)) = Len(q)
  <2>1. Cardinality(1..Len(q)) = IF 1 > Len(q) THEN 0 ELSE Len(q) - 1 + 1
    BY <1>2, FS_Interval
  <2>2. IsFiniteSet(1..Len(q))
    BY <1>2, FS_Interval
  <2>. QED
    BY <1>2, <2>1, <2>2
<1>4. q \in [1..Len(q) -> S \ {x}]
  BY <1>2
<1>5. ~(Cardinality(S \ {x}) < Cardinality(1..Len(q)))
  BY <1>1, <1>2, <1>3, <1>4, FS_PigeonHole
<1>. QED
  BY <1>1, <1>2, <1>3, <1>5, FS_CardinalityType

LEMMA NoRefusal ==
  ASSUME TypeOK, OneOwner, QueueLimit = 0 \/ Cardinality(Actors) <= QueueLimit,
         NEW t \in Threads, callAt[t] = "submit"
  PROVE  ~OutOfLimit
<1>1. callOn[t] \in Actors /\ Submitting(t, callOn[t])
  BY DEF TypeOK, Submitting
<1>2. ~Queued(callOn[t])
  BY <1>1 DEF OneOwner
<1>3. Len(jobs) < Cardinality(Actors)
  BY <1>1, <1>2, ShortQueue, MailboxesAssumption DEF TypeOK, OneOwner, Queued
<1>. QED
  BY <1>3, MailboxesAssumption, FS_CardinalityType DEF OutOfLimit, TypeOK

(* A step that sets no flag and leaves every owner an owner.               *)
LEMMA StrandKept ==
  ASSUME \A a \in Actors : ~Stranded(a),
         \A a \in Actors : inPool'[a] => inPool[a] \/ Owned(a)',
         \A a \in Actors : Owned(a) => Owned(a)' \/ ~inPool'[a]
  PROVE  \A a \in Actors : ~Stranded(a)'
  BY DEF Stranded

(* With room in the job queue, no step strands a mailbox.                  *)
LEMMA StrandStep ==
  ASSUME TypeOK, OneOwner, QueueLimit = 0 \/ Cardinality(Actors) <= QueueLimit,
         \A a \in Actors : ~Stranded(a), [Next]_vars
  PROVE  \A a \in Actors : ~Stranded(a)'
<1>. USE DEF Call, Return, Job, callVars, jobVars
<1>0. Workers \subseteq Threads
  BY DEF Threads
<1>1. ASSUME NEW t \in Threads, NEW a \in Actors, NEW from \in Actors \cup {None},
             Push(t, a, from)
      PROVE  \A b \in Actors : ~Stranded(b)'
  BY <1>0, <1>1, StrandKept DEF TypeOK, Push, MaySend, Owned, Queued, Submitting, Draining
<1>2. ASSUME NEW t \in Threads, AddToPool(t) PROVE \A a \in Actors : ~Stranded(a)'
  <2>1. \A a \in Actors : inPool'[a] => inPool[a] \/ Submitting(t, a)'
    BY <1>2 DEF TypeOK, AddToPool, Submitting
  <2>2. /\ callAt[t] = "check"
        /\ \E at \in {"submit", "idle"}, c \in Actors \cup {None} : Call(t, at, c)
        /\ UNCHANGED <<jobs, jobVars>>
    BY <1>2 DEF TypeOK, AddToPool
  <2>3. \A a \in Actors : Owned(a) => Owned(a)'
    BY <2>2 DEF TypeOK, Owned, Queued, Submitting, Draining
  <2>. QED
    BY <2>1, <2>3, StrandKept DEF Owned
<1>3. ASSUME NEW t \in Threads, Submit(t) PROVE \A a \in Actors : ~Stranded(a)'
  <2>1. /\ Call(t, "enqueue", callOn[t])
        /\ UNCHANGED <<inPool, jobs, jobVars>>
        /\ callAt[t] = "submit"
    BY <1>3, NoRefusal DEF Submit
  <2>2. \A a \in Actors : Owned(a) => Owned(a)'
    BY <2>1 DEF TypeOK, Owned, Queued, Submitting, Draining
  <2>. QED
    BY <2>1, <2>2, StrandKept
<1>4. ASSUME NEW t \in Threads, Enqueue(t) PROVE \A a \in Actors : ~Stranded(a)'
  <2>1. callOn[t] \in Actors
    BY <1>4 DEF TypeOK, Enqueue
  <2>2. /\ Len(jobs') = Len(jobs) + 1
        /\ \A i \in DOMAIN jobs : i \in DOMAIN jobs' /\ jobs'[i] = jobs[i]
        /\ Len(jobs) + 1 \in DOMAIN jobs' /\ jobs'[Len(jobs) + 1] = callOn[t]
    BY <1>4, <2>1 DEF TypeOK, Enqueue
  <2>3. \A a \in Actors : Queued(a) \/ a = callOn[t] => Queued(a)'
    BY <2>2 DEF Queued
  <2>4. \A s \in Threads, a \in Actors : Submitting(s, a) => Submitting(s, a)' \/ a = callOn[t]
    BY <1>4 DEF TypeOK, Enqueue, Submitting
  <2>5. \A w \in Workers, a \in Actors : Draining(w, a) => Draining(w, a)'
    BY <1>4, StaffSteps, StaffIsNobody
  <2>6. \A a \in Actors : Owned(a) => Owned(a)'
    BY <2>3, <2>4, <2>5 DEF Owned
  <2>. QED
    BY <1>4, <2>6, StrandKept DEF Enqueue
<1>5. ASSUME NEW w \in Workers, TakeJob(w) PROVE \A a \in Actors : ~Stranded(a)'
  <2>1. \A a \in Actors : a = Head(jobs) => Draining(w, a)'
    BY <1>5 DEF TypeOK, TakeJob, Draining
  <2>2. \A a \in Actors : Queued(a) => Queued(a)' \/ a = Head(jobs)
    <3>1. \A i \in DOMAIN jobs : i = 1 \/ (i - 1 \in DOMAIN jobs' /\ jobs'[i - 1] = jobs[i])
      BY <1>5 DEF TypeOK, TakeJob
    <3>2. jobs[1] = Head(jobs)
      BY <1>5 DEF TypeOK, TakeJob
    <3>. QED
      BY <3>1, <3>2 DEF Queued
  <2>3. /\ \A t \in Threads, a \in Actors : Submitting(t, a) => Submitting(t, a)'
        /\ \A v \in Workers, a \in Actors : Draining(v, a) => Draining(v, a)'
    BY <1>5 DEF TypeOK, TakeJob, Submitting, Draining
  <2>4. \A a \in Actors : Owned(a) => Owned(a)'
    BY <2>1, <2>2, <2>3 DEF Owned
  <2>. QED
    BY <1>5, <2>4, StrandKept DEF TakeJob
<1>6. ASSUME NEW w \in Workers, Enter(w) PROVE \A a \in Actors : ~Stranded(a)'
  <2>1. \A a \in Actors : a = jobOn[w] => Draining(w, a)'
    BY <1>6 DEF TypeOK, Enter, Draining
  <2>2. \A a \in Actors : inPool'[a] => inPool[a] \/ a = jobOn[w]
    BY <1>6 DEF TypeOK, Enter
  <2>3. \A a \in Actors : Owned(a) => Owned(a)'
    BY <1>6 DEF TypeOK, Enter, Owned, Queued, Submitting, Draining
  <2>. QED
    BY <2>1, <2>2, <2>3, StrandKept DEF Owned
<1>7. ASSUME NEW w \in Workers, Pop(w) PROVE \A a \in Actors : ~Stranded(a)'
  <2>1. /\ jobAt[w] = "pop"
        /\ \E at \in {"run", "leave"} : Job(w, at, jobOn[w])
        /\ UNCHANGED <<inPool, jobs, callVars>>
    BY <1>7 DEF Pop
  <2>2. \A a \in Actors : Owned(a) => Owned(a)'
    BY <2>1 DEF TypeOK, Owned, Queued, Submitting, Draining
  <2>. QED
    BY <2>1, <2>2, StrandKept
<1>8. ASSUME NEW w \in Workers, RunBegin(w) PROVE \A a \in Actors : ~Stranded(a)'
  BY <1>8, StrandKept DEF TypeOK, RunBegin, Owned, Queued, Submitting, Draining
<1>9. ASSUME NEW w \in Workers, RunEnd(w) PROVE \A a \in Actors : ~Stranded(a)'
  BY <1>9, StrandKept DEF TypeOK, RunEnd, Owned, Queued, Submitting, Draining
<1>10. ASSUME NEW w \in Workers, Leave(w) PROVE \A a \in Actors : ~Stranded(a)'
  <2>1. \A a \in Actors : Owned(a) => Owned(a)' \/ a = jobOn[w]
    BY <1>10 DEF TypeOK, Leave, Owned, Queued, Submitting, Draining
  <2>2. /\ ~inPool'[jobOn[w]]
        /\ \A a \in Actors : inPool'[a] => inPool[a]
    BY <1>10 DEF TypeOK, Leave
  <2>. QED
    BY <2>1, <2>2, StrandKept
<1>11. ASSUME NEW w \in Workers, Recheck(w) PROVE \A a \in Actors : ~Stranded(a)'
  <2>1. \A a \in Actors : inPool'[a] => inPool[a] \/ Submitting(w, a)'
    BY <1>0, <1>11 DEF TypeOK, Recheck, Submitting
  <2>2. \A t \in Threads, a \in Actors : Submitting(t, a) => Submitting(t, a)'
    BY <1>0, <1>11 DEF TypeOK, Recheck, Submitting
  <2>3. \A a \in Actors : Owned(a) => Owned(a)'
    BY <1>11, <2>2 DEF TypeOK, Recheck, Owned, Queued, Draining
  <2>. QED
    BY <1>0, <2>1, <2>3, StrandKept DEF Owned
<1>12. CASE UNCHANGED vars
  BY <1>12, StrandKept DEF Owned, Queued, Submitting, Draining, vars
<1>13. ASSUME NEW w \in Workers, Retire(w) PROVE \A a \in Actors : ~Stranded(a)'
  <2>1. \A v \in Workers, a \in Actors : Draining(v, a) => Draining(v, a)'
    BY <1>13, StaffSteps, StaffIsNobody
  <2>2. UNCHANGED <<inPool, jobs, callAt, callOn>>
    BY <1>13 DEF Retire
  <2>3. \A a \in Actors : Owned(a) => Owned(a)'
    BY <2>1, <2>2 DEF Owned, Queued, Submitting
  <2>. QED
    BY <2>2, <2>3, StrandKept
<1>. QED
  BY SendIsPush, <1>1, <1>2, <1>3, <1>4, <1>5, <1>6, <1>7, <1>8, <1>9, <1>10,
     <1>11, <1>12, <1>13 DEF Next, CallStep, JobStep

-----------------------------------------------------------------------------
(* The inductive invariant is the conjunction of the invariants: the flag, *)
(* the owners and the senders depend on one another only through it.       *)
IInv == TypeOK /\ OneOwner /\ NoLostWakeup /\ SenderIsCurrent /\ NoneStranded

LEMMA IInvInit == Init => IInv
  BY TypeInit, OwnerInit, WakeupInit, SenderInit DEF IInv, NoneStranded, Stranded, Init

LEMMA IInvStep == IInv /\ [Next]_vars => IInv'
<1>. SUFFICES ASSUME IInv, [Next]_vars PROVE IInv'
  OBVIOUS
<1>1. TypeOK' /\ OneOwner' /\ NoLostWakeup' /\ SenderIsCurrent'
  BY TypeStep, OwnerStep, WakeupStep, SenderStep DEF IInv
<1>2. NoneStranded'
  BY StrandStep DEF IInv, NoneStranded
<1>. QED
  BY <1>1, <1>2 DEF IInv

LEMMA Invariance == Spec => []IInv
  BY IInvInit, IInvStep, PTL DEF Spec

(* Every mailbox has at most one owner, so the handlers of one actor never *)
(* run at the same time.                                                   *)
THEOREM OwnerUnique == Spec => []OneOwner
<1>1. IInv => OneOwner
  BY DEF IInv
<1>. QED
  BY <1>1, Invariance, PTL

(* No interleaving of a push with the end of a drain loses a message.      *)
THEOREM WakeupKeptAlways == Spec => []NoLostWakeup
<1>1. IInv => NoLostWakeup
  BY DEF IInv
<1>. QED
  BY <1>1, Invariance, PTL

(* get_sender() is the sender of the message being handled.                *)
THEOREM SenderCorrect == Spec => []SenderIsCurrent
<1>1. IInv => SenderIsCurrent
  BY DEF IInv
<1>. QED
  BY <1>1, Invariance, PTL

(* No mailbox is stranded while actors do not outnumber the job queue's    *)
(* places, whatever the number of messages, senders and workers.           *)
THEOREM NoStrandedMailbox == Spec => []NoneStranded
<1>1. IInv => NoneStranded
  BY DEF IInv
<1>. QED
  BY <1>1, Invariance, PTL

-----------------------------------------------------------------------------
(* Mailboxes implements ActorModel *)

(* Running changes only where a worker's closure or its job does.          *)
LEMMA RunningKept ==
  ASSUME TypeOK, jobOn' = jobOn, func' = func
  PROVE  Running' = Running
  BY DEF Running

(* A step that moves a worker with no closure between jobs runs nothing.   *)
LEMMA RunningIdle ==
  ASSUME TypeOK, TypeOK', NEW w \in Workers, func[w] = None, func' = func,
         \A v \in Workers : v # w => jobOn'[v] = jobOn[v]
  PROVE  Running' = Running
  BY DEF Running

(* A worker that drains a mailbox alone and has no closure in hand: its    *)
(* actor runs nothing.                                                     *)
LEMMA NothingRuns ==
  ASSUME TypeOK, OneOwner, NEW w \in Workers, NEW a \in Actors,
         Draining(w, a), func[w] = None
  PROVE  Running[a] = {}
<1>1. \A v \in Workers : jobOn[v] = a /\ func[v] # None => Draining(v, a)
  BY DEF TypeOK, Draining
<1>. QED
  BY <1>1 DEF OneOwner, Running

(* Every step of Mailboxes is a Send, a Start, a Finish or a stutter.      *)
LEMMA StepImplements ==
  TypeOK /\ TypeOK' /\ OneOwner /\ [Next]_vars => [Abstract!Next]_(Abstract!vars)
<1>. SUFFICES ASSUME TypeOK, TypeOK', OneOwner, [Next]_vars
              PROVE  [Abstract!Next]_(Abstract!vars)
  OBVIOUS
<1>. USE DEF Call, Return, Job, callVars, jobVars, Abstract!vars
<1>1. ASSUME NEW t \in Threads, NEW a \in Actors, NEW from \in Actors \cup {None},
             Push(t, a, from)
      PROVE  Abstract!Next
  <2>1. [n |-> sent + 1, from |-> from] \in Msg
    BY <1>1 DEF TypeOK, Msg, Push, MaySend
  <2>2. Abstract!Send(a, [n |-> sent + 1, from |-> from])
    BY <1>1, RunningKept DEF Push, Abstract!Send
  <2>. QED
    BY <2>1, <2>2 DEF Abstract!Next
<1>2. ASSUME NEW t \in Threads, AddToPool(t) \/ Submit(t)
      PROVE  UNCHANGED Abstract!vars
  BY <1>2, RunningKept DEF AddToPool, Submit
<1>2a. ASSUME (\E t \in Threads : Enqueue(t)) \/ (\E w \in Workers : Retire(w))
       PROVE  UNCHANGED Abstract!vars
  <2>1. func' = func /\ mbox' = mbox
    BY <1>2a DEF Enqueue, Retire
  <2>2. \A w \in Workers, a \in Actors :
          /\ jobOn'[w] = a => jobOn[w] = a
          /\ func[w] # None => jobOn'[w] = jobOn[w]
    BY <1>2a, StaffSteps, StaffIsNobody
  <2>3. Running' = Running
    BY <2>1, <2>2 DEF Running
  <2>. QED
    BY <2>1, <2>3
<1>3. ASSUME NEW w \in Workers, TakeJob(w) PROVE UNCHANGED Abstract!vars
  BY <1>3, RunningIdle DEF TypeOK, TakeJob
<1>4. ASSUME NEW w \in Workers, Enter(w) \/ RunBegin(w) \/ Leave(w)
      PROVE  UNCHANGED Abstract!vars
  <2>1. jobOn' = jobOn
    BY <1>4 DEF TypeOK, Enter, RunBegin, Leave
  <2>. QED
    BY <1>4, <2>1, RunningKept DEF Enter, RunBegin, Leave
<1>5. ASSUME NEW w \in Workers, Recheck(w) PROVE UNCHANGED Abstract!vars
  <2>1. func[w] = None
    BY <1>5 DEF TypeOK, Recheck
  <2>2. \A v \in Workers : v # w => jobOn'[v] = jobOn[v]
    BY <1>5 DEF TypeOK, Recheck
  <2>. QED
    BY <1>5, <2>1, <2>2, RunningIdle DEF Recheck
<1>6. ASSUME NEW w \in Workers, Pop(w) PROVE [Abstract!Next]_(Abstract!vars)
  <2>. DEFINE a == jobOn[w]
  <2>1. /\ a \in Actors
        /\ func[w] = None
        /\ Draining(w, a)
    BY <1>6 DEF TypeOK, Pop, Draining
  <2>1a. jobOn' = jobOn
    BY <1>6 DEF TypeOK, Pop
  <2>2. CASE mbox[a] = <<>>
    BY <1>6, <2>1, <2>1a, <2>2, RunningKept DEF Pop
  <2>3. CASE mbox[a] # <<>>
    <3>1. /\ func' = [func EXCEPT ![w] = Head(mbox[a])]
          /\ mbox' = [mbox EXCEPT ![a] = Tail(@)]
      BY <1>6, <2>3 DEF Pop
    <3>2. Head(mbox[a]) \in Msg
      BY <2>1, <2>3 DEF TypeOK
    <3>3. Running[a] = {}
      BY <2>1, NothingRuns
    <3>4. Running' = [Running EXCEPT ![a] = {Head(mbox[a])}]
      <4>1. ASSUME NEW b \in Actors, b # a PROVE Running'[b] = Running[b]
        BY <2>1, <2>1a, <3>1, <4>1 DEF TypeOK, Running
      <4>2. \A v \in Workers : jobOn[v] = a => func[v] = None
        BY <2>1, <3>3 DEF Running
      <4>3. Running'[a] = {Head(mbox[a])}
        BY <2>1, <2>1a, <3>1, <3>2, <4>2, MailboxesAssumption DEF TypeOK, Running
      <4>. QED
        BY <2>1, <4>1, <4>3 DEF Running
    <3>5. Abstract!Start(a)
      BY <2>3, <3>1, <3>3, <3>4 DEF Abstract!Start
    <3>. QED
      BY <2>1, <3>5 DEF Abstract!Next
  <2>. QED
    BY <2>2, <2>3
<1>7. ASSUME NEW w \in Workers, RunEnd(w) PROVE Abstract!Next
  <2>. DEFINE a == jobOn[w]
  <2>1. /\ a \in Actors
        /\ func[w] # None
        /\ Draining(w, a)
        /\ jobOn' = jobOn
        /\ func' = [func EXCEPT ![w] = None]
        /\ mbox' = mbox
    BY <1>7 DEF TypeOK, RunEnd, Draining
  <2>2. \A v \in Workers : v # w /\ jobOn[v] = a => func[v] = None
    <3>1. \A v \in Workers : jobOn[v] = a /\ func[v] # None => Draining(v, a)
      BY DEF TypeOK, Draining
    <3>. QED
      BY <2>1, <3>1 DEF OneOwner
  <2>3. Running[a] # {}
    BY <2>1 DEF Running
  <2>4. Running' = [Running EXCEPT ![a] = {}]
    <3>1. ASSUME NEW b \in Actors, b # a PROVE Running'[b] = Running[b]
      BY <2>1, <3>1 DEF TypeOK, Running
    <3>2. Running'[a] = {}
      BY <2>1, <2>2 DEF TypeOK, Running
    <3>. QED
      BY <2>1, <3>1, <3>2 DEF Running
  <2>. QED
    BY <2>1, <2>3, <2>4 DEF Abstract!Next, Abstract!Finish
<1>8. CASE UNCHANGED vars
  BY <1>8, RunningKept DEF vars
<1>. QED
  BY SendIsPush, <1>1, <1>2, <1>2a, <1>3, <1>4, <1>5, <1>6, <1>7, <1>8
     DEF Next, CallStep, JobStep

(* The mailboxes, the flag, the job queue and the workers together are one *)
(* FIFO queue per actor, handled one message at a time.                    *)
THEOREM Refinement == Spec => ImplementsActorModel
<1>1. Init => Abstract!Init
  BY DEF Init, Abstract!Init, Running
<1>2. IInv /\ IInv' /\ [Next]_vars => [Abstract!Next]_(Abstract!vars)
  BY StepImplements DEF IInv
<1>. QED
  BY <1>1, <1>2, Invariance, PTL DEF Spec, ImplementsActorModel, Abstract!Spec

-----------------------------------------------------------------------------
(* A stranded mailbox has no owner, and a mailbox in the pool without an   *)
(* owner is not given one by any step.                                     *)
LEMMA StrandedStep ==
  ASSUME TypeOK, TypeOK', [Next]_vars, NEW a \in Actors, Stranded(a)
  PROVE  Stranded(a)' /\ Running'[a] = {}
<1>. USE DEF Call, Return, Job, callVars, jobVars
<1>0. Workers \subseteq Threads
  BY DEF Threads
<1>. DEFINE Kept ==
       /\ inPool'[a]
       /\ Queued(a)' => Queued(a)
       /\ \A t \in Threads : Submitting(t, a)' => Submitting(t, a)
       /\ \A w \in Workers : Draining(w, a)' => Draining(w, a) \/ Queued(a)
<1>s. inPool[a] /\ ~Owned(a)
  BY DEF Stranded
<1>1. ASSUME NEW t \in Threads, NEW b \in Actors, NEW from \in Actors \cup {None},
             Push(t, b, from)
      PROVE  Kept
  BY <1>s, <1>1 DEF TypeOK, Push, MaySend, Queued, Submitting, Draining
<1>2. ASSUME NEW t \in Threads, AddToPool(t) PROVE Kept
  <2>1. /\ inPool'[a]
        /\ callOn[t] = a => callAt'[t] = "idle"
        /\ UNCHANGED <<jobs, jobVars>>
        /\ \E at \in {"submit", "idle"}, c \in {None, callOn[t]} : Call(t, at, c)
    BY <1>s, <1>2 DEF TypeOK, AddToPool, Claims
  <2>. QED
    BY <1>s, <2>1, MailboxesAssumption DEF TypeOK, Queued, Submitting, Draining
<1>3. ASSUME NEW t \in Threads, Submit(t) PROVE Kept
  BY <1>s, <1>3 DEF TypeOK, Submit, Queued, Submitting, Draining
<1>4. ASSUME NEW t \in Threads, Enqueue(t) PROVE Kept
  <2>1. callOn[t] \in Actors /\ callOn[t] # a
    BY <1>s, <1>4 DEF TypeOK, Enqueue, Owned, Submitting
  <2>2. \A i \in DOMAIN jobs' : jobs'[i] = callOn[t] \/ (i \in DOMAIN jobs /\ jobs'[i] = jobs[i])
    <3>1. jobs' = Append(jobs, callOn[t]) /\ jobs \in Seq(Actors)
      BY <1>4 DEF TypeOK, Enqueue
    <3>. QED
      BY ONLY <2>1, <3>1
  <2>3. Queued(a)' => Queued(a)
    BY <2>1, <2>2 DEF Queued
  <2>4. \A w \in Workers : Draining(w, a)' => Draining(w, a)
    BY <1>4, StaffSteps, StaffIsNobody
  <2>5. \A s \in Threads : Submitting(s, a)' => Submitting(s, a)
    BY <1>4 DEF TypeOK, Enqueue, Submitting
  <2>6. inPool'[a]
    BY <1>s, <1>4 DEF Enqueue
  <2>. QED
    BY <2>3, <2>4, <2>5, <2>6
<1>5. ASSUME NEW w \in Workers, TakeJob(w) PROVE Kept
  <2>1. \A i \in DOMAIN jobs' : i + 1 \in DOMAIN jobs /\ jobs'[i] = jobs[i + 1]
    BY <1>5 DEF TypeOK, TakeJob
  <2>2. 1 \in DOMAIN jobs /\ jobs[1] = Head(jobs)
    BY <1>5 DEF TypeOK, TakeJob
  <2>3. Queued(a)' => Queued(a)
    BY <2>1 DEF Queued
  <2>4. Head(jobs) = a => Queued(a)
    BY <2>2 DEF Queued
  <2>. QED
    BY <1>s, <1>5, <2>3, <2>4 DEF TypeOK, TakeJob, Submitting, Draining
<1>6. ASSUME NEW w \in Workers, Enter(w) PROVE Kept
  BY <1>s, <1>6 DEF TypeOK, Enter, Queued, Submitting, Draining
<1>7. ASSUME NEW w \in Workers, Pop(w) PROVE Kept
  <2>1. /\ jobAt[w] = "pop"
        /\ \E at \in {"run", "leave"} : Job(w, at, jobOn[w])
        /\ UNCHANGED <<inPool, jobs, callVars>>
    BY <1>7 DEF Pop
  <2>. QED
    BY <1>s, <2>1 DEF TypeOK, Queued, Submitting, Draining
<1>8. ASSUME NEW w \in Workers, RunBegin(w) PROVE Kept
  BY <1>s, <1>8 DEF TypeOK, RunBegin, Queued, Submitting, Draining
<1>9. ASSUME NEW w \in Workers, RunEnd(w) PROVE Kept
  BY <1>s, <1>9 DEF TypeOK, RunEnd, Queued, Submitting, Draining
<1>10. ASSUME NEW w \in Workers, Leave(w) PROVE Kept
  <2>1. jobOn[w] # a
    BY <1>s, <1>10 DEF TypeOK, Leave, Owned, Draining
  <2>. QED
    BY <1>s, <1>10, <2>1 DEF TypeOK, Leave, Queued, Submitting, Draining
<1>11. ASSUME NEW w \in Workers, Recheck(w) PROVE Kept
  <2>1. CASE Claims(jobOn[w])
    <3>1. /\ jobOn[w] \in Actors /\ jobOn[w] # a
          /\ inPool' = [inPool EXCEPT ![jobOn[w]] = TRUE]
          /\ Call(w, "submit", jobOn[w])
          /\ Job(w, "idle", None)
          /\ UNCHANGED jobs
      BY <1>s, <1>11, <2>1 DEF TypeOK, Recheck, Claims
    <3>. QED
      BY <1>0, <1>s, <3>1 DEF TypeOK, Queued, Submitting, Draining
  <2>2. CASE ~Claims(jobOn[w])
    BY <1>s, <1>11, <2>2 DEF TypeOK, Recheck, Queued, Submitting, Draining
  <2>. QED
    BY <2>1, <2>2
<1>12. ASSUME UNCHANGED vars PROVE Kept
  <2>1. UNCHANGED <<inPool, jobs, callAt, callOn, jobAt, jobOn>>
    BY <1>12 DEF vars
  <2>. QED
    BY <1>s, <2>1 DEF Queued, Submitting, Draining
<1>12a. ASSUME NEW w \in Workers, Retire(w) PROVE Kept
  <2>1. \A v \in Workers : Draining(v, a)' => Draining(v, a)
    BY <1>12a, StaffSteps, StaffIsNobody
  <2>2. UNCHANGED <<inPool, jobs, callAt, callOn>>
    BY <1>12a DEF Retire
  <2>. QED
    BY <1>s, <2>1, <2>2 DEF Queued, Submitting
<1>13. Kept
  <2>. HIDE DEF Kept
  <2>. QED
    BY SendIsPush, <1>1, <1>2, <1>3, <1>4, <1>5, <1>6, <1>7, <1>8,
       <1>9, <1>10, <1>11, <1>12, <1>12a DEF Next, CallStep, JobStep
<1>14. inPool'[a] /\ ~Owned(a)'
  BY <1>s, <1>13 DEF Owned
<1>15. \A w \in Workers : jobOn'[w] = a /\ func'[w] # None => Draining(w, a)'
  BY DEF TypeOK, Draining
<1>. QED
  BY <1>14, <1>15 DEF Stranded, Owned, Running

(* What a refused add_job costs, for every size of the system: the actor   *)
(* never handles a message again.                                          *)
THEOREM StrandingIsFinal == Spec => StrandedForGood
<1>1. TypeOK /\ TypeOK' /\ [Next]_vars
        => \A a \in Actors : Stranded(a) => Stranded(a)' /\ Running'[a] = {}
  BY StrandedStep
<1>. QED
  BY <1>1, TypeCorrect, PTL DEF Spec, StrandedForGood

-----------------------------------------------------------------------------
(* ActorSystem *)

(* The types and the control state hold initially and after every step.    *)
LEMMA SystemTypeInit == SystemInit => SystemTypeOK
<1>. SUFFICES ASSUME SystemInit PROVE SystemTypeOK
  OBVIOUS
<1>1. TypeOK
  BY TypeInit DEF SystemInit
<1>. QED
  BY <1>1, ActorSystemAssumption DEF SystemInit, SystemTypeOK, RegistryOK, Init, Spawned, Threads

(* A step of the whole is one of Mailboxes, a stutter there, or a clear(). *)
LEMMA StepOfParts ==
  ASSUME SystemTypeOK, [SystemNext]_allVars
  PROVE  [Next]_vars \/ \E t \in Threads : Clear(t)
<1>1. ASSUME NEW t \in Threads, PushMessage(t) PROVE Next
  <2>1. regOn[t] \in Actors
    BY <1>1 DEF PushMessage, SystemTypeOK, RegistryOK, Spawned
  <2>2. CASE t \in Workers
    BY <1>1, <2>1, <2>2 DEF PushMessage, Next, HandlerStep, ActorSend
  <2>3. CASE t \notin Workers
    BY <1>1, <2>1, <2>3 DEF PushMessage, Next, ClientStep, ClientSend, Threads
  <2>. QED
    BY <2>2, <2>3
<1>2. ASSUME NEW t \in Threads, UserStep(t) \/ Lookup(t) \/ Deref(t) \/ StopLock(t) \/ Erase(t)
      PROVE  UNCHANGED vars
  BY <1>2 DEF UserStep, CallSend, CallStop, Spawn, Lookup, Deref, StopLock, Erase
<1>3. ASSUME NEW t \in Threads, PoolStep(t) PROVE Next
  BY <1>3 DEF PoolStep, Next
<1>4. ASSUME NEW w \in Workers, WorkerStep(w) \/ HandlerReturns(w) PROVE Next
  BY <1>4 DEF WorkerStep, HandlerReturns, PopMessage, Next, JobStep
<1>5. CASE UNCHANGED allVars
  BY <1>5 DEF allVars
<1>. QED
  BY <1>1, <1>2, <1>3, <1>4, <1>5 DEF SystemNext, RegistryStep

LEMMA SystemTypeStep ==
  SystemTypeOK /\ [SystemNext]_allVars => SystemTypeOK'
<1>. SUFFICES ASSUME SystemTypeOK, [SystemNext]_allVars PROVE SystemTypeOK'
  OBVIOUS
<1>1. TypeOK'
  <2>1. CASE [Next]_vars
    BY <2>1, TypeStep DEF SystemTypeOK
  <2>2. ASSUME NEW t \in Threads, Clear(t) PROVE TypeOK'
    <3>0. <<>> \in Seq(Msg) /\ mbox \in [Actors -> Seq(Msg)]
      BY DEF SystemTypeOK, TypeOK
    <3>1. mbox' \in [Actors -> Seq(Msg)]
      BY <2>2, <3>0 DEF Clear
    <3>. QED
      BY <2>2, <3>1 DEF Clear, SystemTypeOK, TypeOK, callVars, jobVars
  <2>. QED
    BY <2>1, <2>2, StepOfParts
<1>. USE ActorSystemAssumption, MailboxesAssumption
     DEF SystemTypeOK, TypeOK, RegistryOK, Spawned, Threads, At, UserCode, regVars, faultVars, sysVars,
         vars, callVars, jobVars
<1>2. ASSUME NEW t \in Threads, NEW a \in Actors, CallSend(t, a) PROVE RegistryOK'
  BY <1>2 DEF CallSend
<1>3. ASSUME NEW t \in Threads, NEW a \in Actors, CallStop(t, a) PROVE RegistryOK'
  BY <1>3 DEF CallStop
<1>3a. ASSUME NEW t \in Threads, StopLock(t) PROVE RegistryOK'
  <2>1. raced' \in BOOLEAN
    BY <1>3a DEF StopLock, Quiet
  <2>2. /\ UNCHANGED <<nameOf, reg, names, fault, callAt, jobAt>>
        /\ regAt[t] = "stop" /\ holder = None /\ holder' = t
        /\ \E at \in {"clear", "erase"} : At(t, at, regOn[t])
    BY <1>3a DEF StopLock
  <2>. QED
    BY <2>1, <2>2
<1>4. ASSUME NEW t \in Threads, NEW a \in Actors, NEW n \in Names, Spawn(t, a, n)
      PROVE  RegistryOK'
  <2>1. /\ nameOf' \in [Actors -> Names \cup {None}]
        /\ Spawned' = Spawned \cup {a}
    BY <1>4 DEF Spawn
  <2>2. names' \in [Names -> Actors \cup {None}]
    <3>1. names \in [Names -> Actors \cup {None}]
      OBVIOUS
    <3>2. names' = [names EXCEPT ![n] = a] \/ names' = names
      BY <1>4 DEF Spawn
    <3>. QED
      BY ONLY <3>1, <3>2
  <2>3. reg' \subseteq Spawned'
    BY <1>4, <2>1 DEF Spawn
  <2>. HIDE DEF Spawned
  <2>. QED
    BY <1>4, <2>1, <2>2, <2>3 DEF Spawn
<1>5. ASSUME NEW t \in Threads, Lookup(t) PROVE RegistryOK'
  <2>1. UNCHANGED <<holder, raced, fault, nameOf, reg, names>>
    BY <1>5 DEF Lookup
  <2>2. callAt' = callAt /\ jobAt' = jobAt
    BY <1>5 DEF Lookup
  <2>3. CASE At(t, "deref", regOn[t])
    BY <1>5, <2>1, <2>2, <2>3 DEF Lookup
  <2>4. CASE At(t, "idle", None)
    BY <1>5, <2>1, <2>2, <2>4 DEF Lookup
  <2>. QED
    BY <1>5, <2>3, <2>4 DEF Lookup
<1>6. ASSUME NEW t \in Threads, Deref(t) PROVE RegistryOK'
  <2>1. UNCHANGED <<holder, raced, nameOf, reg, names>>
    BY <1>6 DEF Deref
  <2>2. callAt' = callAt /\ jobAt' = jobAt /\ fault' \in BOOLEAN
    BY <1>6 DEF Deref
  <2>3. CASE At(t, "push", regOn[t])
    BY <1>6, <2>1, <2>2, <2>3 DEF Deref
  <2>4. CASE UNCHANGED <<regAt, regOn>>
    BY <1>6, <2>1, <2>2, <2>4 DEF Deref
  <2>. QED
    BY <1>6, <2>3, <2>4 DEF Deref
<1>7. ASSUME NEW t \in Threads, PushMessage(t) PROVE RegistryOK'
  <2>1. fault' \in BOOLEAN
    BY <1>7 DEF PushMessage, MeetsClear, Clearing
  <2>2. /\ callAt' = [callAt EXCEPT ![t] = "check"]
        /\ jobAt' = jobAt
        /\ regAt[t] = "push" /\ At(t, "idle", None)
        /\ UNCHANGED <<nameOf, reg, names, holder, raced>>
    BY <1>7 DEF PushMessage, Push, Call
  <2>. QED
    BY <2>1, <2>2
<1>8. ASSUME NEW t \in Threads, Clear(t) PROVE RegistryOK'
  BY <1>8 DEF Clear
<1>9. ASSUME NEW t \in Threads, Erase(t) PROVE RegistryOK'
  BY <1>9 DEF Erase
<1>10. ASSUME NEW t \in Threads, PoolStep(t) PROVE RegistryOK'
  <2>1. CASE AddToPool(t) \/ Submit(t)
    BY <1>10, <2>1 DEF PoolStep, AddToPool, Submit, Call, Return
  <2>2. CASE Enqueue(t)
    <3>1. \A w \in Workers : jobAt[w] = "handle" => jobAt'[w] = "handle"
      BY <2>2, StaffSteps DEF StaffOnly
    <3>2. callAt' = [callAt EXCEPT ![t] = "idle"] /\ UNCHANGED sysVars
      BY <1>10, <2>2 DEF PoolStep, Enqueue, Call, Return
    <3>. QED
      BY <3>1, <3>2
  <2>. QED
    BY <1>10, <2>1, <2>2 DEF PoolStep, CallStep
<1>11. ASSUME NEW w \in Workers, PopMessage(w) PROVE RegistryOK'
  <2>1. fault' \in BOOLEAN
    BY <1>11 DEF PopMessage, MeetsClear, Clearing
  <2>2. /\ callAt' = callAt /\ regAt' = regAt /\ regOn' = regOn
        /\ UNCHANGED <<nameOf, reg, names, holder, raced>>
        /\ jobAt[w] = "pop"
        /\ \A v \in Workers : v # w => jobAt'[v] = jobAt[v]
    BY <1>11 DEF PopMessage, Pop, Job
  <2>. QED
    BY <2>1, <2>2
<1>12. ASSUME NEW w \in Workers, HandlerReturns(w) PROVE RegistryOK'
  BY <1>12 DEF HandlerReturns, RunEnd, Job
<1>13. ASSUME NEW w \in Workers,
              TakeJob(w) \/ Enter(w) \/ RunBegin(w) \/ Leave(w) \/ Recheck(w) \/ Retire(w),
              UNCHANGED sysVars
       PROVE  RegistryOK'
  BY <1>13 DEF TakeJob, Enter, RunBegin, Leave, Recheck, Retire, Call, Job
<1>14. CASE UNCHANGED allVars
  BY <1>14 DEF allVars
<1>. HIDE DEF TypeOK, RegistryOK
<1>. QED
  BY <1>1, <1>2, <1>3, <1>3a, <1>4, <1>5, <1>6, <1>7, <1>8, <1>9, <1>10, <1>11, <1>12, <1>13,
     <1>14
  DEF SystemNext, UserStep, RegistryStep, WorkerStep

(* The types, and which places of threads go with which values, hold       *)
(* always.                                                                 *)
THEOREM SystemTypeCorrect == SystemSpec => []SystemTypeOK
  BY SystemTypeInit, SystemTypeStep, PTL DEF SystemSpec

-----------------------------------------------------------------------------
(* What is proved of the mailboxes holds with stops as well: clear()       *)
(* changes nothing but a deque.                                            *)
LEMMA ClearKeepsIInv ==
  ASSUME IInv, TypeOK', NEW t \in Threads, Clear(t)
  PROVE  IInv'
<1>. USE DEF IInv
<1>1. UNCHANGED <<inPool, jobs, callAt, callOn, jobAt, jobOn, func, sender, sent>>
  BY DEF Clear, callVars, jobVars
<1>2. OneOwner'
  BY <1>1 DEF OneOwner, Owned, Queued, Submitting, Draining
<1>3. NoLostWakeup'
  <2>1. \A a \in Actors : mbox[a] = <<>> => mbox'[a] = <<>>
    BY DEF Clear, TypeOK
  <2>. QED
    BY <1>1, <2>1, WakeupKept DEF Asking
<1>4. SenderIsCurrent'
  BY <1>1 DEF SenderIsCurrent, Handling
<1>5. NoneStranded'
  BY <1>1 DEF NoneStranded, Stranded, Owned, Queued, Submitting, Draining
<1>. QED
  BY <1>2, <1>3, <1>4, <1>5

LEMMA SystemInvariance == SystemSpec => [](SystemTypeOK /\ IInv)
<1>1. SystemInit => IInv
  BY IInvInit DEF SystemInit
<1>2. SystemTypeOK /\ SystemTypeOK' /\ IInv /\ [SystemNext]_allVars => IInv'
  BY StepOfParts, IInvStep, ClearKeepsIInv DEF SystemTypeOK
<1>. QED
  BY <1>1, <1>2, SystemTypeCorrect, PTL DEF SystemSpec

(* However actors are stopped, the handlers of one of them never run at    *)
(* the same time.                                                          *)
THEOREM OwnerUniqueDespiteStops == SystemSpec => []OneOwner
<1>1. IInv => OneOwner
  BY DEF IInv
<1>. QED
  BY <1>1, SystemInvariance, PTL

(* Nor is a message overlooked at the end of a drain.                      *)
THEOREM WakeupKeptDespiteStops == SystemSpec => []NoLostWakeup
<1>1. IInv => NoLostWakeup
  BY DEF IInv
<1>. QED
  BY <1>1, SystemInvariance, PTL

-----------------------------------------------------------------------------
(* The two maps agree.  A name may be taken by several actors; only the    *)
(* one it leads to counts.                                                 *)
THEOREM NamesMatchAlways == SystemSpec => []NamesMatch
<1>1. SystemInit => NamesMatch
  BY ActorSystemAssumption DEF SystemInit, NamesMatch
<1>2. SystemTypeOK /\ NamesMatch /\ [SystemNext]_allVars => NamesMatch'
  <2>. SUFFICES ASSUME SystemTypeOK, NamesMatch, [SystemNext]_allVars
                PROVE  NamesMatch'
    OBVIOUS
  <2>. USE ActorSystemAssumption, MailboxesAssumption DEF SystemTypeOK, RegistryOK
  <2>1. ASSUME NEW t \in Threads, NEW a \in Actors, NEW n \in Names, Spawn(t, a, n)
        PROVE  NamesMatch'
    <3>1. /\ nameOf[a] = None /\ a \notin reg
          /\ \A b \in Actors : nameOf'[b] = IF b = a THEN n ELSE nameOf[b]
          /\ reg' = reg \cup {a}
          /\ \A b \in reg : b \in Actors /\ b # a
      BY <2>1 DEF Spawn, Spawned
    <3>2. \A m \in Names :
            names'[m] = IF m = n /\ names[n] = None THEN a ELSE names[m]
      BY <2>1 DEF Spawn
    <3>3. \A m \in Names : names'[m] # None
                           => names'[m] \in reg' /\ nameOf'[names'[m]] = m
      BY <3>1, <3>2 DEF NamesMatch
    <3>4. \A b \in Spawned : b \in Spawned' /\ nameOf'[b] = nameOf[b]
      BY <3>1 DEF Spawned
    <3>5. ASSUME NEW b \in reg, \A c \in Spawned' : nameOf'[c] = nameOf'[b] => c = b
          PROVE  names'[nameOf'[b]] = b
      <4>1. b \in Spawned /\ nameOf[b] \in Names
        BY DEF Spawned
      <4>2. names[nameOf[b]] = b
        BY <3>4, <3>5, <4>1 DEF NamesMatch
      <4>3. b # None
        BY <3>1
      <4>. QED
        BY <3>2, <3>4, <4>1, <4>2, <4>3
    <3>6. ASSUME \A c \in Spawned' : nameOf'[c] = nameOf'[a] => c = a
          PROVE  names'[nameOf'[a]] = a
      <4>1. \A c \in Spawned : nameOf[c] # n
        BY <3>1, <3>4, <3>6 DEF Spawned
      <4>2. names[n] = None
        BY <4>1 DEF NamesMatch, Spawned
      <4>. QED
        BY <3>1, <3>2, <4>2
    <3>. QED
      BY <3>1, <3>3, <3>5, <3>6 DEF NamesMatch
  <2>2. ASSUME NEW t \in Threads, Erase(t) PROVE NamesMatch'
    <3>. DEFINE a == regOn[t]
    <3>1. /\ a \in Spawned /\ nameOf[a] \in Names
          /\ reg' = reg \ {a} /\ nameOf' = nameOf
          /\ \A m \in Names : names'[m] = IF m = nameOf[a] THEN None ELSE names[m]
      BY <2>2 DEF Erase, Spawned
    <3>2. Spawned' = Spawned
      BY <3>1 DEF Spawned
    <3>3. \A b \in reg : b \in Spawned /\ nameOf[b] \in Names
      BY DEF Spawned
    <3>. HIDE DEF a
    <3>. QED
      BY <3>1, <3>2, <3>3 DEF NamesMatch
  <2>3. CASE UNCHANGED <<nameOf, reg, names>>
    BY <2>3 DEF NamesMatch, Spawned
  <2>4. \/ UNCHANGED <<nameOf, reg, names>>
        \/ \E t \in Threads : Erase(t)
        \/ \E t \in Threads, a \in Actors, n \in Names : Spawn(t, a, n)
    BY DEF SystemNext, UserStep, RegistryStep, CallSend, CallStop, Lookup, Deref,
       PushMessage, StopLock, Clear, PoolStep, WorkerStep, PopMessage, HandlerReturns, regVars,
       sysVars, allVars
  <2>. QED
    BY <2>1, <2>2, <2>3, <2>4
<1>. QED
  BY <1>1, <1>2, SystemTypeCorrect, PTL DEF SystemSpec

-----------------------------------------------------------------------------
(* The unlocked accesses, while nobody has stopped an actor that another   *)
(* thread was using.  From taking m_lock_maps on, stop then has the actor  *)
(* for itself: whoever wants to send to it waits for the lock.             *)
Alone(t) == Quiet(t, regOn[t])

QuietInv ==
  ~raced =>
    /\ ~fault
    /\ \A t \in Threads : regAt[t] \in {"deref", "push"} => regOn[t] \in reg
    /\ \A t \in Threads : regAt[t] \in {"clear", "erase"} => Alone(t)

(* Appending a value queues no other one.                                  *)
LEMMA AppendOther ==
  ASSUME NEW S, NEW q \in Seq(S), NEW e \in S, NEW x, x # e,
         NEW i \in DOMAIN Append(q, e), Append(q, e)[i] = x
  PROVE  i \in DOMAIN q /\ q[i] = x
  OBVIOUS

(* Being alone lasts while nobody turns to the actor.                      *)
LEMMA AloneKept ==
  ASSUME NEW t \in Threads, Alone(t), regOn'[t] = regOn[t],
         Queued(regOn[t])' => Queued(regOn[t]),
         \A s \in Threads \ {t} : callOn'[s] = regOn[t] => callOn[s] = regOn[t],
         \A s \in Threads \ {t} :
           regOn'[s] = regOn[t] => \/ regAt'[s] \in {"lookup", "stop"}
                                   \/ regOn[s] = regOn[t] /\ regAt'[s] = regAt[s],
         \A w \in Workers \ {t} : jobOn'[w] = regOn[t] => jobOn[w] = regOn[t]
  PROVE  Alone(t)'
  BY DEF Alone, Quiet, Queued

LEMMA QuietStep ==
  ASSUME ~raced, ~raced', SystemTypeOK, QuietInv, [SystemNext]_allVars
  PROVE  QuietInv'
<1>. USE ActorSystemAssumption, MailboxesAssumption
     DEF SystemTypeOK, RegistryOK, At, regVars, faultVars, sysVars, callVars, jobVars, vars
<1>1. ASSUME NEW t \in Threads, NEW a \in Actors, CallSend(t, a) PROVE QuietInv'
  <2>1. ASSUME NEW s \in Threads, regAt'[s] \in {"clear", "erase"} PROVE Alone(s)'
    BY <1>1, <2>1, AloneKept DEF CallSend, Queued, QuietInv
  <2>. QED
    BY <1>1, <2>1 DEF CallSend, QuietInv
<1>2. ASSUME NEW t \in Threads, NEW a \in Actors, CallStop(t, a) PROVE QuietInv'
  <2>1. ASSUME NEW s \in Threads, regAt'[s] \in {"clear", "erase"} PROVE Alone(s)'
    BY <1>2, <2>1, AloneKept DEF CallStop, Queued, QuietInv
  <2>. QED
    BY <1>2, <2>1 DEF CallStop, QuietInv
<1>2a. ASSUME NEW t \in Threads, StopLock(t) PROVE QuietInv'
  <2>1. ASSUME NEW s \in Threads, regAt'[s] \in {"clear", "erase"} PROVE Alone(s)'
    <3>1. s = t
      BY <1>2a, <2>1 DEF StopLock
    <3>2. Quiet(t, regOn[t]) /\ regOn'[t] = regOn[t]
      BY <1>2a DEF StopLock
    <3>. QED
      BY <1>2a, <3>1, <3>2 DEF StopLock, Alone, Quiet, Queued
  <2>. QED
    BY <1>2a, <2>1 DEF StopLock, QuietInv
<1>3. ASSUME NEW t \in Threads, NEW a \in Actors, NEW n \in Names, Spawn(t, a, n)
      PROVE  QuietInv'
  <2>1. ASSUME NEW s \in Threads, regAt'[s] \in {"clear", "erase"} PROVE Alone(s)'
    BY <1>3, <2>1, AloneKept DEF Spawn, Queued, QuietInv
  <2>. QED
    BY <1>3, <2>1 DEF Spawn, QuietInv
<1>4. ASSUME NEW t \in Threads, Lookup(t) PROVE QuietInv'
  <2>1. ASSUME NEW s \in Threads, regAt'[s] \in {"clear", "erase"} PROVE FALSE
    BY <1>4, <2>1 DEF Lookup
  <2>. QED
    BY <1>4, <2>1 DEF Lookup, QuietInv
<1>5. ASSUME NEW t \in Threads, Deref(t) PROVE QuietInv'
  <2>1. regOn[t] \in reg /\ At(t, "push", regOn[t]) /\ fault' = fault
    BY <1>5 DEF Deref, QuietInv
  <2>2. ASSUME NEW s \in Threads, regAt'[s] \in {"clear", "erase"} PROVE Alone(s)'
    <3>1. s # t /\ regAt[s] \in {"clear", "erase"}
      BY <2>1, <2>2
    <3>2. Alone(s)
      BY <3>1 DEF QuietInv
    <3>3. regOn[t] # regOn[s]
      BY <1>5, <3>1, <3>2 DEF Deref, Alone, Quiet
    <3>. QED
      BY <1>5, <2>1, <3>1, <3>2, <3>3, AloneKept DEF Deref, Queued
  <2>. QED
    BY <1>5, <2>1, <2>2 DEF Deref, QuietInv
<1>6. ASSUME NEW t \in Threads, PushMessage(t) PROVE QuietInv'
  <2>1. /\ regAt[t] = "push" /\ At(t, "idle", None)
        /\ callOn' = [callOn EXCEPT ![t] = regOn[t]]
        /\ UNCHANGED <<reg, jobs, jobOn>>
    BY <1>6 DEF PushMessage, Push, Call
  <2>2. \A s \in Threads : regAt[s] \in {"clear", "erase"} => s # t /\ regOn[s] # regOn[t]
    BY <2>1 DEF Alone, Quiet, QuietInv
  <2>3. ~fault'
    BY <1>6, <2>2 DEF PushMessage, MeetsClear, Clearing
  <2>4. ASSUME NEW s \in Threads, regAt'[s] \in {"clear", "erase"} PROVE Alone(s)'
    <3>1. s # t /\ regAt[s] \in {"clear", "erase"}
      BY <2>1, <2>4
    <3>2. callOn \in [Threads -> Actors \cup {None}] /\ Alone(s)
      BY <3>1 DEF TypeOK, QuietInv
    <3>. QED
      BY <2>1, <2>2, <3>1, <3>2, AloneKept DEF Queued
  <2>. QED
    BY <2>1, <2>3, <2>4 DEF QuietInv
<1>7. ASSUME NEW t \in Threads, Clear(t) PROVE QuietInv'
  <2>1. ASSUME NEW s \in Threads, regAt'[s] \in {"clear", "erase"} PROVE Alone(s)'
    BY <1>7, <2>1, AloneKept DEF Clear, Queued, QuietInv
  <2>. QED
    BY <1>7, <2>1 DEF Clear, QuietInv
<1>8. ASSUME NEW t \in Threads, Erase(t) PROVE QuietInv'
  <2>1. ASSUME NEW s \in Threads, regAt'[s] \in {"clear", "erase"} PROVE FALSE
    BY <1>8, <2>1 DEF Erase
  <2>2. ASSUME NEW s \in Threads, regAt'[s] \in {"deref", "push"} PROVE regOn'[s] \in reg'
    <3>1. s # t /\ regAt[s] \in {"deref", "push"} /\ regOn'[s] = regOn[s]
      BY <1>8, <2>2 DEF Erase
    <3>2. regOn[s] # regOn[t]
      BY <1>8, <3>1 DEF Erase, Alone, Quiet, QuietInv
    <3>. QED
      BY <1>8, <3>1, <3>2 DEF Erase, QuietInv
  <2>. QED
    BY <1>8, <2>1, <2>2 DEF Erase, QuietInv
<1>9. ASSUME UNCHANGED sysVars,
             \A s \in Threads : regAt[s] \in {"clear", "erase"} => Alone(s)'
      PROVE  QuietInv'
  BY <1>9 DEF QuietInv
<1>10. ASSUME NEW t \in Threads, PoolStep(t) PROVE QuietInv'
  <2>1. ASSUME NEW s \in Threads, regAt[s] \in {"clear", "erase"} PROVE Alone(s)'
    <3>1. Alone(s) /\ callAt[s] = "idle" /\ regOn[s] \in Actors
      BY <2>1 DEF QuietInv, Spawned
    <3>2. t # s /\ callOn[t] # regOn[s]
      BY <1>10, <3>1 DEF PoolStep, CallStep, AddToPool, Submit, Enqueue, Alone, Quiet
    <3>3. \A r \in Threads : callOn'[r] = regOn[s] => callOn[r] = regOn[s]
      BY <1>10, <3>1 DEF PoolStep, CallStep, AddToPool, Submit, Enqueue, Call, Return, TypeOK
    <3>4. Queued(regOn[s])' => Queued(regOn[s])
      <4>1. jobs' = jobs \/ jobs' = Append(jobs, callOn[t])
        BY <1>10 DEF PoolStep, CallStep, AddToPool, Submit, Enqueue
      <4>2. regOn' = regOn
        BY <1>10 DEF PoolStep
      <4>3. jobs \in Seq(Actors) /\ callOn[t] \in Actors
        BY <1>10 DEF TypeOK, PoolStep, CallStep, AddToPool, Submit, Enqueue
      <4>4. ASSUME NEW i \in DOMAIN jobs', jobs'[i] = regOn[s]
            PROVE  i \in DOMAIN jobs /\ jobs[i] = regOn[s]
        <5>1. CASE jobs' = jobs
          BY ONLY <4>4, <5>1
        <5>2. CASE jobs' = Append(jobs, callOn[t])
          BY ONLY <3>2, <4>3, <4>4, <5>2, AppendOther
        <5>. QED
          BY ONLY <4>1, <5>1, <5>2
      <4>. QED
        BY <4>2, <4>4 DEF Queued
    <3>5. regOn' = regOn /\ regAt' = regAt
      BY <1>10 DEF PoolStep
    <3>6. \A w \in Workers : jobOn'[w] = regOn[s] => jobOn[w] = regOn[s]
      <4>1. CASE AddToPool(t) \/ Submit(t)
        BY <4>1 DEF AddToPool, Submit
      <4>2. CASE Enqueue(t)
        BY <3>1, <4>2, StaffSteps, StaffIsNobody
      <4>. QED
        BY <1>10, <4>1, <4>2 DEF PoolStep, CallStep
    <3>. QED
      BY <3>1, <3>3, <3>4, <3>5, <3>6, AloneKept
  <2>. QED
    BY <1>9, <1>10, <2>1 DEF PoolStep
<1>11. ASSUME NEW w \in Workers, UNCHANGED sysVars,
              \/ TakeJob(w) \/ Enter(w) \/ RunBegin(w) \/ RunEnd(w)
              \/ Leave(w) \/ Recheck(w) \/ Retire(w)
       PROVE  QuietInv'
  <2>1. ASSUME NEW s \in Threads, regAt[s] \in {"clear", "erase"} PROVE Alone(s)'
    <3>1. Alone(s) /\ callAt[s] = "idle" /\ regOn[s] \in Actors
          /\ (s \in Workers => jobAt[s] = "handle")
      BY <2>1 DEF QuietInv, Spawned
    <3>2. \A v \in Workers \ {s} : jobOn'[v] = regOn[s] => jobOn[v] = regOn[s]
      <4>1. CASE TakeJob(w)
        BY <3>1, <4>1 DEF TakeJob, Job, Alone, Quiet, Queued, TypeOK
      <4>2. CASE ~TakeJob(w)
        BY <1>11, <3>1, <4>2 DEF Enter, RunBegin, RunEnd, Leave, Recheck, Retire, Job, TypeOK
      <4>. QED
        BY <4>1, <4>2
    <3>3. \A r \in Threads \ {s} : callOn'[r] = regOn[s] => callOn[r] = regOn[s]
      <4>1. CASE Recheck(w)
        <5>1. w # s
          BY <3>1, <4>1 DEF Recheck
        <5>2. jobOn[w] # regOn[s]
          BY <3>1, <5>1 DEF Alone, Quiet
        <5>. QED
          BY <4>1, <5>2 DEF Recheck, Call, TypeOK
      <4>2. CASE ~Recheck(w)
        BY <1>11, <4>2 DEF TakeJob, Enter, RunBegin, RunEnd, Leave, Retire
      <4>. QED
        BY <4>1, <4>2
    <3>4. Queued(regOn[s])' => Queued(regOn[s])
      <4>1. jobs' = jobs \/ (jobs # <<>> /\ jobs' = Tail(jobs))
        BY <1>11 DEF TakeJob, Enter, RunBegin, RunEnd, Leave, Recheck, Retire
      <4>2. jobs \in Seq(Actors) /\ regOn' = regOn
        BY <1>11 DEF TypeOK
      <4>3. ASSUME NEW i \in DOMAIN jobs', jobs'[i] = regOn[s], jobs' # jobs
            PROVE  i + 1 \in DOMAIN jobs /\ jobs[i + 1] = regOn[s]
        BY <4>1, <4>2, <4>3, SMTT(40)
      <4>. QED
        BY <4>2, <4>3 DEF Queued
    <3>. QED
      BY <1>11, <3>1, <3>2, <3>3, <3>4, AloneKept
  <2>. QED
    BY <1>9, <1>11, <2>1
<1>12. ASSUME NEW w \in Workers, PopMessage(w) PROVE QuietInv'
  <2>1. jobAt[w] = "pop" /\ regAt[w] = "idle"
    BY <1>12 DEF PopMessage, Pop, Threads, TypeOK
  <2>2. \A s \in Threads : regAt[s] \in {"clear", "erase"} => s # w /\ regOn[s] # jobOn[w]
    BY <2>1 DEF Alone, Quiet, QuietInv
  <2>3. ~fault'
    BY <1>12, <2>2 DEF PopMessage, MeetsClear, Clearing
  <2>4. /\ UNCHANGED <<reg, regAt, regOn, jobs, callOn>>
        /\ jobOn' = jobOn
    BY <1>12 DEF PopMessage, Pop, Job, TypeOK
  <2>5. ASSUME NEW s \in Threads, regAt[s] \in {"clear", "erase"} PROVE Alone(s)'
    BY <2>4, <2>5, AloneKept DEF Queued, QuietInv
  <2>. QED
    BY <2>3, <2>4, <2>5 DEF QuietInv
<1>13. CASE UNCHANGED allVars
  BY <1>13 DEF allVars, QuietInv, Alone, Quiet, Queued
<1>. QED
  BY <1>1, <1>2, <1>2a, <1>3, <1>4, <1>5, <1>6, <1>7, <1>8, <1>10, <1>11, <1>12, <1>13
  DEF SystemNext, UserStep, RegistryStep, WorkerStep, HandlerReturns

(* Nothing takes back that an actor was stopped while it was in use.       *)
LEMMA RacedLasts ==
  ASSUME [SystemNext]_allVars, raced
  PROVE  raced'
  BY DEF SystemNext, UserStep, RegistryStep, PoolStep, WorkerStep, HandlerReturns, CallSend,
     CallStop, Spawn, Lookup, Deref, PushMessage, StopLock, Clear, Erase, PopMessage,
     faultVars, sysVars, allVars

(* Unless an actor is stopped while another thread is using it, the reads  *)
(* after the lock and the clear() without the mailbox's mutex are          *)
(* harmless.                                                               *)
THEOREM QuietStopsAreHarmless == SystemSpec => []QuietStopsAreSafe
<1>1. SystemInit => QuietInv
  BY DEF SystemInit, QuietInv
<1>2. SystemTypeOK /\ QuietInv /\ [SystemNext]_allVars => QuietInv'
  <2>. SUFFICES ASSUME SystemTypeOK, QuietInv, [SystemNext]_allVars PROVE QuietInv'
    OBVIOUS
  <2>1. CASE raced'
    BY <2>1 DEF QuietInv
  <2>2. CASE ~raced'
    BY <2>2, RacedLasts, QuietStep
  <2>. QED
    BY <2>1, <2>2
<1>3. SystemTypeOK /\ QuietInv => QuietStopsAreSafe
  BY DEF QuietInv, QuietStopsAreSafe
<1>. QED
  BY <1>1, <1>2, <1>3, SystemTypeCorrect, PTL DEF SystemSpec

-----------------------------------------------------------------------------
(* A stopped actor's inflow: only PushMessage adds to a mailbox, and it    *)
(* uses up a sender that was on its way.                                   *)
OnTheWay(a) == {t \in Threads : regAt[t] = "push" /\ regOn[t] = a}

LEMMA FiniteOnTheWay ==
  ASSUME NEW a
  PROVE  IsFiniteSet(OnTheWay(a)) /\ Cardinality(OnTheWay(a)) \in Nat
<1>1. IsFiniteSet(OnTheWay(a))
  BY ActorSystemAssumption, FS_Subset DEF OnTheWay
<1>. QED
  BY <1>1, FS_CardinalityType

LEMMA InflowKept ==
  ASSUME NEW a \in Actors, mbox \in [Actors -> Seq(Msg)],
         Len(mbox'[a]) \in Nat, Len(mbox'[a]) <= Len(mbox[a]),
         {t \in Threads : regAt'[t] = "push" /\ regOn'[t] = a} \subseteq OnTheWay(a)
  PROVE  Outstanding(a)' <= Outstanding(a)
<1>. DEFINE S == {t \in Threads : regAt'[t] = "push" /\ regOn'[t] = a}
<1>1. IsFiniteSet(S) /\ Cardinality(S) <= Cardinality(OnTheWay(a)) /\ Cardinality(S) \in Nat
  BY FiniteOnTheWay, FS_Subset, FS_CardinalityType
<1>2. Cardinality(OnTheWay(a)) \in Nat /\ Len(mbox[a]) \in Nat
  BY FiniteOnTheWay
<1>3. Outstanding(a)' = Len(mbox'[a]) + Cardinality(S)
  BY DEF Outstanding
<1>4. Outstanding(a) = Len(mbox[a]) + Cardinality(OnTheWay(a))
  BY DEF Outstanding, OnTheWay
<1>. HIDE DEF S
<1>. QED
  BY <1>1, <1>2, <1>3, <1>4

LEMMA InflowStep ==
  ASSUME SystemTypeOK, [SystemNext]_allVars, NEW a \in Spawned \ reg
  PROVE  Outstanding(a)' <= Outstanding(a)
<1>. USE DEF SystemTypeOK, RegistryOK, At, regVars, sysVars, callVars, jobVars, vars
<1>0. a \in Actors /\ mbox \in [Actors -> Seq(Msg)] /\ Len(mbox[a]) \in Nat
  BY DEF Spawned, TypeOK
<1>1. ASSUME NEW t \in Threads, PushMessage(t) PROVE Outstanding(a)' <= Outstanding(a)
  <2>1. /\ regAt[t] = "push" /\ At(t, "idle", None) /\ regOn[t] \in Actors
        /\ \E m : mbox' = [mbox EXCEPT ![regOn[t]] = Append(@, m)]
    BY <1>1 DEF PushMessage, Push, Spawned
  <2>2. CASE regOn[t] # a
    <3>1. mbox'[a] = mbox[a]
      BY <1>0, <2>1, <2>2
    <3>2. {s \in Threads : regAt'[s] = "push" /\ regOn'[s] = a} \subseteq OnTheWay(a)
      BY <2>1 DEF OnTheWay
    <3>. QED
      BY <1>0, <3>1, <3>2, InflowKept
  <2>3. CASE regOn[t] = a
    <3>. DEFINE S == {s \in Threads : regAt'[s] = "push" /\ regOn'[s] = a}
    <3>1. S = OnTheWay(a) \ {t} /\ t \in OnTheWay(a)
      BY <2>1, <2>3 DEF OnTheWay
    <3>2. Cardinality(S) = Cardinality(OnTheWay(a)) - 1
      <4>1. IsFiniteSet(OnTheWay(a))
        BY FiniteOnTheWay
      <4>2. Cardinality(OnTheWay(a) \ {t}) = Cardinality(OnTheWay(a)) - 1
        BY <3>1, <4>1, FS_RemoveElement
      <4>. QED
        BY ONLY <3>1, <4>2
    <3>3. Len(mbox'[a]) = Len(mbox[a]) + 1
      BY <1>0, <2>1, <2>3
    <3>4. Outstanding(a)' = Len(mbox'[a]) + Cardinality(S)
      BY DEF Outstanding
    <3>5. Outstanding(a) = Len(mbox[a]) + Cardinality(OnTheWay(a))
      BY DEF Outstanding, OnTheWay
    <3>. HIDE DEF S
    <3>. QED
      BY <1>0, <3>2, <3>3, <3>4, <3>5, FiniteOnTheWay
  <2>. QED
    BY <2>2, <2>3
<1>2. ASSUME NEW t \in Threads, Deref(t) PROVE Outstanding(a)' <= Outstanding(a)
  <2>1. {s \in Threads : regAt'[s] = "push" /\ regOn'[s] = a} \subseteq OnTheWay(a)
    BY <1>2 DEF Deref, OnTheWay
  <2>. QED
    BY <1>0, <1>2, <2>1, InflowKept DEF Deref
<1>3. ASSUME NEW t \in Threads, Clear(t) PROVE Outstanding(a)' <= Outstanding(a)
  <2>1. mbox'[a] \in {mbox[a], <<>>}
    BY <1>0, <1>3 DEF Clear
  <2>2. Len(mbox'[a]) \in Nat /\ Len(mbox'[a]) <= Len(mbox[a])
    BY <1>0, <2>1
  <2>3. {s \in Threads : regAt'[s] = "push" /\ regOn'[s] = a} \subseteq OnTheWay(a)
    BY <1>3 DEF Clear, OnTheWay
  <2>. QED
    BY <1>0, <2>2, <2>3, InflowKept
<1>4. ASSUME NEW w \in Workers, PopMessage(w) PROVE Outstanding(a)' <= Outstanding(a)
  <2>1. mbox'[a] \in {mbox[a], Tail(mbox[a])} /\ (mbox'[a] # mbox[a] => mbox[a] # <<>>)
    <3>1. \/ mbox' = mbox
          \/ mbox[jobOn[w]] # <<>> /\ mbox' = [mbox EXCEPT ![jobOn[w]] = Tail(@)]
      BY <1>4 DEF PopMessage, Pop
    <3>2. CASE mbox' = mbox
      BY <3>2
    <3>3. CASE mbox[jobOn[w]] # <<>> /\ mbox' = [mbox EXCEPT ![jobOn[w]] = Tail(@)]
      <4>1. CASE a = jobOn[w]
        BY <1>0, <3>3, <4>1
      <4>2. CASE a # jobOn[w]
        BY <1>0, <3>3, <4>2
      <4>. QED
        BY <4>1, <4>2
    <3>. QED
      BY <3>1, <3>2, <3>3
  <2>2. Len(mbox'[a]) \in Nat /\ Len(mbox'[a]) <= Len(mbox[a])
    BY <1>0, <2>1
  <2>3. {s \in Threads : regAt'[s] = "push" /\ regOn'[s] = a} \subseteq OnTheWay(a)
    BY <1>4 DEF PopMessage, OnTheWay
  <2>. QED
    BY <1>0, <2>2, <2>3, InflowKept
<1>5. ASSUME NEW t \in Threads, UserStep(t) \/ Lookup(t) \/ StopLock(t) \/ Erase(t)
      PROVE  Outstanding(a)' <= Outstanding(a)
  <2>1. mbox' = mbox
    BY <1>5 DEF UserStep, CallSend, CallStop, Spawn, Lookup, StopLock, Erase
  <2>2. {s \in Threads : regAt'[s] = "push" /\ regOn'[s] = a} \subseteq OnTheWay(a)
    BY <1>5, ZenonT(60) DEF UserStep, CallSend, CallStop, Spawn, Lookup, StopLock, Erase, OnTheWay
  <2>. QED
    BY <1>0, <2>1, <2>2, InflowKept
<1>6. ASSUME mbox' = mbox, UNCHANGED sysVars
      PROVE  Outstanding(a)' <= Outstanding(a)
  BY <1>0, <1>6, InflowKept DEF OnTheWay
<1>7. ASSUME NEW t \in Threads, PoolStep(t) PROVE Outstanding(a)' <= Outstanding(a)
  BY <1>6, <1>7 DEF PoolStep, CallStep, AddToPool, Submit, Enqueue
<1>8. ASSUME NEW w \in Workers, UNCHANGED sysVars,
             \/ TakeJob(w) \/ Enter(w) \/ RunBegin(w) \/ RunEnd(w)
             \/ Leave(w) \/ Recheck(w) \/ Retire(w)
      PROVE  Outstanding(a)' <= Outstanding(a)
  BY <1>6, <1>8 DEF TakeJob, Enter, RunBegin, RunEnd, Leave, Recheck, Retire
<1>9. CASE UNCHANGED allVars
  BY <1>6, <1>9 DEF allVars
<1>. QED
  BY <1>1, <1>2, <1>3, <1>4, <1>5, <1>7, <1>8, <1>9
  DEF SystemNext, RegistryStep, WorkerStep, HandlerReturns

(* What is still to reach a stopped actor only gets less.                  *)
THEOREM StopCutsInflow == SystemSpec => StopEndsInflow
<1>1. SystemTypeOK /\ [SystemNext]_allVars
        => \A a \in Spawned \ reg : Outstanding(a)' <= Outstanding(a)
  BY InflowStep
<1>. QED
  BY <1>1, SystemTypeCorrect, PTL DEF SystemSpec, StopEndsInflow

-----------------------------------------------------------------------------
(* The refinement.  The abstract Stop is Clear; Erase, later, moves the    *)
(* actor from one part of Cleared to the other.                            *)
ClearRegistered == \A t \in Threads : regAt[t] = "clear" => regOn[t] \in reg

LEMMA ClearRegisteredStep ==
  SystemTypeOK /\ ClearRegistered /\ [SystemNext]_allVars => ClearRegistered'
<1>. SUFFICES ASSUME SystemTypeOK, ClearRegistered, [SystemNext]_allVars
              PROVE  ClearRegistered'
  OBVIOUS
<1>. USE DEF SystemTypeOK, RegistryOK, ClearRegistered, At, regVars, sysVars
<1>1. ASSUME NEW t \in Threads, UserStep(t) PROVE ClearRegistered'
  BY <1>1 DEF UserStep, CallSend, CallStop, Spawn
<1>2. ASSUME NEW t \in Threads,
             Lookup(t) \/ Deref(t) \/ PushMessage(t) \/ Clear(t)
      PROVE  ClearRegistered'
  BY <1>2 DEF Lookup, Deref, PushMessage, Clear
<1>3. ASSUME NEW t \in Threads, StopLock(t) \/ Erase(t) PROVE ClearRegistered'
  BY <1>3, ActorSystemAssumption DEF StopLock, Erase
<1>4. CASE UNCHANGED <<reg, regAt, regOn>>
  BY <1>4
<1>. QED
  BY <1>1, <1>2, <1>3, <1>4 DEF SystemNext, RegistryStep, PoolStep, WorkerStep,
     PopMessage, HandlerReturns, allVars

LEMMA ClearedKept ==
  ASSUME SystemTypeOK, ClearRegistered, [SystemNext]_allVars,
         \A t \in Threads : ~Clear(t)
  PROVE  Cleared' = Cleared
<1>. USE DEF SystemTypeOK, RegistryOK, At, regVars, sysVars, vars
<1>1. ASSUME NEW t \in Threads, NEW a \in Actors, NEW n \in Names, Spawn(t, a, n)
      PROVE  Cleared' = Cleared
  <2>1. Spawned' = Spawned \cup {a} /\ reg' = reg \cup {a} /\ a \notin Spawned
    BY <1>1, ActorSystemAssumption DEF Spawn, Spawned
  <2>2. regAt' = regAt /\ regOn' = regOn
    BY <1>1 DEF Spawn
  <2>. QED
    BY <2>1, <2>2 DEF Cleared
<1>2. ASSUME NEW t \in Threads, StopLock(t)
      PROVE  Cleared' = Cleared
  <2>1. Spawned' = Spawned /\ reg' = reg /\ regOn[t] \in Spawned /\ regAt[t] = "stop"
    BY <1>2 DEF StopLock, Spawned
  <2>2. At(t, IF regOn[t] \in reg THEN "clear" ELSE "erase", regOn[t])
    BY <1>2 DEF StopLock
  <2>. QED
    BY <2>1, <2>2 DEF Cleared
<1>3. ASSUME NEW t \in Threads, Erase(t) PROVE Cleared' = Cleared
  <2>1. /\ Spawned' = Spawned /\ reg' = reg \ {regOn[t]} /\ regOn[t] \in Spawned
        /\ regAt[t] = "erase" /\ At(t, "idle", None)
    BY <1>3 DEF Erase, Spawned
  <2>. QED
    BY <2>1 DEF Cleared
<1>4. ASSUME NEW t \in Threads, NEW a \in Actors, CallSend(t, a) \/ CallStop(t, a)
      PROVE  Cleared' = Cleared
  BY <1>4 DEF CallSend, CallStop, UserCode, Cleared, Spawned
<1>5. ASSUME NEW t \in Threads, Lookup(t) \/ Deref(t) \/ PushMessage(t)
      PROVE  Cleared' = Cleared
  BY <1>5 DEF Lookup, Deref, PushMessage, Cleared, Spawned
<1>6. CASE UNCHANGED <<nameOf, reg, regAt, regOn>>
  BY <1>6 DEF Cleared, Spawned
<1>. QED
  BY <1>1, <1>2, <1>3, <1>4, <1>5, <1>6 DEF SystemNext, UserStep, RegistryStep, PoolStep,
     WorkerStep, PopMessage, HandlerReturns, allVars

LEMMA ClearStops ==
  ASSUME SystemTypeOK, ClearRegistered, NEW t \in Threads, Clear(t)
  PROVE  System!Next
<1>. DEFINE a == regOn[t]
<1>. USE DEF SystemTypeOK, RegistryOK, At, regVars
<1>1. a \in Actors /\ a \in Spawned /\ a \in reg /\ regAt[t] = "clear"
  BY DEF Clear, ClearRegistered, Spawned
<1>2. \A s \in Threads : regAt[s] = "erase" => s = t
  BY <1>1, ActorSystemAssumption
<1>3. a \notin Cleared
  BY <1>1, <1>2 DEF Cleared
<1>4. /\ Spawned' = Spawned /\ reg' = reg
      /\ regAt' = [regAt EXCEPT ![t] = "erase"] /\ regOn' = [regOn EXCEPT ![t] = a]
  BY DEF Clear, Spawned
<1>5. Cleared' = Cleared \cup {a}
  BY <1>1, <1>2, <1>4 DEF Cleared
<1>6. mbox' = [mbox EXCEPT ![a] = <<>>] /\ Running' = Running
  BY RunningKept DEF Clear, jobVars
<1>. HIDE DEF a
<1>. QED
  BY <1>1, <1>3, <1>5, <1>6 DEF System!Next, System!Stop

LEMMA SystemStepImplements ==
  ASSUME SystemTypeOK, SystemTypeOK', IInv, ClearRegistered, [SystemNext]_allVars
  PROVE  [System!Next]_(System!vars)
<1>1. CASE \E t \in Threads : Clear(t)
  BY <1>1, ClearStops
<1>2. CASE \A t \in Threads : ~Clear(t)
  <2>1. Cleared' = Cleared
    BY <1>2, ClearedKept
  <2>2. [Abstract!Next]_(Abstract!vars)
    BY <1>2, StepOfParts, StepImplements DEF SystemTypeOK, IInv
  <2>3. CASE UNCHANGED Abstract!vars
    BY <2>1, <2>3 DEF Abstract!vars, System!vars
  <2>4. ASSUME NEW a \in Actors, NEW m \in Msg, Abstract!Send(a, m) PROVE System!Next
    BY <2>1, <2>4 DEF Abstract!Send, System!Next, System!Send
  <2>5. ASSUME NEW a \in Actors, Abstract!Start(a) PROVE System!Next
    BY <2>1, <2>5 DEF Abstract!Start, System!Next, System!Start
  <2>6. ASSUME NEW a \in Actors, Abstract!Finish(a) PROVE System!Next
    BY <2>1, <2>6 DEF Abstract!Finish, System!Next, System!Finish
  <2>7. ASSUME NEW a \in Actors, Abstract!Stop(a) PROVE FALSE
    BY <2>7 DEF Abstract!Stop
  <2>. QED
    BY <2>2, <2>3, <2>4, <2>5, <2>6, <2>7 DEF Abstract!Next
<1>. QED
  BY <1>1, <1>2

(* The whole library, up to the first undefined behaviour, is one queue of *)
(* messages per actor, which stop empties once.                            *)
THEOREM SystemRefinement == SystemSpec => SystemImplementsActorModel
<1>1. SystemInit => System!Init /\ ClearRegistered
  <2>. SUFFICES ASSUME SystemInit PROVE System!Init /\ ClearRegistered
    OBVIOUS
  <2>1. Cleared = {}
    BY DEF SystemInit, Cleared, Spawned
  <2>. QED
    BY <2>1 DEF SystemInit, Init, System!Init, Running, ClearRegistered
<1>2. /\ SystemTypeOK /\ SystemTypeOK' /\ IInv /\ ClearRegistered /\ [SystemNext]_allVars
      => [System!Next]_(System!vars)
  BY SystemStepImplements
<1>. QED
  BY <1>1, <1>2, ClearRegisteredStep, SystemInvariance, PTL
  DEF SystemSpec, SystemImplementsActorModel, System!Spec

=============================================================================
