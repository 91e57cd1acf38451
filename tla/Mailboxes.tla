------------------------------ MODULE Mailboxes ------------------------------
(***************************************************************************)
(* How a message gets from send() to its handler: actor_system::send_as    *)
(* pushes a closure into the receiver's mailbox, the mailbox's m_in_pool   *)
(* flag decides who hands the mailbox to the thread pool, and the pool job *)
(* of actor_system::pool_mailbox drains it.  The receiver has already been *)
(* found here and no actor is stopped: ActorSystem adds the registry.      *)
(*                                                                         *)
(* A step is one critical section, or one access to an atomic.  The pool   *)
(* is its job queue (queue_wrapper<Sequence>) and workers that retire when *)
(* they find it empty; add_job creates a worker or does not.  ThreadPool   *)
(* says when they do.                                                      *)
(***************************************************************************)
EXTENDS Naturals, Sequences, FiniteSets

CONSTANTS
  Actors,      (* the actors; each has one mailbox                            *)
  Clients,     (* threads of the program that call send() and send_as()       *)
  Workers,     (* threads of the pool, there or not; they send from handlers  *)
  None,        (* the default actor_address, and "nothing" elsewhere          *)
  QueueLimit,  (* the pool's m_queue_limit; 0 stands for no limit             *)
  MaxSends     (* bound on the number of messages pushed                      *)

Threads == Clients \cup Workers

(* A message is the closure send_as builds.  It keeps the sender's address *)
(* for m_sender; n, the order of the pushes, tells messages apart.         *)
Msg == [n : 1..MaxSends, from : Actors \cup {None}]

ASSUME MailboxesAssumption ==
  /\ Clients \cap Workers = {}
  /\ IsFiniteSet(Actors)
  /\ None \notin Actors
  /\ None \notin Msg
  /\ QueueLimit \in Nat
  /\ MaxSends \in Nat

VARIABLES
  mbox,    (* mbox[a]: m_mailbox, the closures waiting in a's mailbox          *)
  inPool,  (* inPool[a]: m_in_pool of a's mailbox                              *)
  jobs,    (* the pool's m_queue: each job is a pool_mailbox lambda for an a   *)
  callAt,  (* callAt[t]: where t is in send_as or pool_mailbox                 *)
  callOn,  (* callOn[t]: the mailbox that call is about                        *)
  jobAt,   (* jobAt[w]: where w is in the pool_mailbox lambda; "gone" when w   *)
           (* is not there, or has made up its mind to retire                  *)
  jobOn,   (* jobOn[w]: the mailbox that job drains                            *)
  func,    (* func[w]: the closure popped and not yet finished                 *)
  sender,  (* sender[a]: act->m_sender                                         *)
  sent     (* how many messages have been pushed                               *)

callVars == <<callAt, callOn>>
jobVars == <<jobAt, jobOn, func>>
vars == <<mbox, inPool, jobs, callAt, callOn, jobAt, jobOn, func, sender, sent>>

Init ==
  /\ mbox = [a \in Actors |-> <<>>]
  /\ inPool = [a \in Actors |-> FALSE]
  /\ jobs = <<>>
  /\ callAt = [t \in Threads |-> "idle"]
  /\ callOn = [t \in Threads |-> None]
  /\ jobAt = [w \in Workers |-> "idle"]
  /\ jobOn = [w \in Workers |-> None]
  /\ func = [w \in Workers |-> None]
  /\ sender = [a \in Actors |-> None]
  /\ sent = 0

-----------------------------------------------------------------------------
(* send_as *)

(* A thread enters or leaves send_as or pool_mailbox.                      *)
Call(t, at, a) ==
  /\ callAt' = [callAt EXCEPT ![t] = at]
  /\ callOn' = [callOn EXCEPT ![t] = a]

Return(t) == Call(t, "idle", None)

(* A client may send at any time, a worker only from inside a handler.     *)
MaySend(t) ==
  /\ callAt[t] = "idle"
  /\ t \in Workers => jobAt[t] = "handle"
  /\ sent < MaxSends

PushInFront(t, a, from) ==  (* mutant of Push: the deque's other end *)
  /\ MaySend(t)
  /\ mbox' = [mbox EXCEPT ![a] = <<[n |-> sent + 1, from |-> from]>> \o @]
  /\ sent' = sent + 1
  /\ Call(t, "check", a)
  /\ UNCHANGED <<inPool, jobs, jobVars, sender>>

(* mb->push(f2): the closure goes to the back of the deque, under m_mutex. *)
Push(t, a, from) ==
  /\ MaySend(t)
  /\ mbox' = [mbox EXCEPT ![a] = Append(@, [n |-> sent + 1, from |-> from])]
  /\ sent' = sent + 1
  /\ Call(t, "check", a)
  /\ UNCHANGED <<inPool, jobs, jobVars, sender>>

ClientSend(t, a) == Push(t, a, None)
ClientSendAs(t, from, a) == Push(t, a, from)

(* The three ways a handler sends: as itself, to whoever sent the message  *)
(* it is handling, and in that sender's name.  get_sender() is m_sender.   *)
ActorSend(w, b) == Push(w, b, jobOn[w])
ActorReply(w) ==
  /\ jobAt[w] = "handle"
  /\ \E b \in Actors : b = sender[jobOn[w]] /\ Push(w, b, jobOn[w])
ActorForward(w, b) ==
  jobAt[w] = "handle" /\ Push(w, b, sender[jobOn[w]])

ClaimsAnyway(a) == Len(mbox[a]) > 0  (* mutant of Claims: m_in_pool not tested *)

(* What mailbox::add_to_pool answers, under m_check_mutex: the mailbox is  *)
(* not in the pool and has something to run.                               *)
Claims(a) == ~inPool[a] /\ Len(mbox[a]) > 0

(* send_as asks add_to_pool; if it claims the mailbox, pool_mailbox is next. *)
AddToPool(t) ==
  /\ callAt[t] = "check"
  /\ LET a == callOn[t] IN
       \/ /\ Claims(a)
          /\ inPool' = [inPool EXCEPT ![a] = TRUE]
          /\ Call(t, "submit", a)
       \/ /\ ~Claims(a)
          /\ Return(t)
          /\ UNCHANGED inPool
  /\ UNCHANGED <<mbox, jobs, jobVars, sender, sent>>

-----------------------------------------------------------------------------
(* pool_mailbox, as called from send_as and from the end of a job *)

OutOfLimitEarly ==  (* mutant of OutOfLimit: off by one *)
  QueueLimit > 0 /\ Len(jobs) + 1 >= QueueLimit

OutOfLimit == QueueLimit > 0 /\ Len(jobs) >= QueueLimit

(* add_job looks at the size of the job queue without its mutex; refused,  *)
(* it returns false, which pool_mailbox does not look at.                  *)
Submit(t) ==
  /\ callAt[t] = "submit"
  /\ \/ OutOfLimit /\ Return(t)
     \/ ~OutOfLimit /\ Call(t, "enqueue", callOn[t])
  /\ UNCHANGED <<mbox, inPool, jobs, jobVars, sender, sent>>

Job(w, at, a) ==
  /\ jobAt' = [jobAt EXCEPT ![w] = at]
  /\ jobOn' = [jobOn EXCEPT ![w] = a]

(* A retired worker's place is taken by a new one.                         *)
Created == \E w \in Workers : jobAt[w] = "gone" /\ Job(w, "idle", None)

(* m_queue.add: emplace_back under the queue's mutex, then notify_one; and *)
(* add_job finds that the pool needs another worker, or that it does not.  *)
Enqueue(t) ==
  /\ callAt[t] = "enqueue"
  /\ jobs' = Append(jobs, callOn[t])
  /\ Return(t)
  /\ Created \/ UNCHANGED <<jobAt, jobOn>>
  /\ UNCHANGED <<mbox, inPool, func, sender, sent>>

-----------------------------------------------------------------------------
(* The job: the lambda of pool_mailbox, run by a worker *)

(* worker_thread: m_queue.get() returns the oldest job.                    *)
TakeJob(w) ==
  /\ jobAt[w] = "idle"
  /\ callAt[w] = "idle"
  /\ jobs # <<>>
  /\ Job(w, "enter", Head(jobs))
  /\ jobs' = Tail(jobs)
  /\ UNCHANGED <<mbox, inPool, callVars, func, sender, sent>>

(* It has waited in vain and apply_for_destory_thread lets it go: it leaves *)
(* the loop, and looks at the queue no more.                               *)
Retire(w) ==
  /\ jobAt[w] = "idle"
  /\ callAt[w] = "idle"
  /\ jobs = <<>>
  /\ Job(w, "gone", None)
  /\ UNCHANGED <<mbox, inPool, jobs, callVars, func, sender, sent>>

(* mb->thread_pool_enter().                                                *)
Enter(w) ==
  /\ jobAt[w] = "enter"
  /\ inPool' = [inPool EXCEPT ![jobOn[w]] = TRUE]
  /\ Job(w, "pop", jobOn[w])
  /\ UNCHANGED <<mbox, jobs, callVars, func, sender, sent>>

PopKeeps(w) ==  (* mutant of Pop: front() without pop_front() *)
  /\ jobAt[w] = "pop"
  /\ LET a == jobOn[w] IN
       \/ /\ mbox[a] # <<>>
          /\ func' = [func EXCEPT ![w] = Head(mbox[a])]
          /\ Job(w, "run", a)
       \/ /\ mbox[a] = <<>>
          /\ Job(w, "leave", a)
          /\ UNCHANGED func
  /\ UNCHANGED <<mbox, inPool, jobs, callVars, sender, sent>>

(* mb->pop(): the oldest closure, or an empty function that ends the loop. *)
Pop(w) ==
  /\ jobAt[w] = "pop"
  /\ LET a == jobOn[w] IN
       \/ /\ mbox[a] # <<>>
          /\ func' = [func EXCEPT ![w] = Head(mbox[a])]
          /\ mbox' = [mbox EXCEPT ![a] = Tail(@)]
          /\ Job(w, "run", a)
       \/ /\ mbox[a] = <<>>
          /\ Job(w, "leave", a)
          /\ UNCHANGED <<mbox, func>>
  /\ UNCHANGED <<inPool, jobs, callVars, sender, sent>>

(* func(): act->m_sender = sender, then act->call enters the handler (or   *)
(* finds none for these types and returns at once).                        *)
RunBegin(w) ==
  /\ jobAt[w] = "run"
  /\ sender' = [sender EXCEPT ![jobOn[w]] = func[w].from]
  /\ Job(w, "handle", jobOn[w])
  /\ UNCHANGED <<mbox, inPool, jobs, callVars, func, sent>>

RunEndKeepsSender(w) ==  (* mutant of RunEnd: m_sender not reset *)
  /\ jobAt[w] = "handle"
  /\ callAt[w] = "idle"
  /\ func' = [func EXCEPT ![w] = None]
  /\ Job(w, "pop", jobOn[w])
  /\ UNCHANGED <<mbox, inPool, jobs, callVars, sender, sent>>

RunEndKeepsFunc(w) ==  (* mutant of RunEnd: the closure is kept *)
  /\ jobAt[w] = "handle"
  /\ callAt[w] = "idle"
  /\ sender' = [sender EXCEPT ![jobOn[w]] = None]
  /\ Job(w, "pop", jobOn[w])
  /\ UNCHANGED <<mbox, inPool, jobs, callVars, func, sent>>

(* The handler returns: act->m_sender = actor_address(), and the closure   *)
(* is dropped when the next one is popped.                                 *)
RunEnd(w) ==
  /\ jobAt[w] = "handle"
  /\ callAt[w] = "idle"
  /\ sender' = [sender EXCEPT ![jobOn[w]] = None]
  /\ func' = [func EXCEPT ![w] = None]
  /\ Job(w, "pop", jobOn[w])
  /\ UNCHANGED <<mbox, inPool, jobs, callVars, sent>>

LeaveForGood(w) ==  (* mutant of Leave: no second add_to_pool *)
  /\ jobAt[w] = "leave"
  /\ inPool' = [inPool EXCEPT ![jobOn[w]] = FALSE]
  /\ Job(w, "idle", None)
  /\ UNCHANGED <<mbox, jobs, callVars, func, sender, sent>>

(* mb->thread_pool_leave().                                                *)
Leave(w) ==
  /\ jobAt[w] = "leave"
  /\ inPool' = [inPool EXCEPT ![jobOn[w]] = FALSE]
  /\ Job(w, "recheck", jobOn[w])
  /\ UNCHANGED <<mbox, jobs, callVars, func, sender, sent>>

(* The second add_to_pool, after leaving; the job is over once it and the  *)
(* pool_mailbox call it may lead to have returned.                         *)
Recheck(w) ==
  /\ jobAt[w] = "recheck"
  /\ LET a == jobOn[w] IN
       \/ /\ Claims(a)
          /\ inPool' = [inPool EXCEPT ![a] = TRUE]
          /\ Call(w, "submit", a)
       \/ /\ ~Claims(a)
          /\ UNCHANGED <<inPool, callVars>>
  /\ Job(w, "idle", None)
  /\ UNCHANGED <<mbox, jobs, func, sender, sent>>

-----------------------------------------------------------------------------
ClientStep(t) ==
  \E a \in Actors :
    \/ ClientSend(t, a)
    \/ \E from \in Actors : ClientSendAs(t, from, a)

HandlerStep(w) ==
  \/ ActorReply(w)
  \/ \E b \in Actors : ActorSend(w, b) \/ ActorForward(w, b)

(* The rest of send_as and of pool_mailbox.                                *)
CallStep(t) == AddToPool(t) \/ Submit(t) \/ Enqueue(t)

(* The job, from m_queue.get() to its end.                                 *)
JobStep(w) ==
  \/ TakeJob(w) \/ Enter(w) \/ Pop(w) \/ RunBegin(w)
  \/ RunEnd(w) \/ Leave(w) \/ Recheck(w)

Next ==
  \/ \E t \in Clients : ClientStep(t)
  \/ \E t \in Threads : CallStep(t)
  \/ \E w \in Workers : HandlerStep(w) \/ JobStep(w) \/ Retire(w)

Spec == Init /\ [][Next]_vars

(* The scheduler runs every thread that can run, a worker that has not     *)
(* retired takes a job if there is one, and handlers return: a handler may *)
(* send, but not for ever.  Nobody has to start a send.                    *)
Fairness ==
  /\ \A t \in Threads : WF_vars(CallStep(t))
  /\ \A w \in Workers : WF_vars(JobStep(w))

FairSpec == Spec /\ Fairness

-----------------------------------------------------------------------------
(* Who is responsible for a mailbox that is in the pool *)

Queued(a) == \E i \in DOMAIN jobs : jobs[i] = a
Submitting(t, a) == callAt[t] \in {"submit", "enqueue"} /\ callOn[t] = a
Draining(w, a) ==
  jobAt[w] \in {"enter", "pop", "run", "handle", "leave"} /\ jobOn[w] = a

Owned(a) ==
  \/ Queued(a)
  \/ \E t \in Threads : Submitting(t, a)
  \/ \E w \in Workers : Draining(w, a)

(* Who is about to ask add_to_pool about a.                                *)
Asking(a) ==
  \/ \E t \in Threads : callAt[t] = "check" /\ callOn[t] = a
  \/ \E w \in Workers : jobAt[w] = "recheck" /\ jobOn[w] = a

Handling(w, a) == jobAt[w] = "handle" /\ jobOn[w] = a

(* The message a is handling, or has been popped to handle.                *)
Running ==
  [a \in Actors |->
     {func[w] : w \in {v \in Workers : jobOn[v] = a /\ func[v] # None}}]

-----------------------------------------------------------------------------
(* Properties *)

(* The types, and which values go together: a call is about an actor, a    *)
(* worker sends from a handler or between two jobs, and holds a closure    *)
(* exactly while it runs it.                                               *)
TypeOK ==
  /\ mbox \in [Actors -> Seq(Msg)]
  /\ inPool \in [Actors -> BOOLEAN]
  /\ jobs \in Seq(Actors)
  /\ callAt \in [Threads -> {"idle", "check", "submit", "enqueue"}]
  /\ callOn \in [Threads -> Actors \cup {None}]
  /\ \A t \in Threads : callAt[t] # "idle" => callOn[t] \in Actors
  /\ jobAt \in [Workers -> {"idle", "enter", "pop", "run", "handle",
                            "leave", "recheck", "gone"}]
  /\ jobOn \in [Workers -> Actors \cup {None}]
  /\ \A w \in Workers : jobAt[w] \notin {"idle", "gone"} => jobOn[w] \in Actors
  /\ \A w \in Workers : callAt[w] # "idle" => jobAt[w] \in {"idle", "handle"}
  /\ func \in [Workers -> Msg \cup {None}]
  /\ \A w \in Workers : jobAt[w] \in {"run", "handle"} <=> func[w] # None
  /\ sender \in [Actors -> Actors \cup {None}]
  /\ sent \in 0..MaxSends

(* A mailbox is in at most one place of the pool: one queued job, or one   *)
(* thread handing it over, or one worker draining it, and then m_in_pool   *)
(* is set.  Two workers never run handlers of one actor at the same time,  *)
(* which is what lets handlers use their actor's members without locks.    *)
OneOwner ==
  /\ \A i, j \in DOMAIN jobs : jobs[i] = jobs[j] => i = j
  /\ \A a \in Actors :
       /\ \A s, t \in Threads : Submitting(s, a) /\ Submitting(t, a) => s = t
       /\ \A v, w \in Workers : Draining(v, a) /\ Draining(w, a) => v = w
       /\ \A t \in Threads : Submitting(t, a) => ~Queued(a)
       /\ \A w \in Workers : Draining(w, a) => ~Queued(a)
       /\ \A t \in Threads, w \in Workers :
            ~(Submitting(t, a) /\ Draining(w, a))
       /\ Owned(a) => inPool[a]

(* No wakeup is lost between push and the end of a drain: a mailbox with a *)
(* message in it is marked as in the pool, or some thread is still going   *)
(* to ask add_to_pool about it.                                            *)
NoLostWakeup ==
  \A a \in Actors : mbox[a] # <<>> => inPool[a] \/ Asking(a)

(* In the pool for good: marked so, with nobody to drain it.               *)
Stranded(a) == inPool[a] /\ ~Owned(a)

(* While there are no more actors than the pool's queue may hold, add_job  *)
(* never refuses, so a mailbox marked as in the pool really has somebody   *)
(* responsible for it.  Past that limit pool_mailbox loses the mailbox for *)
(* good: m_in_pool stays set and nothing will ever drain it.               *)
NoneStranded ==
  (QueueLimit = 0 \/ Cardinality(Actors) <= QueueLimit)
    => \A a \in Actors : ~Stranded(a)

(* What that limit costs: add_job refused once, and the actor never        *)
(* handles anything again, however idle the pool becomes.                  *)
StrandedForGood ==
  [][\A a \in Actors : Stranded(a) => Stranded(a)' /\ Running'[a] = {}]_vars

(* m_sender is the sender of the message being handled, from the first to  *)
(* the last step of the handler, and nobody outside one: get_sender(),     *)
(* reply() and forward() never see another message's sender.               *)
SenderIsCurrent ==
  \A a \in Actors :
    /\ \A w \in Workers : Handling(w, a) => sender[a] = func[w].from
    /\ (\A w \in Workers : ~Handling(w, a)) => sender[a] = None

(* The mailboxes, the flags, the job queue and the workers together behave *)
(* as one queue per actor, handled one message at a time in order.         *)
Abstract == INSTANCE ActorModel
              WITH queue <- mbox, running <- Running, stopped <- {}

ImplementsActorModel == Abstract!Spec

(* Jobs are queued, and all workers have retired.  They have when each saw *)
(* the others still there, and so did the calls of add_job; a mailbox that *)
(* is marked as in the pool makes no further call.                         *)
Deserted == jobs # <<>> /\ \A w \in Workers : jobAt[w] = "gone"

(* Every message pushed is handled by its receiver in the end, unless its  *)
(* mailbox is stranded, or the pool is deserted and stays so.              *)
HandledOrLost ==
  \A a \in Actors, n \in 1..MaxSends :
    (\E i \in DOMAIN mbox[a] : mbox[a][i].n = n)
      ~> \/ Stranded(a)
         \/ \E w \in Workers : Handling(w, a) /\ func[w].n = n
         \/ []Deserted

=============================================================================
