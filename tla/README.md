# A verification of simple-cpp-actor in TLA+

simple-cpp-actor is an in-process actor library in C++14: actors are objects
with typed message handlers, a singleton `actor_system` gives each one a
mailbox, and a thread pool runs the handlers. The library is small, but nearly
every line of it is reached by several threads at once, and its tests are single
threaded or wait with a sleep. This directory models what the threads can do to
one another, checks it with TLC and proves the core of it with TLAPS.

Paths below are relative to the repository's root.

## The system

| component | state | operations | talks to |
|---|---|---|---|
| `mailbox` (`include/snower/actor/mailbox.h`) | a deque of closures with its mutex; the flag `m_in_pool` with a second mutex | push, pop, clear, add_to_pool, thread_pool_enter, thread_pool_leave | `channel` |
| `actor_system`, sending (`actor_system.inl`, `src/actor_system.cpp`) | none of its own | send, send_as, pool_mailbox and the job it submits | registry, mailbox, thread pool, actor |
| `actor_system`, registry | `m_actors`, `m_name_id_map`, both under `m_lock_maps` | spawn, stop, get_actor, get_actor_bundle | actor_address, mailbox |
| `actor` (`actor.h`, `actor.inl`) | `m_handlers`, `m_self`, `m_sender` | handle, unhandle, call; send, reply, forward from a handler | actor_system |
| `caller` (`caller.h`) | one type-erased function | call it if the argument types' hash fits | |
| `actor_address` and ids (`src/actor_address.cpp`) | weak pointers to a local and a remote id | validity, comparison, conversion to an id | registry, which owns the ids |
| `thread_pool` (`thread_pool.h`) | the job queue; `m_current`, `m_running`; the thread and exit lists | start, stop, join, add_job, worker_thread, check_exits | job queues |
| job queues (`thread_pool.h`) | a deque, a multimap by priority, or one by due time | add, get, clear | |
| `channel`, `ring` | an unbounded deque; a fixed array with head and tail | blocking, timed and non-blocking push and pop | |
| `singleton`, `singletons` | one object, or a map of objects by name | get_instance | |
| `logger`, file appenders (`src/logger.cpp`) | appenders; an open file, its size, its next roll-over | write, roll over | |

A send runs in the sender's thread: it looks the receiver up, pushes a closure
that knows the receiver and the sender's address, and asks the mailbox whether it
must be handed to the pool. A pool job drains one mailbox until it is empty,
clears the flag, and asks once more. Handlers run inside that job and may send,
spawn and stop themselves. An actor is held by shared pointers only: whoever drops the last
one, a client in `stop`, a sender, a worker between two messages, runs its destructor there
and then. Every dispatch logs, and for that asks `singletons` for the logger "actor".

What is hard here: the push that arrives while a drain ends; two threads handing
over the same mailbox; a full job queue, whose refusal nobody looks at; the entry
of the map that is read after the lock is gone; `clear()`, which does not take
the mutex that push and pop take; handlers that outlive `stop`; destructors that run under
`m_lock_maps` and call back; workers that retire together; a `join` that holds the mutex a worker
wants; notifications sent without the waiter's mutex; a ring's `clear()`, which takes none at
all; and a map, a list and the levels of a logger that are read without the mutex they are
changed under, or without any. `PROJECT.json` lists them all with their lines and the properties that cover them.

## The modules

`ActorModel` is the abstract specification: a queue of messages per actor,
handled one at a time and in order, emptied once when the actor is stopped.

`Mailboxes` is the core, and shows that the code implements `ActorModel` when
nobody is stopped. A step is one critical section or one access to an atomic.

| variable | code |
|---|---|
| `mbox[a]` | `m_mailbox` of a's mailbox |
| `inPool[a]` | `m_in_pool` |
| `jobs` | the pool's `queue_wrapper<Sequence>`: a job is a `pool_mailbox` lambda |
| `callAt`, `callOn` | where a thread is in `send_as` or `pool_mailbox`, and about which mailbox |
| `jobAt`, `jobOn`, `func` | where a worker is in the lambda, or that it is `"gone"`; for which mailbox, and the closure it popped |
| `sender[a]` | `m_sender` of the actor |
| `sent` | only a bound: the number of pushes |

| action | code |
|---|---|
| `Push` (`ClientSend`, `ClientSendAs`, `ActorSend`, `ActorReply`, `ActorForward`) | `mb->push(f2)` as reached from each way to send |
| `AddToPool` | `mb->add_to_pool()` in `send_as` |
| `Submit`, `Enqueue` with `Created` | `add_job`: the limit, read without the mutex, then the queue, and a new worker or none |
| `TakeJob` | `m_queue.get()` in `worker_thread` |
| `Retire` | `get()` has returned without a job and `apply_for_destory_thread` lets the worker go |
| `Enter`, `Pop`, `RunBegin`, `RunEnd`, `Leave`, `Recheck` | the lambda of `pool_mailbox`, statement by statement |

`Workers` are the places for workers, each taken or not. When a worker may retire and when
`add_job` creates one is `ThreadPool`'s subject; here an idle worker may always retire from an empty queue,
and `add_job` may always find that it needs no other. Retired workers leave jobs behind in
the code as well: the pool of `actor_system` has a minimum of two, but three that find themselves
idle together each still count the others, all leave, and an `add_job` that still counts them
creates nobody. A mailbox that is marked as in the pool makes no further call of `add_job`.

`add_to_pool` reads the deque's size without the deque's mutex. The size is one
aligned word in libc++, the library the README asks for, so the read gives the value
before or after a concurrent push. It cannot be an older one that matters: the
flag's mutex orders it after the pop that the flag's last writer made.

`ActorSystem` extends `Mailboxes` with the registry. `nameOf`, `reg` and `names` are
the local ids and the two maps, `holder` is the thread that has `m_lock_maps` from
one step to the next (only `stop` keeps it that long), `regAt` and `regOn` say where
a thread is in `send_as` before the push, or in `stop`. `send_as` is `CallSend`, `Lookup`
(under the lock), `Deref` (after it) and `PushMessage`; `stop` is `CallStop`,
`Clear` and `Erase`. Reference counts are not variables: who holds the id, the
mailbox and the actor object follows from where the threads are
(`HoldsBundle`, `MailboxAlive`, `ActorAlive`). `Deref` looks through an iterator after the lock is
released. By the C++ standard an `emplace` of `spawn` (`actor_system.cpp:84`) may rehash the map in
between and invalidate it; in libc++, which the build asks for, an iterator is a pointer to the
entry and survives that, and the model takes it so: only erasure makes it stale. When `Deref` meets an erased entry, or a
push or pop may overlap `clear()`, the behaviour is undefined: `fault` is set and
the model says nothing of what comes after. In `ActorSystem` clients send without
a sender and handlers as themselves; `Mailboxes` has the other ways.

`ThreadPool` is the pool itself, from its constructor to the end of its destructor, and
`JobPool` what it promises: jobs are started in the order of their acceptance, once each,
until the pool is closed.

| variable | code |
|---|---|
| `running`, `jobs`, `current` | `m_running`, `m_queue`, `m_current` |
| `at[w]`, `job[w]` | where worker `w` is in `worker_thread`, and the job it runs |
| `woken` | the waiting workers that a notification has reached |
| `threads`, `exits`, `lock` | `m_threads`, `m_exits`, and who keeps `m_threads_mutex` from one step to the next (only `join`) |
| `addAt`, `addJob` | where a thread is in `add_job`, outside or inside a job |
| `ownerAt` | where the owner is in the constructor or in the destructor |
| `launched` | the detached `check_exits` threads that have not looked at `m_exits` yet |
| `found[k]` | the ids a `check_exits` thread has swapped out of `m_exits` and not joined yet |

`start` is `StartLooks` and `StartCreates`; `add_job` is `AddBegin`, `AddLimit`, `AddQueue`, `AddNotify`,
`AddDecide` (the policy's reads of the counter and of the queue's length, one by one),
`AddCreate` and `AddEnd`; `worker_thread` is `Begin`, `Loop`, `Get`, `Wake`, `EndJob`, `Judge`, `Leave` and
`Report`; `check_exits` is launched by `AddEnd` and is `Swap`, at any later time, and `Reap`; the destructor is `Stop`, `Clear`, `NotifyAll`,
`JoinBegin` and `JoinEnd`. A worker's name stands for its thread id and is used again once
the thread is joined. Times are left out: a wait may end at once or late, an idle
idle worker may find itself idle for long enough or not. Outside threads are out of `add_job` when the
destructor begins, as with any object. Nobody waits for `check_exits`, and `join` clears `m_exits`
without `m_exits_mutex`: a thread that swaps at that moment, or uses the pool after its end, is
undefined behaviour in C++. The model lets these accesses happen one after the other, in either
order, and claims nothing of the pool after its end but who is still there.

`JobQueues` is `Sequence`, `Priority` and `Schedule` in one module, `kind` says which: `queue` is
the deque or multimap in its order, `addAt` and `addKey` are where a thread is in `add` and the
key it computed, `at`, `now` and `watch` where a worker is in `get`, the time it read before the
mutex and the due time it waits for. `Clear` empties the queue under the mutex, `NotifyAll` follows
without it; one thread at a time calls `clear`, as only `stop` does. Workers do not retire here.

`Ring` is `ring` and the bounded channel that only forwards to it; `BoundedQueue` is what it
promises. `items`, `head` and `tail` are the members; `at` and `kind` say where a thread is in its
call, and whether that blocks, is timed or returns at once; `woken` and `missed` are the
threads that a notification has reached, and those it came too early for. A push and a pop
have the same steps on the two sides, and an action stands for both. The mapping to
`BoundedQueue` counts modulo `Length + 1`, so that the index on its way round is no item.
`clear()` is `ClearHead` and `ClearTail`: two stores, by any thread at any time, without a mutex and
without a notification. As soon as one meets a call that has its side's mutex, `mixed` is set. From then on the
indices still move as they are coded, but they may be anything to each other: the tests
(`Finds`) may come out either way, `MoveMixed` moves an index without an item, a pop may be an overrun, and
the contents are no longer said (`Remembers`). That keeps the control of the calls, whose return is
checked even then, and claims nothing of the items.

`LogFiles` is one file object of the logger, of any of the three kinds, and the threads
that write to it through one logger or two. `files[s]` is the file with the suffix for time `s`,
as the sequence of the messages in it; `open`, `size` and `timeSet` are `m_file`, `m_file_size`
and whether `m_file_open_time` is set; `call[w]` is what `write` found out before it took the mutex.
`Begin` is `log` up to there, `Write` the rest with `check_file`, `Drop` the same when the file
cannot be opened.

`LogText` is `log_to_stream`, a step per directive, and `level_to_name`. `fmt`, `args`, `at` and `out` are
the format, the arguments left, the pointer and the line so far. `Reference` says what each
position of the format should print, without a loop. `LogPaths`, which it extends so that one run
covers both, is `get_abs_path_name`: `name` is what `split_string` made of the name, `part` the
loop's place in it, `use` the vector of parts kept. `Normal` says which parts should be left, by
matching every `..` with a part like a bracket.

`Lifetimes` is about the shared pointers of `actor_system`: who drops the last one to an actor, and
what its destructor may do there. It leaves out what `Mailboxes` and `ActorSystem` are about (messages
are counted only, the mailbox's two critical sections are one step each) and adds what they leave out:
`get_actor`, the references the program keeps, actors with the empty name, and calls inside
calls.

| variable | code |
|---|---|
| `stack[t]` | the calls thread `t` is in, innermost first: `send_as`, `stop`, `get_actor`, the job of `pool_mailbox`, a handler, a destructor |
| `reg`, `holder` | the keys of `m_actors`, and the thread in `stop` that holds `m_lock_maps` |
| `box[a]`, `inPool[a]`, `jobs` | the number of closures in a's mailbox, `m_in_pool`, the pool's queue |
| `kept` | the actors of which the program keeps an `actor_ref` |
| `named` | the actors whose address can be valid: `is_local` wants a name |
| `dead` | the actors whose destructor has begun |

Reference counts are not variables: `ActorHeld` says who holds a pointer from where the threads
are, and `Drops`, wherever a pointer goes out of scope, begins the destructor if it was the last. At the end of
`send_as` the local pointer to the id goes a moment after the one to the actor, so that the dying actor's own address
can be valid in a destructor there; the model has it invalid. The actor has left the registry by then, so that neither a
send nor a stop finds it.

`Loggers` is the configuration and use of named loggers: `Get`, `Find`, `FindAgain` and `Insert` are
`singletons::get_instance`, with its look at the map before the mutex and the second one after it;
`Set` and `SetField` are the beginning and the store of `enable`, `set_level` and `set_top_level`; `Change` and `Changed`
are `add_appender` and `clear_appender`; `Log`, `LogLock`, `Write` and `LogEnd` are `log` and `logf` from the filter to
the last appender. `Dispatch` extends it with an actor's handler table and `caller`: `Handle`, `Unhandle`, and `call` as
`Call` (which asks for its logger), `Starts`, `Search` and `Invoke`, with a handler that may change the table
while it runs. `handlers` is `m_handlers`; `regs` is a history of the calls of `handle` and `unhandle`,
from which `Meant` says which function the program wants. `fault` is set when two accesses may have
met of which one changes what the other uses and no mutex keeps them apart. There are three such places: `get_instance`'s
map (`Find` against `Insert`), a logger's list of appenders (`Changed` against `Changed` and a `log` that
goes through the list), and its levels and enable flag, plain fields that `log`'s filter reads (`Reads`) and `SetField`
stores. The models stop there: every property of these two modules is about runs up to that point. That there is no
fourth place is read off the code, not checked.

`ActorSystemProofs` (of `Mailboxes` and of `ActorSystem`), `LifetimesProofs`, `ThreadPoolProofs`, `RingProofs`,
`JobQueuesProofs`, `LogFilesProofs`, `LogTextProofs` (of `LogPaths` and of `LogText`) and `DispatchProofs` hold the
proofs. `MCMailboxes`, `MCActorSystem`, `MCRing` and `MCDispatch` add the symmetry sets
for TLC, `MCJobQueues` and `MCLogText` the values of constants a configuration cannot write.
Operators marked "mutant of" are changed versions of an action, as a plausible mistake would
make it; each property is known to fail when one of them is put in the place of the
original (`PROJECT.json`, "mutants").

## What is checked

| run | instance | shows |
|---|---|---|
| `mailboxes_safety` | 2 actors, 2 clients, 2 workers, 4 messages, job queue of 2 | `OneOwner`, `NoLostWakeup`, `NoneStranded`, `SenderIsCurrent`, and that `Mailboxes` implements `ActorModel` |
| `mailboxes_overflow` | 2 actors, 2 clients, 1 worker, 3 messages, job queue of 1 | a refused `add_job` silences the actor for good (`StrandedForGood`); a message is handled, or its actor is silenced so, or all workers have retired and will not come back (`HandledOrLost`) |
| `system_safety` | 2 actors with 2 names, 2 clients, 2 workers, 3 messages, stops at any time | the name map never leads to a stopped actor (`NamesMatch`); no fault unless an actor is stopped that another thread is using (`QuietStopsAreSafe`); `StopEndsInflow`; the whole library implements `ActorModel` up to the first fault |
| `lifetimes` | 2 actors, 2 clients, 1 worker, 3 calls | nothing reaches a destroyed actor and nothing else is destroyed (`DeadStayDead`); a stopped actor is destroyed in the end; every call returns, unless a destructor that runs under `m_lock_maps` calls back |
| `system_stop` | 1 actor, 1 client, 1 worker | expected to fail, see below |
| `pool` | 3 workers, minimum 1, maximum 2, a caller, a `check_exits` thread, 2 jobs | `NoSleepOnWork`, `ExitsExact`, `JobPool` implemented; every accepted job starts unless the workers desert it (`JobsStart`); the destructor returns unless it is blocked as described below |
| `ring_safety` | 2 producers, 2 consumers, 2 items, a ring of 2 | `BoundedQueue` implemented, `clear()` included, until a `clear()` meets a push or pop that has its mutex, or an overrun, for which it takes a wrapping tail or such a meeting (`OverrunOnlyInWrap`); until then notifications get lost in two ways (`WakeupsLostInTwoWays`) |
| `ring_live` | 1 producer, 2 consumers, a ring of 1 | timed and non-blocking calls return, rings cleared meanwhile or not |
| `job_queues` | 2 workers, 2 callers, 3 jobs, 2 clock ticks, all three queues | jobs in the order of their keys, none before its time; an idle pool does not oversleep one |
| `log_files` | 2 writers, 4 messages of lengths 1, 2 and 4, a limit of 3, 2 suffixes | no gap and no disorder in a file, limits kept, files in order |
| `log_text` | every format of up to 5 characters, up to 2 arguments; every level; every path of up to 6 parts | lines are what `Reference` says, levels are called after the nearest name; paths become normal, or climb above the root |
| `dispatch` | 2 threads, 2 loggers, 2 appenders, 2 lines, 3 configuring calls, 2 functions | the function that is meant runs (`HandledAsMeant`); appenders get messages in one order (`LinesInOrder`); no logger is made twice (`CreatedOnce`) |

The actors' hazards need two threads on one mailbox, or three when one stops it; a second
actor to send on from a handler and to compete for the job queue; and, for an end
of a drain to meet a new push and then another drain, three messages. The instances
have that much. A limit of 2 stands for the pool's 1000: what matters is whether it
is below the number of actors, and both cases are run. With room for every actor in the job queue no
mailbox is stranded (`NoneStranded`), and by `HandledOrLost` every message is then handled in the end unless
all workers have retired. One worker is enough for that to happen in `mailboxes_overflow`: it stands for the
last of several.

The pool's minimum and maximum are both met, and one worker more: `start` and `add_job`
look at a counter that new threads increment themselves, so that they can create more than
the maximum. Two jobs let a job add a job. The ring needs two threads on each side for
one to wait while another is inside, and two slots for an index to be in the middle. The
file limit is below some messages and above others, and the clock changes once, so
that a writer can be late. In `lifetimes` the worker is the third thread on an actor, and three calls are
a send that finds it, the stop that overtakes it, and one from the destructor; the second
actor is there for a handler or a destructor of the first to call. In `dispatch` three calls add two
appenders and take one handler back, or register, take back and register again; two lines
through two loggers that share appenders are enough to be in two orders. Six parts climb out of
a directory and above the root. Five characters hold two directives and a letter, or
enough percent signs for both parities.

Deadlock is not checked: bounds on the number of sends, jobs, adds, writes and characters
let every run come to rest, and a stopped pool rests too. What must not get stuck is
stated as a property where there is such a thing.

A finding. `test/test_actor.cpp` stops an actor and asserts at once that its destructor
has run and its address is invalid. `system_stop` shows that `stop` returns while a
handler still runs: the closure in the worker, or the three pointers in another thread's
`send_as`, keep the object alive. The tests pass because they sleep first. What does hold
is that the actor is destroyed in the end (`StoppedAreFreed`), and that only messages
whose sender had found the actor before can still reach it (`StopEndsInflow`).

What else the models show, where no document says otherwise:

- `join` keeps `m_threads_mutex` while it joins. A job whose `add_job` wants to create a thread
  waits for that mutex, `join` for the job: the destructor never returns
  (`JoinBlockedForGood`). This is the only way it does not (`JoinReturns`).
- Workers that find themselves idle together can all leave, also below the minimum; only
  the next `add_job` creates one, and an actor whose mailbox is marked as in the pool never
  calls it: `JobsStart` has that as its exception, `HandledOrLost` as one of the two ways in
  which messages are never handled.
- `check_exits` threads are detached and may run after the pool has gone, on its mutexes and lists;
  `OnlyChecksOutlive` says that they are all that is left.
- While a push has moved the ring's tail past the end of the array and not wrapped it, a
  pop that has caught up takes a slot that holds nothing. `OverrunOnlyInWrap` says that
  there is one other way to this, a `clear()` that meets a call; up to both the ring is a bounded
  FIFO queue. So `ImplementsBoundedQueue` is of use to a program only if it clears a ring when no
  push or pop is under way; calls that sleep in their wait may be.
- The ring notifies without the waiter's mutex. A notification between a waiter's test
  and its wait is lost; with untimed calls, producers and consumers can all end up
  asleep. A producer asleep on a full ring goes on sleeping when `clear()` has emptied it. `WakeupsLostInTwoWays` says
  that as long as no `clear()` meets a call nothing else loses a notification.
- On a schedule, a worker that found the queue empty waits for the idle time. A job whose
  notification went to a worker that is now busy can be late although others wait:
  `SomebodyWatches` holds when no worker is busy, not otherwise.
- Two loggers that share a file object get its mutex in another order than they read
  the clock: a late one reopens, and truncates, the file of the earlier suffix. `FilesInOrder`
  is about one logger and does not see this; `FilesAreSegments` holds for both, but permits truncation, of which it is no
  guard. A splitted file whose suffix comes round again by size (`logger.cpp:365`) is truncated too.
- `get_next_open_time` keeps a reference to a parameter of a constructor that has returned, so
  that whether a roll-over by time is due is arbitrary in `LogFiles`. A splitted file with
  a roll-over in seconds has no suffix function and throws.
- A format that ends in a lone `%` is read past its end, and exactly then; a path with more
  `..` than parts before it pops an empty vector, and exactly then (`LineAsMeant`, `PathAsMeant`). The models
  end there.
- `m_actors.erase` in `stop` can drop the last pointer to the actor, whose destructor then runs under
  `m_lock_maps`. If it sends or stops, its thread waits for itself, and every other send and stop
  with it: `LockedOut`, the only way in which calls do not return (`CallsReturn`).
- An actor with the empty name cannot be stopped: its address is never valid. In `LifeTypeOK` only
  named actors leave the registry.
- `log` and `logf` forward their arguments once per appender. What is of a class type is moved into
  the first, and the others print it empty. The model marks the line of the first appender as `whole`; the second
  part of `LinesInOrder`, that a message has one such line at most, says no more than that.
- A handler whose parameters are references is found for a message sent by reference and then
  not run, because `caller` compares the types again without the reference. `call` reports success.
- While one thread inserts the first logger into `get_instance`'s map, any other that asks for a
  logger, so any dispatch, reads that map without the mutex; appenders and levels may not change while another
  thread logs either. A program is safe from this if the loggers it uses exist and are set up before other
  threads use them.
- `unhandle` of the handler that is running destroys its function object. Nothing of the object is
  used after that, so that this alone does no harm.
- `Priority` serves class 1 first and `PRIORITY_HIGHEST`, which is 10, last; a negative priority is cast to
  an unsigned number and becomes 10 as well. `set_level(LEVEL_NONE)` still lets messages of
  `LEVEL_NONE` through.

Fairness. Weak fairness of every thread's calls and jobs: the operating system runs a
thread that can run, and no code here blocks except on mutexes. A worker of `Mailboxes` that has not
retired takes a job if there is one; nothing keeps it from retiring when there is none, and nothing makes
`add_job` create another. In `Lifetimes` the workers are taken to stay, and the job queue to have room for
every actor: `StoppedAreFreed` is about a pool that keeps its promise, and what happens otherwise is the subject of `Mailboxes`
and `ThreadPool`. For `m_lock_maps` the
same weak fairness says that a waiting thread gets it once it stays free: in `Lifetimes` the calls
are finitely many, so that in the end nobody takes it from under a waiting thread. Handlers and
destructors may send, but must return: the bounds on messages and calls end their sending.
Nothing makes a client start a call, and nothing makes the program drop what it keeps. The bound also hides a limit of
the code: a drain ends only when its mailbox is empty, so actors that keep sending
themselves messages can occupy every worker for ever. In `ThreadPool` every thread's next
step is weakly fair, those of a `check_exits` and the end of a wait included, because every wait there is timed, and so
is the end of a job that is not inside a call; nothing makes the owner destroy the
pool. In `Ring` the steps inside a call are weakly fair; the end of a timed wait, which needs a
mutex that others take again and again, is strongly fair; an untimed wait has no
fairness, not even when it is notified.

## What is proved

All of this for every value of the constants that satisfies the named assumptions of the modules.

`ActorSystemProofs` proves of the mailboxes, for all constants that satisfy `MailboxesAssumption` (the
clients are not workers, `Actors` is finite, the numbers are naturals):

- `TypeCorrect`, `OwnerUnique`, `WakeupKeptAlways`, `SenderCorrect`, `NoStrandedMailbox`: the five
  invariants of `mailboxes_safety`. The inductive invariant `IInv` is their conjunction, and
  each is needed: `OneOwner` for the sender and for the limit, the control-state part of
  `TypeOK` for all the others. `OneOwner` rests on two lemmas, one for steps that give no one
  a mailbox (`OwnersKept`) and one for a claim (`OwnerClaims`): a claim needs a clear flag, and
  with a clear flag nobody owns the mailbox. `NoStrandedMailbox` needs a count: the job
  queue has no duplicates and lacks the actor being submitted, so it is shorter than the
  number of actors (`ShortQueue`, by the pigeonhole theorem of the library).
- `StrandingIsFinal`: the action property `StrandedForGood`, from the types alone.
- `Refinement`: `Spec => ImplementsActorModel`, step by step (`StepImplements`); the pop is the
  abstract `Start` because the worker drains its mailbox alone.

It proves further of the system with the registry, under the assumptions of
`Mailboxes` with finitely many threads and a `None` that is no name, actor or thread:

- `SystemTypeCorrect`.
- `OwnerUniqueDespiteStops`, `WakeupKeptDespiteStops`: what was proved of the mailboxes still holds. By
  `StepOfParts` a step of the system is a step of `Mailboxes`, or none, or a `Clear`, which only
  takes messages away; the lemma `IInvStep` of the mailboxes does the rest.
- `NamesMatchAlways`: inductive with the types.
- `QuietStopsAreHarmless`: the invariant is `QuietInv`, while no race has begun: nobody has a bundle of an
  erased actor, and whoever is in `stop` is `Alone` with the actor, which means that nobody sends to it,
  drains it or has it queued.
- `StopCutsInflow`: only `PushMessage` makes a mailbox longer, and it uses up a sender on its way.
- `SystemRefinement`: `SystemSpec => SystemImplementsActorModel`; the abstract `Stop` is `Clear`, and the
  extra invariant is that the actor to be cleared is still registered.

`ThreadPoolProofs` proves, for every number of workers, callers and `check_exits` threads and every
minimum and maximum (`ThreadPoolAssumption`: workers and callers are finite sets with no
thread in common, `None` is none of the values it is compared with, the numbers are naturals):

- `PoolTypeCorrect`: the types, and that `m_current` counts the live workers. The inductive part is
  `ControlInv`: `Shape`, the types, with `Control`, which ties the places of workers, calls and
  owner to one another (`m_threads` holds a worker from its creation until it is joined, a worker in
  `add_job` is in a job, the mutex is kept exactly while `join` joins, and so on). Only `Begin` and `Leave` change the count
  (`CountBegin`, `CountLeave`).
- `JoinBlockIsFinal` and `OnlyChecksAreLeft` follow from `ControlInv`. The second, `Spec => OnlyChecksOutlive`, says
  that every step after the destructor's return is one of a `check_exits` thread.
- `ExitsKnown`. `ExitsExact` as it stands says too little of the lists: `NotedOnce` adds that no id
  is in two of them, without which a `check_exits` could remove the trace of a thread another one
  still has to join, and `NotedExactly` is the property worker by worker.
- `NobodySleepsOnWork`: inductive with `ControlInv`. Each step is a comparison of three finite sets
  before and after: who sleeps, who was woken, who is going to notify.
- `PoolRefinement`: `Spec => ImplementsJobPool`. It needs `JobsOnce`: a job is in one place only, so that
  the end of one does not end another of the same name.

`LifetimesProofs` proves of the pointers to actors, for any actors, clients, workers and calls:

- `DeadForGood`: `Spec => []DeadStayDead`. The invariant says, besides that, who is on which stack: a call
  past the lock is the only one on all stacks (`LocksOK`, the theorem `OneInStop`), so that nobody erases
  what another call is about to clear (`ClearsOK`); and a mailbox that is marked as in the pool is queued, or some
  call has it (`OwnersOK`), so that a job that ends leaves no closure alone with its mailbox. The lemmas before it
  say what a stack holds after a call is pushed, moved or popped; `Settles` is the one argument about the
  last pointer, used wherever one is dropped. No induction over the stacks is needed: each step
  changes the innermost call only.
- `LifetimesFitTogether`: `Spec => []LifeTypeOK`. It needs two things that `IInv` does not say. `Ties`: only actors with a
  name are stopped, the lock is kept by somebody in `stop`, and a closure that waits is in a mailbox that is
  marked as in the pool or that somebody is about to look at. And `Counts`, from which the bound on a mailbox follows:
  the closures of an actor and its calls of `send_as` that have still to push are no more than the calls
  there were. `Pending` names such a call by its depth in its thread's stack, counted from the bottom, so
  that calls above it do not rename it; a call adds one, a push takes one, a move none.

`RingProofs` proves of the ring, for every length and any finite number of producers and consumers:

- `RingTypeCorrect`. The inductive invariant `RingInv` says more than the types: one thread of a side at
  a time is past its mutex (`Alone`), and an index is past the end exactly while its thread is about
  to wrap it (`PastTheEnd`).
- `OverrunsNeedWrap`: with `PastTheEnd`, equal indices outside of a wrap mean an empty ring, as long as no `clear()`
  has met a call.
- `RingRefinement`: `Spec => ImplementsBoundedQueue`, under the same condition. A `clear()` that meets nobody is the
  abstract `Clear` when it stores the head; between its two stores the ring counts as empty. `Contents` is a sequence cut out of a circle; the
  lemmas about `Mod` say how one more or one less changes it, with no case split on where
  the two indices are.
- `NoOtherWakeupLost`: the property counts threads, which no step preserves as it stands. `NoSilence` says it of
  each waiting thread that was not told, from its first test on, not only asleep: the items (or
  free slots) are no more than the threads on their way, and a producer that a `clear()` leaves asleep counts as one whose
  notification was missed. The lemma behind each step compares
  the change of the load with the one thread that moved.

`JobQueuesProofs` proves of the three queues, for any workers (at least one), callers, priorities and delays:

- `JobsTakenInOrder`: the invariant is that the queue is sorted by key, then number, and that no number
  is there twice. `PlaceSplits` shows that the place `emplace` finds by counting splits a sorted queue
  between smaller or equal and larger keys.
- `FirstJobWatched`: `SomebodyWatches` is inductive with the types. A pool without a worker would violate it: hence
  the assumption.

`LogFilesProofs` proves of a file object, for any writers, limit and lengths:

- `SplittedInOrder` (`FilesInOrder`) and `FilesWithoutGaps`. The invariant adds that the open file ends with the last
  message written (`NoGaps`), and that through one logger no file is later than the open one or than
  what the one call there is has seen of the clock (`NoneLater`). `WriteSteps` reduces the three kinds
  to one form: the file written to was empty before, or is the open one.
- `SizeOfOpenFile` (`LogTypeOK`) and `FilesKeepTheLimit` (`FilesAreSegments`). The invariant `SizesInv` says that `m_file_size`
  is the sum over the open file, and that a file of two messages or more that may roll over is
  within the limit: a write opens a new file before it would exceed it. The model adds up a
  file with a fold of the library; `TotalIs`, `TotalOfSame` and `TotalOfAppend` say what it returns.

`LogTextProofs` proves of the two loops over characters, for every file name, format and list of arguments
and every level (`LogTextAssumption`: the characters with a meaning are no tags and no plain text, and an argument
is a sequence):

- `NamesAreNormal`: `Spec => []PathAsMeant`. `PathInv` relates the components on the stack to those read: they are,
  in order, those that no `..` read so far takes away. `Leaves` says that of one position by counting, `UpLeaves`
  that one more `..` takes away the last of them, `UpTooFar` that there is none to take exactly if the
  definition says so. `LeavesNormal` counts the positions that are left to find the name they spell.
- `LinesAreMeant`: `Spec => []LineAsMeant`. `LineInv` says that what is printed is what the definition makes of the
  characters behind the format pointer (`Text`), that the pointer is not between a percent sign and its letter, and
  that the arguments left are those the `%m`s so far have not used. The definition asks for the
  parity of a run of percent signs, the loop looks one ahead: `BeginsOrNot` reconciles them.
  `NearestName` is the arithmetic of `level_to_name` for each of the seven ranges.

The induction theorems of the library take an operator, which no prover here can instantiate. `Induction`, for a
set, is proved in its place, from the smallest element that is missing; it is enough for the sums, the counts and
the runs of percent signs in these two modules.

`DispatchProofs` proves of the loggers and the handler table, for any threads, loggers, appenders and functions:

- `DispatchTypesCorrect`: with each place in a call goes the mutex held there, so that the mutexes exclude.
- `LoggersCreatedOnce`: inductive with the types: whoever inserts has the mutex and has looked under it, and the
  map grows under the mutex only.
- `LinesAlwaysInOrder`: `OutInv` says it of the lines that are written; `OpenInv`, of those that are being written, says
  that a message has a number no smaller than any its logger has written (`Latest`), and that until its first
  appender has it no line with that number is whole (`Unspent`). A list that changes meanwhile is a
  fault, after which nothing is claimed of the messages that were open.
- `MessagesHandledAsMeant`: `TableInv` ties the table to the history: a function is in it since the first
  registration that nothing took back; and nothing changes the table between the search and the
  invocation, because only the running thread can and it is busy.

Every invariant that a run checks is proved, and every action property and refinement. Only model-checked is
liveness under fairness, which is beyond the prover: `HandledOrLost`, `CallsReturn`, `StoppedAreFreed`, `JobsStart`,
`JoinReturns`, `TimedCallsReturn`. `StopDestroys` is refuted by its run.

## Plan

Done: every component that has code of its own, with proofs for all of them.
What would come next is a composition of `Lifetimes` with `ThreadPool`: the destruction of actors whose jobs a
deserted pool still holds.

## Not modelled, and why

- `net/` is empty. Message payloads and timings are left out: no property depends on them. An
  exception that leaves a handler ends the program and is left out.
- The blocking and timed pops of the unbounded channel, which nothing calls: it waits under
  the mutex of the push and loses no notification.
- What is undefined in every call, so that a model could say nothing: `ring::try_push(const Item&)`, which has no
  return statement, and `actor_address::operator==`, which reads its own address object as something
  else. Nothing in the library calls them.
- What nothing calls: `actor::bind` and the `call` for tuples, which are private; `valid_name`; and
  `thread_pool.inl`, a copy of `thread_pool.h` that nothing includes. Remote ids and `enroll_creator` are
  stubs.
- That the hashes of two parameter lists, or of two names, are equal.
- A job that never yields starves others. It is listed as a hazard: nothing in the code promises otherwise, and the
  bound on messages hides it. What a `check_exits` thread does to the memory of a destroyed pool.
- The filter of a logger reads three fields, which is one step here; a store that is under way may meet it, and
  that is a fault. No property is about a mixture of two settings. A `stop` whose address expires between
  its check and the conversion to an id is a `stop` of an expired address.
- `Mailboxes` takes of `thread_pool` what its callers see: the limit, the queue, the job, and workers that come and go.
  It says nothing of when they do; `ThreadPool` does. Whether a pool is ever deserted by all its workers depends on
  times, and no model here rules it out. `set_thread_idle_seconds` changes times only.
- The clock of `LogFiles` and `JobQueues` does not go back.
