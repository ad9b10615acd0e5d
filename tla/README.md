# pawawwewism: TLA+ models, model checking and proofs

[pawawwewism](../src/README.md) is a small Rust library of structured-concurrency
primitives: one-shot promises, worker threads and sets of worker threads, a
reactive value, background and reading threads. Everything it does is done by a
few threads around a mutex, a condition variable, a channel or an atomic, and
almost everything that can go wrong in it goes wrong between two threads. These
modules describe those threads step by step, TLC runs through all their
interleavings on small instances, and TLAPS proves their safety properties for
every value of the constants.

All paths are relative to the repository; line numbers are those of `src/src/*.rs`.

## 1. Inventory

| Component | Source | State it keeps | Operations |
|---|---|---|---|
| `Promise` / `PromiseHandle` | `promise.rs` | `PromiseState` (empty with a list of wakers, fulfilled, dropped) under a mutex; a condvar; the reference count of the `Arc` that both ends share | `promise`, `fulfill`, drop of the promise, `block`, `wait` (async), `will_block`, drop of the handle or of the future |
| `Worker` | `worker.rs:20-156` | the `SyncSender` and the `JoinHandle`, both in an `Option`; the channel; the thread | `spawn`, `send`, drop, internally `wait_for_exit` |
| `WorkerSet` | `worker.rs:158-340` | one rendezvous channel shared by `count` threads, their handles, `panic_flag`, `free_sends` | `spawn`, `send`, `try_send`, drop, internally `wait_for_exit` |
| `reactive::Value`, `Reader`, `Mut` | `reactive.rs` | the value, its `generation` and the wakers under a mutex; a condvar; atomic counts of the Values and of the Readers; per Reader `read_gen` and `read_disconnected` | `new`, `reader`, `set`, `modify` (and what `Mut` marks), clone and drop of both; `has_changed`, `get`/`with`, `block`, `block_timeout`, `block_until_changed` (and its timeout form), `wait`, `has_changed_signal`, iteration |
| `block_on` | `test.rs` | a counter under a mutex and a condvar | poll loop, `wake` |
| `IsochronousProcessor` | `isochronous.rs` | a `WorkerSet`, the queue of jobs in progress with their pace, times of the last submission and the last result | `submit`, `try_submit`, `exchange`, `block`, `is_output_available` |
| `reader::Reader` | `reader.rs` | the shared stream, the handle of the reading thread | `spawn`, `stop`, `is_finished`, drop |
| `Background` | `background.rs` | the handle of a thread | `background`, `join`, drop |
| `Mutex`, `Condvar`, `RwLock` | `sync.rs` | the locks of `std::sync`, with their poison flag, and what they protect | `lock`, `read`, `write`, their `try_` forms, `get_mut`, `into_inner`; `wait`, `wait_while` and their forms with a time-out, `notify_one`, `notify_all` |
| `Defer` | `drop.rs` | a closure to run at the end of a scope | used for log lines only |

How they interact:

* A user of `Worker` sends messages that carry a `Promise`; the handler fulfills
  it, drops it on purpose, or drops it by panicking. The owner blocks on the
  `PromiseHandle` and learns of the panic first through `PromiseDropped`, later
  through the failing `send` or the drop of the `Worker`, which joins the thread
  and resumes its panic in the owner.
* `WorkerSet` does the same with several threads behind one channel. A single
  panicked thread does not disconnect that channel, so it raises a flag.
* `IsochronousProcessor` is a `WorkerSet` whose messages carry promises, and a
  queue of the handles of these promises in the order of submission.
* `reactive` and `promise` wake sleeping threads through a condvar and sleeping
  tasks through their wakers, both with the mutex held (except the drop of a
  promise, which notifies after releasing it).
* `Background` and `reader::Reader` hand a closure to a thread of their own and join
  it; a Reader first shuts down the stream that the thread reads from.
* Everything that is shared is behind the locks of `sync`.
* The unit tests run the futures on `block_on`.

### What is hard in this code

* Lost wake-ups: a check of the state, then a sleep, with a change in between,
  for threads and for tasks, and for tasks with wakers that are older than the
  one that counts (`promise.rs:109`, `:136`, `reactive.rs:202`, `test.rs:35`).
* Lock-free reads next to a mutex: `will_block` reads a reference count,
  `disconnected` an atomic, `send` a relaxed flag (`promise.rs:161`,
  `reactive.rs:244`, `worker.rs:284`).
* The order in which unwinding drops things: message, then receiver, then flag
  (`worker.rs:62`, `:206`, `:210`).
* Panics on both sides of a thread boundary, at the same time, caught or not,
  and destructors that call back into the library (`worker.rs:134`, `:152`).
* Shutdown: the channel has to be closed before the join, and what is in it must
  be handled or discarded with all its promises (`worker.rs:110`, `:295`).
* Counters at their limits: capacity 0, `free_sends`, the last `Value`.
* A mutex that does not poison, and a closure that panics inside it
  (`reactive.rs:198`); the flag that is set all the same (`sync.rs:173`).
* A join of a thread that is blocked in a read, or is about to read again, while data of
  the peer arrives and the shutdown may fail (`reader.rs:88`, `:123`).
* Time-outs (`reactive.rs:313`, `:376`).

`PROJECT.json` lists each of them with its line and the properties that catch it, or the
reason why none does.

### What makes each component correct

* **Promise**: resolved at most once; what the consumer gets is what the producer
  did, unchanged and at most once; no `unreachable!()` arm is reached; a thread in
  `block` never sleeps through the resolution, a task in `wait` is woken by it;
  `will_block` = false means resolved.
* **Worker**: bounded back-pressure; dropping it drains the queue and outlives the
  thread; every accepted message gives up its promise; a panic reaches the owner
  exactly once and never as an additional one; no call hangs.
* **WorkerSet**: the first `count` sends never wait for a handler; the sender is
  there whenever it is unwrapped; all threads are joined; one panic reported for
  the set; no call hangs; no thread without a handle.
* **Reactive**: counters exact; nobody sleeps through a change or through the
  disconnection; "unchanged" means the newest published contents were seen;
  "disconnected" comes after the last value and for good; calls with a condition
  that holds return, calls with a time-out return.
* **IsochronousProcessor**: results in the order of the inputs and paced like them,
  whatever finishes first or panics; `exchange` only blocks for the pace; calls return.
* **Background, Reader**: the thread ends before its handle is gone, and the owner gets
  its result or its panic; ending a Reader never waits for the peer, whatever data still
  arrives; a drop never aborts the process.
* **sync**: guards exclude each other, so that nobody sees half of a change; no
  notification is lost; a wait tells the truth about its condition; a panic of the
  holder locks nobody out.
* **block_on**: returns when the future is ready.

## 2. Modules and how they correspond to the code

| Module | Models | Uses |
|---|---|---|
| `OneShot` | what a promise pair promises, abstractly | |
| `Promise` | `promise.rs`, implements `OneShot` | `OneShot` |
| `Watch` | what a reactive value promises, abstractly | |
| `Reactive` | `reactive.rs`, implements `Watch` | `Watch` |
| `Pipeline` | what a Worker promises, abstractly | |
| `Worker` | `Worker` and its owner, implements `Pipeline` | `Pipeline` |
| `WorkerSet` | `WorkerSet` and its owner, with `spawn` | |
| `Conveyor` | what an IsochronousProcessor promises, abstractly | |
| `Isochronous` | `isochronous.rs`, implements `Conveyor` | instance of `WorkerSet`, `Conveyor` |
| `OwnedThread` | `background.rs` and `reader.rs`, with the owner and the peer | |
| `Monitor` | what the locks of `sync.rs` promise, abstractly | |
| `Sync` | `sync.rs`, with those who share a lock, implements `Monitor` | `Monitor` |
| `BlockOn` | `test.rs` | |
| `PromiseProofs`, `ReactiveProofs`, `WorkerProofs`, `WorkerSetProofs`, `IsochronousProofs`, `OwnedThreadProofs`, `SyncProofs` | theorems about the module they are named after | that module |

Common conventions. A critical section of a mutex is one action, for nothing in it
can be observed from outside; what a function does before or after it is an action
of its own. The condition variable is the set of those who sleep in it. Variables
called *history* record what has happened and are read by no guard. The owner's own
code is free: it calls any method that Rust's ownership allows in any order, panics,
and catches panics. An operator marked "mistaken variant, not part of Next" is a
definition with a plausible mistake, kept next to the one it corrupts; putting it in
its place must break the property that is about it, and does
(`PROJECT.json`, "mutants").

**Promise.** `state`, `wakers` are `PromiseState`; `strong` is the count that
`will_block` reads; `producer` and `consumer` are the places where the two owners
are. `fulfill` is `Fulfill` (critical section with all wake-ups) then
`ReleasePromise` (the decrement of the `Arc`); the drop of an unfulfilled promise is
`DropPromise`, `NotifyDropped`, `ReleasePromise`, with the mutex free between the
first two. `block` is `BlockStep`, once per turn of its loop; `wait` is `Poll`, once
per poll, from any task: the first poll, polls after a wake-up and polls nobody asked
for. In `Take` the value moves out and the handle is dropped.

**OneShot** has a slot that is resolved once and delivered once.
`Promise!ImplementsOneShot` maps the slot to the state before the consumer has taken
the result and to the result afterwards.

**BlockOn.** `Poll`, `Sleep` (lock, read the counter, wait: one critical section) and
`Recheck` are the loop of `block_on`, `WakeIncrement` and `WakeNotify` are
`RealWaker::wake`; the future is an event that completes it.

**Worker.** The thread is `Receive`, the user's handler (`HandlerFulfills`,
`HandlerReturns`, `HandlerPanics`), and on a panic `DropReceiver` (the messages in
the channel are discarded with their promises) and `ThreadPanicked`, in the order of
unwinding. `send` is `Send`, then `Rendezvous` or `Enqueue` or `SendFails`, then
`JoinInSend` with the `unreachable!()` behind it. Drop is `Drop` and `JoinInDrop`.
A message is a number in the order of the calls; its promise is the state of the
message (module `Promise` shows that this is all a user can see of it). The channel is
the one of the standard library, modelled from how the code uses it: bounded buffer,
hand-over to a waiting receiver when the capacity is 0, failure once the receiver is
gone, and a receiver that drains the buffer after the last sender is gone.
`Capacities` is a set: every behaviour has one of them.

**Pipeline** counts what was sent and what was processed, in order, with no more than the
capacity and one under way. `Worker!ImplementsPipeline` takes a message for sent when `send`
has put it into the channel and for processed when the handler has returned from it; a
panic of the handler breaks the pipeline, and the worker is gone when the drop has joined
its thread. What the handler does with the promise, the steps of the unwinding, and the
calls that wait or fail are stutters.

**WorkerSet.** Starts inside `spawn`, thread by thread (`SpawnThread`, `SpawnFails`,
`Spawned`). A thread is on its way to the channel ("looping") or waiting in it
("recv"), because `try_send` can tell the two apart; after a panic it drops its
receiver, then sets the flag, then ends. `send` checks the flag
(`FlagSeen` or `Send`), then hands over or finds all receivers gone; `try_send` is
`TrySend`, which is a `Send` while there are free sends. `Join` joins one handle after
the other and `Joined` reports.

**Isochronous.** Declares the variables of `WorkerSet` among its own and takes every step
of the pool from it (`Pool!Handoff`, `Pool!Loop`, ...), joined with what the step does to
the jobs. The handler that `spawn` installs is `Fulfill`, `HandlerReturns`,
`HandlerPanics` and `DropPromise`; a promise is "working", "fulfilled" while the
producer still has its reference, "released", or "broken". `submit`, `try_submit` and
`exchange` are `Enter` (where the time is read), the pool's steps, and `Accept`, with
everything that follows the send in the code; `exchange` goes on with `CheckDone` or
`CheckNotDone`. `block` is `Block` or `CheckDone` (pop), `Received` and `Yield`; the sleep
is the guard `Due`. Time is a counter that `Tick` advances at any moment up to `MaxTime`, and
further while a result is held back.

**Conveyor** accepts jobs in the order of time, settles them in any order, and serves them
one by one in the order in which they came: with a result, at a distance to the one before,
or without, if the job was lost. `Isochronous!ImplementsConveyor` takes a job for done when
its promise is fulfilled and for served when `block` has made up its mind about it; threads,
the pool, references of promises and calls that wait or fail are hidden.

**Reactive.** `value` counts how often the contents have changed, which is all that
can be told apart about them. `mutate` is `Publish` when the change is marked (`set`,
`modify` with `Mut`) and `ChangeSilently` when it is not: the closure opted out with
`Mut::set_changed(false)` or panicked inside the critical section. `reader()` counts the Reader and then waits for
the mutex (`reader`, `ReaderCreated`). The blocking methods are
`Call`, then `Return` or `Sleep` per turn of the loop, the async ones the same per poll.
`Resume` is what ends a sleep without a change: a time-out, whose result the code does
not look at, a spurious wake-up or an unasked-for poll. `Cancel` drops a future and
leaves its waker behind. `get`, `with` and the iterator deliver like `block`
(`Deliver`). A Reader is used by one call at a time.

**Watch** is a register with a number for its newest version and, per Reader, the version
it has read. `Reactive!ImplementsWatch` takes the generation for the version, `disconnected`
for the end, and `read_gen` and `read_disconnected` for what the Readers know. A change that
is not published, a sleep, a wake-up and the use of a counter are stutters; `reader()` is
a step (`Join`) only when it reads the generation.

**OwnedThread.** `kind` selects the component: a Background has no stream. `EndThread` is
the first half of `stop`, `join` and drop (take the handle, shut down the stream), `Join`
the second half (join the thread; return its result, resume its panic, or pass the panic
over). The thread is the loop of a handler that reads (`CallRead`, `ReadData`, `ReadEnds`)
and returns or panics; it is told of the end when a read yields `Ok(0)` or an error. The
stream counts pieces of data from their arrival in the local buffer (`Arrive`), some time
after the peer wrote them: what is under way cannot be told apart from what was never
written. What `shutdown(Read)` does to data differs between streams and systems, so the
model leaves it open. What is in the buffer is delivered before the end, as the tests of
`reader.rs` rely on, or is not, as the documentation of the trait says; what arrives later is
taken in, as by a `TcpStream` on Linux, or is not, as by a `UnixStream`. The shutdown
fails on a stream that is lost, which the code ignores. The handler is the user's; two things
are assumed of it, both said by its signature and its tests: it blocks in nothing but a
read, and it ends once it was told that nothing more comes.

**Sync.** `kind` selects `Mutex` with `Condvar`, or `RwLock`. `lock`, `read` and `write`
are a request and `Acquire`; the `try_` forms get the guard at once or change nothing.
`poisoned` is the flag of `std::sync`, which a panic under an exclusive guard sets;
`Unpoisoned` is what the wrappers make of it. The contents are two numbers that a change
sets in two steps, so that exclusion can be observed. `WaitFor` releases the mutex and goes to
sleep in one step, `notify_all`, `notify_one` and `TimedOut` wake, `Resume` takes the mutex
back and is one turn of the loop in `wait_while` of the standard library, where a
poisoned mutex ends the wait whatever the condition is. The other modules build on this:
that a critical section is one action is `SeesWholeChanges`, that a check followed by a
wait is one action is `SleepersWillBeNotified`.

**Monitor** says the same as one specification: the contents change at once and with all
wake-ups, a look and the sleep after it are one step, a wait ends with an answer that is
true for as long as it is relied on, and a panic damages the monitor for good.
`Sync!ImplementsMonitor` takes a change for made when it is announced: with `notify_all`
under a Mutex, with the assignment under an RwLock or through `get_mut`.

## 3. Runs

Passing runs:

| Run | Bounds | Shows |
|---|---|---|
| `promise` | two values, two tasks, at most three wakers before an unasked-for poll | no lost wake-up for threads and for fulfilled tasks, `will_block` is sound, `unreachable!()` is not reached, the resolution arrives (liveness), the pair implements `OneShot` |
| `worker` | capacity 0, 1 and 2, four messages | back-pressure, a drop joins the thread and drains the queue, one panic reported, promises resolve, calls return (liveness); without a buffer a send after a broken promise never succeeds; the Worker implements `Pipeline` |
| `worker_set` | three threads, unbounded sends | free sends find a thread that has had no message, no unwrap of a missing sender, no join of a thread that may stay in the channel, all joined, one report, calls return (liveness) |
| `isochronous` | two threads, three jobs, submissions at times 1 to 3 | results in the order and with the pace of the inputs, none lost without a panic that is reported, `exchange` never waits for a job, every method returns (liveness), the processor implements `Conveyor` |
| `reactive` | two Values, two Readers, two changes | exact counters, no lost wake-up, "unchanged" means seen, disconnection last, methods whose condition holds return (liveness), Value and Readers implement `Watch` |
| `owned_thread` | three pieces of data, either component | ending the thread returns without help of the peer, whatever still arrives (liveness); the result or the panic of the thread is learned, and a drop does not abort |
| `sync` | three threads, two changes, either lock | nobody sees half of a change, no notification is lost, waits tell the truth, a lock that is free is acquired whatever it has seen (liveness), the locks implement `Monitor` |

Why the bounds are enough to be interesting. A promise has one producer and one
consumer by ownership, and two tasks are what it takes for a stale waker and a fresh
one. With capacity 2 and four messages a panic finds a running message, a full buffer
and a blocked sender at the same time; all capacities up to 2 contain the rendezvous
case, the buffer of one, and the first with an order in it. In a set of three threads
one can panic, one be busy and one be free. With two threads and three jobs a later
result is finished before an earlier one and a job has to wait for a thread; three times
allow paces of 0, 1 and 2, and results that are late for their pace. With two Values and
two Readers a Reader can be cloned or created while another one sleeps and one Value is
dropped while the other changes; two changes let a Reader be two generations behind. Three
pieces of data can be read, in the buffer and still to come when the stream is shut down.
Three threads on a lock are one that changes, one that sleeps and one that panics or reads
in between, or two sleepers of which one notification must reach both; two changes bring
the second one before the first waiter has got its lock back. Except for the liveness
properties, the proofs (section 4) remove the bounds.

No run checks a `TypeOK`: the theorems `TypeCorrect` have it for every value of the
constants.

Deadlock checking is off in every run because the systems really stop: all handles
may be gone, and an owner need not do anything.

Fairness. A thread that can run does run (`std::thread` and the operating system's
scheduler), a call of the library that can go on does, an executor polls a task that
was woken, and a timer fires. Nothing obliges an owner to send, drop, resolve or
cancel. Handlers are obliged to end only where the property cannot be had without:
in `Worker` and `Isochronous` through the fairness of the thread; in `WorkerSet` as the
premise of `CallsReturn` alone; in `OwnedThread` for a Reader, whose handler goes on unless
it is blocked in a read, but not for a Background. `Sync` only assumes that a thread that
asks for a lock nobody holds gets it, not that locks are fair to those who compete, nor
that anybody unlocks. Only weak fairness is used.

Runs that end in a counterexample, each with one statement of the repository that the
code does not keep:

| Run | Statement | What happens |
|---|---|---|
| `promise_wait_drop` | `wait` returns `PromiseDropped` when the promise is dropped (`promise.rs:128`, `:146`) | the assignment at `:54` drops the registered wakers without waking them, so a task that already waits is never polled again |
| `block_on_lost_wakeup` | `block_on` polls to completion (`test.rs:10`) | the counter is read after the poll; a wake-up in between is missed |
| `worker_set_spawn_fails` | every thread has a handle and none outlasts it (`lib.rs:35`, `:36`) | if the n-th spawn fails the earlier threads are detached |
| `reactive_timeout` | calls with a time-out return (`reactive.rs:295`, `:349`) | the result of the timed wait is ignored and the loop waits again |
| `sync_wait_while` | locks "without lock poisoning" (`sync.rs:1`, `:24`) | on a mutex that was poisoned once, `wait_while` of the standard library returns from its first wake-up with an error that holds the guard; the wrapper takes the guard out, and the caller believes that the condition is false |

Seen while modelling and not run:

* With a buffer, a send that falls between the drop of the message and the drop of the
  receiver succeeds, and its message is lost, although the next send after a broken promise
  is said to propagate the panic (`promise.rs:100`, `worker.rs:62`).
  `UnbufferedSendPropagates` states what holds. A `WorkerSet` has the same window between a
  panic and the store of the flag (`worker.rs:210`, `:284`), and so the comment at
  `isochronous.rs:124` is too strong.
* An owner that is unwinding, or has caught the panic, and sends again runs into
  `unreachable!()` (`worker.rs:152`); `lib.rs:54` says that there are no additional panics.
  `PanicReportedOnce` states that this only happens after the worker's own panic.
* `stop` and `join` resume the panic of the thread whatever their owner does, so calling
  them from a destructor while unwinding aborts the process (`reader.rs:127`,
  `background.rs:49`); the drops do not (`OwnerLearnsOfEnd`).
* The documentation of the `Shutdown` trait says that a future read returns `Ok(0)`
  (`reader.rs:153`); the tests of the same file rely on data that is in the buffer being
  delivered first (`reader.rs:206`). The model allows both.
* A handler cannot tell the `Ok(0)` of a shutdown from that of the peer's end: data that is
  under way when `stop` shuts a TCP stream down may be missing from a result that is `Ok`
  (`reader.rs:123`). Nothing in the library promises otherwise.
* A closure of `modify` that changes the value and then panics skips the new generation
  and the wake-ups, although Readers go on reading (`reactive.rs:180`, `:198`;
  `ChangeSilently`).
* `get` and `block` return the unread last value after the last `Value` is gone and
  `Disconnected` only afterwards (stated by `DisconnectedComesLast` and `Watch`).
* The wakers of cancelled futures stay in the list until the next change (`Cancel`), and
  nothing limits them (`reactive.rs:279`).
* The job of a panicked handler leaves the isochronous queue without an update of
  `last_yield`, so the two results around it can be closer together than their inputs,
  which the documentation excludes (`isochronous.rs:48`). `ResultsArePaced` states what
  does hold: the distance to the input right before.

## 4. Proofs

Every safety invariant, every action property and every refinement that a run checks is a
theorem, for all values of the constants under the assumptions named below. Each module of
proofs has the same shape: an invariant `Inv`, a conjunction of named parts, that holds
initially and is preserved by every action (one lemma per group of actions), from which the
properties follow; then invariants that build on it for single properties; then the
refinement, one lemma per group of actions that says which abstract step it is.

`PromiseProofs` proves, for every set of values, every set of tasks and any number of
polls: `TypeOK`, `FulfillFindsEmpty`, `WillBlockFalseMeansResolved`,
`SleeperWillBeNotified`, `FulfilledTaskIsWoken`, and that the pair implements
`OneShot`. Assumed: values are not the names of the states, and the bound is a natural
number. None of these properties is inductive alone. The invariant adds that
the reference count is the number of owners that exist (`StrongCountsOwners`: so that
`will_block` = false can only mean that the producer has left), that past the
producer's assignment the state stays resolved until the consumer takes it
(`ResolvedUntilTaken`), that the task polled last is among the registered wakers
(`PendingIsRegistered`: so that waking all of them wakes it), and that a result is
only handed out by a consumer that leaves (`ResultIsFinal`, for the refinement).

`ReactiveProofs` proves, for all finite sets of handles and any number of changes:
`TypeOK`, `CountsAreExact`, `NoLostWakeup`, `UnchangedMeansSeen`,
`DisconnectedComesLast`, the action property `DisconnectedForGood`, and that it implements
`Watch`. Assumed: the handles are finite and distinct from the names of the methods, the
bound is a natural number. The argument: the counters are the cardinalities of the handles
that exist (`CountsAreExact`, with the library's theorems on finite sets), so
`disconnected()` is the same as "no Value left" (`CountsMeaning`); everything that could
make a sleeper's condition true needs a Value and empties the set of sleepers, because
every sleeper is a thread in the condvar or a task with a waker in the list
(`SleepersAreReachable`, which `NoLostWakeup` needs); no Reader is ahead of the generation
and no publication ahead of the value (`Types`), so a change makes everybody unread, and a
Reader that is up to date has seen it. For the refinement every action is mapped to a step
of `Watch` or to none, with the same invariant.

`WorkerProofs` proves, for any set of capacities and any number of messages: `TypeOK` (the
channel within its capacity), `SendWaitsForPredecessors`, `DropJoinsAndDrains`,
`PanicReportedOnce`, the action property `UnbufferedSendPropagates`, and that a Worker
implements `Pipeline`. Assumed: the capacities and the bound are natural numbers. The
argument: the buffer holds the messages sent last, without a gap, and the handler the one
before them (`QueueInOrder`), so every older message is resolved and none is dropped before
a panic (`MessagesMatch`); a thread can only finish when the sender is gone and the buffer
empty (`ChannelMatches`); the handle is taken once, by whoever joins, and with it the panic
is reported or swallowed (`PanicsMatch`). For a send after a broken promise and for the
refinement, `CallsMatch` adds that a thread that is back in the channel has handled all but
what is queued, and that an owner has seen a promise broken only of a thread that will not
receive again; without a buffer only a thread that receives can take a message.

`WorkerSetProofs` proves, for any number of threads: `TypeOK`, `SenderPresent`,
`FreeSendFindsThread`, `AllThreadsJoined`, `PanicReportedOnce` and `JoinedThreadsCanEnd`.
Assumed: the number is positive, as `spawn` asserts. The argument: `free_sends` plus the
number of threads that have had a message never exceeds the number of threads
(`FreeSendsAreCovered`); a thread without a message has neither panicked nor, while there is
a sender, ended (`UnusedAreSound`); the sender goes only on the way out or together with the
flag, which no send gets past (`SenderKept`); a thread without a handle has been joined
(`HandlesMatch`); the payload kept for the report, the reports and the panicked threads
already joined determine each other (`PanicsAreCounted`). A join with the channel open
happens only after a send has found every receiver gone, and none comes back.

`IsochronousProofs` proves, for any number of threads, jobs and instants: `TypeOK`,
`ResultsInOrder`, `ResultsArePaced`, `ExchangeDoesNotWait`, `LossesAreReported`, and that a
processor implements `Conveyor`. Assumed: all three are positive. The argument: the queue
holds the jobs accepted last, in order and without a gap, each with its distance to the job
before (`QueueMatches`, `MethodsMatch`), so `block` takes the jobs one after the other;
whatever has left the queue was yielded or is broken (`ResultsMatch`), and a promise that is
resolved stays as it is because only the thread that has the job resolves it (`JobsMatch`).
For the pace, submissions are in the order of time although the time is taken before the
call waits (`SubmissionsMatch`), and `last_yield` is the time of the newest result
(`PacesMatch`, which also shows that a result is held back no longer than the inputs took).
What concerns the pool is not proved again: every step of a processor is a step of its
`WorkerSet` or leaves it alone (`UsesPool`), so the theorems of `WorkerSetProofs` hold of it
(`PoolSafe`). With them and `PromisesMatch` (an unresolved job is with a thread, and only a
thread that panics breaks a promise) follow `NoJobIsLost` and `LossesAreReported`. For the
refinement, `FatesMatch` adds that jobs to come are untouched and that `block` sleeps only
with a result in hand.

`OwnedThreadProofs` proves, for any amount of data: `TypeOK` and `OwnerLearnsOfEnd`, with an
invariant that ties the places of the two threads to the call that was made (`CallsMatch`: the
stream is shut down or lost from the call that ends the thread on, and a thread that was told
of the end, or has finished, has a result).

`SyncProofs` proves, for any set of threads and any number of changes: `TypeOK`,
`SeesWholeChanges`, `SleepersWillBeNotified`, `WaitsAreTruthful`, and that the locks implement
`Monitor`. The argument: an exclusive guard excludes all others (`GuardsExclude`); without a
panic the two parts differ only under the guard of the one that changes them
(`ContentsMatch`); what a wait has told its caller is tied to the guard it came with
(`ToldHoldGuard`), under which nobody else changes anything. Only those who wait or rely on an
answer remember a version (`BaseHeld`), so a change moves nothing else in the monitor.

What of liveness is proved. The prover has no rules for fairness, so `CallsReturn`,
`PromisesResolve`, `MethodsReturn` and the other leads-to properties are model-checked. What
they rest on besides fairness is proved for every value of the constants, in two halves.
Nobody waits for nobody: whenever a call is waiting and no thread can do anything by itself,
what the call waits for is there (`NoDeadlock` of `Worker`, `WorkerSet`, `Isochronous` and
`OwnedThread`). And nothing goes on for ever: every step of a worker thread lowers a measure
that only a new message can raise (`ThreadRunsOut`, `ThreadsRunOut`), and every step of a
reading handler lowers one that counts the data that may still arrive (`EndingEnds`). In `Promise`, `Reactive` and `Sync` a thread sleeps only for
what has not happened yet (`NoSleepThroughResolution`, `NoWakeupLost`,
`SleepersAreNotified`).

Only model-checked: the liveness properties themselves, and the runs with counterexamples.

## 5. Not modelled, and why

* `drop.rs`: a guard that runs a closure, used for log lines only.
* `Reader::is_finished`, `is_output_available`, `has_readers`
  and the like change no state; what they compute is a guard or a property of the models.
* A reading handler that goes on reading after `Ok(0)`, or blocks elsewhere: nothing in the
  library could end it, and `stop` would wait for ever.
* A peer that never stops writing to a stream that takes data in after `shutdown(Read)`, as
  TCP on Linux does: the handler could go on reading for ever, and the library has no means
  against it. `EndingReturns` is about any finite amount of data, before or after the shutdown.
* What becomes of data under way at the shutdown: that is up to the operating system.
* Names, logging, `Debug` output, and the contents of messages and values.
* Wakers that run foreign code with the mutex held, and closures that use the value
  they are called with: they would deadlock by construction of a non-reentrant mutex,
  in one step of the model.
* The memory orderings of the atomics: each is modelled as a sequentially consistent
  variable. The relaxed flag of `WorkerSet` may be seen later than it is set, which adds
  no behaviour: a send that misses it is a send before the store.
* The wrap-around of the 64-bit generation: 2^64 changes during one sleep.

## 6. Plan

Done, in this order: `Promise` with `OneShot` and its proofs, `Worker`, `WorkerSet`,
`Reactive` and its proofs, `BlockOn`, `Isochronous` on top of `WorkerSet`, the proofs of
`WorkerSet`; then `OwnedThread`, `Watch` and its refinement, `Sync`, and the proofs of
`Worker`, `OwnedThread`, `Sync`, `Isochronous` and of the single report of `WorkerSet`; then
the abstract specifications `Pipeline`, `Monitor` and `Conveyor` with the refinements proved,
`UnbufferedSendPropagates`, the absence of deadlocks, and the measures behind liveness.

What is left:

1. An abstract specification of `WorkerSet`, on which `Isochronous` could be built instead of
   on the pool with all its steps.
2. `Promise` and `Reactive` over the `Monitor` of `Sync`, instead of with critical sections
   that are single actions because `Monitor` says they may be.
3. `Reactive` with several wakers per Reader, to bound what cancelled futures leave behind.
