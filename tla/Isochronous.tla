---------------------------- MODULE Isochronous ----------------------------
(***************************************************************************)
(* IsochronousProcessor (src/src/isochronous.rs): a WorkerSet whose        *)
(* messages carry promises, and a queue of their handles that yields the   *)
(* results in the order and with the pace of the inputs.                   *)
(*                                                                         *)
(* Every step of the pool is a step of WorkerSet, joined with what it does *)
(* to the jobs; a promise is abstracted to its resolution (OneShot) and    *)
(* the release of its reference, which will_block looks at.  Time is a     *)
(* counter; 0 stands for an Option<Instant> that is None.                  *)
(***************************************************************************)
EXTENDS Integers, Sequences, SequencesExt

CONSTANTS Count,    \* threads
          MaxJobs,  \* bound: jobs accepted
          MaxTime   \* bound: the time, unless a result is being held back

ASSUME ParametersArePositive == {Count, MaxJobs, MaxTime} \subseteq Nat \ {0}

Jobs == 1..MaxJobs   \* in the order of submission

VARIABLES
  sender, handles, free_sends, panic_flag, owner, panicking, payload, thread,
  taken, reported, swallowed,   \* of WorkerSet
  now,          \* Instant::now()
  op,           \* the method the owner is in, or "none"
  entered,      \* `now` at the beginning of submit or try_submit, or 0
  next,         \* the next job
  job,          \* [Threads -> the job whose promise the thread has, or 0]
  output,       \* [Jobs -> state of its promise]
  in_progress,  \* jobs with their pace
  last_submit, last_yield,
  popped,       \* the job that block() has taken out of in_progress, or NoJob
  checked,      \* history: block() was called by exchange
  submitted,    \* history: [Jobs -> time of its submission]
  yielded       \* history: the results, with the time of their release

pool == <<sender, handles, free_sends, panic_flag, owner, panicking, payload,
          thread, taken, reported, swallowed>>
tasks == <<job, output>>
queue == <<next, in_progress, last_submit, submitted>>
release == <<popped, checked, last_yield, yielded>>
vars == <<pool, now, op, entered, tasks, queue, release>>

Pool == INSTANCE WorkerSet
Threads == Pool!Threads

NoJob == [job |-> 0, pace |-> 0]

Init ==
  /\ Pool!Init
  /\ now = 1 /\ op = "none" /\ entered = 0
  /\ job = [t \in Threads |-> 0] /\ output = [j \in Jobs |-> "unsent"]
  /\ next = 1 /\ in_progress = <<>>
  /\ last_submit = 0 /\ submitted = [j \in Jobs |-> 0]
  /\ popped = NoJob /\ checked = FALSE /\ last_yield = 0 /\ yielded = <<>>

-----------------------------------------------------------------------------
(* The handler that IsochronousProcessorBuilder::spawn gives to the pool. *)

Resolve(t, state) == output' = [output EXCEPT ![job[t]] = state]
Consume(t, state) == Resolve(t, state) /\ job' = [job EXCEPT ![t] = 0]

\* promise.fulfill(output) stores the result ...
Fulfill(t) ==
  /\ thread[t] = "handling" /\ output[job[t]] = "working"
  /\ Resolve(t, "fulfilled")
  /\ UNCHANGED <<pool, now, op, entered, job, queue, release>>

\* ... and drops the producer's reference.
HandlerReturns(t) ==
  /\ Pool!HandlerReturns(t) /\ output[job[t]] = "fulfilled"
  /\ Consume(t, "released")
  /\ UNCHANGED <<now, op, entered, queue, release>>

HandlerPanics(t) ==
  /\ Pool!HandlerPanics(t) /\ output[job[t]] = "working"
  /\ UNCHANGED <<now, op, entered, tasks, queue, release>>

\* Unwinding drops the promise before it reaches the Receiver.
DropPromise(t) ==
  /\ thread[t] = "unwinding" /\ job[t] # 0
  /\ Consume(t, "broken")
  /\ UNCHANGED <<pool, now, op, entered, queue, release>>

\* Mistaken variant, not part of Next.
ReceiverDroppedFirst(t) ==
  /\ Pool!Loop(t)
  /\ UNCHANGED <<now, op, entered, tasks, queue, release>>

Loop(t) ==
  /\ thread[t] = "unwinding" => job[t] = 0
  /\ Pool!Loop(t)
  /\ UNCHANGED <<now, op, entered, tasks, queue, release>>

-----------------------------------------------------------------------------
(* submit, try_submit and exchange. *)

\* The time is taken before the call waits for a thread.
Enter(method) ==
  /\ op = "none" /\ next \in Jobs /\ now <= MaxTime
  /\ IF method = "try_submit" THEN Pool!TrySend ELSE Pool!Send
  /\ op' = method /\ entered' = now
  /\ UNCHANGED <<now, tasks, queue, release>>

\* `now - last`, or no pace for the first job.
Pace == IF last_submit = 0 THEN 0 ELSE entered - last_submit

\* Mistaken variant, not part of Next.
PushFront(j) == in_progress' = <<[job |-> j, pace |-> Pace]>> \o in_progress

Push(j) == in_progress' = Append(in_progress, [job |-> j, pace |-> Pace])

\* A thread has accepted the job; the rest of submit.
Accept(t) ==
  /\ op \in {"submit", "try_submit", "exchange"} /\ Pool!Handoff(t)
  /\ job' = [job EXCEPT ![t] = next]
  /\ output' = [output EXCEPT ![next] = "working"]
  /\ Push(next)
  /\ last_submit' = entered
  /\ submitted' = [submitted EXCEPT ![next] = entered]
  /\ next' = next + 1
  /\ op' = IF op = "exchange" THEN "check" ELSE "none"
  /\ entered' = 0
  /\ UNCHANGED <<now, release>>

TryFails ==
  /\ Pool!Full
  /\ op' = "none" /\ entered' = 0
  /\ UNCHANGED <<now, tasks, queue, release>>

\* The pool has noticed a panic or is dropped: it joins its threads, and the
\* owner leaves the method with the panic.
PoolJoins ==
  /\ \/ op = "none" /\ next \in Jobs /\ Pool!FlagSeen
     \/ Pool!Disconnected \/ \E t \in Threads : Pool!Join(t)
  /\ UNCHANGED <<now, op, entered, tasks, queue, release>>

PoolJoined ==
  /\ Pool!Joined
  /\ op' = "none" /\ entered' = 0
  /\ UNCHANGED <<now, tasks, queue, release>>

-----------------------------------------------------------------------------
(* block. *)

\* Mistaken variant, not part of Next.
FulfilledOnly(j) == output[j] \in {"fulfilled", "released"}

Resolved(j) == output[j] \in {"fulfilled", "released", "broken"}

\* PromiseHandle::will_block, which counts references.
WillBlock(j) == output[j] \notin {"released", "broken"}

PopFront(sure) ==
  /\ op' = "block" /\ checked' = sure
  /\ popped' = Head(in_progress) /\ in_progress' = Tail(in_progress)
  /\ UNCHANGED <<pool, now, entered, tasks, next, last_submit, submitted,
                 last_yield, yielded>>

\* Mistaken variant, not part of Next.
CheckNewest ==
  /\ op = "check"
  /\ ~WillBlock(Last(in_progress).job)
  /\ PopFront(TRUE)

\* exchange looks at the oldest job, and yields it if it is done.
CheckDone ==
  /\ op = "check"
  /\ ~WillBlock(Head(in_progress).job)
  /\ PopFront(TRUE)

CheckNotDone ==
  /\ op = "check" /\ WillBlock(Head(in_progress).job)
  /\ op' = "none"
  /\ UNCHANGED <<pool, now, entered, tasks, queue, release>>

Block ==
  /\ op = "none" /\ owner = "idle" /\ in_progress # <<>>
  /\ PopFront(FALSE)

\* handle.block(): a job whose handler panicked yields None.
Received ==
  /\ op = "block" /\ Resolved(popped.job)
  /\ IF output[popped.job] = "broken"
     THEN op' = "none" /\ popped' = NoJob
     ELSE op' = "sleep" /\ UNCHANGED popped
  /\ checked' = FALSE
  /\ UNCHANGED <<pool, now, entered, tasks, queue, last_yield, yielded>>

\* Mistaken variant, not part of Next.
DueAtOnce == TRUE

\* The sleep is over, if there is one.
Due == last_yield = 0 \/ now >= last_yield + popped.pace

Yield ==
  /\ op = "sleep" /\ Due
  /\ op' = "none" /\ last_yield' = now /\ popped' = NoJob
  /\ yielded' = Append(yielded, [job |-> popped.job, time |-> now])
  /\ UNCHANGED <<pool, now, entered, tasks, queue, checked>>

-----------------------------------------------------------------------------
\* The pool is spawned or dropped, or the owner panics or catches a panic.
Manage ==
  /\ op = "none"
  /\ Pool!Spawning \/ Pool!SpawnFails \/ Pool!Drop \/ Pool!PanicOrCatch
  /\ UNCHANGED <<now, op, entered, tasks, queue, release>>

Tick ==
  /\ now < MaxTime \/ (op = "sleep" /\ ~Due)
  /\ now' = now + 1
  /\ UNCHANGED <<pool, op, entered, tasks, queue, release>>

Worker(t) == HandlerReturns(t) \/ HandlerPanics(t) \/ DropPromise(t) \/ Loop(t)
InCall == \/ TryFails \/ PoolJoins \/ PoolJoined \/ CheckDone \/ CheckNotDone
          \/ Received \/ Yield \/ \E t \in Threads : Accept(t)

Next == \/ InCall \/ Block \/ Manage \/ Tick
        \/ \E m \in {"submit", "try_submit", "exchange"} : Enter(m)
        \/ \E t \in Threads : Fulfill(t) \/ Worker(t)

Spec == Init /\ [][Next]_vars

\* Threads run, handlers end, time passes, and calls that can go on do.
\* Nobody is obliged to call anything.
FairSpec == /\ Spec /\ WF_vars(InCall) /\ WF_vars(Tick)
            /\ \A t \in Threads : WF_vars(Worker(t))

-----------------------------------------------------------------------------
Methods == {"submit", "try_submit", "exchange", "check", "block", "sleep"}
Times == 0..(2 * MaxTime)
JobStates == {"unsent", "working", "fulfilled", "released", "broken"}

\* Types of the fields; those of the pool are a property of WorkerSet.
TypeOK ==
  /\ now \in Times \ {0} /\ op \in Methods \cup {"none"}
  /\ entered \in Times /\ next \in 1..(MaxJobs + 1)
  /\ job \in [Threads -> 0..MaxJobs] /\ output \in [Jobs -> JobStates]
  /\ in_progress \in Seq([job : Jobs, pace : Times])
  /\ popped \in [job : 0..MaxJobs, pace : Times] /\ checked \in BOOLEAN
  /\ last_submit \in Times /\ last_yield \in Times
  /\ submitted \in [Jobs -> Times]
  /\ yielded \in Seq([job : Jobs, time : Times])

\* "Processes messages on a thread pool, while retaining order": whatever the
\* threads finish first, results come in the order of the inputs, none comes
\* twice, and one is left out only if its handler has panicked.
ResultsInOrder ==
  LET jobs == {yielded[i].job : i \in DOMAIN yielded} IN
  /\ \A i, k \in DOMAIN yielded : i < k => yielded[i].job < yielded[k].job
  /\ \A j \in jobs, k \in Jobs : k < j /\ k \notin jobs => output[k] = "broken"

\* "... and pacing": between two results there is at least the time between
\* the input of the second and the input before that, also when results were
\* late, submissions had to wait, or a job in between has panicked.
ResultsArePaced ==
  \A i \in DOMAIN yielded \ {1} : LET j == yielded[i].job IN
    yielded[i].time - yielded[i-1].time >= submitted[j] - submitted[j-1]

\* Documentation of exchange: "if no processed value is available, no further
\* blocking occurs".  Once it has looked at the oldest job, block() finds it
\* done, although the two steps are not one.
ExchangeDoesNotWait == op = "block" /\ checked => Resolved(popped.job)

\* The comment in block: a result is None "only when a thread has panicked", and
\* the pool "will propagate the panic".  So when the processor is gone, every
\* job it has accepted was resolved, and one without a result is no secret: the
\* panic was passed on to the owner, unless the owner was unwinding itself.
LossesAreReported ==
  owner = "dropped" => \A j \in Jobs : j < next =>
    \/ output[j] = "released"
    \/ output[j] = "broken" /\ (reported = 1 \/ swallowed)

\* Jobs that block() has made up its mind about are served: all that were
\* accepted, but for those in the queue and the one it has in hand.
Served == next - 1 - Len(in_progress) - (IF popped.job = 0 THEN 0 ELSE 1)

\* The results are there from the moment they are stored in their promises.
Fate == [j \in Jobs |-> CASE output[j] \in {"fulfilled", "released"} -> "done"
                          [] output[j] = "broken" -> "lost"
                          [] OTHER -> "open"]

Belt == INSTANCE Conveyor WITH
  accepted <- next - 1, fate <- Fate, served <- Served,
  last <- last_yield, results <- yielded

\* The processor implements the conveyor: threads, panics and callers may do
\* what they like, jobs are served one by one in the order of the calls of
\* submit, a result comes no earlier than its pace allows, and a job is passed
\* over only if its handler has panicked.
ImplementsConveyor == Belt!Spec

\* Every method returns, also when handlers panic and the sleep is long.
MethodsReturn == op # "none" ~> op = "none"
=============================================================================
