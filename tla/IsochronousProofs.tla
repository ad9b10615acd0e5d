------------------------- MODULE IsochronousProofs -------------------------
(***************************************************************************)
(* Safety properties of Isochronous for any number of threads and jobs and *)
(* any bound on the time.                                                  *)
(***************************************************************************)
EXTENDS Isochronous, TLAPS

\* What is proved about a WorkerSet, for the one of the processor.
PoolProofs == INSTANCE WorkerSetProofs

\* A thread that has a job is working on it; no two threads have the same.
JobsMatch ==
  /\ DOMAIN thread = Threads
  /\ \A t \in Threads : job[t] # 0 =>
       /\ job[t] < next /\ output[job[t]] \in {"working", "fulfilled"}
       /\ thread[t] = "unwinding" => output[job[t]] = "working"
  /\ \A t \in Threads : thread[t] \notin {"handling", "unwinding"} => job[t] = 0
  /\ \A t \in Threads : thread[t] = "handling" => job[t] # 0
  /\ \A t, u \in Threads : job[t] # 0 /\ job[t] = job[u] => t = u

\* What the methods have in hand.
MethodsMatch ==
  /\ op \in {"check", "block", "sleep"} => owner = "idle"
  /\ op = "check" => in_progress # <<>>
  /\ IF op \in {"block", "sleep"}
     THEN popped.job \in Jobs /\ popped.job + Len(in_progress) + 1 = next
     ELSE popped = NoJob
  /\ op = "block" /\ checked => output[popped.job] \in {"released", "broken"}

\* The time between the submission of a job and that of the one before it.
PaceOf(times, j) == IF j = 1 THEN 0 ELSE times[j] - times[j-1]

\* The queue holds the jobs submitted last, with their paces.
QueueMatches ==
  /\ \A i \in 1..Len(in_progress) :
       /\ in_progress[i].job + Len(in_progress) + 1 = next + i
       /\ in_progress[i].pace = PaceOf(submitted, in_progress[i].job)
  /\ popped.job # 0 => popped.pace = PaceOf(submitted, popped.job)

\* The job has left the queue, and block() has made up its mind about it.
Done(j) == j + Len(in_progress) < next /\ j # popped.job

\* All such jobs have been yielded in order, or are broken.
ResultsMatch ==
  /\ \A i \in 1..Len(yielded) : Done(yielded[i].job)
  /\ \A i, k \in 1..Len(yielded) : i < k => yielded[i].job < yielded[k].job
  /\ \A k \in Jobs : Done(k) => \/ output[k] = "broken"
                                \/ \E i \in 1..Len(yielded) : yielded[i].job = k

\* Submissions are in the order of time.
SubmissionsMatch ==
  /\ \A j \in Jobs : j < next => submitted[j] \in 1..MaxTime
  /\ \A j, k \in Jobs : j <= k /\ k < next => submitted[j] <= submitted[k]
  /\ last_submit = IF next = 1 THEN 0 ELSE submitted[next-1]
  /\ last_submit <= now
  /\ op \in {"submit", "try_submit", "exchange"} =>
       /\ next \in Jobs /\ entered \in 1..MaxTime
       /\ entered <= now /\ last_submit <= entered

\* When the input of the newest result was submitted.
LastInput == IF yielded = <<>> THEN 0 ELSE submitted[yielded[Len(yielded)].job]

\* Results keep their distance, and no longer than the inputs took.
PacesMatch ==
  /\ \A i \in 1..Len(yielded) : i # 1 =>
       yielded[i].time - yielded[i-1].time >= PaceOf(submitted, yielded[i].job)
  /\ last_yield = IF yielded = <<>> THEN 0 ELSE yielded[Len(yielded)].time
  /\ yielded # <<>> => last_yield # 0
  /\ last_yield <= MaxTime + LastInput
  /\ \/ now <= MaxTime + LastInput
     \/ op = "sleep" /\ now <= MaxTime + submitted[popped.job]

Inv == /\ TypeOK /\ JobsMatch /\ MethodsMatch /\ QueueMatches
       /\ ResultsMatch /\ SubmissionsMatch /\ PacesMatch

-----------------------------------------------------------------------------
\* block() takes the first job off the queue.
LEMMA TailFacts ==
  ASSUME NEW S, NEW q \in Seq(S), q # <<>>
  PROVE  /\ Tail(q) \in Seq(S) /\ Len(q) \in Nat /\ Len(Tail(q)) = Len(q) - 1
         /\ Len(q) > 0 /\ Head(q) = q[1] /\ Head(q) \in S
         /\ \A i \in 1..Len(Tail(q)) : Tail(q)[i] = q[i + 1]
OBVIOUS

\* The elements of a sequence.
LEMMA ElementFacts ==
  ASSUME NEW S, NEW q \in Seq(S)
  PROVE  Len(q) \in Nat /\ \A i \in 1..Len(q) : q[i] \in S
OBVIOUS

\* A submission and a result are put behind the others.
LEMMA AppendFacts ==
  ASSUME NEW S, NEW q \in Seq(S), NEW e \in S
  PROVE  /\ Append(q, e) \in Seq(S) /\ Len(q) \in Nat
         /\ Len(Append(q, e)) = Len(q) + 1 /\ Append(q, e) # <<>>
         /\ \A i \in 1..Len(Append(q, e)) :
              Append(q, e)[i] = IF i <= Len(q) THEN q[i] ELSE e
OBVIOUS

\* Jobs and times are numbers.
LEMMA Numbers ==
  /\ Count \in Nat /\ MaxJobs \in Nat /\ MaxTime \in Nat
  /\ MaxJobs > 0 /\ MaxTime > 0
  /\ \A j \in Jobs : j \in Nat /\ j \in 1..MaxJobs
  /\ \A n \in Times : n \in Nat /\ n <= 2 * MaxTime
BY ParametersArePositive DEF Jobs, Times

\* The results and the jobs in the queue.
LEMMA Sequences ==
  ASSUME Inv
  PROVE  /\ Len(yielded) \in Nat /\ Len(in_progress) \in Nat
         /\ next \in Nat /\ next > 0
         /\ \A i \in 1..Len(in_progress) :
              in_progress[i].job \in Jobs /\ in_progress[i].pace \in Times
         /\ \A i \in 1..Len(yielded) :
              /\ yielded[i].job \in Jobs /\ yielded[i].job \in Nat
              /\ yielded[i].job < next
<1> DEFINE S == [job : Jobs, pace : Times]
           Y == [job : Jobs, time : Times]
<1>1. in_progress \in Seq(S) /\ yielded \in Seq(Y)
  BY DEF Inv, TypeOK
<1>2. \A q \in S : q.job \in Jobs /\ q.pace \in Times
  OBVIOUS
<1>3. \A y \in Y : y.job \in Jobs
  OBVIOUS
<1>4. next \in Nat /\ next > 0
  BY Numbers DEF Inv, TypeOK
<1> HIDE DEF S, Y
<1>5. /\ Len(in_progress) \in Nat
      /\ \A i \in 1..Len(in_progress) : in_progress[i] \in S
  BY <1>1, ElementFacts
<1>6. /\ Len(yielded) \in Nat
      /\ \A i \in 1..Len(yielded) : yielded[i] \in Y
  BY <1>1, ElementFacts
<1>7. ASSUME NEW i \in 1..Len(yielded)
      PROVE  /\ yielded[i].job \in Jobs /\ yielded[i].job \in Nat
             /\ yielded[i].job < next
  <2>1. yielded[i].job \in Jobs /\ yielded[i].job \in Nat
    BY <1>3, <1>6, Numbers
  <2>2. yielded[i].job + Len(in_progress) < next
    BY DEF Inv, ResultsMatch, Done
  <2>3. QED
    BY <2>1, <2>2, <1>4, <1>5
<1>8. QED
  BY <1>2, <1>4, <1>5, <1>6, <1>7

\* The invariant holds initially.
LEMMA InvInit == Init => Inv
<1> SUFFICES ASSUME Init PROVE Inv
  OBVIOUS
<1> USE DEF Init, Pool!Init
<1>1. /\ 0 \in Times /\ 1 \in Times \ {0} /\ 1 \in 1..(MaxJobs + 1)
      /\ 0 \in 0..MaxJobs
  BY Numbers DEF Times
<1>2. TypeOK
  <2>1. NoJob \in [job : 0..MaxJobs, pace : Times]
    BY <1>1 DEF NoJob
  <2>2. /\ job \in [Threads -> 0..MaxJobs] /\ output \in [Jobs -> JobStates]
        /\ submitted \in [Jobs -> Times]
    BY <1>1 DEF JobStates
  <2>3. /\ in_progress \in Seq([job : Jobs, pace : Times])
        /\ yielded \in Seq([job : Jobs, time : Times])
    OBVIOUS
  <2>4. QED
    BY <1>1, <2>1, <2>2, <2>3 DEF TypeOK
<1>3. JobsMatch
  BY DEF JobsMatch, Threads
<1>4. MethodsMatch /\ QueueMatches
  BY DEF MethodsMatch, QueueMatches, NoJob
<1>5. ResultsMatch /\ SubmissionsMatch
  BY Numbers DEF ResultsMatch, SubmissionsMatch, Done
<1>6. PacesMatch
  BY Numbers DEF PacesMatch, LastInput
<1>7. QED
  BY <1>2, <1>3, <1>4, <1>5, <1>6 DEF Inv

\* Steps that leave the jobs and the results alone and may begin or end a
\* method that has taken no job out of the queue.
LEMMA CallStep ==
  ASSUME Inv,
         UNCHANGED <<now, tasks, queue, release>>,
         DOMAIN thread' = DOMAIN thread,
         \A t \in Threads : \/ thread'[t] = thread[t]
                            \/ thread[t] = "none" /\ thread'[t] = "looping",
         \/ op' = op /\ entered' = entered
            /\ (op \in {"check", "block", "sleep"} => owner' = "idle")
         \/ op \notin {"block", "sleep"} /\ op' = "none"
            /\ entered' \in {0, entered}
         \/ /\ op = "none" /\ op' \in {"submit", "try_submit", "exchange"}
            /\ next \in Jobs /\ entered' = now /\ now <= MaxTime
  PROVE  Inv'
<1>1. UNCHANGED <<now, job, output, next, in_progress, last_submit, submitted,
                  popped, checked, last_yield, yielded>>
  BY DEF tasks, queue, release
<1>2. TypeOK'
  <2>1. 0 \in Times
    BY Numbers DEF Times
  <2>2. entered' \in Times /\ op' \in Methods \cup {"none"}
    BY <2>1 DEF Inv, TypeOK, Methods
  <2>3. QED
    BY <1>1, <2>2 DEF Inv, TypeOK
<1>3. JobsMatch'
  BY <1>1 DEF Inv, JobsMatch
<1>4. MethodsMatch'
  BY <1>1 DEF Inv, MethodsMatch
<1>5. QueueMatches' /\ ResultsMatch'
  BY <1>1 DEF Inv, QueueMatches, PaceOf, ResultsMatch, Done
<1>6. SubmissionsMatch'
  <2>1. now \in Nat /\ now > 0 /\ last_submit <= now
    BY Numbers DEF Inv, TypeOK, SubmissionsMatch, Times
  <2>2. op' \in {"submit", "try_submit", "exchange"} =>
          /\ next' \in Jobs /\ entered' \in 1..MaxTime
          /\ entered' <= now /\ last_submit <= entered'
    <3>1. CASE op' = op /\ entered' = entered
      BY <3>1, <1>1 DEF Inv, SubmissionsMatch
    <3>2. CASE op' = "none"
      BY <3>2
    <3>3. CASE next \in Jobs /\ entered' = now /\ now <= MaxTime
      BY <3>3, <2>1, <1>1, Numbers
    <3>4. QED
      BY <3>1, <3>2, <3>3
  <2>3. QED
    BY <2>2, <1>1 DEF Inv, SubmissionsMatch
<1>7. PacesMatch'
  BY <1>1 DEF Inv, PacesMatch, LastInput, PaceOf
<1>8. QED
  BY <1>2, <1>3, <1>4, <1>5, <1>6, <1>7 DEF Inv

\* Entering and leaving methods, and all that the pool and its owner do.
LEMMA CallSteps ==
  ASSUME Inv,
         \/ \E m \in {"submit", "try_submit", "exchange"} : Enter(m)
         \/ TryFails \/ PoolJoins \/ PoolJoined \/ CheckNotDone \/ Manage
  PROVE  Inv'
<1>1. ASSUME NEW m \in {"submit", "try_submit", "exchange"}, Enter(m)
      PROVE  Inv'
  <2>1. thread' = thread
    BY <1>1 DEF Enter, Pool!TrySend, Pool!Send, Pool!TryAlways
  <2>2. QED
    BY <1>1, <2>1, CallStep DEF Enter
<1>2. CASE TryFails
  <2>1. thread' = thread /\ owner = "trying"
    BY <1>2 DEF TryFails, Pool!Full
  <2>2. op \notin {"block", "sleep"}
    BY <2>1 DEF Inv, MethodsMatch
  <2>3. QED
    BY <1>2, <2>1, <2>2, CallStep DEF TryFails
<1>3. CASE PoolJoins
  <2>1. thread' = thread
    BY <1>3 DEF PoolJoins, Pool!FlagSeen, Pool!Disconnected, Pool!Join,
                Pool!JoinAnyway
  <2>2. op = "none" \/ owner # "idle"
    BY <1>3 DEF PoolJoins, Pool!Disconnected, Pool!Join, Pool!JoinAnyway,
                Pool!Joining
  <2>3. op \notin {"check", "block", "sleep"}
    BY <2>2 DEF Inv, MethodsMatch
  <2>4. QED
    BY <1>3, <2>1, <2>3, CallStep DEF PoolJoins
<1>4. CASE PoolJoined
  <2>1. thread' = thread /\ owner # "idle"
    BY <1>4 DEF PoolJoined, Pool!Joined, Pool!Joining
  <2>2. op \notin {"block", "sleep"}
    BY <2>1 DEF Inv, MethodsMatch
  <2>3. QED
    BY <1>4, <2>1, <2>2, CallStep DEF PoolJoined
<1>5. CASE CheckNotDone
  <2>1. thread' = thread
    BY <1>5 DEF CheckNotDone, pool
  <2>2. QED
    BY <1>5, <2>1, CallStep DEF CheckNotDone
<1>6. CASE Manage
  <2>1. /\ DOMAIN thread' = DOMAIN thread
        /\ \A t \in Threads : \/ thread'[t] = thread[t]
                              \/ thread[t] = "none" /\ thread'[t] = "looping"
    <3>1. CASE \E t \in Threads : Pool!SpawnThread(t)
      BY <3>1 DEF Pool!SpawnThread, Inv, JobsMatch
    <3>2. CASE Pool!Spawned \/ Pool!SpawnFails \/ Pool!Drop
               \/ Pool!PanicOrCatch
      BY <3>2 DEF Pool!Spawned, Pool!SpawnFails, Pool!Drop, Pool!PanicOrCatch
    <3>3. QED
      BY <1>6, <3>1, <3>2 DEF Manage, Pool!Spawning, Threads
  <2>2. QED
    BY <1>6, <2>1, CallStep DEF Manage
<1>7. QED
  BY <1>1, <1>2, <1>3, <1>4, <1>5, <1>6

\* A thread that resolves the promise of its job changes that of no other.
LEMMA ResolveStep ==
  ASSUME Inv, NEW t \in Threads, job[t] # 0,
         NEW state \in {"fulfilled", "released", "broken"},
         Resolve(t, state), job' = job \/ job' = [job EXCEPT ![t] = 0],
         UNCHANGED <<now, op, entered, queue, release>>,
         state # "fulfilled" => job' = [job EXCEPT ![t] = 0],
         DOMAIN thread' = DOMAIN thread,
         \A u \in Threads \ {t} : thread'[u] = thread[u],
         job'[t] # 0 => thread[t] = "handling" /\ thread'[t] = "handling",
         job'[t] = 0 => thread'[t] # "handling",
         owner' = owner
  PROVE  Inv'
<1>1. UNCHANGED <<now, next, in_progress, last_submit, submitted,
                  popped, checked, last_yield, yielded>>
  BY DEF queue, release
<1>2. /\ job[t] \in Jobs /\ output[job[t]] \in {"working", "fulfilled"}
      /\ job' \in [Threads -> 0..MaxJobs] /\ output' \in [Jobs -> JobStates]
  <2>1. job[t] \in Jobs
    BY Numbers DEF Inv, TypeOK, Jobs
  <2>2. output[job[t]] \in {"working", "fulfilled"}
    BY DEF Inv, JobsMatch
  <2>3. output' \in [Jobs -> JobStates]
    BY DEF Inv, TypeOK, Resolve, JobStates
  <2>4. job' \in [Threads -> 0..MaxJobs]
    <3>1. 0 \in 0..MaxJobs
      BY Numbers
    <3>2. QED
      BY <3>1 DEF Inv, TypeOK
  <2>5. QED
    BY <2>1, <2>2, <2>3, <2>4
<1>3. /\ \A j \in Jobs : j # job[t] => output'[j] = output[j]
      /\ output'[job[t]] = state
      /\ \A u \in Threads : u # t => job'[u] = job[u]
      /\ job'[t] \in {0, job[t]}
      /\ state # "fulfilled" => job'[t] = 0
  BY <1>2 DEF Inv, TypeOK, Resolve
<1>4. \A j \in Jobs : output[j] \in {"released", "broken"}
                      => output'[j] = output[j]
  BY <1>2, <1>3
<1>5. TypeOK'
  BY <1>1, <1>2 DEF Inv, TypeOK
<1>6. JobsMatch'
  <2>1. ASSUME NEW u \in Threads, u # t, job[u] # 0
        PROVE  output'[job[u]] = output[job[u]]
    <3>1. job[u] \in Jobs /\ job[u] # job[t]
      BY <2>1, Numbers DEF Inv, TypeOK, JobsMatch, Jobs
    <3>2. QED
      BY <3>1, <1>3
  <2>2. QED
    BY <1>1, <1>3, <2>1 DEF Inv, JobsMatch
<1>7. MethodsMatch'
  BY <1>1, <1>4 DEF Inv, MethodsMatch
<1>8. QueueMatches' /\ ResultsMatch'
  BY <1>1, <1>4 DEF Inv, QueueMatches, PaceOf, ResultsMatch, Done
<1>9. SubmissionsMatch' /\ PacesMatch'
  BY <1>1 DEF Inv, SubmissionsMatch, PacesMatch, LastInput, PaceOf
<1>10. QED
  BY <1>5, <1>6, <1>7, <1>8, <1>9 DEF Inv

\* A thread that moves without its job: it has none, or starts to unwind.
LEMMA MoveStep ==
  ASSUME Inv, NEW t \in Threads, UNCHANGED <<now, op, entered, tasks, queue,
                                             release, owner>>,
         DOMAIN thread' = DOMAIN thread,
         \A u \in Threads \ {t} : thread'[u] = thread[u],
         \/ job[t] = 0 /\ thread'[t] # "handling"
         \/ thread'[t] = "unwinding" /\ output[job[t]] = "working"
            /\ thread[t] = "handling"
         \/ thread' = thread
  PROVE  Inv'
<1>1. UNCHANGED <<now, job, output, next, in_progress, last_submit, submitted,
                  popped, checked, last_yield, yielded>>
  BY DEF tasks, queue, release
<1>2. JobsMatch'
  BY <1>1 DEF Inv, JobsMatch
<1>3. TypeOK' /\ MethodsMatch'
  BY <1>1 DEF Inv, TypeOK, MethodsMatch
<1>4. QueueMatches' /\ ResultsMatch'
  BY <1>1 DEF Inv, QueueMatches, PaceOf, ResultsMatch, Done
<1>5. SubmissionsMatch' /\ PacesMatch'
  BY <1>1 DEF Inv, SubmissionsMatch, PacesMatch, LastInput, PaceOf
<1>6. QED
  BY <1>2, <1>3, <1>4, <1>5 DEF Inv

\* The handler, and the loop around it.
LEMMA ThreadStep ==
  ASSUME Inv, NEW t \in Threads, Fulfill(t) \/ Worker(t)
  PROVE  Inv'
<1> DOMAIN thread = Threads /\ job \in [Threads -> 0..MaxJobs]
  BY DEF Inv, JobsMatch, TypeOK
<1>1. CASE Fulfill(t)
  <2>1. job[t] # 0 /\ thread[t] = "handling"
    BY <1>1 DEF Fulfill, Inv, JobsMatch
  <2>2. QED
    BY <1>1, <2>1, ResolveStep DEF Fulfill, pool
<1>2. CASE HandlerReturns(t)
  <2>1. /\ thread[t] = "handling" /\ owner' = owner
        /\ thread' = [thread EXCEPT ![t] = "looping"]
        /\ Resolve(t, "released") /\ job' = [job EXCEPT ![t] = 0]
        /\ UNCHANGED <<now, op, entered, queue, release>>
    BY <1>2 DEF HandlerReturns, Pool!HandlerReturns, Pool!Move, Consume
  <2>2. job[t] # 0 /\ job'[t] = 0
    BY <2>1 DEF Inv, JobsMatch
  <2>3. QED
    BY <2>1, <2>2, ResolveStep
<1>3. CASE HandlerPanics(t)
  <2>1. /\ thread[t] = "handling" /\ owner' = owner
        /\ thread' = [thread EXCEPT ![t] = "unwinding"]
        /\ output[job[t]] = "working"
        /\ UNCHANGED <<now, op, entered, tasks, queue, release>>
    BY <1>3 DEF HandlerPanics, Pool!HandlerPanics, Pool!Move
  <2>2. QED
    BY <2>1, MoveStep
<1>4. CASE DropPromise(t)
  <2>1. /\ thread[t] = "unwinding" /\ job[t] # 0 /\ owner' = owner
        /\ thread' = thread
        /\ Resolve(t, "broken") /\ job' = [job EXCEPT ![t] = 0]
        /\ UNCHANGED <<now, op, entered, queue, release>>
    BY <1>4 DEF DropPromise, Consume, pool
  <2>2. job'[t] = 0
    BY <2>1
  <2>3. QED
    BY <2>1, <2>2, ResolveStep
<1>5. CASE Loop(t)
  <2>1. PICK from \in {"looping", "recv", "unwinding", "caught"},
             to \in {"recv", "finished", "caught", "panicked"} :
          /\ thread[t] = from /\ thread' = [thread EXCEPT ![t] = to]
          /\ owner' = owner
          /\ UNCHANGED <<now, op, entered, tasks, queue, release>>
          /\ from = "unwinding" => job[t] = 0
    BY <1>5 DEF Loop, Pool!Loop, Pool!Park, Pool!Exit, Pool!DropReceiver,
                Pool!SetFlag, Pool!Move
  <2>2. job[t] = 0
    BY <2>1 DEF Inv, JobsMatch
  <2>3. QED
    BY <2>1, <2>2, MoveStep
<1>6. QED
  BY <1>1, <1>2, <1>3, <1>4, <1>5 DEF Worker

\* A thread accepts the job, whose handle is queued behind the others.
LEMMA AcceptStep ==
  ASSUME Inv, NEW t \in Threads, Accept(t)
  PROVE  Inv'
<1>1. /\ op \in {"submit", "try_submit", "exchange"} /\ owner' = "idle"
      /\ thread[t] = "recv" /\ thread' = [thread EXCEPT ![t] = "handling"]
      /\ job' = [job EXCEPT ![t] = next]
      /\ output' = [output EXCEPT ![next] = "working"]
      /\ in_progress' = Append(in_progress, [job |-> next, pace |-> Pace])
      /\ last_submit' = entered /\ next' = next + 1 /\ entered' = 0
      /\ submitted' = [submitted EXCEPT ![next] = entered]
      /\ op' = IF op = "exchange" THEN "check" ELSE "none"
      /\ UNCHANGED <<now, popped, checked, last_yield, yielded>>
  BY DEF Accept, Push, Pool!Handoff, release
<1>2. /\ next \in Jobs /\ next \in Nat /\ next > 0 /\ next' \in 1..(MaxJobs + 1)
      /\ entered \in 1..MaxTime /\ entered <= now /\ last_submit <= entered
      /\ last_submit \in Nat /\ popped = NoJob /\ popped.job = 0
      /\ in_progress \in Seq([job : Jobs, pace : Times])
  <2>1. /\ next \in Jobs /\ entered \in 1..MaxTime
        /\ entered <= now /\ last_submit <= entered
    BY <1>1 DEF Inv, SubmissionsMatch
  <2>2. next \in Nat /\ next > 0 /\ next' \in 1..(MaxJobs + 1)
    BY <2>1, <1>1, Numbers DEF Jobs
  <2>3. last_submit \in Nat /\ in_progress \in Seq([job : Jobs, pace : Times])
    BY Numbers DEF Inv, TypeOK
  <2>4. popped = NoJob /\ popped.job = 0
    BY <1>1 DEF Inv, MethodsMatch, NoJob
  <2>5. QED
    BY <2>1, <2>2, <2>3, <2>4
<1>3. Pace \in Times /\ Pace \in Nat
  BY <1>2, Numbers DEF Pace, Times
<1>4. [job |-> next, pace |-> Pace] \in [job : Jobs, pace : Times]
  BY <1>2, <1>3
<1>5. /\ in_progress' \in Seq([job : Jobs, pace : Times])
      /\ Len(in_progress) \in Nat /\ in_progress' # <<>>
      /\ Len(in_progress') = Len(in_progress) + 1
      /\ \A i \in 1..Len(in_progress') :
           in_progress'[i] = IF i <= Len(in_progress) THEN in_progress[i]
                             ELSE [job |-> next, pace |-> Pace]
  <2> DEFINE S == [job : Jobs, pace : Times]
             e == [job |-> next, pace |-> Pace]
  <2>1. in_progress \in Seq(S) /\ e \in S
    BY <1>2, <1>4
  <2>2. in_progress' = Append(in_progress, e)
    BY <1>1
  <2> HIDE DEF S, e
  <2>3. /\ Append(in_progress, e) \in Seq(S) /\ Len(in_progress) \in Nat
        /\ Len(Append(in_progress, e)) = Len(in_progress) + 1
        /\ Append(in_progress, e) # <<>>
        /\ \A i \in 1..Len(Append(in_progress, e)) :
             Append(in_progress, e)[i] =
               IF i <= Len(in_progress) THEN in_progress[i] ELSE e
    BY <2>1, AppendFacts
  <2>4. QED
    BY <2>2, <2>3 DEF S, e
<1>5a. Len(in_progress) \in Nat /\ next \in Nat /\ next' = next + 1
       /\ next > 0 /\ next' # 1
  BY <1>1, <1>2, <1>5
<1>6. /\ \A j \in Jobs : j # next => /\ submitted'[j] = submitted[j]
                                     /\ output'[j] = output[j]
      /\ submitted'[next] = entered /\ output'[next] = "working"
  BY <1>1, <1>2 DEF Inv, TypeOK
<1>7. \A j \in Jobs : j < next => PaceOf(submitted', j) = PaceOf(submitted, j)
  <2>1. ASSUME NEW j \in Jobs, j < next, j # 1
        PROVE  j - 1 \in Jobs /\ j # next /\ j - 1 # next
    BY <2>1, <1>2, Numbers DEF Jobs
  <2>2. ASSUME NEW j \in Jobs, j < next
        PROVE  PaceOf(submitted', j) = PaceOf(submitted, j)
    BY <2>1, <2>2, <1>6 DEF PaceOf
  <2>3. QED
    BY <2>2
<1>8. PaceOf(submitted', next) = Pace
  <2>1. CASE next = 1
    <3>1. last_submit = 0
      BY <2>1 DEF Inv, SubmissionsMatch
    <3>2. QED
      BY <2>1, <3>1 DEF PaceOf, Pace
  <2>2. CASE next # 1
    <3>1. /\ next - 1 \in Jobs /\ next - 1 < next /\ next - 1 # next
      BY <2>2, <1>2, Numbers DEF Jobs
    <3>2. last_submit = submitted[next-1] /\ submitted[next-1] \in 1..MaxTime
      BY <2>2, <3>1 DEF Inv, SubmissionsMatch
    <3>3. last_submit # 0 /\ submitted'[next-1] = last_submit
      BY <3>1, <3>2, <1>6, Numbers
    <3>4. submitted'[next] = entered
      BY <1>6
    <3>5. QED
      BY <2>2, <3>3, <3>4 DEF PaceOf, Pace
  <2>3. QED
    BY <2>1, <2>2
<1>9. TypeOK'
  <2>1. job' \in [Threads -> 0..MaxJobs] /\ output' \in [Jobs -> JobStates]
    <3>1. next \in 0..MaxJobs /\ "working" \in JobStates
      BY <1>2, Numbers DEF JobStates
    <3>2. QED
      BY <3>1, <1>1 DEF Inv, TypeOK
  <2>2. submitted' \in [Jobs -> Times] /\ last_submit' \in Times
        /\ entered' \in Times /\ op' \in Methods \cup {"none"}
    <3>1. entered \in Times /\ 0 \in Times
      BY <1>2, Numbers DEF Times
    <3>2. QED
      BY <3>1, <1>1 DEF Inv, TypeOK, Methods
  <2>3. QED
    BY <1>1, <1>2, <1>5, <2>1, <2>2 DEF Inv, TypeOK
<1>10. JobsMatch'
  <2>1. \A u \in Threads : u # t => job'[u] = job[u] /\ thread'[u] = thread[u]
    BY <1>1 DEF Inv, TypeOK, JobsMatch
  <2>2. job'[t] = next /\ thread'[t] = "handling"
    BY <1>1 DEF Inv, TypeOK, JobsMatch
  <2>3. ASSUME NEW u \in Threads, u # t, job[u] # 0
        PROVE  /\ job[u] < next /\ job[u] # next /\ job[u] < next'
               /\ output'[job[u]] = output[job[u]]
    <3>1. job[u] \in Jobs /\ job[u] \in Nat /\ job[u] < next
      BY <2>3, Numbers DEF Inv, TypeOK, JobsMatch, Jobs
    <3>2. QED
      BY <3>1, <1>1, <1>2, <1>6
  <2>4. next < next'
    BY <1>1, <1>2
  <2>5. DOMAIN thread' = Threads
    BY <1>1 DEF Inv, JobsMatch
  <2>6. \A u \in Threads : job'[u] # 0 =>
          /\ job'[u] < next' /\ output'[job'[u]] \in {"working", "fulfilled"}
          /\ thread'[u] = "unwinding" => output'[job'[u]] = "working"
    BY <1>6, <2>1, <2>2, <2>3, <2>4 DEF Inv, JobsMatch
  <2>7. \A u, v \in Threads : job'[u] # 0 /\ job'[u] = job'[v] => u = v
    BY <1>2, <2>1, <2>2, <2>3 DEF Inv, JobsMatch
  <2>8. QED
    BY <1>2, <2>1, <2>2, <2>5, <2>6, <2>7 DEF Inv, JobsMatch
<1>11. MethodsMatch'
  BY <1>1, <1>2, <1>5 DEF MethodsMatch
<1>12. QueueMatches'
  <2>1. ASSUME NEW i \in 1..Len(in_progress')
        PROVE  /\ in_progress'[i].job + Len(in_progress') + 1 = next' + i
               /\ in_progress'[i].pace = PaceOf(submitted', in_progress'[i].job)
    <3>1. /\ i \in Nat /\ i > 0 /\ i <= Len(in_progress) + 1
          /\ Len(in_progress') = Len(in_progress) + 1
      BY <1>5, <1>5a
    <3>2. CASE i <= Len(in_progress)
      <4>1. i \in 1..Len(in_progress)
        BY <3>1, <3>2, <1>5a
      <4>2. in_progress'[i] = in_progress[i]
        BY <3>2, <1>5
      <4>3. in_progress[i].job \in Jobs
        BY <4>1, Sequences
      <4>4. in_progress[i].job \in Nat
        BY <4>3, Numbers
      <4>5. /\ in_progress[i].job + Len(in_progress) + 1 = next + i
            /\ in_progress[i].pace = PaceOf(submitted, in_progress[i].job)
        BY <4>1 DEF Inv, QueueMatches
      <4>6. in_progress[i].job < next
        BY <4>4, <4>5, <3>1, <3>2, <1>5a
      <4>7. PaceOf(submitted', in_progress[i].job) = PaceOf(submitted, in_progress[i].job)
        <5>1. \A j \in Jobs : j < next => PaceOf(submitted', j) = PaceOf(submitted, j)
          BY <1>7
        <5>2. in_progress'[i].job = in_progress[i].job
          BY <4>2
        <5>3. QED
          BY <5>1, <5>2, <4>3, <4>6
      <4>8. in_progress[i].job + (Len(in_progress) + 1) + 1 = (next + 1) + i
        BY <4>4, <4>5, <3>1, <1>5a
      <4>9. QED
        BY <4>2, <4>5, <4>7, <4>8, <3>1, <1>5a
    <3>3. CASE i > Len(in_progress)
      <4>1. i = Len(in_progress) + 1
        BY <3>1, <3>3, <1>5a
      <4>2. in_progress'[i].job = next /\ in_progress'[i].pace = Pace
        BY <3>1, <3>3, <1>5, <1>5a
      <4>3. next + (Len(in_progress) + 1) + 1 = (next + 1) + i
        BY <4>1, <1>5a
      <4>4. QED
        BY <4>2, <4>3, <3>1, <1>8, <1>5a
    <3>4. QED
      BY <3>1, <3>2, <3>3, <1>5a
  <2>2. popped'.job = 0
    BY <1>1, <1>2
  <2>3. QED
    BY <2>1, <2>2 DEF QueueMatches
<1>13. \A j \in Jobs : Done(j)' <=> Done(j)
  <2>1. ASSUME NEW j \in Nat
        PROVE  j + (Len(in_progress) + 1) < next + 1 <=>
                 j + Len(in_progress) < next
    BY <1>5a
  <2>2. Len(in_progress') = Len(in_progress) + 1 /\ popped' = popped
    BY <1>1, <1>5
  <2>3. QED
    BY <2>1, <2>2, <1>5a, Numbers DEF Done
<1>14. \A i \in 1..Len(yielded) : yielded[i].job \in Jobs
                                  /\ yielded[i].job # next
                                  /\ yielded[i].job < next
  BY Sequences, <1>5a
<1>15. ResultsMatch'
  <2>1. ASSUME NEW k \in Jobs, Done(k)
        PROVE  output'[k] = output[k]
    <3>1. k \in Nat /\ k + Len(in_progress) < next
      BY <2>1, Numbers DEF Done
    <3>2. k # next
      BY <3>1, <1>5a
    <3>3. QED
      BY <3>2, <1>6
  <2>2. QED
    BY <2>1, <1>1, <1>13, <1>14 DEF Inv, ResultsMatch
<1>16. SubmissionsMatch'
  <2>1. \A j \in Jobs : j < next' => j = next \/ (j < next /\ j # next)
    BY <1>1, <1>2, Numbers
  <2>2. \A j \in Jobs : j < next' => submitted'[j] \in 1..MaxTime
    BY <2>1, <1>2, <1>6 DEF Inv, SubmissionsMatch
  <2>3. \A j \in Jobs : j < next => submitted[j] <= last_submit
    <3>1. ASSUME NEW j \in Jobs, j < next
          PROVE  submitted[j] <= last_submit
      <4>1. /\ next # 1 /\ j <= next - 1 /\ next - 1 < next
            /\ next - 1 \in Jobs
        BY <3>1, <1>2, Numbers DEF Jobs
      <4>2. submitted[j] <= submitted[next-1]
        BY <4>1 DEF Inv, SubmissionsMatch
      <4>3. QED
        BY <4>1, <4>2 DEF Inv, SubmissionsMatch
    <3>2. QED
      BY <3>1
  <2>4. ASSUME NEW j \in Jobs, NEW k \in Jobs, j <= k, k < next'
        PROVE  submitted'[j] <= submitted'[k]
    <3>1. j \in Nat /\ k \in Nat /\ (k = next \/ k < next)
      BY <2>1, <2>4, Numbers
    <3>2. CASE k = next /\ j = next
      BY <3>2, <1>2, <1>6
    <3>3. CASE k = next /\ j < next
      <4>1. j # next /\ submitted[j] \in 1..MaxTime /\ submitted[j] <= last_submit
        BY <2>3, <3>1, <3>3, <1>2 DEF Inv, SubmissionsMatch
      <4>2. submitted[j] <= entered
        BY <4>1, <1>2, Numbers
      <4>3. QED
        BY <3>3, <4>1, <4>2, <1>6
    <3>4. CASE k < next /\ k # next
      <4>1. j # next
        BY <2>4, <3>1, <3>4, <1>2
      <4>2. QED
        BY <2>4, <3>4, <4>1, <1>6 DEF Inv, SubmissionsMatch
    <3>5. QED
      BY <2>4, <3>1, <3>2, <3>3, <3>4, <1>2
  <2>5. last_submit' = submitted'[next'-1] /\ next' # 1
    <3>1. next' - 1 = next
      BY <1>5a
    <3>2. QED
      BY <3>1, <1>1, <1>6, <1>5a
  <2>6. op' \notin {"submit", "try_submit", "exchange"}
    BY <1>1
  <2>7. QED
    BY <2>2, <2>4, <2>5, <2>6, <1>1, <1>2 DEF SubmissionsMatch
<1>17. PacesMatch'
  <2>1. \A i \in 1..Len(yielded) :
          PaceOf(submitted', yielded[i].job) = PaceOf(submitted, yielded[i].job)
    BY <1>1, <1>7, <1>14 DEF PaceOf
  <2>2. LastInput' = LastInput
    <3>1. CASE yielded = <<>>
      BY <3>1, <1>1 DEF LastInput
    <3>2. CASE yielded # <<>>
      <4>1. Len(yielded) \in 1..Len(yielded)
        BY <3>2 DEF Inv, TypeOK
      <4>2. QED
        BY <4>1, <1>1, <1>6, <1>14 DEF LastInput
    <3>3. QED
      BY <3>1, <3>2
  <2>3. now <= MaxTime + LastInput
    BY <1>1 DEF Inv, PacesMatch
  <2>4. QED
    BY <2>1, <2>2, <2>3, <1>1 DEF Inv, PacesMatch
<1>18. QED
  BY <1>9, <1>10, <1>11, <1>12, <1>15, <1>16, <1>17 DEF Inv

\* block() takes the oldest job out of the queue, and nothing else changes.
LEMMA PopStep ==
  ASSUME Inv, op \notin {"block", "sleep"}, in_progress # <<>>,
         owner = "idle", NEW sure \in BOOLEAN, PopFront(sure),
         sure => output[Head(in_progress).job] \in {"released", "broken"}
  PROVE  Inv'
<1> DEFINE first == in_progress[1]
<1>1. /\ op' = "block" /\ checked' = sure /\ popped' = Head(in_progress)
      /\ in_progress' = Tail(in_progress)
      /\ owner' = owner /\ thread' = thread
      /\ UNCHANGED <<now, entered, job, output, next, last_submit, submitted,
                     last_yield, yielded>>
  BY DEF PopFront, tasks, pool
<1>2. /\ in_progress' \in Seq([job : Jobs, pace : Times])
      /\ Len(in_progress) > 0 /\ Len(in_progress') = Len(in_progress) - 1
      /\ popped' = first /\ first \in [job : Jobs, pace : Times]
      /\ \A i \in 1..Len(in_progress') : in_progress'[i] = in_progress[i + 1]
  <2> DEFINE S == [job : Jobs, pace : Times]
  <2>1. in_progress \in Seq(S)
    BY DEF Inv, TypeOK
  <2> HIDE DEF S
  <2>2. /\ Tail(in_progress) \in Seq(S) /\ Len(in_progress) > 0
        /\ Len(Tail(in_progress)) = Len(in_progress) - 1
        /\ Head(in_progress) = first /\ Head(in_progress) \in S
        /\ \A i \in 1..Len(Tail(in_progress)) :
             Tail(in_progress)[i] = in_progress[i + 1]
    BY <2>1, TailFacts
  <2>3. QED
    BY <2>2, <1>1 DEF S
<1>3. Len(in_progress) \in Nat /\ next \in Nat /\ 1 \in 1..Len(in_progress)
  BY <1>2, Sequences
<1>4. /\ first.job \in Jobs /\ first.job \in Nat /\ first.pace \in Times
      /\ first.pace = PaceOf(submitted, first.job)
  BY <1>2, <1>3, Numbers DEF Inv, QueueMatches
<1>5. first.job + Len(in_progress) = next
  <2>1. first.job + Len(in_progress) + 1 = next + 1
    BY <1>3 DEF Inv, QueueMatches
  <2>2. QED
    BY <2>1, <1>3, <1>4
<1>6. popped = NoJob /\ popped.job = 0
  BY DEF Inv, MethodsMatch, NoJob
<1>7. TypeOK'
  <2>1. popped' \in [job : 0..MaxJobs, pace : Times]
    BY <1>2, Numbers DEF Jobs
  <2>2. QED
    BY <1>1, <1>2, <2>1 DEF Inv, TypeOK, Methods
<1>8. JobsMatch'
  BY <1>1 DEF Inv, JobsMatch
<1>9. MethodsMatch'
  <2>1. popped'.job + Len(in_progress') + 1 = next'
    BY <1>1, <1>2, <1>3, <1>4, <1>5
  <2>2. checked' => output'[popped'.job] \in {"released", "broken"}
    BY <1>1
  <2>3. QED
    BY <2>1, <2>2, <1>1, <1>2, <1>4 DEF MethodsMatch
<1>10. QueueMatches'
  <2>1. ASSUME NEW i \in 1..Len(in_progress')
        PROVE  /\ in_progress'[i].job + Len(in_progress') + 1 = next + i
               /\ in_progress'[i].pace = PaceOf(submitted, in_progress'[i].job)
    <3>1. i \in Nat /\ i + 1 \in 1..Len(in_progress)
      BY <1>2, <1>3
    <3>2. in_progress'[i] = in_progress[i + 1]
      BY <1>2
    <3>3. /\ in_progress[i + 1].job + Len(in_progress) + 1 = next + (i + 1)
          /\ in_progress[i + 1].pace
               = PaceOf(submitted, in_progress[i + 1].job)
      BY <3>1 DEF Inv, QueueMatches
    <3>4. in_progress[i + 1].job \in Nat
      BY <3>1, Sequences, Numbers
    <3>5. in_progress[i + 1].job + (Len(in_progress) - 1) + 1 = next + i
      BY <3>1, <3>3, <3>4, <1>3
    <3>6. Len(in_progress') = Len(in_progress) - 1
      BY <1>2
    <3>7. QED
      BY <3>2, <3>3, <3>5, <3>6
  <2>2. popped'.pace = PaceOf(submitted, popped'.job)
    BY <1>2, <1>4
  <2>3. QED
    BY <2>1, <2>2, <1>1 DEF QueueMatches
<1>11. ResultsMatch'
  <2>1. ASSUME NEW j \in Jobs
        PROVE  Done(j)' <=> Done(j)
    <3>1. j \in Nat /\ j # 0
      BY Numbers DEF Jobs
    <3>2. Done(j)' <=> j + (Len(in_progress) - 1) < next /\ j # first.job
      BY <1>1, <1>2 DEF Done
    <3>3. Done(j) <=> j + Len(in_progress) < next
      BY <3>1, <1>6 DEF Done
    <3>4. j + (Len(in_progress) - 1) < next /\ j # first.job
            <=> j + Len(in_progress) < next
      BY <3>1, <1>3, <1>4, <1>5
    <3>5. QED
      BY <3>2, <3>3, <3>4
  <2>2. QED
    BY <2>1, <1>1, Sequences DEF Inv, ResultsMatch
<1>12. SubmissionsMatch'
  BY <1>1 DEF Inv, SubmissionsMatch
<1>13. PacesMatch'
  BY <1>1 DEF Inv, PacesMatch, LastInput, PaceOf
<1>14. QED
  BY <1>7, <1>8, <1>9, <1>10, <1>11, <1>12, <1>13 DEF Inv

\* exchange finds the oldest job done, or block() is called.
LEMMA PopSteps == ASSUME Inv, CheckDone \/ Block PROVE Inv'
<1>1. CASE CheckDone
  <2>1. op = "check" /\ PopFront(TRUE) /\ owner = "idle" /\ in_progress # <<>>
    BY <1>1 DEF CheckDone, Inv, MethodsMatch
  <2>2. output[Head(in_progress).job] \in {"released", "broken"}
    BY <1>1 DEF CheckDone, WillBlock
  <2>3. QED
    BY <2>1, <2>2, PopStep
<1>2. CASE Block
  BY <1>2, PopStep DEF Block
<1>3. QED
  BY <1>1, <1>2

\* block() has the result, or learns that there is none.
LEMMA ReceivedStep == ASSUME Inv, Received PROVE Inv'
<1>1. /\ op = "block" /\ checked' = FALSE
      /\ owner' = owner /\ thread' = thread
      /\ UNCHANGED <<now, entered, job, output, next, in_progress,
                     last_submit, submitted, last_yield, yielded>>
      /\ \/ /\ output[popped.job] = "broken" /\ op' = "none"
            /\ popped' = NoJob
         \/ op' = "sleep" /\ popped' = popped
  BY DEF Received, pool, tasks, queue
<1>2. /\ owner = "idle" /\ popped.job \in Jobs /\ popped.job \in Nat
      /\ popped.job + Len(in_progress) + 1 = next
  BY <1>1, Numbers DEF Inv, MethodsMatch
<1>3. Len(in_progress) \in Nat /\ next \in Nat
  BY Sequences
<1>4. NoJob \in [job : 0..MaxJobs, pace : Times] /\ NoJob.job = 0
  BY Numbers DEF NoJob, Times
<1>5. TypeOK'
  <2>1. popped' \in [job : 0..MaxJobs, pace : Times]
    BY <1>1, <1>4 DEF Inv, TypeOK
  <2>2. QED
    BY <1>1, <2>1 DEF Inv, TypeOK, Methods
<1>6. JobsMatch' /\ MethodsMatch'
  BY <1>1, <1>2 DEF Inv, JobsMatch, MethodsMatch
<1>7. QueueMatches'
  BY <1>1, <1>4 DEF Inv, QueueMatches
<1>8. ResultsMatch'
  <2>1. CASE popped' = popped
    BY <2>1, <1>1 DEF Inv, ResultsMatch, Done
  <2>2. CASE popped' = NoJob /\ output[popped.job] = "broken"
    <3>1. ASSUME NEW j \in Jobs
          PROVE  Done(j)' <=> Done(j) \/ j = popped.job
      <4>1. j \in Nat /\ j # 0
        BY Numbers DEF Jobs
      <4>2. Done(j)' <=> j + Len(in_progress) < next
        BY <4>1, <2>2, <1>1, <1>4 DEF Done
      <4>3. popped.job + Len(in_progress) < next
        BY <1>2, <1>3
      <4>4. QED
        BY <4>2, <4>3 DEF Done
    <3>2. QED
      BY <3>1, <2>2, <1>1, Sequences DEF Inv, ResultsMatch
  <2>3. QED
    BY <1>1, <2>1, <2>2
<1>9. SubmissionsMatch'
  BY <1>1 DEF Inv, SubmissionsMatch
<1>10. PacesMatch'
  BY <1>1 DEF Inv, PacesMatch, LastInput, PaceOf
<1>11. QED
  BY <1>5, <1>6, <1>7, <1>8, <1>9, <1>10 DEF Inv

\* The newest result is older than the job that block() has in hand, and so is
\* the input of it.
LEMMA Newest ==
  ASSUME Inv, op \in {"block", "sleep"}
  PROVE  /\ popped.job \in Jobs /\ popped.job \in Nat /\ popped.job < next
         /\ submitted[popped.job] \in 1..MaxTime
         /\ \A i \in 1..Len(yielded) : yielded[i].job < popped.job
         /\ LastInput \in Nat /\ LastInput <= MaxTime
         /\ LastInput <= submitted[popped.job]
         /\ yielded # <<>> => /\ popped.job # 1 /\ popped.job - 1 \in Jobs
                              /\ submitted[popped.job-1] \in 1..MaxTime
                              /\ LastInput <= submitted[popped.job-1]
<1>1. /\ popped.job \in Jobs /\ popped.job \in Nat
      /\ popped.job + Len(in_progress) + 1 = next
  BY Numbers DEF Inv, MethodsMatch
<1>2. Len(in_progress) \in Nat /\ next \in Nat
  BY Sequences
<1>3. popped.job < next
  BY <1>1, <1>2
<1>4. submitted[popped.job] \in 1..MaxTime
  BY <1>1, <1>3 DEF Inv, SubmissionsMatch
<1>5. ASSUME NEW i \in 1..Len(yielded)
      PROVE  yielded[i].job < popped.job
  <2>1. yielded[i].job \in Nat
    BY Sequences
  <2>2. yielded[i].job + Len(in_progress) < next /\ yielded[i].job # popped.job
    BY DEF Inv, ResultsMatch, Done
  <2>3. QED
    BY <2>1, <2>2, <1>1, <1>2
<1>6. CASE yielded = <<>>
  BY <1>1, <1>3, <1>4, <1>5, <1>6, Numbers DEF LastInput
<1>7. CASE yielded # <<>>
  <2> DEFINE y == yielded[Len(yielded)].job
  <2>1. Len(yielded) \in 1..Len(yielded)
    BY <1>7 DEF Inv, TypeOK
  <2>2. y \in Jobs /\ y \in Nat /\ y < next /\ y < popped.job /\ y > 0
    BY <2>1, <1>5, Sequences DEF Jobs
  <2>3. LastInput = submitted[y]
    BY <1>7 DEF LastInput
  <2> HIDE DEF y
  <2>4. popped.job # 1 /\ popped.job - 1 \in Jobs /\ y <= popped.job - 1
        /\ popped.job - 1 < next
    BY <2>2, <1>1, <1>3, Numbers DEF Jobs
  <2>5. submitted[y] \in 1..MaxTime /\ submitted[popped.job-1] \in 1..MaxTime
    BY <2>2, <2>4 DEF Inv, SubmissionsMatch
  <2>6. submitted[y] <= submitted[popped.job-1]
    BY <2>2, <2>4 DEF Inv, SubmissionsMatch
  <2>7. submitted[y] <= submitted[popped.job]
    <3>1. y <= popped.job
      BY <2>2, <1>1
    <3>2. QED
      BY <3>1, <2>2, <1>1, <1>3 DEF Inv, SubmissionsMatch
  <2>8. submitted[y] \in Nat /\ submitted[y] <= MaxTime
    BY <2>5, Numbers
  <2>9. QED
    BY <2>3, <2>4, <2>5, <2>6, <2>7, <2>8, <1>1, <1>3, <1>4, <1>5
<1>8. QED
  BY <1>6, <1>7

\* The result is let go.
LEMMA YieldStep == ASSUME Inv, Yield PROVE Inv'
<1> DEFINE result == [job |-> popped.job, time |-> now]
<1>1. /\ op = "sleep" /\ Due /\ op' = "none" /\ last_yield' = now
      /\ popped' = NoJob /\ yielded' = Append(yielded, result)
      /\ owner' = owner /\ thread' = thread
      /\ UNCHANGED <<now, entered, job, output, next, in_progress,
                     last_submit, submitted, checked>>
  BY DEF Yield, pool, tasks, queue
<1>2. /\ popped.job \in Jobs /\ popped.job \in Nat
      /\ popped.job + Len(in_progress) + 1 = next
  BY <1>1, Numbers DEF Inv, MethodsMatch
<1>3. /\ Len(in_progress) \in Nat /\ next \in Nat /\ Len(yielded) \in Nat
      /\ now \in Times /\ now \in Nat /\ now # 0
  BY Sequences, Numbers DEF Inv, TypeOK
<1>4. NoJob \in [job : 0..MaxJobs, pace : Times] /\ NoJob.job = 0
  BY Numbers DEF NoJob, Times
<1>5. /\ yielded' \in Seq([job : Jobs, time : Times]) /\ yielded' # <<>>
      /\ Len(yielded') = Len(yielded) + 1
      /\ \A i \in 1..Len(yielded') :
           yielded'[i] = IF i <= Len(yielded) THEN yielded[i] ELSE result
  <2> DEFINE S == [job : Jobs, time : Times]
  <2>1. yielded \in Seq(S) /\ result \in S
    BY <1>2, <1>3 DEF Inv, TypeOK
  <2> HIDE DEF S, result
  <2>2. /\ Append(yielded, result) \in Seq(S)
        /\ Len(Append(yielded, result)) = Len(yielded) + 1
        /\ Append(yielded, result) # <<>>
        /\ \A i \in 1..Len(Append(yielded, result)) :
             Append(yielded, result)[i] =
               IF i <= Len(yielded) THEN yielded[i] ELSE result
    BY <2>1, AppendFacts
  <2>3. QED
    BY <2>2, <1>1 DEF S
<1>6. /\ \A i \in 1..Len(yielded) : i \in 1..Len(yielded')
                                    /\ yielded'[i] = yielded[i]
      /\ Len(yielded) + 1 \in 1..Len(yielded')
      /\ yielded'[Len(yielded) + 1] = result
      /\ \A i \in 1..Len(yielded') : i \in 1..Len(yielded)
                                     \/ i = Len(yielded) + 1
  BY <1>3, <1>5
<1>7. TypeOK'
  BY <1>1, <1>3, <1>4, <1>5 DEF Inv, TypeOK
<1>8. JobsMatch' /\ MethodsMatch'
  BY <1>1 DEF Inv, JobsMatch, MethodsMatch
<1>9. QueueMatches'
  BY <1>1, <1>4 DEF Inv, QueueMatches
<1>10. ResultsMatch'
  <2>1. ASSUME NEW j \in Jobs
        PROVE  Done(j)' <=> Done(j) \/ j = popped.job
    <3>1. j \in Nat /\ j # 0
      BY Numbers DEF Jobs
    <3>2. Done(j)' <=> j + Len(in_progress) < next
      BY <3>1, <1>1, <1>4 DEF Done
    <3>3. popped.job + Len(in_progress) < next
      BY <1>2, <1>3
    <3>4. QED
      BY <3>2, <3>3 DEF Done
  <2>2. \A i \in 1..Len(yielded') :
          /\ yielded'[i].job + Len(in_progress') < next'
          /\ yielded'[i].job # popped'.job
    <3>1. \A i \in 1..Len(yielded) :
            yielded[i].job + Len(in_progress) < next /\ yielded[i].job # 0
      BY Sequences DEF Inv, ResultsMatch, Done, Jobs
    <3>2. popped.job + Len(in_progress) < next /\ popped.job # 0
      BY <1>2, <1>3 DEF Jobs
    <3>3. popped'.job = 0 /\ in_progress' = in_progress /\ next' = next
      BY <1>1, <1>4
    <3>4. QED
      BY <3>1, <3>2, <3>3, <1>6
  <2>3. ASSUME NEW i \in 1..Len(yielded'), NEW k \in 1..Len(yielded'), i < k
        PROVE  yielded'[i].job < yielded'[k].job
    <3>1. i \in 1..Len(yielded)
      BY <2>3, <1>3, <1>6
    <3>2. CASE k \in 1..Len(yielded)
      BY <2>3, <3>1, <3>2, <1>6 DEF Inv, ResultsMatch
    <3>3. CASE k = Len(yielded) + 1
      BY <3>1, <3>3, <1>1, <1>6, Newest
    <3>4. QED
      BY <3>2, <3>3, <1>6
  <2>4. ASSUME NEW k \in Jobs, Done(k)'
        PROVE  \/ output'[k] = "broken"
               \/ \E i \in 1..Len(yielded') : yielded'[i].job = k
    <3>1. CASE k = popped.job
      BY <3>1, <1>6
    <3>2. CASE Done(k)
      BY <3>2, <1>1, <1>6 DEF Inv, ResultsMatch
    <3>3. QED
      BY <2>1, <2>4, <3>1, <3>2
  <2>5. QED
    BY <2>2, <2>3, <2>4 DEF ResultsMatch, Done
<1>11. SubmissionsMatch'
  BY <1>1 DEF Inv, SubmissionsMatch
<1>12. LastInput' = submitted[popped.job]
  BY <1>1, <1>5, <1>6 DEF LastInput
<1>13. PacesMatch'
  <2>1. now <= MaxTime + LastInput'
    <3>1. LastInput <= submitted[popped.job] /\ LastInput \in Nat
          /\ submitted[popped.job] \in Nat
      BY <1>1, Newest
    <3>2. \/ now <= MaxTime + LastInput
          \/ now <= MaxTime + submitted[popped.job]
      BY DEF Inv, PacesMatch
    <3>3. now <= MaxTime + submitted[popped.job]
      BY <3>1, <3>2, <1>3, Numbers
    <3>4. QED
      BY <3>3, <1>12
  <2>2. ASSUME NEW i \in 1..Len(yielded'), i # 1
        PROVE  yielded'[i].time - yielded'[i-1].time
                 >= PaceOf(submitted, yielded'[i].job)
    <3>1. i \in Nat /\ i - 1 \in 1..Len(yielded)
      BY <2>2, <1>3, <1>5
    <3>2. CASE i \in 1..Len(yielded)
      BY <2>2, <3>1, <3>2, <1>6 DEF Inv, PacesMatch
    <3>3. CASE i = Len(yielded) + 1
      <4>1. i - 1 = Len(yielded) /\ yielded # <<>>
        BY <3>1, <3>3, <1>3
      <4>2. last_yield = yielded[i-1].time /\ last_yield # 0
        BY <4>1 DEF Inv, PacesMatch
      <4>3. now >= last_yield + popped.pace
        BY <4>2, <1>1 DEF Due
      <4>4. /\ popped.pace = PaceOf(submitted, popped.job)
            /\ popped.pace \in Nat /\ last_yield \in Nat
        <5>1. popped.job # 0
          BY <1>2 DEF Jobs
        <5>2. QED
          BY <5>1, Numbers DEF Inv, TypeOK, QueueMatches
      <4>5. now - last_yield >= popped.pace
        BY <4>3, <4>4, <1>3
      <4>6. yielded'[i].time = now /\ yielded'[i-1].time = last_yield
            /\ yielded'[i].job = popped.job
        BY <3>1, <3>3, <4>2, <1>6
      <4>7. QED
        BY <4>4, <4>5, <4>6
    <3>4. QED
      BY <3>2, <3>3, <1>6
  <2>3. yielded'[Len(yielded')].time = now
    BY <1>5, <1>6
  <2>4. QED
    BY <2>1, <2>2, <2>3, <1>1, <1>3, <1>5 DEF PacesMatch
<1>14. QED
  BY <1>7, <1>8, <1>9, <1>10, <1>11, <1>13 DEF Inv

\* Time passes.
LEMMA TickStep == ASSUME Inv, Tick PROVE Inv'
<1>1. /\ now' = now + 1 /\ owner' = owner /\ thread' = thread
      /\ UNCHANGED <<op, entered, job, output, next, in_progress, last_submit,
                     submitted, popped, checked, last_yield, yielded>>
  BY DEF Tick, pool, tasks, queue, release
<1>2. now \in Nat /\ last_submit \in Nat /\ last_yield \in Nat /\ entered \in Nat
      /\ MaxTime \in Nat
  BY Numbers DEF Inv, TypeOK
<1>3. /\ \/ now' <= MaxTime + LastInput
         \/ op = "sleep" /\ now' <= MaxTime + submitted[popped.job]
      /\ now' <= 2 * MaxTime
  <2>1. CASE now < MaxTime
    <3>1. LastInput \in Nat
      <4>1. CASE yielded = <<>>
        BY <4>1 DEF LastInput
      <4>2. CASE yielded # <<>>
        <5>1. Len(yielded) \in 1..Len(yielded)
          BY <4>2 DEF Inv, TypeOK
        <5>2. submitted[yielded[Len(yielded)].job] \in 1..MaxTime
          BY <5>1, Sequences DEF Inv, SubmissionsMatch
        <5>3. QED
          BY <4>2, <5>2 DEF LastInput
      <4>3. QED
        BY <4>1, <4>2
    <3>2. QED
      BY <2>1, <3>1, <1>1, <1>2
  <2>2. CASE op = "sleep" /\ ~Due
    <3>1. last_yield # 0 /\ now < last_yield + popped.pace
      <4>1. popped.pace \in Nat
        BY Numbers DEF Inv, TypeOK
      <4>2. QED
        BY <2>2, <4>1, <1>2 DEF Due
    <3>2. yielded # <<>> /\ last_yield <= MaxTime + LastInput
      BY <3>1 DEF Inv, PacesMatch
    <3>3. /\ popped.job # 1 /\ popped.job # 0
          /\ submitted[popped.job] \in 1..MaxTime
          /\ submitted[popped.job-1] \in 1..MaxTime
          /\ LastInput \in Nat /\ LastInput <= submitted[popped.job-1]
      BY <2>2, <3>2, Newest DEF Jobs
    <3>4. popped.pace = submitted[popped.job] - submitted[popped.job-1]
      BY <3>3 DEF Inv, QueueMatches, PaceOf
    <3>5. now + 1 <= MaxTime + submitted[popped.job]
      BY <3>1, <3>2, <3>3, <3>4, <1>2
    <3>6. QED
      BY <2>2, <3>3, <3>5, <1>1, <1>2
  <2>3. QED
    BY <2>1, <2>2 DEF Tick
<1>4. TypeOK'
  <2>1. now' \in Times \ {0}
    BY <1>1, <1>2, <1>3 DEF Times
  <2>2. QED
    BY <1>1, <2>1 DEF Inv, TypeOK
<1>5. JobsMatch' /\ MethodsMatch'
  BY <1>1 DEF Inv, JobsMatch, MethodsMatch
<1>6. QueueMatches' /\ ResultsMatch'
  BY <1>1 DEF Inv, QueueMatches, ResultsMatch, Done
<1>7. SubmissionsMatch'
  BY <1>1, <1>2 DEF Inv, SubmissionsMatch
<1>8. PacesMatch'
  BY <1>1, <1>3 DEF Inv, PacesMatch, LastInput
<1>9. QED
  BY <1>4, <1>5, <1>6, <1>7, <1>8 DEF Inv

\* A stuttering step changes nothing.
LEMMA StutterStep == ASSUME Inv, UNCHANGED vars PROVE Inv'
<1>1. /\ UNCHANGED <<now, op, entered, tasks, queue, release>>
      /\ owner' = owner /\ thread' = thread
  BY DEF vars, pool
<1>2. op \in {"check", "block", "sleep"} => owner' = "idle"
  BY <1>1 DEF Inv, MethodsMatch
<1>3. QED
  BY <1>1, <1>2, CallStep

\* Every step preserves the invariant.
LEMMA InvNext == Inv /\ [Next]_vars => Inv'
<1> SUFFICES ASSUME Inv, [Next]_vars PROVE Inv'
  OBVIOUS
<1>1. CASE InCall
  BY <1>1, CallSteps, AcceptStep, PopSteps, ReceivedStep, YieldStep DEF InCall
<1>2. CASE Block
  BY <1>2, PopSteps
<1>3. CASE Manage \/ \E m \in {"submit", "try_submit", "exchange"} : Enter(m)
  BY <1>3, CallSteps
<1>4. CASE Tick
  BY <1>4, TickStep
<1>5. CASE \E t \in Threads : Fulfill(t) \/ Worker(t)
  BY <1>5, ThreadStep
<1>6. CASE UNCHANGED vars
  BY <1>6, StutterStep
<1>7. QED
  BY <1>1, <1>2, <1>3, <1>4, <1>5, <1>6 DEF Next

\* The invariant holds in every state.
LEMMA Invariance == Spec => []Inv
<1>1. QED
  BY InvInit, InvNext, PTL DEF Spec

-----------------------------------------------------------------------------
\* The fields of an IsochronousProcessor keep their types, and what they count
\* stays within the bounds.
THEOREM TypeCorrect == Spec => []TypeOK
<1>1. Inv => TypeOK
  BY DEF Inv
<1>2. QED
  BY <1>1, Invariance, PTL

\* The invariant implies the order of the results.
LEMMA InOrder == ASSUME Inv PROVE ResultsInOrder
<1>1. DOMAIN yielded = 1..Len(yielded)
  BY DEF Inv, TypeOK
<1>2. ASSUME NEW i \in 1..Len(yielded), NEW k \in Jobs, k < yielded[i].job,
             \A l \in 1..Len(yielded) : yielded[l].job # k
      PROVE  output[k] = "broken"
  <2>1. /\ yielded[i].job \in Nat /\ k \in Nat /\ next \in Nat
        /\ Len(in_progress) \in Nat
    BY Sequences, Numbers
  <2>2. yielded[i].job + Len(in_progress) < next
    BY DEF Inv, ResultsMatch, Done
  <2>3. k + Len(in_progress) < next
    BY <1>2, <2>1, <2>2
  <2>4. k # popped.job
    <3>1. CASE op \in {"block", "sleep"}
      <4>1. yielded[i].job < popped.job /\ popped.job \in Nat
        BY <3>1, Newest
      <4>2. QED
        BY <4>1, <1>2, <2>1
    <3>2. CASE op \notin {"block", "sleep"}
      BY <3>2 DEF Inv, MethodsMatch, NoJob, Jobs
    <3>3. QED
      BY <3>1, <3>2
  <2>5. Done(k)
    BY <2>3, <2>4 DEF Done
  <2>6. QED
    BY <1>2, <2>5 DEF Inv, ResultsMatch
<1>3. \A i, k \in 1..Len(yielded) : i < k => yielded[i].job < yielded[k].job
  BY DEF Inv, ResultsMatch
<1>4. QED
  BY <1>1, <1>2, <1>3 DEF ResultsInOrder

\* Results come in the order of their inputs, whatever the threads finish
\* first, and only those of jobs that panicked are missing.
THEOREM OrderIsKept == Spec => []ResultsInOrder
<1>1. Inv => ResultsInOrder
  BY InOrder
<1>2. QED
  BY <1>1, Invariance, PTL

\* The invariant implies the distance of the results.
LEMMA Paced == ASSUME Inv PROVE ResultsArePaced
<1>1. DOMAIN yielded = 1..Len(yielded) /\ Len(yielded) \in Nat
  BY DEF Inv, TypeOK
<1>2. ASSUME NEW i \in 1..Len(yielded), i # 1
      PROVE  yielded[i].time - yielded[i-1].time
               >= submitted[yielded[i].job] - submitted[yielded[i].job-1]
  <2>1. yielded[i].time - yielded[i-1].time
          >= PaceOf(submitted, yielded[i].job)
    BY <1>2 DEF Inv, PacesMatch
  <2>2. 1 \in 1..Len(yielded) /\ 1 < i
    BY <1>1, <1>2
  <2>3. yielded[1].job < yielded[i].job
    BY <2>2 DEF Inv, ResultsMatch
  <2>4. yielded[1].job \in Nat /\ yielded[1].job > 0
        /\ yielded[i].job \in Nat
    BY <2>2, Sequences DEF Jobs
  <2>5. yielded[i].job # 1
    BY <2>3, <2>4
  <2>6. QED
    BY <2>1, <2>5 DEF PaceOf
<1>3. QED
  BY <1>1, <1>2 DEF ResultsArePaced

\* Two results are at least as far apart as the input of the second and the
\* input before that.
THEOREM PaceIsKept == Spec => []ResultsArePaced
<1>1. Inv => ResultsArePaced
  BY Paced
<1>2. QED
  BY <1>1, Invariance, PTL

\* exchange finds its job done in block(), having found it done before.
THEOREM ExchangeReturns == Spec => []ExchangeDoesNotWait
<1>1. Inv => ExchangeDoesNotWait
  BY DEF Inv, MethodsMatch, ExchangeDoesNotWait, Resolved
<1>2. QED
  BY <1>1, Invariance, PTL

-----------------------------------------------------------------------------
(* The processor and its WorkerSet. *)

\* The processor spawns an ordinary pool and does nothing to it but through its
\* operations.
LEMMA PoolStep == [Next]_vars => [Pool!Next]_(Pool!vars)
<1> SUFFICES ASSUME [Next]_vars PROVE [Pool!Next]_(Pool!vars)
  OBVIOUS
<1>1. UNCHANGED pool => UNCHANGED Pool!vars
  BY DEF pool, Pool!vars, Pool!history
<1>2. CASE \E m \in {"submit", "try_submit", "exchange"} : Enter(m)
  BY <1>2 DEF Enter, Pool!Next, Pool!User
<1>3. CASE \E t \in Threads : Accept(t)
  BY <1>3 DEF Accept, Threads, Pool!Next, Pool!InCall
<1>4. CASE TryFails \/ PoolJoins \/ PoolJoined \/ Manage
  BY <1>4 DEF TryFails, PoolJoins, PoolJoined, Manage, Threads, Pool!Next,
              Pool!InCall, Pool!User
<1>5. CASE \E t \in Threads : HandlerReturns(t) \/ HandlerPanics(t) \/ Loop(t)
  BY <1>5 DEF HandlerReturns, HandlerPanics, Loop, Threads, Pool!Next,
              Pool!Handling
<1>6. CASE \/ CheckDone \/ CheckNotDone \/ Received \/ Yield \/ Block \/ Tick
           \/ \E t \in Threads : Fulfill(t) \/ DropPromise(t)
  BY <1>1, <1>6 DEF CheckDone, CheckNotDone, Received, Yield, Block, PopFront,
                    Tick, Fulfill, DropPromise
<1>7. CASE UNCHANGED vars
  BY <1>1, <1>7 DEF vars
<1>8. QED
  BY <1>2, <1>3, <1>4, <1>5, <1>6, <1>7 DEF Next, InCall, Worker

\* Both names stand for the same specification of the pool.
LEMMA SamePool ==
  /\ Pool!Init => PoolProofs!Init
  /\ [Pool!Next]_(Pool!vars) => [PoolProofs!Next]_(PoolProofs!vars)
<1>1. Pool!Init => PoolProofs!Init
  BY DEF Pool!Init, PoolProofs!Init, Pool!Threads, PoolProofs!Threads
<1>2. Pool!vars = PoolProofs!vars
  BY DEF Pool!vars, PoolProofs!vars, Pool!history, PoolProofs!history
<1>3. Pool!Next => PoolProofs!Next
  BY DEF
     Pool!Next, PoolProofs!Next, Pool!Spawning, PoolProofs!Spawning,
     Pool!SpawnFails, PoolProofs!SpawnFails, Pool!InCall, PoolProofs!InCall,
     Pool!User, PoolProofs!User, Pool!Loop, PoolProofs!Loop, Pool!Handling,
     PoolProofs!Handling, Pool!Threads, PoolProofs!Threads, Pool!Spawned,
     PoolProofs!Spawned, Pool!SpawnThread, PoolProofs!SpawnThread, Pool!Full,
     PoolProofs!Full, Pool!Disconnected, PoolProofs!Disconnected, Pool!Joined,
     PoolProofs!Joined, Pool!Handoff, PoolProofs!Handoff, Pool!Join,
     PoolProofs!Join, Pool!JoinAnyway, PoolProofs!JoinAnyway, Pool!Send,
     PoolProofs!Send, Pool!TrySend, PoolProofs!TrySend, Pool!TryAlways,
     PoolProofs!TryAlways, Pool!FlagSeen, PoolProofs!FlagSeen, Pool!Drop,
     PoolProofs!Drop, Pool!PanicOrCatch, PoolProofs!PanicOrCatch, Pool!Park,
     PoolProofs!Park, Pool!Exit, PoolProofs!Exit, Pool!DropReceiver,
     PoolProofs!DropReceiver, Pool!SetFlag, PoolProofs!SetFlag,
     Pool!HandlerReturns, PoolProofs!HandlerReturns, Pool!HandlerPanics,
     PoolProofs!HandlerPanics, Pool!Move, PoolProofs!Move, Pool!history,
     PoolProofs!history, Pool!UsedUp, PoolProofs!UsedUp, Pool!Resume,
     PoolProofs!Resume, Pool!Receiving, PoolProofs!Receiving, Pool!Joining,
     PoolProofs!Joining, Pool!Ended, PoolProofs!Ended
<1>4. UNCHANGED Pool!vars => UNCHANGED PoolProofs!vars
  BY DEF Pool!vars, PoolProofs!vars, Pool!history, PoolProofs!history
<1>5. QED
  BY <1>1, <1>3, <1>4

\* The processor uses its WorkerSet as any owner may: every execution of the
\* processor, seen from the pool, is one of module WorkerSet, in whatever
\* method panics are noticed.
THEOREM UsesPool == Spec => Pool!Spec
<1>1. Init => Pool!Init
  BY DEF Init
<1>2. QED
  BY <1>1, PoolStep, PTL DEF Spec, Pool!Spec

\* So what is proved about the WorkerSet holds inside the processor.
LEMMA PoolBehaves == Spec => PoolProofs!Spec
BY UsesPool, SamePool, PTL DEF Pool!Spec, PoolProofs!Spec

\* The pool of a processor: its sender is there when it is used, its free sends
\* find a thread, its threads are joined and its panics reported once.
PoolIsSafe ==
  /\ Pool!SenderPresent /\ Pool!FreeSendFindsThread /\ Pool!AllThreadsJoined
  /\ Pool!PanicReportedOnce /\ Pool!JoinedThreadsCanEnd

\* The safety properties of WorkerSet hold for the pool of a processor of any
\* size.
THEOREM PoolSafe == Spec => []PoolIsSafe
<1>1. PoolProofs!Spec => /\ []PoolProofs!SenderPresent
                         /\ []PoolProofs!FreeSendFindsThread
                         /\ []PoolProofs!AllThreadsJoined
                         /\ []PoolProofs!PanicReportedOnce
                         /\ []PoolProofs!JoinedThreadsCanEnd
  BY PoolProofs!SenderIsPresent, PoolProofs!FreeSendsAreFree,
     PoolProofs!ThreadsAreJoined, PoolProofs!OnePanicReported,
     PoolProofs!JoinsCanEnd, ParametersArePositive
<1>2. /\ PoolProofs!SenderPresent /\ PoolProofs!FreeSendFindsThread
      /\ PoolProofs!AllThreadsJoined /\ PoolProofs!PanicReportedOnce
      /\ PoolProofs!JoinedThreadsCanEnd
      => PoolIsSafe
  BY DEF PoolIsSafe, Pool!SenderPresent, PoolProofs!SenderPresent,
     Pool!FreeSendFindsThread, PoolProofs!FreeSendFindsThread,
     Pool!AllThreadsJoined, PoolProofs!AllThreadsJoined,
     Pool!PanicReportedOnce, PoolProofs!PanicReportedOnce,
     Pool!JoinedThreadsCanEnd, PoolProofs!JoinedThreadsCanEnd,
     Pool!Joining, PoolProofs!Joining, Pool!Receiving, PoolProofs!Receiving,
     Pool!Broken, PoolProofs!Broken, Pool!Ended, PoolProofs!Ended,
     Pool!Threads, PoolProofs!Threads
<1>3. QED
  BY <1>1, <1>2, PoolBehaves, PTL

\* The promise of an accepted job is with a thread until it is resolved, and a
\* broken one is due to a thread that panicked.
PromisesMatch ==
  /\ \A j \in Jobs : j < next => output[j] # "unsent"
  /\ \A j \in Jobs : output[j] \in {"working", "fulfilled"} =>
       \E t \in Threads : job[t] = j
  /\ (\E j \in Jobs : output[j] = "broken") => \E t \in Threads : Pool!Broken(t)

\* Nothing is accepted yet.
LEMMA PromisesInit == Init => PromisesMatch
<1> SUFFICES ASSUME Init PROVE PromisesMatch
  OBVIOUS
<1>1. \A j \in Jobs : output[j] = "unsent" /\ ~(j < next)
  BY Numbers DEF Init
<1>2. QED
  BY <1>1 DEF PromisesMatch

\* No step takes a promise away from a thread without resolving it, and none
\* mends a thread that has panicked.
LEMMA PromisesStep == Inv /\ PromisesMatch /\ [Next]_vars => PromisesMatch'
<1> SUFFICES ASSUME Inv, PromisesMatch, [Next]_vars PROVE PromisesMatch'
  OBVIOUS
<1>0. /\ DOMAIN thread = Threads /\ job \in [Threads -> 0..MaxJobs]
      /\ output \in [Jobs -> JobStates]
  BY DEF Inv, TypeOK, JobsMatch
<1>1. ASSUME NEW t \in Threads, Accept(t) PROVE PromisesMatch'
  <2>1. /\ thread[t] = "recv" /\ thread' = [thread EXCEPT ![t] = "handling"]
        /\ job' = [job EXCEPT ![t] = next] /\ next' = next + 1
        /\ output' = [output EXCEPT ![next] = "working"]
    BY <1>1 DEF Accept, Pool!Handoff
  <2>2. job[t] = 0 /\ next \in Jobs /\ next \in Nat
    <3>1. op \in {"submit", "try_submit", "exchange"}
      BY <1>1 DEF Accept
    <3>2. QED
      BY <2>1, <3>1, Numbers DEF Inv, JobsMatch, SubmissionsMatch
  <2>3. \A j \in Jobs : j # next => output'[j] = output[j]
    BY <1>0, <2>1
  <2>4. output'[next] = "working" /\ job'[t] = next
    BY <1>0, <2>1, <2>2
  <2>5. ASSUME NEW j \in Jobs, j < next' PROVE output'[j] # "unsent"
    <3>1. j = next \/ j < next
      BY <2>1, <2>2, <2>5, Numbers
    <3>2. QED
      BY <2>3, <2>4, <3>1 DEF PromisesMatch
  <2>6. ASSUME NEW j \in Jobs, output'[j] \in {"working", "fulfilled"}
        PROVE  \E u \in Threads : job'[u] = j
    <3>1. CASE j = next
      BY <2>4, <3>1
    <3>2. CASE j # next
      <4>1. PICK u \in Threads : job[u] = j
        BY <2>3, <2>6, <3>2 DEF PromisesMatch
      <4>2. u # t
        BY <2>2, <4>1, Numbers DEF Jobs
      <4>3. QED
        BY <1>0, <2>1, <4>1, <4>2
    <3>3. QED
      BY <3>1, <3>2
  <2>7. ASSUME NEW j \in Jobs, output'[j] = "broken"
        PROVE  \E u \in Threads : Pool!Broken(u)'
    <3>1. output[j] = "broken"
      BY <2>3, <2>4, <2>7
    <3>2. PICK u \in Threads : Pool!Broken(u)
      BY <3>1 DEF PromisesMatch
    <3>3. u # t
      BY <2>1, <3>2 DEF Pool!Broken
    <3>4. QED
      BY <1>0, <2>1, <3>2, <3>3 DEF Pool!Broken
  <2>8. QED
    BY <2>5, <2>6, <2>7 DEF PromisesMatch
<1>2. ASSUME NEW t \in Threads, Fulfill(t) PROVE PromisesMatch'
  <2>1. /\ thread' = thread /\ job' = job /\ next' = next
        /\ output[job[t]] = "working"
        /\ output' = [output EXCEPT ![job[t]] = "fulfilled"]
    BY <1>2 DEF Fulfill, Resolve, pool, queue
  <2>2. \A j \in Jobs : \/ output'[j] = output[j]
                        \/ j = job[t] /\ output'[j] = "fulfilled"
    BY <1>0, <2>1
  <2>3. QED
    BY <2>1, <2>2 DEF PromisesMatch, Pool!Broken
<1>3. ASSUME NEW t \in Threads, HandlerReturns(t) \/ DropPromise(t)
      PROVE  PromisesMatch'
  <2>1. PICK state \in {"released", "broken"} :
          /\ output' = [output EXCEPT ![job[t]] = state]
          /\ job' = [job EXCEPT ![t] = 0] /\ next' = next
          /\ state = "broken" => thread[t] = "unwinding" /\ thread' = thread
          /\ state = "released" =>
               /\ thread[t] = "handling"
               /\ thread' = [thread EXCEPT ![t] = "looping"]
    BY <1>3 DEF HandlerReturns, DropPromise, Consume, Resolve, pool, queue,
                Pool!HandlerReturns, Pool!Move
  <2>2. \A j \in Jobs : \/ j # job[t] /\ output'[j] = output[j]
                        \/ j = job[t] /\ output'[j] = state
    BY <1>0, <2>1
  <2>3. ASSUME NEW j \in Jobs, output'[j] \in {"working", "fulfilled"}
        PROVE  \E u \in Threads : job'[u] = j
    <3>1. j # job[t] /\ output[j] \in {"working", "fulfilled"}
      BY <2>1, <2>2, <2>3
    <3>2. PICK u \in Threads : job[u] = j
      BY <3>1 DEF PromisesMatch
    <3>3. QED
      BY <1>0, <2>1, <3>1, <3>2
  <2>4. ASSUME NEW j \in Jobs, output'[j] = "broken"
        PROVE  \E u \in Threads : Pool!Broken(u)'
    <3>1. CASE state = "broken"
      BY <2>1, <3>1 DEF Pool!Broken
    <3>2. CASE state = "released"
      <4>1. output[j] = "broken"
        BY <2>2, <2>4, <3>2
      <4>2. PICK u \in Threads : Pool!Broken(u)
        BY <4>1 DEF PromisesMatch
      <4>3. QED
        BY <1>0, <2>1, <3>2, <4>2 DEF Pool!Broken
    <3>3. QED
      BY <2>1, <3>1, <3>2
  <2>5. ASSUME NEW j \in Jobs, j < next' PROVE output'[j] # "unsent"
    BY <2>1, <2>2, <2>5 DEF PromisesMatch
  <2>6. QED
    BY <2>3, <2>4, <2>5 DEF PromisesMatch
<1>4. ASSUME UNCHANGED <<tasks, next>>,
             \A u \in Threads : Pool!Broken(u) => Pool!Broken(u)'
      PROVE  PromisesMatch'
  BY <1>4 DEF PromisesMatch, tasks
<1>5. ASSUME NEW t \in Threads, HandlerPanics(t) \/ Loop(t) PROVE PromisesMatch'
  <2>1. UNCHANGED <<tasks, next>>
    BY <1>5 DEF HandlerPanics, Loop, queue
  <2>2. \A u \in Threads : Pool!Broken(u) => Pool!Broken(u)'
    BY <1>0, <1>5 DEF HandlerPanics, Loop, Pool!HandlerPanics, Pool!Loop,
       Pool!Park, Pool!Exit, Pool!DropReceiver, Pool!SetFlag, Pool!Move,
       Pool!Broken
  <2>3. QED
    BY <1>4, <2>1, <2>2
<1>6. CASE Manage
  <2>1. UNCHANGED <<tasks, next>>
    BY <1>6 DEF Manage, queue
  <2>2. \A u \in Threads : Pool!Broken(u) => Pool!Broken(u)'
    BY <1>0, <1>6 DEF Manage, Pool!Spawning, Pool!Spawned, Pool!SpawnThread,
       Pool!SpawnFails, Pool!Drop, Pool!PanicOrCatch, Pool!Broken
  <2>3. QED
    BY <1>4, <2>1, <2>2
<1>7. CASE \/ TryFails \/ PoolJoins \/ PoolJoined
           \/ \E m \in {"submit", "try_submit", "exchange"} : Enter(m)
  <2>1. UNCHANGED <<tasks, next>>
    BY <1>7 DEF TryFails, PoolJoins, PoolJoined, Enter, queue
  <2>2. thread' = thread
    BY <1>7 DEF TryFails, PoolJoins, PoolJoined, Enter, Pool!Full,
       Pool!FlagSeen, Pool!Disconnected, Pool!Join, Pool!JoinAnyway,
       Pool!Joined, Pool!Send, Pool!TrySend, Pool!TryAlways
  <2>3. QED
    BY <1>4, <2>1, <2>2 DEF Pool!Broken
<1>8. CASE CheckDone \/ CheckNotDone \/ Received \/ Yield \/ Block \/ Tick
           \/ UNCHANGED vars
  <2>1. UNCHANGED <<tasks, next, thread>>
    BY <1>8 DEF CheckDone, CheckNotDone, Received, Yield, Block, PopFront,
       Tick, vars, pool, queue
  <2>2. QED
    BY <1>4, <2>1 DEF Pool!Broken
<1>9. QED
  BY <1>1, <1>2, <1>3, <1>5, <1>6, <1>7, <1>8 DEF Next, InCall, Worker

\* It holds in every state.
LEMMA PromisesAlways == Spec => []PromisesMatch
BY InvInit, InvNext, PromisesInit, PromisesStep, PTL DEF Spec

\* An accepted job is resolved or in the hands of a thread that runs.
JobsAreHeld ==
  \A j \in Jobs : j < next =>
    \/ output[j] \in {"released", "broken"}
    \/ \E t \in Threads : job[t] = j /\ thread[t] \in {"handling", "unwinding"}

\* block() never waits for a job that nobody works on: the promise of every
\* accepted job is resolved or with a thread that handles it or unwinds.
THEOREM NoJobIsLost == Spec => []JobsAreHeld
<1>1. ASSUME Inv, PromisesMatch, NEW j \in Jobs, j < next,
             output[j] \notin {"released", "broken"}
      PROVE  \E t \in Threads : /\ job[t] = j
                                /\ thread[t] \in {"handling", "unwinding"}
  <2>1. output[j] \in {"working", "fulfilled"}
    BY <1>1 DEF Inv, TypeOK, JobStates, PromisesMatch
  <2>2. PICK t \in Threads : job[t] = j
    BY <1>1, <2>1 DEF PromisesMatch
  <2>3. job[t] # 0
    BY <2>2, Numbers DEF Jobs
  <2>4. QED
    BY <1>1, <2>2, <2>3 DEF Inv, JobsMatch
<1>2. Inv /\ PromisesMatch => JobsAreHeld
  BY <1>1 DEF JobsAreHeld
<1>3. QED
  BY <1>2, Invariance, PromisesAlways, PTL

\* Whatever is dropped and panics when: when the processor is gone no accepted
\* job is pending, and the panic behind a missing result has been passed on.
THEOREM LossesReported == Spec => []LossesAreReported
<1>1. ASSUME Inv, PromisesMatch, PoolIsSafe, owner = "dropped",
             NEW j \in Jobs, j < next
      PROVE  \/ output[j] = "released"
             \/ output[j] = "broken" /\ (reported = 1 \/ swallowed)
  <2>1. \A t \in Threads : thread[t] \in {"finished", "panicked"}
    BY <1>1 DEF PoolIsSafe, Pool!AllThreadsJoined, Pool!Ended, Threads
  <2>2. \A t \in Threads : job[t] # j
    BY <1>1, <2>1, Numbers DEF Inv, JobsMatch, Jobs
  <2>3. output[j] \in {"released", "broken"}
    BY <1>1, <2>2 DEF Inv, TypeOK, JobStates, PromisesMatch
  <2>4. CASE output[j] = "broken"
    <3>1. PICK t \in Threads : Pool!Broken(t)
      BY <1>1, <2>4 DEF PromisesMatch
    <3>2. reported = 1 \/ swallowed
      BY <1>1, <3>1 DEF PoolIsSafe, Pool!PanicReportedOnce, Threads
    <3>3. QED
      BY <2>4, <3>2
  <2>5. QED
    BY <2>3, <2>4
<1>2. Inv /\ PromisesMatch /\ PoolIsSafe => LossesAreReported
  BY <1>1 DEF LossesAreReported
<1>3. QED
  BY <1>2, Invariance, PromisesAlways, PoolSafe, PTL

\* A method that submits a job is in a send of the pool, or joins its threads.
SubmitsMatch == op \in {"submit", "try_submit", "exchange"} =>
                  owner \in {"sending", "trying", "joinSend"}

\* A method enters the pool at its beginning, and leaves it with an answer or
\* a panic.
LEMMA SubmitsAlways == Spec => []SubmitsMatch
<1>1. Init => SubmitsMatch
  BY DEF Init, SubmitsMatch
<1>2. ASSUME SubmitsMatch, [Next]_vars PROVE SubmitsMatch'
  <2>1. CASE \E m \in {"submit", "try_submit", "exchange"} : Enter(m)
    BY <2>1 DEF Enter, Pool!TrySend, Pool!TryAlways, Pool!Send, SubmitsMatch
  <2>2. CASE \E t \in Threads : Accept(t)
    BY <2>2 DEF Accept, SubmitsMatch
  <2>3. CASE TryFails \/ PoolJoined \/ Manage
    BY <2>3 DEF TryFails, PoolJoined, Manage, SubmitsMatch
  <2>4. CASE PoolJoins
    BY <1>2, <2>4 DEF PoolJoins, Pool!FlagSeen, Pool!Disconnected, Pool!Join,
         Pool!JoinAnyway, SubmitsMatch
  <2>5. CASE CheckDone \/ CheckNotDone \/ Received \/ Yield \/ Block
    BY <2>5 DEF CheckDone, CheckNotDone, Received, Yield, Block, PopFront,
         SubmitsMatch
  <2>6. ASSUME NEW t \in Threads, Fulfill(t) \/ Worker(t) PROVE SubmitsMatch'
    BY <1>2, <2>6 DEF Fulfill, Worker, HandlerReturns, HandlerPanics,
         DropPromise, Loop, Pool!HandlerReturns, Pool!HandlerPanics, Pool!Loop,
         Pool!Park, Pool!Exit, Pool!DropReceiver, Pool!SetFlag, Pool!Move, pool,
         SubmitsMatch
  <2>7. CASE Tick \/ UNCHANGED vars
    BY <1>2, <2>7 DEF Tick, vars, pool, SubmitsMatch
  <2>8. QED
    BY <1>2, <2>1, <2>2, <2>3, <2>4, <2>5, <2>6, <2>7 DEF Next, InCall
<1>3. QED
  BY <1>1, <1>2, PTL DEF Spec

\* A thread waits in the channel of the pool, or does not run any more.
ThreadIsIdle(t) == \/ thread[t] \in {"finished", "panicked"}
                   \/ thread[t] = "recv" /\ sender

\* The owner and the threads of the pool never all wait for each other: when no
\* thread can do anything by itself, a submission finds a thread or fails, the
\* job that block() waits for is resolved, exchange has a job to look at, and
\* every join returns.
NobodyHangs ==
  (\A t \in Threads : ThreadIsIdle(t)) =>
    /\ op \in {"submit", "try_submit", "exchange"} =>
         \/ owner \in {"sending", "trying"} /\ \E t \in Threads : thread[t] = "recv"
         \/ \A t \in Threads : thread[t] \in {"finished", "panicked"}
    /\ op = "check" => in_progress # <<>>
    /\ op = "block" => Resolved(popped.job)
    /\ owner \in {"joinSend", "joinDrop"} =>
         \A t \in Threads : thread[t] \in {"finished", "panicked"}

\* No deadlock between the owner of a processor and the threads of its pool,
\* whatever the sizes: it combines NoDeadlock of the pool with NoJobIsLost.
THEOREM NoDeadlock == Spec => []NobodyHangs
<1>1. PoolProofs!Spec => []PoolProofs!NobodyHangs
  BY PoolProofs!NoDeadlock, ParametersArePositive
<1>2. ASSUME Inv, SubmitsMatch, JobsAreHeld, PoolProofs!NobodyHangs,
             \A t \in Threads : ThreadIsIdle(t)
      PROVE  /\ op \in {"submit", "try_submit", "exchange"} =>
                  \/ /\ owner \in {"sending", "trying"}
                     /\ \E t \in Threads : thread[t] = "recv"
                  \/ \A t \in Threads : thread[t] \in {"finished", "panicked"}
             /\ op = "check" => in_progress # <<>>
             /\ op = "block" => Resolved(popped.job)
             /\ owner \in {"joinSend", "joinDrop"} =>
                  \A t \in Threads : thread[t] \in {"finished", "panicked"}
  <2>1. \A t \in PoolProofs!Threads : PoolProofs!ThreadIsIdle(t)
    BY <1>2 DEF ThreadIsIdle, PoolProofs!ThreadIsIdle, PoolProofs!Ended,
       PoolProofs!Threads, Threads, Pool!Threads
  <2>2. /\ owner \in {"sending", "trying"} =>
             \/ \E t \in Threads : thread[t] = "recv"
             \/ \A t \in Threads : ~PoolProofs!Receiving(t)
        /\ owner \in {"joinSend", "joinDrop"} =>
             \A t \in Threads : thread[t] \in {"finished", "panicked"}
    BY <1>2, <2>1 DEF PoolProofs!NobodyHangs, PoolProofs!Joining,
       PoolProofs!Ended, PoolProofs!Threads, Threads, Pool!Threads
  <2>3. (\A t \in Threads : ~PoolProofs!Receiving(t)) =>
          \A t \in Threads : thread[t] \in {"finished", "panicked"}
    BY <1>2 DEF ThreadIsIdle, PoolProofs!Receiving
  <2>4. op = "check" => in_progress # <<>>
    BY <1>2 DEF Inv, MethodsMatch
  <2>5. ASSUME op = "block" PROVE Resolved(popped.job)
    <3>1. popped.job \in Jobs /\ popped.job < next
      <4>1. popped.job \in Jobs /\ popped.job + Len(in_progress) + 1 = next
        BY <1>2, <2>5 DEF Inv, MethodsMatch
      <4>2. popped.job \in Nat /\ Len(in_progress) \in Nat
        BY <1>2, <4>1, Numbers, Sequences
      <4>3. QED
        BY <4>1, <4>2
    <3>2. \A t \in Threads : thread[t] \notin {"handling", "unwinding"}
      BY <1>2 DEF ThreadIsIdle
    <3>3. QED
      BY <1>2, <3>1, <3>2 DEF JobsAreHeld, Resolved
  <2>6. QED
    BY <1>2, <2>2, <2>3, <2>4, <2>5 DEF SubmitsMatch
<1>3. Inv /\ SubmitsMatch /\ JobsAreHeld /\ PoolProofs!NobodyHangs => NobodyHangs
  BY <1>2 DEF NobodyHangs
<1>4. QED
  BY <1>1, <1>3, Invariance, SubmitsAlways, NoJobIsLost, PoolBehaves, PTL

-----------------------------------------------------------------------------
\* Promises of jobs to come are untouched, and block() sleeps with a result.
FatesMatch ==
  /\ \A j \in Jobs : j >= next => output[j] = "unsent"
  /\ op = "sleep" => output[popped.job] \in {"fulfilled", "released"}

\* A thread resolves the promise of its own job only, which is unresolved.
LEMMA ResolveFates ==
  ASSUME Inv, FatesMatch, NEW t \in Threads,
         UNCHANGED <<op, popped, next>>,
         NEW state \in {"fulfilled", "released", "broken"},
         output' = [output EXCEPT ![job[t]] = state],
         \/ job[t] # 0 /\ output[job[t]] = "working"
         \/ job[t] # 0 /\ state = "released"
  PROVE  FatesMatch'
<1>1. /\ job[t] \in Jobs /\ job[t] < next /\ job[t] \in Nat
      /\ output \in [Jobs -> JobStates] /\ next \in Nat
  BY Numbers, Sequences DEF Inv, TypeOK, JobsMatch, Jobs
<1>2. \A j \in Jobs : output'[j] = IF j = job[t] THEN state ELSE output[j]
  BY <1>1
<1>3. ASSUME NEW j \in Jobs, j >= next PROVE output'[j] = "unsent"
  <2>1. j # job[t]
    BY <1>1, <1>3, Numbers
  <2>2. QED
    BY <1>2, <1>3, <2>1 DEF FatesMatch
<1>4. ASSUME op = "sleep" PROVE output'[popped.job] \in {"fulfilled", "released"}
  <2>1. popped.job \in Jobs
    BY <1>4 DEF Inv, MethodsMatch
  <2>2. output[popped.job] \in {"fulfilled", "released"}
    BY <1>4 DEF FatesMatch
  <2>3. QED
    BY <1>2, <2>1, <2>2
<1>5. QED
  BY <1>3, <1>4 DEF FatesMatch

\* A new job is the next one, and a result is stored before block() gets it.
LEMMA FatesStep == Inv /\ FatesMatch /\ [Next]_vars => FatesMatch'
<1> SUFFICES ASSUME Inv, FatesMatch, [Next]_vars PROVE FatesMatch'
  OBVIOUS
<1>0. next \in Nat /\ output \in [Jobs -> JobStates]
  BY Sequences DEF Inv, TypeOK
<1>1. ASSUME NEW t \in Threads, Accept(t) PROVE FatesMatch'
  <2>1. /\ output' = [output EXCEPT ![next] = "working"]
        /\ next' = next + 1 /\ op' \in {"check", "none"}
    BY <1>1 DEF Accept
  <2>2. \A j \in Jobs : j >= next' => j # next /\ j >= next
    BY <1>0, <2>1, Numbers
  <2>3. QED
    BY <1>0, <2>1, <2>2 DEF FatesMatch
<1>2. ASSUME NEW t \in Threads, Fulfill(t) PROVE FatesMatch'
  <2>1. job[t] # 0
    BY <1>2 DEF Fulfill, Inv, JobsMatch
  <2>2. QED
    BY <1>2, <2>1, ResolveFates DEF Fulfill, Resolve, queue, release
<1>3. ASSUME NEW t \in Threads, HandlerReturns(t) PROVE FatesMatch'
  <2>1. job[t] # 0
    BY <1>3 DEF HandlerReturns, Pool!HandlerReturns, Pool!Move, Inv,
                JobsMatch
  <2>2. QED
    BY <1>3, <2>1, ResolveFates DEF HandlerReturns, Consume, Resolve, queue,
                                    release
<1>4. ASSUME NEW t \in Threads, DropPromise(t) PROVE FatesMatch'
  <2>1. job[t] # 0 /\ output[job[t]] = "working"
    BY <1>4 DEF DropPromise, Inv, JobsMatch
  <2>2. QED
    BY <1>4, <2>1, ResolveFates DEF DropPromise, Consume, Resolve, queue,
                                    release
<1>5. ASSUME UNCHANGED <<output, next>>, op' # "sleep" PROVE FatesMatch'
  BY <1>5 DEF FatesMatch
<1>6. ASSUME UNCHANGED <<output, next, op, popped>> PROVE FatesMatch'
  BY <1>6 DEF FatesMatch
<1>7. CASE \/ CheckDone \/ CheckNotDone \/ Block \/ Yield \/ TryFails
           \/ PoolJoined \/ \E m \in {"submit", "try_submit", "exchange"} : Enter(m)
  <2>1. UNCHANGED <<output, next>> /\ op' # "sleep"
    BY <1>7 DEF CheckDone, CheckNotDone, Block, PopFront, Yield, TryFails,
       PoolJoined, Enter, queue, tasks
  <2>2. QED
    BY <1>5, <2>1
<1>8. CASE Received
  <2>1. CASE output[popped.job] = "broken"
    BY <1>5, <1>8, <2>1 DEF Received, queue, tasks
  <2>2. CASE output[popped.job] # "broken"
    <3>1. /\ output[popped.job] \in {"fulfilled", "released"}
          /\ UNCHANGED <<output, next, popped>>
      BY <1>8, <2>2 DEF Received, Resolved, queue, tasks
    <3>2. QED
      BY <3>1 DEF FatesMatch
  <2>3. QED
    BY <2>1, <2>2
<1>9. CASE \/ Manage \/ Tick \/ PoolJoins \/ UNCHANGED vars
           \/ \E t \in Threads : HandlerPanics(t) \/ Loop(t)
  <2>1. UNCHANGED <<output, next, op, popped>>
    BY <1>9 DEF Manage, Tick, PoolJoins, HandlerPanics, Loop, vars, tasks,
       queue, release
  <2>2. QED
    BY <1>6, <2>1
<1>10. QED
  BY <1>1, <1>2, <1>3, <1>4, <1>7, <1>8, <1>9 DEF Next, InCall, Worker

\* It holds in every state.
LEMMA FatesAlways == Spec => []FatesMatch
<1>1. Init => FatesMatch
  BY DEF Init, FatesMatch
<1>2. QED
  BY <1>1, InvInit, InvNext, FatesStep, PTL DEF Spec

\* How many jobs are served, in terms of the queue and the job in hand.
LEMMA ServedFacts ==
  ASSUME Inv
  PROVE  /\ Served \in Int /\ Served < next
         /\ op \notin {"block", "sleep"} =>
              popped = NoJob /\ Served = next - 1 - Len(in_progress)
         /\ op \in {"block", "sleep"} =>
              /\ popped.job \in Jobs /\ popped.job \in Nat
              /\ popped.job = Served + 1 /\ popped.job < next
<1>1. /\ next \in Nat /\ Len(in_progress) \in Nat
  BY Sequences
<1>2. CASE op \notin {"block", "sleep"}
  <2>1. popped = NoJob
    BY <1>2 DEF Inv, MethodsMatch
  <2>2. Served = next - 1 - Len(in_progress) - 0
    BY <2>1 DEF Served, NoJob
  <2>3. QED
    BY <1>1, <1>2, <2>1, <2>2
<1>3. CASE op \in {"block", "sleep"}
  <2>1. popped.job \in Jobs /\ popped.job + Len(in_progress) + 1 = next
    BY <1>3 DEF Inv, MethodsMatch
  <2>2. popped.job \in Nat /\ popped.job # 0
    BY <2>1, Numbers DEF Jobs
  <2>3. Served = next - 1 - Len(in_progress) - 1
    BY <2>2 DEF Served
  <2>4. QED
    BY <1>1, <1>3, <2>1, <2>2, <2>3
<1>4. QED
  BY <1>2, <1>3

\* What the conveyor does not see.
BeltStays == UNCHANGED <<now, next, submitted, Fate, Served, last_yield, yielded>>

\* A job that was accepted has its place behind the others.
LEMMA AcceptMaps ==
  ASSUME Inv, FatesMatch, NEW t \in Threads, Accept(t)
  PROVE  Belt!Next
<1>1. /\ op \in {"submit", "try_submit", "exchange"}
      /\ output' = [output EXCEPT ![next] = "working"]
      /\ Push(next) /\ submitted' = [submitted EXCEPT ![next] = entered]
      /\ next' = next + 1
      /\ UNCHANGED <<now, popped, last_yield, yielded>>
  BY DEF Accept, release
<1>2. /\ next \in Jobs /\ next \in Nat /\ next > 0 /\ now \in Nat
      /\ entered \in 1..MaxTime /\ entered \in Nat /\ entered <= now
      /\ last_submit <= entered
      /\ last_submit = IF next = 1 THEN 0 ELSE submitted[next - 1]
      /\ entered \in 1..now
  <2>1. /\ next \in Jobs /\ entered \in 1..MaxTime /\ entered <= now
        /\ last_submit <= entered
        /\ last_submit = IF next = 1 THEN 0 ELSE submitted[next - 1]
    BY <1>1 DEF Inv, SubmissionsMatch
  <2>2. now \in Nat /\ next \in Nat /\ next > 0
    BY Numbers, Sequences DEF Inv, TypeOK
  <2>3. QED
    BY <2>1, <2>2, Numbers
<1>3. /\ in_progress \in Seq([job : Jobs, pace : Times])
      /\ in_progress' = Append(in_progress, [job |-> next, pace |-> Pace])
      /\ [job |-> next, pace |-> Pace] \in [job : Jobs, pace : Times]
  <2>1. Pace \in Times
    <3>1. /\ last_submit \in Nat /\ last_submit <= entered /\ entered \in Nat
          /\ entered <= MaxTime
      BY <1>2, Numbers DEF Inv, TypeOK
    <3>2. QED
      BY <3>1, Numbers DEF Pace, Times
  <2>2. QED
    BY <1>1, <1>2, <2>1 DEF Push, Inv, TypeOK
<1>4. Len(in_progress') = Len(in_progress) + 1 /\ Len(in_progress) \in Nat
  BY <1>3, AppendFacts
<1>5. Served' = Served
  <2>1. CASE popped.job = 0
    BY <1>1, <1>2, <1>4, <2>1 DEF Served
  <2>2. CASE popped.job # 0
    BY <1>1, <1>2, <1>4, <2>2 DEF Served
  <2>3. QED
    BY <2>1, <2>2
<1>6. Fate' = Fate
  <2>1. output[next] = "unsent" /\ output \in [Jobs -> JobStates]
    BY <1>2 DEF FatesMatch, Inv, TypeOK
  <2>2. QED
    BY <1>1, <2>1 DEF Fate
<1>7. Belt!Accept(entered)
  <2>1. /\ (next - 1) + 1 = next /\ next' - 1 = (next - 1) + 1
        /\ (next - 1 > 0 <=> next # 1)
    BY <1>1, <1>2
  <2>2. QED
    BY <1>1, <1>2, <1>5, <1>6, <2>1 DEF Belt!Accept
<1>8. QED
  BY <1>2, <1>7 DEF Belt!Next

\* The handler settles the job it has, once; a handler that returns has done
\* so before.
LEMMA SettleMaps ==
  ASSUME Inv, NEW t \in Threads, Fulfill(t) \/ DropPromise(t)
  PROVE  Belt!Next
<1>1. PICK state \in {"fulfilled", "broken"} :
        /\ output[job[t]] = "working" /\ job[t] # 0
        /\ output' = [output EXCEPT ![job[t]] = state]
        /\ UNCHANGED <<now, queue, release>>
  BY DEF Fulfill, DropPromise, Consume, Resolve, Inv, JobsMatch
<1>2. /\ job[t] \in Jobs /\ job[t] < next /\ job[t] \in Nat
      /\ output \in [Jobs -> JobStates] /\ next \in Nat
  BY <1>1, Numbers, Sequences DEF Inv, TypeOK, JobsMatch, Jobs
<1> DEFINE end == IF state = "fulfilled" THEN "done" ELSE "lost"
<1>3. Fate[job[t]] = "open" /\ Fate' = [Fate EXCEPT ![job[t]] = end]
  BY <1>1, <1>2 DEF Fate
<1>4. Served' = Served
  BY <1>1 DEF Served, queue, release
<1>5. job[t] <= next - 1
  BY <1>2
<1>6. Belt!Settle(job[t], end)
  BY <1>1, <1>3, <1>4, <1>5 DEF Belt!Settle, queue, release
<1>7. end \in {"done", "lost"}
  OBVIOUS
<1>8. QED
  BY <1>2, <1>6, <1>7 DEF Belt!Next

\* Taking a job out of the queue is not yet serving it.
LEMMA PopMaps ==
  ASSUME Inv, CheckDone \/ Block
  PROVE  BeltStays
<1>1. /\ op \in {"check", "none"} /\ in_progress # <<>>
      /\ popped' = Head(in_progress) /\ in_progress' = Tail(in_progress)
      /\ UNCHANGED <<now, output, next, submitted, last_yield, yielded>>
  BY DEF CheckDone, Block, PopFront, tasks, Inv, MethodsMatch
<1>2. /\ Len(in_progress) \in Nat /\ Len(in_progress') = Len(in_progress) - 1
      /\ Head(in_progress) \in [job : Jobs, pace : Times]
  BY <1>1, TailFacts DEF Inv, TypeOK
<1>3. popped'.job # 0 /\ next \in Nat
  BY <1>1, <1>2, Numbers, Sequences DEF Jobs
<1>4. Served' = Served
  <2>1. Served = next - 1 - Len(in_progress)
    BY <1>1, ServedFacts
  <2>2. Served' = next - 1 - Len(in_progress') - 1
    BY <1>1, <1>3 DEF Served
  <2>3. QED
    BY <1>2, <1>3, <2>1, <2>2
<1>5. QED
  BY <1>1, <1>4 DEF BeltStays, Fate

\* block() skips a job without a result.
LEMMA ReceivedMaps ==
  ASSUME Inv, Received
  PROVE  Belt!Next \/ BeltStays
<1>1. /\ op = "block"
      /\ UNCHANGED <<now, output, next, in_progress, submitted, last_yield,
                     yielded>>
  BY DEF Received, tasks, queue
<1>2. /\ popped.job \in Jobs /\ popped.job = Served + 1
      /\ popped.job < next /\ popped.job \in Nat /\ popped.job # 0
      /\ next \in Nat /\ Len(in_progress) \in Nat
  BY <1>1, ServedFacts, Sequences, Numbers DEF Jobs
<1>3. Fate' = Fate
  BY <1>1 DEF Fate
<1>4. CASE output[popped.job] = "broken"
  <2>1. popped' = NoJob
    BY <1>4 DEF Received
  <2>2. Served' = Served + 1
    <3>1. Served' = next - 1 - Len(in_progress) - 0
      BY <1>1, <2>1 DEF Served, NoJob
    <3>2. Served = next - 1 - Len(in_progress) - 1
      BY <1>2 DEF Served
    <3>3. QED
      BY <1>2, <3>1, <3>2
  <2>3. Fate[Served + 1] = "lost"
    BY <1>2, <1>4 DEF Fate
  <2>4. Served < next - 1
    BY <1>2, ServedFacts
  <2>5. Belt!Skip
    BY <1>1, <1>3, <2>2, <2>3, <2>4 DEF Belt!Skip
  <2>6. QED
    BY <2>5 DEF Belt!Next
<1>5. CASE output[popped.job] # "broken"
  <2>1. popped' = popped
    BY <1>5 DEF Received
  <2>2. Served' = Served
    BY <1>1, <2>1 DEF Served
  <2>3. QED
    BY <1>1, <1>3, <2>2 DEF BeltStays
<1>6. QED
  BY <1>4, <1>5

\* It serves one with a result when the pace allows it.
LEMMA YieldMaps ==
  ASSUME Inv, FatesMatch, Yield
  PROVE  Belt!Next
<1>1. /\ op = "sleep" /\ Due /\ popped' = NoJob /\ last_yield' = now
      /\ yielded' = Append(yielded, [job |-> popped.job, time |-> now])
      /\ UNCHANGED <<now, output, next, in_progress, submitted>>
  BY DEF Yield, tasks, queue
<1>2. /\ popped.job \in Jobs /\ popped.job = Served + 1
      /\ popped.job < next /\ popped.job \in Nat /\ popped.job # 0
      /\ next \in Nat /\ Len(in_progress) \in Nat
  BY <1>1, ServedFacts, Sequences, Numbers DEF Jobs
<1>3. Fate' = Fate
  BY <1>1 DEF Fate
<1>4. Served' = Served + 1
  <2>1. Served' = next - 1 - Len(in_progress) - 0
    BY <1>1 DEF Served, NoJob
  <2>2. Served = next - 1 - Len(in_progress) - 1
    BY <1>2 DEF Served
  <2>3. QED
    BY <1>2, <2>1, <2>2
<1>5. Fate[Served + 1] = "done"
  BY <1>1, <1>2 DEF Fate, FatesMatch
<1>6. popped.pace = Belt!Pace(Served + 1)
  BY <1>2 DEF Inv, QueueMatches, PaceOf, Belt!Pace
<1>7. last_yield = 0 \/ now >= last_yield + Belt!Pace(Served + 1)
  BY <1>1, <1>6 DEF Due
<1>8. Served < next - 1
  BY <1>2, ServedFacts
<1>9. Belt!Yield
  BY <1>1, <1>2, <1>3, <1>4, <1>5, <1>7, <1>8 DEF Belt!Yield
<1>10. QED
  BY <1>9 DEF Belt!Next

\* Everything else is hidden from the conveyor, but for the time.
LEMMA HiddenSteps ==
  ASSUME Inv, \/ TryFails \/ PoolJoins \/ PoolJoined \/ CheckNotDone \/ Manage
              \/ \E m \in {"submit", "try_submit", "exchange"} : Enter(m)
              \/ \E t \in Threads : HandlerPanics(t) \/ Loop(t)
              \/ UNCHANGED vars
  PROVE  BeltStays
<1>1. UNCHANGED <<now, output, next, in_progress, submitted, popped, last_yield,
                  yielded>>
  BY DEF TryFails, PoolJoins, PoolJoined, CheckNotDone, Manage, Enter,
     HandlerPanics, Loop, vars, tasks, queue, release
<1>2. QED
  BY <1>1 DEF BeltStays, Fate, Served

\* The producer's reference does not show.
LEMMA ReleaseMaps ==
  ASSUME Inv, NEW t \in Threads, HandlerReturns(t)
  PROVE  BeltStays
<1>1. /\ output[job[t]] = "fulfilled"
      /\ output' = [output EXCEPT ![job[t]] = "released"]
      /\ UNCHANGED <<now, next, in_progress, submitted, popped, last_yield,
                     yielded>>
  BY DEF HandlerReturns, Consume, Resolve, queue, release
<1>2. Fate' = Fate
  BY <1>1 DEF Fate, Inv, TypeOK
<1>3. QED
  BY <1>1, <1>2 DEF BeltStays, Served

\* An IsochronousProcessor implements the conveyor for any number of threads
\* and jobs: results come in the order of the calls of submit, once each, not
\* before their pace allows, and only a panic makes one go missing.
THEOREM Refinement == Spec => ImplementsConveyor
<1>1. Init => Belt!Init
  <2>1. Init => Fate = [j \in Jobs |-> "open"]
    BY DEF Init, Fate
  <2>2. ASSUME Init PROVE Served = 0 /\ next - 1 = 0
    <3>1. next = 1 /\ popped.job = 0 /\ Len(in_progress) = 0
      BY <2>2 DEF Init, NoJob
    <3>2. next - 1 = 0
      BY <3>1
    <3>3. Served = next - 1 - Len(in_progress) - 0
      BY <3>1 DEF Served
    <3>4. Served = 1 - 1 - 0 - 0
      BY <3>1, <3>3
    <3>5. QED
      BY <3>2, <3>4
  <2>3. QED
    BY <2>1, <2>2 DEF Init, Belt!Init
<1>2. ASSUME Inv, FatesMatch, [Next]_vars PROVE [Belt!Next]_(Belt!vars)
  <2>1. BeltStays => UNCHANGED Belt!vars
    BY DEF BeltStays, Belt!vars
  <2>2. ASSUME Tick PROVE Belt!Next
    <3>1. Served' = Served /\ Fate' = Fate
      BY <2>2 DEF Tick, Served, Fate, tasks, queue, release
    <3>2. Belt!Tick
      BY <2>2, <3>1 DEF Tick, Belt!Tick, queue, release
    <3>3. QED
      BY <3>2 DEF Belt!Next
  <2>3. QED
    BY <1>2, <2>1, <2>2, AcceptMaps, SettleMaps, PopMaps, ReceivedMaps,
       YieldMaps, HiddenSteps, ReleaseMaps DEF Next, InCall, Worker
<1>3. QED
  BY <1>1, <1>2, Invariance, FatesAlways, PTL
     DEF Spec, ImplementsConveyor, Belt!Spec

=============================================================================
