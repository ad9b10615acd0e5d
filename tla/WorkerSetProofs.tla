-------------------------- MODULE WorkerSetProofs --------------------------
(***************************************************************************)
(* Safety properties of WorkerSet for any number of threads.               *)
(***************************************************************************)
EXTENDS WorkerSet, FiniteSetTheorems, TLAPS

Closed == {"failed", "joinDrop", "dropped", "aborted"}

\* The sender is taken on the way out, or by a send that has seen the flag,
\* and nothing clears the flag again.
SenderKept ==
  ~sender => owner \in Closed \/ (owner \in {"idle", "joinSend"} /\ panic_flag)

\* A thread has a handle from its spawn to its join, and is joined when it
\* has ended.
HandlesMatch ==
  /\ \A t \in handles : thread[t] # "none"
  /\ owner \notin {"spawning", "failed"} =>
       /\ \A t \in Threads : thread[t] # "none"
       /\ \A t \in Threads \ handles : thread[t] \in Ended
  /\ owner = "dropped" => handles = {}
  /\ reported > 0 => handles = {} /\ owner \notin {"spawning", "failed"}

\* A thread that has had no message cannot have panicked, and ends only when
\* the channel is closed.
UnusedAreSound ==
  /\ \A t \in Threads \ taken : thread[t] \in {"none", "looping", "recv",
                                               "finished"}
  /\ \A t \in Threads : thread[t] = "finished" => ~sender

\* There are at least as many of them as free sends.
FreeSendsAreCovered ==
  /\ owner = "spawning" => taken = {} /\ free_sends = 0
  /\ free_sends + Cardinality(taken) <= Count

Inv == /\ TypeOK /\ SenderKept /\ HandlesMatch
       /\ UnusedAreSound /\ FreeSendsAreCovered

\* A panic is taken from a thread that is joined to the owner, once.
PanicsAreCounted ==
  /\ payload => Joining /\ reported = 0 /\ ~swallowed
  /\ reported = 0 \/ (reported = 1 /\ ~swallowed)
  /\ reported > 0 \/ swallowed =>
       handles = {} /\ owner \notin {"spawning", "failed"}
  /\ owner \notin {"spawning", "failed"} =>
       \A t \in Threads \ handles : thread[t] = "panicked" =>
         payload \/ reported = 1 \/ swallowed

-----------------------------------------------------------------------------
\* Threads are Count many, and so are their subsets at most.
LEMMA ThreadsCounted ==
  /\ IsFiniteSet(Threads) /\ Cardinality(Threads) = Count
  /\ \A S \in SUBSET Threads :
       /\ IsFiniteSet(S) /\ Cardinality(S) \in Nat /\ Cardinality(S) <= Count
       /\ Cardinality(S) < Count => S # Threads
<1>1. IsFiniteSet(Threads) /\ Cardinality(Threads) = Count
  BY CountIsPositive, FS_Interval DEF Threads
<1>2. QED
  BY <1>1, CountIsPositive, FS_Subset, FS_CardinalityType

\* The invariant holds initially.
LEMMA InvInit == Init => Inv
<1> SUFFICES ASSUME Init PROVE Inv
  OBVIOUS
<1>1. Cardinality({}) = 0
  BY FS_EmptySet
<1>2. TypeOK
  <2>1. 0 \in 0..Count
    BY CountIsPositive
  <2>2. thread \in [Threads -> {"none", "looping", "recv", "handling",
                               "unwinding", "caught"} \cup Ended]
    BY DEF Init
  <2>3. QED
    BY <2>1, <2>2 DEF Init, TypeOK
<1>3. SenderKept /\ HandlesMatch /\ UnusedAreSound
  BY DEF Init, SenderKept, HandlesMatch, UnusedAreSound
<1>4. FreeSendsAreCovered
  BY <1>1, CountIsPositive DEF Init, FreeSendsAreCovered
<1>5. QED
  BY <1>2, <1>3, <1>4 DEF Inv

\* A thread's own steps.
LEMMA MoveStep ==
  ASSUME Inv, NEW t \in Threads, Loop(t) \/ Handling(t)
  PROVE  Inv'
<1>1. PICK from \in {"looping", "recv", "handling", "unwinding", "caught"},
           to \in {"recv", "finished", "looping", "unwinding", "caught",
                   "panicked"} :
        /\ Move(t, from, to) /\ panic_flag' \in BOOLEAN
        /\ panic_flag => panic_flag'
        /\ to = "finished" => ~sender /\ from = "recv"
        /\ to \in {"unwinding", "caught", "panicked"} =>
             from \in {"handling", "unwinding", "caught"}
  BY DEF Inv, TypeOK, Loop, Handling, Park, Exit, DropReceiver, SetFlag,
         HandlerReturns, HandlerPanics
<1>2. /\ thread' = [thread EXCEPT ![t] = to] /\ thread[t] = from
      /\ UNCHANGED <<sender, handles, free_sends, owner, panicking, payload,
                     taken, history>>
  BY <1>1 DEF Move
<1>3. TypeOK' /\ SenderKept'
  BY <1>1, <1>2 DEF Inv, TypeOK, SenderKept, Ended, history
<1>4. HandlesMatch'
  BY <1>1, <1>2 DEF Inv, TypeOK, HandlesMatch, Ended, history
<1>5. UnusedAreSound'
  BY <1>1, <1>2 DEF Inv, TypeOK, UnusedAreSound
<1>6. FreeSendsAreCovered'
  BY <1>2 DEF Inv, FreeSendsAreCovered
<1>7. QED
  BY <1>3, <1>4, <1>5, <1>6 DEF Inv

\* A message changes hands: a free send, if there is one, uses up a thread.
LEMMA HandoffStep ==
  ASSUME Inv, NEW t \in Threads, Handoff(t)
  PROVE  Inv'
<1> USE CountIsPositive
<1>1. /\ owner \in {"sending", "trying"} /\ thread[t] = "recv"
      /\ owner' = "idle" /\ thread' = [thread EXCEPT ![t] = "handling"]
      /\ taken' = taken \cup {t} /\ UsedUp
      /\ UNCHANGED <<sender, handles, panic_flag, panicking, payload, history>>
  BY DEF Handoff
<1>2. TypeOK'
  BY <1>1 DEF Inv, TypeOK, UsedUp, history, Ended
<1>3. SenderKept'
  BY <1>1 DEF Inv, SenderKept, Closed
<1>4. HandlesMatch'
  BY <1>1 DEF Inv, TypeOK, HandlesMatch, Ended, history
<1>5. UnusedAreSound'
  BY <1>1 DEF Inv, TypeOK, UnusedAreSound
<1>6. FreeSendsAreCovered'
  <2>1. taken \in SUBSET Threads /\ taken' \in SUBSET Threads
    BY <1>1 DEF Inv, TypeOK
  <2>2. /\ Cardinality(taken) \in Nat /\ Cardinality(taken') \in Nat
        /\ Cardinality(taken') <= Count
    BY <2>1, ThreadsCounted
  <2>3. Cardinality(taken') <= Cardinality(taken) + 1
    <3>1. IsFiniteSet(taken)
      BY <2>1, ThreadsCounted
    <3>2. Cardinality(taken \cup {t}) \in {Cardinality(taken),
                                           Cardinality(taken) + 1}
      BY <3>1, FS_AddElement
    <3>3. QED
      BY <1>1, <2>2, <3>2
  <2>4. free_sends \in Nat /\ free_sends + Cardinality(taken) <= Count
    BY DEF Inv, TypeOK, FreeSendsAreCovered
  <2>5. free_sends' = IF free_sends > 0 THEN free_sends - 1 ELSE 0
    BY <1>1 DEF UsedUp
  <2>6. QED
    BY <1>1, <2>2, <2>3, <2>4, <2>5 DEF FreeSendsAreCovered
<1>7. QED
  BY <1>2, <1>3, <1>4, <1>5, <1>6 DEF Inv

\* The rest: spawn, the owner's calls, and joining.
LEMMA OwnerStep ==
  ASSUME Inv,
         \/ Spawning \/ SpawnFails \/ User
         \/ Full \/ Disconnected \/ Joined \/ \E t \in Threads : Join(t)
  PROVE  Inv'
<1> USE CountIsPositive DEF Inv, history
<1>1. ASSUME NEW t \in Threads, SpawnThread(t) PROVE Inv'
  BY <1>1 DEF SpawnThread, TypeOK, SenderKept, HandlesMatch, UnusedAreSound,
              FreeSendsAreCovered, Ended, Closed
<1>2. CASE Spawned
  <2>1. Cardinality({}) = 0
    BY FS_EmptySet
  <2>2. QED
    BY <1>2, <2>1 DEF Spawned, TypeOK, SenderKept, HandlesMatch,
                      UnusedAreSound, FreeSendsAreCovered, Ended, Closed
<1>3. CASE SpawnFails
  BY <1>3 DEF SpawnFails, TypeOK, SenderKept, HandlesMatch, UnusedAreSound,
              FreeSendsAreCovered, Ended, Closed
<1>4. CASE User
  <2>1. CASE Send \/ TrySend
    BY <1>4, <2>1 DEF Send, TrySend, TryAlways, TypeOK, SenderKept,
         HandlesMatch, UnusedAreSound, FreeSendsAreCovered, Ended, Closed
  <2>2. CASE FlagSeen \/ Drop
    BY <1>4, <2>2 DEF FlagSeen, Drop, TypeOK, SenderKept, HandlesMatch,
         UnusedAreSound, FreeSendsAreCovered, Ended, Closed
  <2>3. CASE PanicOrCatch
    BY <1>4, <2>3 DEF PanicOrCatch, TypeOK, SenderKept, HandlesMatch,
         UnusedAreSound, FreeSendsAreCovered, Ended, Closed
  <2>4. QED
    BY <1>4, <2>1, <2>2, <2>3 DEF User
<1>5. CASE Full \/ Disconnected
  BY <1>5 DEF Full, Disconnected, TypeOK, SenderKept, HandlesMatch,
              UnusedAreSound, FreeSendsAreCovered, Ended, Closed
<1>6. ASSUME NEW t \in Threads, Join(t) PROVE Inv'
  BY <1>6 DEF Join, JoinAnyway, Joining, TypeOK, SenderKept, HandlesMatch,
              UnusedAreSound, FreeSendsAreCovered, Ended, Closed
<1>7. CASE Joined
  <2>1. /\ owner \in {"joinSend", "joinDrop"} /\ handles = {}
        /\ owner' \in {"dropped", "aborted", "idle"}
        /\ owner' = "idle" => owner = "joinSend"
        /\ panicking' \in BOOLEAN /\ swallowed' \in BOOLEAN
        /\ payload' = FALSE /\ reported' \in Nat
        /\ UNCHANGED <<sender, handles, free_sends, panic_flag, thread, taken>>
    BY <1>7 DEF Joined, Joining, Resume, TypeOK
  <2>2. QED
    BY <2>1 DEF TypeOK, SenderKept, HandlesMatch, UnusedAreSound,
                FreeSendsAreCovered, Ended, Closed
<1>8. QED
  BY <1>1, <1>2, <1>3, <1>4, <1>5, <1>6, <1>7 DEF Spawning

\* Every step keeps the invariant.
LEMMA InvStep == Inv /\ [Next]_vars => Inv'
<1> SUFFICES ASSUME Inv, [Next]_vars PROVE Inv'
  OBVIOUS
<1>1. CASE Next
  BY <1>1, MoveStep, HandoffStep, OwnerStep DEF Next, InCall
<1>2. CASE UNCHANGED vars
  BY <1>2 DEF Inv, TypeOK, SenderKept, HandlesMatch, UnusedAreSound,
              FreeSendsAreCovered, vars, history
<1>3. QED
  BY <1>1, <1>2

\* The invariant holds in every reachable state.
LEMMA InvAlways == Spec => []Inv
BY InvInit, InvStep, PTL DEF Spec

\* Nothing is reported before a thread was spawned.
LEMMA CountedInit == Init => PanicsAreCounted
BY DEF Init, PanicsAreCounted, Joining

\* A panic is counted when the thread is joined and passed on when all are; a
\* thread that panics later has not been joined.
LEMMA CountedStep == Inv /\ PanicsAreCounted /\ [Next]_vars => PanicsAreCounted'
<1> SUFFICES ASSUME Inv, PanicsAreCounted, [Next]_vars
             PROVE  PanicsAreCounted'
  OBVIOUS
<1>1. ASSUME NEW t \in Threads, Loop(t) \/ Handling(t)
      PROVE  PanicsAreCounted'
  <2>1. PICK from \in {"looping", "recv", "handling", "unwinding", "caught"},
             to \in {"recv", "finished", "looping", "unwinding", "caught",
                     "panicked"} : Move(t, from, to)
    BY <1>1 DEF Loop, Handling, Park, Exit, DropReceiver, SetFlag,
                HandlerReturns, HandlerPanics
  <2>2. thread[t] \notin Ended
    BY <2>1 DEF Move, Ended
  <2>3. owner \notin {"spawning", "failed"} => t \in handles
    BY <2>2 DEF Inv, HandlesMatch
  <2>4. QED
    BY <2>1, <2>3 DEF Move, Inv, TypeOK, PanicsAreCounted, Joining, history
<1>2. ASSUME NEW t \in Threads, Handoff(t)
      PROVE  PanicsAreCounted'
  BY <1>2 DEF Handoff, Inv, TypeOK, PanicsAreCounted, Joining, history
<1>3. ASSUME NEW t \in Threads, Join(t)
      PROVE  PanicsAreCounted'
  <2>1. /\ Joining /\ t \in handles /\ handles' = handles \ {t}
        /\ payload' <=> payload \/ thread[t] = "panicked"
        /\ UNCHANGED <<owner, thread, reported, swallowed>>
    BY <1>3 DEF Join, JoinAnyway, history
  <2>2. reported = 0 /\ ~swallowed /\ owner \notin {"spawning", "failed"}
    BY <2>1 DEF PanicsAreCounted, Joining
  <2>3. ASSUME NEW u \in Threads \ handles', thread[u] = "panicked"
        PROVE  payload'
    BY <2>1, <2>2, <2>3 DEF PanicsAreCounted
  <2>4. QED
    BY <2>1, <2>2, <2>3 DEF PanicsAreCounted, Joining
<1>4. CASE Joined
  <2>1. /\ Joining /\ handles' = {} /\ handles = {} /\ payload' = FALSE
        /\ owner' \in {"dropped", "aborted", "idle"} /\ thread' = thread
    BY <1>4 DEF Joined, Joining
  <2>2. /\ reported' = IF payload /\ ~panicking THEN reported + 1 ELSE reported
        /\ swallowed' <=> swallowed \/ (payload /\ panicking)
    BY <1>4 DEF Joined, Resume
  <2>3. reported' = 0 \/ (reported' = 1 /\ ~swallowed')
    BY <2>2 DEF PanicsAreCounted
  <2>4. payload \/ reported = 1 \/ swallowed => reported' = 1 \/ swallowed'
    BY <2>2 DEF PanicsAreCounted
  <2>5. QED
    BY <2>1, <2>3, <2>4 DEF PanicsAreCounted, Joining
<1>5. CASE Spawning \/ SpawnFails
  BY <1>5 DEF Spawning, Spawned, SpawnThread, SpawnFails, Inv, TypeOK,
              PanicsAreCounted, Joining, history
<1>6. CASE User \/ Full \/ Disconnected
  BY <1>6 DEF User, Send, TrySend, TryAlways, FlagSeen, Drop, PanicOrCatch,
              Full, Disconnected, Inv, TypeOK, PanicsAreCounted, Joining,
              history
<1>7. CASE UNCHANGED vars
  BY <1>7 DEF vars, history, PanicsAreCounted, Joining
<1>8. QED
  BY <1>1, <1>2, <1>3, <1>4, <1>5, <1>6, <1>7 DEF Next, InCall

-----------------------------------------------------------------------------
\* Types; in particular free_sends never exceeds the number of threads.
THEOREM TypeCorrect == Spec => []TypeOK
BY InvAlways, PTL DEF Inv

\* No unwrap() of a sender that a propagated panic has taken away.
THEOREM SenderIsPresent == Spec => []SenderPresent
<1>1. Inv => SenderPresent
  BY DEF Inv, SenderKept, SenderPresent, Closed
<1>2. QED
  BY <1>1, InvAlways, PTL

\* The free sends of a set of any size find a thread without a message.
THEOREM FreeSendsAreFree == Spec => []FreeSendFindsThread
<1>1. ASSUME Inv, owner = "sending", free_sends > 0
      PROVE  \E t \in Threads : thread[t] \in {"looping", "recv"}
                                /\ t \notin taken
  <2>1. taken \in SUBSET Threads /\ free_sends \in Nat
    BY <1>1 DEF Inv, TypeOK
  <2>2. Cardinality(taken) \in Nat /\ Cardinality(taken) < Count
    BY <1>1, <2>1, ThreadsCounted, CountIsPositive
       DEF Inv, FreeSendsAreCovered
  <2>3. PICK t \in Threads : t \notin taken
    BY <2>1, <2>2, ThreadsCounted
  <2>4. sender /\ thread[t] # "none"
    BY <1>1 DEF Inv, SenderKept, HandlesMatch, Closed
  <2>5. QED
    BY <1>1, <2>3, <2>4 DEF Inv, UnusedAreSound
<1>2. Inv => FreeSendFindsThread
  BY <1>1 DEF FreeSendFindsThread
<1>3. QED
  BY <1>2, InvAlways, PTL

\* No thread of the set outlives its drop or a panic it has propagated.
THEOREM ThreadsAreJoined == Spec => []AllThreadsJoined
<1>1. Inv => AllThreadsJoined
  BY DEF Inv, HandlesMatch, AllThreadsJoined
<1>2. QED
  BY <1>1, InvAlways, PTL

\* However many threads of the set panic, and whenever they do, the owner gets
\* one panic from it by the time the set is gone, or was unwinding itself.
THEOREM OnePanicReported == Spec => []PanicReportedOnce
<1>1. Inv /\ PanicsAreCounted => PanicReportedOnce
  <2>1. ASSUME Inv, owner = "dropped", NEW t \in Threads, Broken(t)
        PROVE  t \notin handles /\ thread[t] = "panicked"
    BY <2>1 DEF Inv, HandlesMatch, Broken, Ended
  <2>2. QED
    BY <2>1 DEF PanicsAreCounted, PanicReportedOnce, Joining
<1>2. QED
  BY <1>1, InvAlways, CountedInit, CountedStep, PTL DEF Spec

-----------------------------------------------------------------------------
\* The thread waits in the channel, or does not run any more.
ThreadIsIdle(t) == thread[t] \in Ended \/ (thread[t] = "recv" /\ sender)

\* The owner and the threads never all wait for each other: when no thread can
\* do anything by itself, a send finds one or fails, and every join returns.
NobodyHangs ==
  (\A t \in Threads : ThreadIsIdle(t)) =>
    /\ owner \in {"sending", "trying"} =>
         \/ \E t \in Threads : thread[t] = "recv"
         \/ \A t \in Threads : ~Receiving(t)
    /\ Joining => \A t \in Threads : thread[t] \in Ended

\* How many steps a thread has left at a place, at most.
StepsLeft(place) ==
  CASE place = "handling" -> 3
    [] place \in {"looping", "unwinding"} -> 2
    [] place \in {"recv", "caught"} -> 1
    [] OTHER -> 0

\* Every step of a thread leaves it less to do, and only its spawn and a message
\* give it more.
StepsRunOut ==
  [][\A t \in Threads :
       /\ Loop(t) \/ Handling(t) => StepsLeft(thread'[t]) < StepsLeft(thread[t])
       /\ StepsLeft(thread'[t]) > StepsLeft(thread[t]) =>
            SpawnThread(t) \/ Handoff(t)]_vars

\* The threads are joined with the channel closed, or when none receives.
LEMMA JoinedInit == Init => JoinedThreadsCanEnd
BY DEF Init, JoinedThreadsCanEnd, Joining

\* A thread that has stopped receiving does not begin again.
LEMMA JoinedStep ==
  Inv /\ JoinedThreadsCanEnd /\ [Next]_vars => JoinedThreadsCanEnd'
<1> SUFFICES ASSUME Inv, JoinedThreadsCanEnd, [Next]_vars
             PROVE  JoinedThreadsCanEnd'
  OBVIOUS
<1>1. ASSUME NEW t \in Threads, Loop(t) \/ Handling(t)
      PROVE  JoinedThreadsCanEnd'
  <2>1. PICK from \in {"looping", "recv", "handling", "unwinding", "caught"},
             to \in {"recv", "finished", "looping", "unwinding", "caught",
                     "panicked"} :
          /\ Move(t, from, to)
          /\ from = "caught" => to = "panicked"
    BY <1>1 DEF Loop, Handling, Park, Exit, DropReceiver, SetFlag,
                HandlerReturns, HandlerPanics
  <2>2. /\ UNCHANGED <<sender, owner>> /\ thread[t] = from
        /\ thread' = [thread EXCEPT ![t] = to]
    BY <2>1 DEF Move
  <2>3. \A u \in Threads : Receiving(u)' => Receiving(u)
    BY <2>1, <2>2 DEF Receiving, Inv, TypeOK
  <2>4. QED
    BY <2>2, <2>3 DEF JoinedThreadsCanEnd, Joining
<1>2. ASSUME NEW t \in Threads, Handoff(t) \/ Join(t)
      PROVE  JoinedThreadsCanEnd'
  BY <1>2 DEF Handoff, Join, JoinAnyway, JoinedThreadsCanEnd, Joining,
              Receiving
<1>3. CASE Joined
  BY <1>3 DEF Joined, JoinedThreadsCanEnd, Joining
<1>4. CASE Spawning \/ SpawnFails
  BY <1>4 DEF Spawning, Spawned, SpawnThread, SpawnFails,
              JoinedThreadsCanEnd, Joining
<1>5. CASE User \/ Full \/ Disconnected
  BY <1>5 DEF User, Send, TrySend, TryAlways, FlagSeen, Drop, PanicOrCatch,
              Full, Disconnected, JoinedThreadsCanEnd, Joining, Receiving
<1>6. CASE UNCHANGED vars
  BY <1>6 DEF vars, JoinedThreadsCanEnd, Joining, Receiving
<1>7. QED
  BY <1>1, <1>2, <1>3, <1>4, <1>5, <1>6 DEF Next, InCall

\* In a set of any size, no thread that is joined waits in an open channel.
THEOREM JoinsCanEnd == Spec => []JoinedThreadsCanEnd
BY InvAlways, JoinedInit, JoinedStep, PTL DEF Spec

\* No deadlock between the owner and its threads, however many of them there
\* are and whichever have panicked.
THEOREM NoDeadlock == Spec => []NobodyHangs
<1>1. ASSUME Inv, JoinedThreadsCanEnd, \A t \in Threads : ThreadIsIdle(t),
             Joining, NEW t \in Threads
      PROVE  thread[t] \in Ended
  BY <1>1 DEF JoinedThreadsCanEnd, ThreadIsIdle, Receiving
<1>2. ASSUME \A t \in Threads : ThreadIsIdle(t)
      PROVE  \/ \E t \in Threads : thread[t] = "recv"
             \/ \A t \in Threads : ~Receiving(t)
  BY <1>2 DEF ThreadIsIdle, Receiving, Ended
<1>3. Inv /\ JoinedThreadsCanEnd => NobodyHangs
  BY <1>1, <1>2 DEF NobodyHangs
<1>4. QED
  BY <1>3, InvAlways, JoinsCanEnd, PTL

\* A thread never runs for ever without a new message, provided its handler
\* ends; with NoDeadlock, only fairness is missing for CallsReturn.
THEOREM ThreadsRunOut == Spec => StepsRunOut
<1>1. ASSUME Inv, NEW t \in Threads, Loop(t) \/ Handling(t)
      PROVE  StepsLeft(thread'[t]) < StepsLeft(thread[t])
  BY <1>1 DEF Inv, TypeOK, Loop, Handling, Park, Exit, DropReceiver, SetFlag,
              HandlerReturns, HandlerPanics, Move, StepsLeft
<1>2. ASSUME Inv, [Next]_vars, NEW t \in Threads,
             ~SpawnThread(t), ~Handoff(t)
      PROVE  ~(StepsLeft(thread'[t]) > StepsLeft(thread[t]))
  <2>1. StepsLeft(thread[t]) \in Int /\ StepsLeft(thread'[t]) \in Int
    BY DEF StepsLeft
  <2>2. CASE thread'[t] = thread[t]
    BY <2>1, <2>2
  <2>3. CASE thread'[t] # thread[t]
    <3>1. Loop(t) \/ Handling(t)
      <4>1. ASSUME NEW u \in Threads, u # t,
                   Loop(u) \/ Handling(u) \/ SpawnThread(u) \/ Handoff(u)
            PROVE  FALSE
        BY <1>2, <2>3, <4>1 DEF Inv, TypeOK, Loop, Handling, Park, Exit,
             DropReceiver, SetFlag, HandlerReturns, HandlerPanics, Move,
             SpawnThread, Handoff
      <4>2. ~Spawned /\ ~SpawnFails /\ ~User /\ ~Full /\ ~Disconnected
            /\ ~Joined /\ ~(\E u \in Threads : Join(u)) /\ ~UNCHANGED vars
        BY <2>3 DEF Spawned, SpawnFails, User, Send, TrySend, TryAlways,
             FlagSeen, Drop, PanicOrCatch, Full, Disconnected, Joined, Join,
             JoinAnyway, vars
      <4>3. QED
        BY <1>2, <4>1, <4>2 DEF Next, InCall, Spawning
    <3>2. QED
      BY <1>1, <1>2, <2>1, <3>1
  <2>4. QED
    BY <2>2, <2>3
<1>3. Inv /\ [Next]_vars =>
        [\A t \in Threads :
           /\ Loop(t) \/ Handling(t) =>
                StepsLeft(thread'[t]) < StepsLeft(thread[t])
           /\ StepsLeft(thread'[t]) > StepsLeft(thread[t]) =>
                SpawnThread(t) \/ Handoff(t)]_vars
  BY <1>1, <1>2
<1>4. QED
  BY <1>3, InvAlways, PTL DEF Spec, StepsRunOut
=============================================================================
