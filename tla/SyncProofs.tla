----------------------------- MODULE SyncProofs -----------------------------
(***************************************************************************)
(* Safety properties of Sync for any set of threads and any number of      *)
(* changes of the contents.                                                *)
(***************************************************************************)
EXTENDS Sync, TLAPS

\* The two phases of a change.
Changing == {"updating", "updated"}

\* An exclusive guard excludes every other guard.
GuardsExclude ==
  \A t, u \in Threads :
    at[t] \in Exclusive /\ at[u] \in Exclusive \cup {"reading"} => t = u

\* Without a panic the two parts differ only while somebody changes them.
ContentsMatch ==
  first = second \/ poisoned \/ \E t \in Threads : at[t] = "updating"

\* What a wait has told holds the guard it was told with.
ToldHoldGuard == \A t \in Threads : told[t] # "nothing" => at[t] = "writing"

Inv == /\ TypeOK /\ GuardsExclude /\ ContentsMatch /\ ToldHoldGuard
       /\ SleepersWillBeNotified /\ WaitsAreTruthful

-----------------------------------------------------------------------------
\* The invariant holds initially.
LEMMA InvInit == Init => Inv
<1> SUFFICES ASSUME Init PROVE Inv
  OBVIOUS
<1>1. TypeOK
  <2>1. 0 \in 0..MaxChanges
    BY ChangesAreNat
  <2>2. QED
    BY <2>1 DEF Init, TypeOK
<1>2. GuardsExclude /\ ContentsMatch /\ ToldHoldGuard
  BY DEF Init, GuardsExclude, ContentsMatch, ToldHoldGuard, Exclusive
<1>3. SleepersWillBeNotified /\ WaitsAreTruthful
  BY DEF Init, SleepersWillBeNotified, WaitsAreTruthful, Asleep
<1>4. QED
  BY <1>1, <1>2, <1>3 DEF Inv

\* A thread that asks for a guard, gets it or gives it up: none becomes
\* exclusive beside others, and a change is left behind only with the poison.
LEMMA MoveStep ==
  ASSUME Inv, NEW t \in Threads,
         NEW where \in {"idle", "toRead", "toWrite", "reading", "writing"},
         Move(t, where), UNCHANGED <<kind, contents>>,
         at[t] \notin {"asleep", "woken"}, poisoned' \in BOOLEAN,
         poisoned => poisoned', at[t] \in Changing => poisoned',
         where = "writing" => CanWrite,
         where = "reading" => CanRead
  PROVE  Inv'
<1>1. /\ at' = [at EXCEPT ![t] = where]
      /\ told' = [told EXCEPT ![t] = "nothing"]
      /\ base' = [base EXCEPT ![t] = 0]
      /\ UNCHANGED <<method, deadline, kind, first, second>>
  BY DEF Move, contents
<1>2. TypeOK'
  <2>1. base' \in [Threads -> 0..MaxChanges]
    BY <1>1, ChangesAreNat DEF Inv, TypeOK
  <2>2. at' \in [Threads -> {"idle", "gone", "toRead", "toWrite", "reading"}
                             \cup Exclusive
                             \cup IF kind' = "mutex" THEN {"asleep", "woken"}
                                                    ELSE {}]
    BY <1>1 DEF Inv, TypeOK, Exclusive
  <2>3. QED
    BY <1>1, <2>1, <2>2 DEF Inv, TypeOK
<1>3. GuardsExclude'
  BY <1>1 DEF Inv, TypeOK, GuardsExclude, CanWrite, CanRead, Holders, Writing,
              Exclusive
<1>4. ContentsMatch'
  BY <1>1 DEF Inv, TypeOK, ContentsMatch, Changing
<1>5. ToldHoldGuard'
  BY <1>1 DEF Inv, TypeOK, ToldHoldGuard
<1>6. SleepersWillBeNotified'
  BY <1>1 DEF Inv, TypeOK, SleepersWillBeNotified, Asleep, condition, Changing
<1>7. WaitsAreTruthful'
  BY <1>1 DEF Inv, TypeOK, WaitsAreTruthful, condition
<1>8. QED
  BY <1>2, <1>3, <1>4, <1>5, <1>6, <1>7 DEF Inv

\* Locking and unlocking, with and without a panic.
LEMMA LockStep ==
  ASSUME Inv, NEW t \in Threads,
         \/ lock(t) \/ write(t) \/ read(t) \/ Acquire(t)
         \/ try_lock(t) \/ try_write(t) \/ try_read(t)
         \/ Unlock(t) \/ Panic(t)
  PROVE  Inv'
<1> poisoned \in BOOLEAN
  BY DEF Inv, TypeOK
<1>1. CASE lock(t) \/ write(t) \/ read(t)
  BY <1>1, MoveStep DEF lock, write, read, Ask, contents, Changing
<1>2. CASE Acquire(t)
  BY <1>2, MoveStep DEF Acquire, Unpoisoned, contents, Changing
<1>3. CASE try_lock(t) \/ try_write(t) \/ try_read(t)
  BY <1>3, MoveStep
     DEF try_lock, try_write, try_read, Ask, Unpoisoned, contents, Changing
<1>4. CASE Unlock(t)
  BY <1>4, MoveStep DEF Unlock, contents, Changing
<1>5. CASE Panic(t)
  <2>1. poisoned' = (poisoned \/ t \in Writing)
    BY <1>5 DEF Panic
  <2>2. poisoned' \in BOOLEAN /\ (poisoned => poisoned')
    BY <2>1
  <2>3. at[t] \in Changing => poisoned'
    BY <2>1 DEF Changing, Writing, Exclusive
  <2>4. QED
    BY <1>5, <2>2, <2>3, MoveStep DEF Panic, Holders, Exclusive, contents
<1>6. QED
  BY <1>1, <1>2, <1>3, <1>4, <1>5

\* The contents change where nobody else has a guard.
LEMMA ChangeStep ==
  ASSUME Inv, NEW t \in Threads, Change(t) \/ FinishChange(t) \/ get_mut(t)
  PROVE  Inv'
<1>1. PICK where \in {"updating", "updated", "writing", "idle"} :
        /\ at' = [at EXCEPT ![t] = where]
        /\ told' = [told EXCEPT ![t] = "nothing"]
        /\ base' = [base EXCEPT ![t] = 0]
        /\ UNCHANGED <<method, deadline, kind, poisoned>>
        /\ \/ /\ at[t] = "writing" /\ where = "updating"
              /\ first < MaxChanges /\ first' = first + 1 /\ second' = second
           \/ /\ at[t] = "updating" /\ first' = first /\ second' = first
              /\ \/ kind = "mutex" /\ where = "updated"
                 \/ kind # "mutex" /\ where = "writing"
           \/ /\ \A u \in Threads : at[u] = "idle"
              /\ where = "idle" /\ first < MaxChanges
              /\ first' = first + 1 /\ second' = first'
  BY DEF Change, FinishChange, get_mut, Move
<1>2. TypeOK'
  <2>1. base' \in [Threads -> 0..MaxChanges]
    BY <1>1, ChangesAreNat DEF Inv, TypeOK
  <2>2. first' \in 0..MaxChanges /\ second' \in 0..MaxChanges
    BY <1>1, ChangesAreNat DEF Inv, TypeOK
  <2>3. at' \in [Threads -> {"idle", "gone", "toRead", "toWrite", "reading"}
                             \cup Exclusive
                             \cup IF kind' = "mutex" THEN {"asleep", "woken"}
                                                    ELSE {}]
    BY <1>1 DEF Inv, TypeOK, Exclusive
  <2>4. QED
    BY <1>1, <2>1, <2>2, <2>3 DEF Inv, TypeOK
<1>3. GuardsExclude'
  BY <1>1 DEF Inv, TypeOK, GuardsExclude, Exclusive
<1>4. ContentsMatch'
  BY <1>1 DEF Inv, TypeOK, ContentsMatch
<1>5. ToldHoldGuard'
  BY <1>1 DEF Inv, TypeOK, ToldHoldGuard
<1>6. SleepersWillBeNotified'
  <2>1. ASSUME NEW u \in Threads, at'[u] = "asleep"
        PROVE  at[u] = "asleep" /\ kind = "mutex" /\ where # "idle"
    <3>1. at[u] = "asleep" /\ where # "idle"
      BY <1>1, <2>1 DEF Inv, TypeOK
    <3>2. kind = "mutex"
      BY <3>1 DEF Inv, TypeOK, Exclusive
    <3>3. QED
      BY <3>1, <3>2
  <2>2. (\E u \in Threads : at'[u] = "asleep") =>
          at'[t] \in {"updating", "updated"}
    BY <1>1, <2>1 DEF Inv, TypeOK
  <2>3. QED
    BY <2>2 DEF SleepersWillBeNotified, Asleep
<1>7. WaitsAreTruthful'
  BY <1>1 DEF Inv, TypeOK, WaitsAreTruthful, condition, ToldHoldGuard,
              GuardsExclude, Exclusive
<1>8. QED
  BY <1>2, <1>3, <1>4, <1>5, <1>6, <1>7 DEF Inv

\* Going to sleep, and being woken by a notification, a time-out or nothing.
LEMMA SleepStep ==
  ASSUME Inv, NEW t \in Threads,
         \/ notify_all(t) \/ notify_one(t) \/ TimedOut(t)
         \/ \E m \in {"wait", "wait_while"}, limit \in {"never", "pending"} :
              WaitFor(t, m, limit)
  PROVE  Inv'
<1>1. CASE notify_all(t)
  <2>1. /\ at[t] = "updated"
        /\ at' = [u \in Threads |-> IF u = t THEN "writing"
                                    ELSE IF at[u] = "asleep" THEN "woken"
                                    ELSE at[u]]
        /\ UNCHANGED <<kind, first, second, poisoned, method, deadline, base,
                       told>>
    BY <1>1 DEF notify_all, AllNotified, contents, waits
  <2>2. TypeOK'
    BY <2>1 DEF Inv, TypeOK, Exclusive
  <2>3. GuardsExclude'
    BY <2>1 DEF Inv, TypeOK, GuardsExclude, Exclusive
  <2>4. ContentsMatch' /\ ToldHoldGuard'
    BY <2>1 DEF Inv, TypeOK, ContentsMatch, ToldHoldGuard
  <2>5. SleepersWillBeNotified' /\ WaitsAreTruthful'
    BY <2>1 DEF Inv, TypeOK, SleepersWillBeNotified, WaitsAreTruthful, Asleep,
                condition
  <2>6. QED
    BY <2>2, <2>3, <2>4, <2>5 DEF Inv
<1>2. CASE notify_one(t) \/ TimedOut(t)
  <2>1. /\ at[t] = "asleep" /\ at' = [at EXCEPT ![t] = "woken"]
        /\ deadline' = deadline \/ deadline' = [deadline EXCEPT ![t] = "elapsed"]
        /\ UNCHANGED <<kind, first, second, poisoned, method, base, told>>
    BY <1>2 DEF notify_one, TimedOut, Wake, contents
  <2>2. TypeOK'
    BY <2>1 DEF Inv, TypeOK, Exclusive
  <2>3. GuardsExclude'
    BY <2>1 DEF Inv, TypeOK, GuardsExclude, Exclusive
  <2>4. ContentsMatch' /\ ToldHoldGuard'
    BY <2>1 DEF Inv, TypeOK, ContentsMatch, ToldHoldGuard
  <2>5. SleepersWillBeNotified' /\ WaitsAreTruthful'
    BY <2>1 DEF Inv, TypeOK, SleepersWillBeNotified, WaitsAreTruthful, Asleep,
                condition
  <2>6. QED
    BY <2>2, <2>3, <2>4, <2>5 DEF Inv
<1>3. ASSUME NEW m \in {"wait", "wait_while"},
             NEW limit \in {"never", "pending"}, WaitFor(t, m, limit)
      PROVE  Inv'
  <2>1. /\ kind = "mutex" /\ at[t] = "writing"
        /\ at' = [at EXCEPT ![t] = "asleep"]
        /\ method' = [method EXCEPT ![t] = m]
        /\ deadline' = [deadline EXCEPT ![t] = limit]
        /\ base' = [base EXCEPT ![t] = first]
        /\ told' = [told EXCEPT ![t] = "nothing"]
        /\ UNCHANGED <<kind, first, second, poisoned>>
    BY <1>3 DEF WaitFor, contents
  <2>2. TypeOK'
    BY <2>1 DEF Inv, TypeOK, Exclusive
  <2>3. GuardsExclude'
    BY <2>1 DEF Inv, TypeOK, GuardsExclude, Exclusive
  <2>4. ContentsMatch' /\ ToldHoldGuard'
    BY <2>1 DEF Inv, TypeOK, ContentsMatch, ToldHoldGuard
  <2>5. SleepersWillBeNotified' /\ WaitsAreTruthful'
    BY <2>1 DEF Inv, TypeOK, SleepersWillBeNotified, WaitsAreTruthful, Asleep,
                condition
  <2>6. QED
    BY <2>2, <2>3, <2>4, <2>5 DEF Inv
<1>4. QED
  BY <1>1, <1>2, <1>3

\* A thread that was woken has the mutex again: it tells the truth about its
\* condition, or sleeps on while the condition holds.
LEMMA ResumeStep ==
  ASSUME Inv, NEW t \in Threads, Resume(t)
  PROVE  Inv'
<1>1. /\ at[t] = "woken" /\ CanWrite
      /\ UNCHANGED <<kind, first, second, poisoned>>
  BY DEF Resume, contents
<1>2. ASSUME NEW what \in {"nothing", "false", "timeout"}, Return(t, what),
             ~poisoned /\ what = "false" => ~condition(t),
             ~poisoned /\ what = "timeout" => condition(t)
      PROVE  Inv'
  <2>1. /\ at' = [at EXCEPT ![t] = "writing"]
        /\ told' = [told EXCEPT ![t] = what]
        /\ method' = [method EXCEPT ![t] = "none"]
        /\ deadline' = [deadline EXCEPT ![t] = "never"]
        /\ base' = [base EXCEPT ![t] = IF what = "nothing" THEN 0 ELSE @]
    BY <1>2 DEF Return
  <2>2. TypeOK'
    <3>1. base' \in [Threads -> 0..MaxChanges]
      BY <2>1, ChangesAreNat DEF Inv, TypeOK
    <3>2. QED
      BY <1>1, <2>1, <3>1 DEF Inv, TypeOK, Exclusive
  <2>3. GuardsExclude'
    BY <1>1, <2>1 DEF Inv, TypeOK, GuardsExclude, Exclusive, CanWrite, Holders
  <2>4. ContentsMatch' /\ ToldHoldGuard'
    BY <1>1, <2>1 DEF Inv, TypeOK, ContentsMatch, ToldHoldGuard
  <2>5. SleepersWillBeNotified'
    BY <1>1, <2>1 DEF Inv, TypeOK, SleepersWillBeNotified, Asleep, condition
  <2>6. WaitsAreTruthful'
    BY <1>1, <1>2, <2>1 DEF Inv, TypeOK, WaitsAreTruthful, condition
  <2>7. QED
    BY <2>2, <2>3, <2>4, <2>5, <2>6 DEF Inv
<1>3. CASE WaitEnds(t) /\ Return(t, Outcome(t))
  <2>1. Outcome(t) \in {"nothing", "false", "timeout"}
    BY DEF Outcome
  <2>2. ~poisoned /\ Outcome(t) = "false" => ~condition(t)
    BY <1>3 DEF Outcome, WaitEnds
  <2>3. ~poisoned => Outcome(t) # "timeout"
    BY DEF Outcome
  <2>4. QED
    BY <1>2, <1>3, <2>1, <2>2, <2>3
<1>4. CASE ~WaitEnds(t) /\ Return(t, "timeout")
  BY <1>2, <1>4 DEF WaitEnds
<1>5. CASE ~WaitEnds(t) /\ at' = [at EXCEPT ![t] = "asleep"]
                       /\ UNCHANGED waits
  <2>1. condition(t) /\ UNCHANGED <<method, deadline, base, told>>
    BY <1>5 DEF WaitEnds, waits
  <2>2. TypeOK'
    BY <1>1, <1>5, <2>1 DEF Inv, TypeOK, Exclusive
  <2>3. GuardsExclude'
    BY <1>1, <1>5 DEF Inv, TypeOK, GuardsExclude, Exclusive
  <2>4. ContentsMatch' /\ ToldHoldGuard'
    BY <1>1, <1>5, <2>1 DEF Inv, TypeOK, ContentsMatch, ToldHoldGuard
  <2>5. SleepersWillBeNotified' /\ WaitsAreTruthful'
    BY <1>1, <1>5, <2>1 DEF Inv, TypeOK, SleepersWillBeNotified,
                            WaitsAreTruthful, Asleep, condition
  <2>6. QED
    BY <2>2, <2>3, <2>4, <2>5 DEF Inv
<1>6. QED
  BY <1>3, <1>4, <1>5 DEF Resume

\* The lock is taken apart when nobody uses it.
LEMMA IntoInnerStep == Inv /\ into_inner => Inv'
<1> SUFFICES ASSUME Inv, into_inner PROVE Inv'
  OBVIOUS
<1>1. /\ \A t \in Threads : at[t] = "idle"
      /\ at' = [t \in Threads |-> "gone"]
      /\ UNCHANGED <<kind, first, second, poisoned, method, deadline, base,
                     told>>
  BY DEF into_inner, contents, waits
<1>2. TypeOK'
  BY <1>1 DEF Inv, TypeOK
<1>3. GuardsExclude' /\ ContentsMatch' /\ ToldHoldGuard'
  BY <1>1 DEF Inv, GuardsExclude, ContentsMatch, ToldHoldGuard, Exclusive
<1>4. SleepersWillBeNotified' /\ WaitsAreTruthful'
  BY <1>1 DEF Inv, SleepersWillBeNotified, WaitsAreTruthful, Asleep, condition
<1>5. QED
  BY <1>2, <1>3, <1>4 DEF Inv

\* The invariant is inductive.
LEMMA InvNext == Inv /\ [Next]_vars => Inv'
<1> SUFFICES ASSUME Inv, [Next]_vars PROVE Inv'
  OBVIOUS
<1>1. CASE UNCHANGED vars
  BY <1>1 DEF vars, contents, waits, Inv, TypeOK, GuardsExclude, ContentsMatch,
              ToldHoldGuard, SleepersWillBeNotified, WaitsAreTruthful, Asleep,
              condition
<1>2. QED
  BY <1>1, LockStep, ChangeStep, SleepStep, ResumeStep, IntoInnerStep DEF Next

\* The invariant holds in every state.
LEMMA Invariance == Spec => []Inv
BY InvInit, InvNext, PTL DEF Spec

-----------------------------------------------------------------------------
\* The places of the threads and the results of waits keep their types, and
\* only a Mutex is waited on.
THEOREM TypeCorrect == Spec => []TypeOK
BY Invariance, PTL DEF Inv

\* The guards of sync.rs exclude each other, so nobody sees half of a change
\* that no panic has cut short: the critical sections of the other modules.
THEOREM WholeChangesSeen == Spec => []SeesWholeChanges
<1>1. Inv => SeesWholeChanges
  BY DEF Inv, GuardsExclude, ContentsMatch, SeesWholeChanges, Holders, Exclusive
<1>2. QED
  BY <1>1, Invariance, PTL

\* Nobody sleeps in the Condvar through a change and its notification.
THEOREM SleepersAreNotified == Spec => []SleepersWillBeNotified
BY Invariance, PTL DEF Inv

\* Without a panic the waits with a condition tell the truth about it.
THEOREM TruthfulWaits == Spec => []WaitsAreTruthful
BY Invariance, PTL DEF Inv

-----------------------------------------------------------------------------
\* Only those who wait, or rely on the answer of a wait, have a version they
\* have seen.
BaseHeld == \A t \in Threads :
  base[t] # 0 => at[t] \in {"asleep", "woken"} \/ told[t] # "nothing"

\* It is set with the wait and reset with everything that follows it.
LEMMA BaseAlways == Spec => []BaseHeld
<1>1. Init => BaseHeld
  BY DEF Init, BaseHeld
<1>2. ASSUME Inv, BaseHeld, [Next]_vars PROVE BaseHeld'
  <2>0. DOMAIN at = Threads /\ DOMAIN base = Threads /\ DOMAIN told = Threads
    BY <1>2 DEF Inv, TypeOK
  <2>1. ASSUME NEW t \in Threads, NEW where, Move(t, where),
               at[t] \notin {"asleep", "woken"}
        PROVE  BaseHeld'
    BY <1>2, <2>0, <2>1 DEF Move, BaseHeld, Inv, TypeOK
  <2>2. ASSUME NEW t \in Threads, \/ lock(t) \/ write(t) \/ read(t) \/ Acquire(t)
                                  \/ try_lock(t) \/ try_write(t) \/ try_read(t)
                                  \/ Unlock(t) \/ Panic(t) \/ get_mut(t)
                                  \/ Change(t) \/ FinishChange(t)
        PROVE  BaseHeld'
    <3>1. \E where : Move(t, where)
      BY <2>2 DEF lock, write, read, try_lock, try_write, try_read, Ask, Acquire,
                  Unlock, Panic, get_mut, Change, FinishChange
    <3>2. at[t] \notin {"asleep", "woken"}
      BY <2>2 DEF lock, write, read, try_lock, try_write, try_read, Ask, Acquire,
                  Unlock, Panic, get_mut, Change, FinishChange, Holders, Exclusive
    <3>3. QED
      BY <2>1, <3>1, <3>2
  <2>3. ASSUME NEW t \in Threads, notify_all(t)
        PROVE  BaseHeld'
    BY <1>2, <2>0, <2>3 DEF notify_all, AllNotified, waits, BaseHeld
  <2>4. ASSUME NEW t \in Threads, notify_one(t) \/ TimedOut(t)
        PROVE  BaseHeld'
    BY <1>2, <2>0, <2>4 DEF notify_one, TimedOut, Wake, BaseHeld
  <2>5. ASSUME NEW t \in Threads, NEW m, NEW limit, WaitFor(t, m, limit)
        PROVE  BaseHeld'
    BY <1>2, <2>0, <2>5 DEF WaitFor, BaseHeld
  <2>6. ASSUME NEW t \in Threads, NEW what, Return(t, what)
        PROVE  BaseHeld'
    BY <1>2, <2>0, <2>6 DEF Return, BaseHeld
  <2>7. ASSUME NEW t \in Threads, at' = [at EXCEPT ![t] = "asleep"],
               UNCHANGED waits
        PROVE  BaseHeld'
    BY <1>2, <2>0, <2>7 DEF waits, BaseHeld
  <2>8. ASSUME NEW t \in Threads, Resume(t)
        PROVE  BaseHeld'
    BY <2>6, <2>7, <2>8 DEF Resume
  <2>9. CASE into_inner
    BY <1>2, <2>0, <2>9 DEF into_inner, waits, BaseHeld
  <2>10. CASE UNCHANGED vars
    BY <1>2, <2>10 DEF vars, waits, BaseHeld
  <2>11. QED
    BY <1>2, <2>2, <2>3, <2>4, <2>5, <2>8, <2>9, <2>10 DEF Next
<1>3. QED
  BY <1>1, <1>2, Invariance, PTL DEF Spec

\* A thread that moves from one place outside the Condvar to another keeps those
\* who wait, and gives up the answer it had.
LEMMA MoveMaps ==
  ASSUME Inv, NEW t \in Threads, at[t] \notin {"asleep", "woken"},
         NEW where \in {"idle", "toRead", "toWrite", "reading"} \cup Exclusive,
         Move(t, where)
  PROVE  Shared!Forget(t) /\ Waiting' = Waiting /\ Asleep' = Asleep
<1>1. /\ at' = [at EXCEPT ![t] = where] /\ DOMAIN at = Threads
      /\ told' = [told EXCEPT ![t] = "nothing"]
      /\ base' = [base EXCEPT ![t] = 0]
  BY DEF Move, Inv, TypeOK
<1>2. where \notin {"asleep", "woken"}
  BY DEF Exclusive
<1>3. t \notin Waiting
  BY DEF Waiting
<1>4. Waiting' = Waiting /\ Asleep' = Asleep
  BY <1>1, <1>2 DEF Waiting, Asleep
<1>5. QED
  BY <1>1, <1>3, <1>4 DEF Shared!Forget

\* Locking, unlocking, and the parts of a change before it is announced, do
\* nothing to the monitor but that an answer is given up.
LEMMA LeaveMaps ==
  ASSUME Inv, NEW t \in Threads, at[t] \notin {"asleep", "woken"},
         NEW where \in {"idle", "toRead", "toWrite", "reading"} \cup Exclusive,
         Move(t, where), UNCHANGED poisoned, Version' = Version
  PROVE  Shared!Next
<1>1. Shared!Leave(t)
  BY MoveMaps DEF Shared!Leave
<1>2. QED
  BY <1>1 DEF Shared!Next

\* The version under an exclusive guard, and without one.
LEMMA VersionFacts ==
  ASSUME Inv
  PROVE  /\ first \in Nat
         /\ \A t \in Threads : at[t] \in Changing => Version = first - 1
         /\ \A t \in Threads : at[t] = "writing" => Version = first
         /\ CanWrite => Version = first
<1>1. first \in Nat
  BY ChangesAreNat DEF Inv, TypeOK
<1>2. \A t \in Threads : at[t] \in Changing => Version = first - 1
  BY DEF Version, Changing
<1>3. \A t \in Threads : at[t] = "writing" => Version = first
  BY DEF Version, Inv, GuardsExclude, Exclusive
<1>4. CanWrite => Version = first
  BY DEF Version, CanWrite, Holders, Exclusive
<1>5. QED
  BY <1>1, <1>2, <1>3, <1>4

\* Nobody relies on an answer while somebody changes the contents.
LEMMA NobodyReliesFacts ==
  ASSUME Inv, NEW t \in Threads, at[t] \in Changing
  PROVE  /\ Shared!NobodyRelies
         /\ BaseHeld => base[t] = 0
<1>1. at[t] \in Exclusive /\ at[t] # "writing"
  BY DEF Changing, Exclusive
<1>2. ASSUME NEW u \in Threads PROVE told[u] = "nothing"
  BY <1>1 DEF Inv, ToldHoldGuard, GuardsExclude, Exclusive
<1>3. QED
  BY <1>2 DEF Shared!NobodyRelies, BaseHeld, Changing

\* Locking and unlocking are no steps of the monitor, unless by a panic.
LEMMA LockMaps ==
  ASSUME Inv, NEW t \in Threads,
         \/ lock(t) \/ write(t) \/ read(t) \/ Acquire(t)
         \/ try_lock(t) \/ try_write(t) \/ try_read(t) \/ Unlock(t)
  PROVE  Shared!Next
<1>1. PICK where \in {"idle", "toRead", "toWrite", "reading", "writing"} :
        /\ at[t] \in {"idle", "toRead", "toWrite", "reading", "writing"}
        /\ Move(t, where) /\ UNCHANGED <<first, poisoned>>
  <2>1. CASE lock(t) \/ write(t) \/ read(t)
    BY <2>1 DEF lock, write, read, Ask, contents
  <2>2. CASE Acquire(t)
    BY <2>2 DEF Acquire, Unpoisoned, contents
  <2>3. CASE try_lock(t) \/ try_write(t) \/ try_read(t)
    BY <2>3 DEF try_lock, try_write, try_read, Ask, Unpoisoned, contents
  <2>4. CASE Unlock(t)
    BY <2>4 DEF Unlock, contents
  <2>5. QED
    BY <2>1, <2>2, <2>3, <2>4
<1>2. at' = [at EXCEPT ![t] = where] /\ DOMAIN at = Threads
  BY <1>1 DEF Move, Inv, TypeOK
<1>3. Version' = Version
  BY <1>1, <1>2 DEF Version
<1>4. QED
  BY <1>1, <1>3, LeaveMaps DEF Exclusive

\* A panic under an exclusive guard damages the monitor, at any point of the
\* change; one of a reader does not.
LEMMA PanicMaps ==
  ASSUME Inv, NEW t \in Threads, Panic(t)
  PROVE  Shared!Next
<1>1. /\ at[t] \in Exclusive \cup {"reading"} /\ Move(t, "idle")
      /\ first' = first /\ poisoned' = (poisoned \/ t \in Writing)
      /\ at' = [at EXCEPT ![t] = "idle"] /\ DOMAIN at = Threads
  BY DEF Panic, Holders, Move, contents, Inv, TypeOK
<1>2. at[t] \notin {"asleep", "woken"}
  BY <1>1 DEF Exclusive
<1>3. Shared!Forget(t) /\ Waiting' = Waiting /\ Asleep' = Asleep
  BY <1>1, <1>2, MoveMaps
<1>4. CASE at[t] = "reading"
  <2>1. t \notin Writing /\ poisoned \in BOOLEAN
    BY <1>4 DEF Writing, Exclusive, Inv, TypeOK
  <2>2. poisoned' = poisoned
    BY <1>1, <2>1
  <2>3. Version' = Version
    BY <1>1, <1>4 DEF Version
  <2>4. QED
    BY <1>3, <2>2, <2>3 DEF Shared!Leave, Shared!Next
<1>5. CASE at[t] \in Exclusive
  <2>1. poisoned' = TRUE
    BY <1>1, <1>5 DEF Writing
  <2>2. Version' = first
    BY <1>1, <1>5 DEF Version, Inv, GuardsExclude, Exclusive
  <2>3. Version' = Version \/ (Version' = Version + 1 /\ Shared!NobodyRelies)
    <3>1. CASE at[t] = "writing"
      BY <2>2, <3>1, VersionFacts
    <3>2. CASE at[t] \in Changing
      BY <2>2, <3>2, VersionFacts, NobodyReliesFacts
    <3>3. QED
      BY <1>5, <3>1, <3>2 DEF Exclusive, Changing
  <2>4. Shared!Damage(t)
    BY <1>3, <2>1, <2>3 DEF Shared!Damage
  <2>5. QED
    BY <2>4 DEF Shared!Next
<1>6. QED
  BY <1>1, <1>4, <1>5

\* A change under a Mutex is made with its notification, one under an RwLock
\* or through get_mut with the assignment.
LEMMA ChangeMaps ==
  ASSUME Inv, BaseHeld, NEW t \in Threads,
         Change(t) \/ FinishChange(t) \/ get_mut(t)
  PROVE  Shared!Next
<1> USE DEF Changing
<1>0. /\ at \in [Threads -> {at[u] : u \in Threads}]
      /\ base \in [Threads -> Nat]
      /\ told \in [Threads -> {"nothing", "false", "timeout"}]
  BY ChangesAreNat DEF Inv, TypeOK
<1>1. CASE Change(t)
  <2>1. /\ at[t] = "writing" /\ at' = [at EXCEPT ![t] = "updating"]
        /\ Move(t, "updating") /\ first' = first + 1 /\ UNCHANGED poisoned
    BY <1>1 DEF Change, Move
  <2>2. Version' = first' - 1
    BY <1>0, <2>1 DEF Version
  <2>3. Version' = Version
    BY <2>1, <2>2, VersionFacts
  <2>4. QED
    BY <2>1, <2>3, LeaveMaps DEF Exclusive
<1>2. CASE FinishChange(t) /\ kind = "mutex"
  <2>1. /\ at[t] = "updating" /\ at' = [at EXCEPT ![t] = "updated"]
        /\ Move(t, "updated") /\ first' = first /\ UNCHANGED poisoned
    BY <1>2 DEF FinishChange, Move
  <2>2. Version' = Version
    BY <1>0, <2>1 DEF Version
  <2>3. QED
    BY <2>1, <2>2, LeaveMaps DEF Exclusive
<1>3. CASE FinishChange(t) /\ kind # "mutex"
  <2>1. /\ at[t] = "updating" /\ at' = [at EXCEPT ![t] = "writing"]
        /\ Move(t, "writing") /\ first' = first /\ UNCHANGED poisoned
    BY <1>3 DEF FinishChange, Move
  <2>2. Version' = first
    BY <1>0, <2>1 DEF Version, Inv, GuardsExclude, Exclusive
  <2>3. Version' = Version + 1 /\ Shared!NobodyRelies /\ base[t] = 0
    BY <2>1, <2>2, VersionFacts, NobodyReliesFacts
  <2>4. Waiting' = Waiting /\ Asleep' = Asleep
    BY <2>1, MoveMaps DEF Exclusive
  <2>5. Asleep = {}
    BY <1>3 DEF Asleep, Inv, TypeOK, Exclusive
  <2>6. told' = told /\ base' = base
    <3>1. told[t] = "nothing"
      BY <2>3 DEF Shared!NobodyRelies
    <3>2. QED
      BY <1>0, <2>1, <2>3, <3>1 DEF Move
  <2>7. Shared!Modify
    BY <2>1, <2>3, <2>4, <2>5, <2>6 DEF Shared!Modify
  <2>8. QED
    BY <2>7 DEF Shared!Next
<1>4. CASE get_mut(t)
  <2>1. /\ \A u \in Threads : at[u] = "idle"
        /\ Move(t, "idle") /\ first' = first + 1 /\ UNCHANGED poisoned
    BY <1>4 DEF get_mut
  <2>2. \A u \in Threads : told[u] = "nothing" /\ base[u] = 0
    BY <2>1 DEF Inv, ToldHoldGuard, BaseHeld
  <2>3. at' = at /\ told' = told /\ base' = base
    BY <1>0, <2>1, <2>2 DEF Move
  <2>4. Version = first /\ Version' = first + 1
    BY <2>1, <2>3 DEF Version
  <2>5. Waiting' = Waiting /\ Asleep' = {}
    BY <2>1, <2>3 DEF Waiting, Asleep
  <2>6. Shared!Modify
    BY <2>1, <2>2, <2>3, <2>4, <2>5 DEF Shared!Modify, Shared!NobodyRelies
  <2>7. QED
    BY <2>6 DEF Shared!Next
<1>5. QED
  BY <1>1, <1>2, <1>3, <1>4

\* A notification announces a change to all who sleep, and any other wake-up is
\* that of one sleeper.
LEMMA WakeMaps ==
  ASSUME Inv, NEW t \in Threads, notify_all(t) \/ notify_one(t) \/ TimedOut(t)
  PROVE  Shared!Next
<1>0. DOMAIN at = Threads
  BY DEF Inv, TypeOK
<1>1. CASE notify_all(t)
  <2>1. /\ at[t] = "updated"
        /\ at' = [u \in Threads |-> IF u = t THEN "writing"
                                    ELSE IF at[u] = "asleep" THEN "woken"
                                    ELSE at[u]]
        /\ UNCHANGED <<first, poisoned, base, told>>
    BY <1>1 DEF notify_all, AllNotified, contents, waits
  <2>2. Version' = first
    BY <2>1 DEF Version, Inv, GuardsExclude, Exclusive
  <2>3. Version' = Version + 1 /\ Shared!NobodyRelies
    BY <2>1, <2>2, VersionFacts, NobodyReliesFacts DEF Changing
  <2>4. Waiting' = Waiting /\ Asleep' = {}
    BY <2>1 DEF Waiting, Asleep
  <2>5. Shared!Modify
    BY <2>1, <2>3, <2>4 DEF Shared!Modify
  <2>6. QED
    BY <2>5 DEF Shared!Next
<1>2. CASE notify_one(t) \/ TimedOut(t)
  <2>1. /\ at[t] = "asleep" /\ at' = [at EXCEPT ![t] = "woken"]
        /\ UNCHANGED <<first, poisoned, base, told>>
    BY <1>2 DEF notify_one, TimedOut, Wake, contents
  <2>2. /\ Version' = Version /\ Waiting' = Waiting
        /\ t \in Asleep /\ Asleep' = Asleep \ {t}
    BY <1>0, <2>1 DEF Version, Waiting, Asleep
  <2>3. Shared!Wake(t)
    BY <2>1, <2>2 DEF Shared!Wake
  <2>4. QED
    BY <2>3 DEF Shared!Next
<1>3. QED
  BY <1>1, <1>2

\* A wait begins with the newest version.
LEMMA WaitMaps ==
  ASSUME Inv, NEW t \in Threads, NEW m, NEW limit, WaitFor(t, m, limit)
  PROVE  Shared!Next
<1>1. /\ at[t] = "writing" /\ at' = [at EXCEPT ![t] = "asleep"]
      /\ base' = [base EXCEPT ![t] = first]
      /\ told' = [told EXCEPT ![t] = "nothing"]
      /\ UNCHANGED <<first, poisoned>> /\ DOMAIN at = Threads
  BY DEF WaitFor, contents, Inv, TypeOK
<1>2. Version = first /\ Version' = Version
  BY <1>1, VersionFacts DEF Version
<1>3. /\ t \notin Waiting /\ Waiting' = Waiting \cup {t}
      /\ Asleep' = Asleep \cup {t}
  BY <1>1 DEF Waiting, Asleep
<1>4. Shared!Sleep(t)
  BY <1>1, <1>2, <1>3 DEF Shared!Sleep
<1>5. QED
  BY <1>4 DEF Shared!Next

\* A wait that ends tells the truth about the newest version, and one that
\* goes on has seen it.
LEMMA ResumeMaps ==
  ASSUME Inv, NEW t \in Threads, Resume(t)
  PROVE  Shared!Next
<1>1. /\ at[t] = "woken" /\ CanWrite /\ DOMAIN at = Threads
      /\ UNCHANGED <<first, poisoned>>
  BY DEF Resume, contents, Inv, TypeOK
<1>2. Version = first
  BY <1>1, VersionFacts
<1>3. ASSUME NEW what \in {"nothing", "false", "timeout"}, Return(t, what),
             ~poisoned /\ what = "false" => ~condition(t),
             ~poisoned /\ what = "timeout" => condition(t)
      PROVE  Shared!Next
  <2>1. /\ at' = [at EXCEPT ![t] = "writing"]
        /\ told' = [told EXCEPT ![t] = what]
        /\ base' = [base EXCEPT ![t] = IF what = "nothing" THEN 0 ELSE @]
    BY <1>3 DEF Return
  <2>2. Version' = Version
    BY <1>1, <2>1 DEF Version
  <2>3. /\ t \in Waiting \ Asleep /\ Waiting' = Waiting \ {t}
        /\ Asleep' = Asleep
    BY <1>1, <2>1 DEF Waiting, Asleep
  <2>4. /\ what = "false" => poisoned \/ base[t] # Version
        /\ what = "timeout" => poisoned \/ base[t] = Version
    BY <1>2, <1>3 DEF condition
  <2>5. Shared!Return(t, what)
    BY <1>1, <2>1, <2>2, <2>3, <2>4 DEF Shared!Return
  <2>6. QED
    BY <2>5 DEF Shared!Next
<1>4. CASE WaitEnds(t) /\ Return(t, Outcome(t))
  <2>1. Outcome(t) \in {"nothing", "false", "timeout"}
    BY DEF Outcome
  <2>2. ~poisoned /\ Outcome(t) = "false" => ~condition(t)
    BY <1>4 DEF Outcome, WaitEnds
  <2>3. ~poisoned => Outcome(t) # "timeout"
    BY DEF Outcome
  <2>4. QED
    BY <1>3, <1>4, <2>1, <2>2, <2>3
<1>5. CASE ~WaitEnds(t) /\ Return(t, "timeout")
  BY <1>3, <1>5 DEF WaitEnds
<1>6. CASE ~WaitEnds(t) /\ at' = [at EXCEPT ![t] = "asleep"]
                       /\ UNCHANGED waits
  <2>1. condition(t) /\ UNCHANGED <<base, told>>
    BY <1>6 DEF WaitEnds, waits
  <2>2. Version' = Version
    BY <1>1, <1>6 DEF Version
  <2>3. t \in Waiting /\ Waiting' = Waiting /\ Asleep' = Asleep \cup {t}
    BY <1>1, <1>6 DEF Waiting, Asleep
  <2>4. Shared!SleepOn(t)
    BY <1>1, <1>2, <2>1, <2>2, <2>3 DEF Shared!SleepOn, condition
  <2>5. QED
    BY <2>4 DEF Shared!Next
<1>7. QED
  BY <1>4, <1>5, <1>6 DEF Resume

\* Mutex, Condvar and RwLock implement the monitor for any set of threads and
\* any number of changes: a change with its notification, and a check with the
\* sleep after it, may be taken for one step each, which is what the models of
\* Promise and Value do.
THEOREM Refinement == Spec => ImplementsMonitor
<1>1. Init => Shared!Init
  <2>1. Init => Version = 0 /\ Waiting = {} /\ Asleep = {}
    BY DEF Init, Version, Waiting, Asleep
  <2>2. QED
    BY <2>1 DEF Init, Shared!Init
<1>2. ASSUME Inv, BaseHeld, [Next]_vars PROVE [Shared!Next]_(Shared!vars)
  <2>1. CASE UNCHANGED vars
    BY <2>1 DEF vars, contents, waits, Shared!vars, Version, Waiting, Asleep
  <2>2. CASE into_inner
    BY <2>2 DEF into_inner, contents, waits, Shared!vars, Version, Waiting,
                Asleep
  <2>3. QED
    BY <1>2, <2>1, <2>2, LockMaps, PanicMaps, ChangeMaps, WakeMaps, WaitMaps,
       ResumeMaps DEF Next
<1>3. QED
  BY <1>1, <1>2, Invariance, BaseAlways, PTL
     DEF Spec, ImplementsMonitor, Shared!Spec

=============================================================================
