-------------------------------- MODULE Sync --------------------------------
(***************************************************************************)
(* Mutex, Condvar and RwLock (src/src/sync.rs): the locks of std::sync,    *)
(* which are poisoned when the holder of an exclusive guard panics, behind *)
(* wrappers that take the guard out of the PoisonError.                    *)
(*                                                                         *)
(* The contents have two parts that a change sets one after the other, so  *)
(* that a half-finished change can be seen.  Those who change the contents *)
(* of a Mutex notify the Condvar before they unlock it, as Promise and     *)
(* Value do; those who wait, wait for a change, as block_on in test.rs     *)
(* does.  A try_ method that would block, and wait_while on a condition    *)
(* that is false to begin with, leave everything as it is.                 *)
(***************************************************************************)
EXTENDS Naturals

CONSTANTS Threads,     \* those who share the lock
          MaxChanges   \* bound: changes of the contents

ASSUME ChangesAreNat == MaxChanges \in Nat

VARIABLES
  kind,          \* "mutex" (with its Condvar) or "rwlock"
  first, second, \* the contents
  poisoned,      \* the flag in the lock of std::sync
  at,            \* [Threads -> where the thread is]
  method,        \* [Threads -> "wait", "wait_while" or "none"]
  deadline,      \* [Threads -> time-out of the wait: "never", "pending",
                 \*             "elapsed"]
  base,          \* [Threads -> contents that wait_while waits to change]
  told           \* [Threads -> what the last wait_while has told its caller:
                 \*             the condition is "false", "timeout", "nothing"]

contents == <<first, second>>
waits    == <<method, deadline, base, told>>
vars == <<kind, contents, poisoned, at, waits>>

Init ==
  /\ kind \in {"mutex", "rwlock"}
  /\ first = 0 /\ second = 0 /\ poisoned = FALSE
  /\ at = [t \in Threads |-> "idle"]
  /\ method = [t \in Threads |-> "none"]
  /\ deadline = [t \in Threads |-> "never"]
  /\ base = [t \in Threads |-> 0] /\ told = [t \in Threads |-> "nothing"]

Exclusive == {"writing", "updating", "updated"}
Writing   == {t \in Threads : at[t] \in Exclusive}
Holders   == {t \in Threads : at[t] \in Exclusive \cup {"reading"}}

CanRead == Writing = {}

\* Mistaken variant, not part of Next.
CanWriteBesideReaders == Writing = {}

CanWrite == Holders = {}

\* The thread leaves the guard that its last wait has returned alone.
Move(t, where) == /\ at' = [at EXCEPT ![t] = where]
                  /\ told' = [told EXCEPT ![t] = "nothing"]
                  /\ base' = [base EXCEPT ![t] = 0]
                  /\ UNCHANGED <<method, deadline>>

-----------------------------------------------------------------------------
(* Locking. *)

\* Mistaken variant, not part of Next.
Unwrapped(guard) == IF poisoned THEN "idle" ELSE guard

\* Err(Poisoned) holds a guard, too.
Unpoisoned(guard) == guard

Ask(t, place) ==
  at[t] = "idle" /\ Move(t, place) /\ UNCHANGED <<kind, contents, poisoned>>

lock(t)  == kind = "mutex"  /\ Ask(t, "toWrite")
write(t) == kind = "rwlock" /\ Ask(t, "toWrite")
read(t)  == kind = "rwlock" /\ Ask(t, "toRead")

try_lock(t)  == kind = "mutex"  /\ CanWrite /\ Ask(t, Unpoisoned("writing"))
try_write(t) == kind = "rwlock" /\ CanWrite /\ Ask(t, Unpoisoned("writing"))
try_read(t)  == kind = "rwlock" /\ CanRead  /\ Ask(t, Unpoisoned("reading"))

\* lock, write or read gets the lock and returns.
Acquire(t) ==
  /\ \/ at[t] = "toWrite" /\ CanWrite /\ Move(t, Unpoisoned("writing"))
     \/ at[t] = "toRead" /\ CanRead /\ Move(t, Unpoisoned("reading"))
  /\ UNCHANGED <<kind, contents, poisoned>>

\* The guard is dropped.
Unlock(t) == /\ at[t] \in {"writing", "reading"} /\ Move(t, "idle")
             /\ UNCHANGED <<kind, contents, poisoned>>

\* The guard is dropped by a panic, at any point of the critical section.
Panic(t) == /\ t \in Holders /\ Move(t, "idle")
            /\ poisoned' = (poisoned \/ t \in Writing)
            /\ UNCHANGED <<kind, contents>>

\* get_mut and into_inner need the lock itself, which nobody else may borrow.
get_mut(t) ==
  /\ \A u \in Threads : at[u] = "idle" /\ first < MaxChanges
  /\ first' = first + 1 /\ second' = first + 1
  /\ Move(t, "idle") /\ UNCHANGED <<kind, poisoned>>

into_inner ==
  /\ \A t \in Threads : at[t] = "idle"
  /\ at' = [t \in Threads |-> "gone"]
  /\ UNCHANGED <<kind, contents, poisoned, waits>>

-----------------------------------------------------------------------------
(* What the guards are used for. *)

Change(t) == /\ at[t] = "writing" /\ first < MaxChanges
             /\ first' = first + 1
             /\ Move(t, "updating") /\ UNCHANGED <<kind, second, poisoned>>

FinishChange(t) ==
  /\ at[t] = "updating"
  /\ second' = first
  /\ Move(t, IF kind = "mutex" THEN "updated" ELSE "writing")
  /\ UNCHANGED <<kind, first, poisoned>>

-----------------------------------------------------------------------------
(* Condvar. *)

Asleep == {t \in Threads : at[t] = "asleep"}

\* Mistaken variant, not part of Next.
OneNotified(u) == at[u] = "asleep" /\ u = CHOOSE v \in Asleep : TRUE

AllNotified(u) == at[u] = "asleep"

notify_all(t) ==
  /\ at[t] = "updated"
  /\ at' = [u \in Threads |-> IF u = t THEN "writing"
                              ELSE IF AllNotified(u) THEN "woken" ELSE at[u]]
  /\ UNCHANGED <<kind, contents, poisoned, waits>>

Wake(t) == /\ at[t] = "asleep"
           /\ at' = [at EXCEPT ![t] = "woken"]
           /\ UNCHANGED <<kind, contents, poisoned, method, base, told>>

\* By anyone and at any time, so it need not come with a change.  Without a
\* call it is a spurious wake-up.
notify_one(t) == Wake(t) /\ UNCHANGED deadline

TimedOut(t) == /\ deadline[t] = "pending" /\ Wake(t)
               /\ deadline' = [deadline EXCEPT ![t] = "elapsed"]

\* wait, wait_while (whose condition holds) and the forms with a time-out
\* release the mutex and go to sleep in one step.
WaitFor(t, m, limit) ==
  /\ kind = "mutex" /\ at[t] = "writing"
  /\ at' = [at EXCEPT ![t] = "asleep"]
  /\ method' = [method EXCEPT ![t] = m]
  /\ deadline' = [deadline EXCEPT ![t] = limit]
  /\ base' = [base EXCEPT ![t] = first]
  /\ told' = [told EXCEPT ![t] = "nothing"]
  /\ UNCHANGED <<kind, contents, poisoned>>

\* The closure that wait_while was given.
condition(t) == first = base[t]

\* Mistaken variant, not part of Next.
AnyWakeUpEndsWait(t) == TRUE

\* wait_while of std is a loop around wait()?: the error that a poisoned
\* mutex makes of every wait ends it before the condition is looked at.
WaitEnds(t) == method[t] = "wait" \/ poisoned \/ ~condition(t)

Return(t, what) ==
  /\ at' = [at EXCEPT ![t] = "writing"]
  /\ told' = [told EXCEPT ![t] = what]
  /\ base' = [base EXCEPT ![t] = IF what = "nothing" THEN 0 ELSE @]
  /\ method' = [method EXCEPT ![t] = "none"]
  /\ deadline' = [deadline EXCEPT ![t] = "never"]

\* The WaitTimeoutResult of the forms with a time-out; without one, returning
\* says it.  wait and wait_timeout know nothing of a condition.
Outcome(t) == CASE method[t] = "wait" -> "nothing"
                [] method[t] # "wait" /\ poisoned /\ deadline[t] = "elapsed"
                     -> "timeout"
                [] OTHER -> "false"

\* A thread that was woken gets the mutex back, and goes on waiting or not.
Resume(t) ==
  /\ at[t] = "woken" /\ CanWrite
  /\ \/ WaitEnds(t) /\ Return(t, Outcome(t))
     \/ ~WaitEnds(t) /\ deadline[t] # "never" /\ Return(t, "timeout")
     \/ /\ ~WaitEnds(t) /\ deadline[t] # "elapsed"
        /\ at' = [at EXCEPT ![t] = "asleep"] /\ UNCHANGED waits
  /\ UNCHANGED <<kind, contents, poisoned>>

-----------------------------------------------------------------------------
Next ==
  \/ \E t \in Threads :
       \/ lock(t) \/ write(t) \/ read(t) \/ Acquire(t)
       \/ try_lock(t) \/ try_write(t) \/ try_read(t)
       \/ Unlock(t) \/ Panic(t) \/ get_mut(t)
       \/ Change(t) \/ FinishChange(t)
       \/ notify_all(t) \/ notify_one(t) \/ TimedOut(t) \/ Resume(t)
       \/ \E m \in {"wait", "wait_while"}, limit \in {"never", "pending"} :
            WaitFor(t, m, limit)
  \/ into_inner

Spec == Init /\ [][Next]_vars

\* A call that asks for a lock nobody holds goes on.  The locks need not be
\* fair to those who compete, and nobody has to lock, unlock or notify.
FairSpec ==
  Spec /\ \A t \in Threads : WF_vars(Holders = {} /\ Acquire(t))

-----------------------------------------------------------------------------
\* Types, and the Condvar is not used with an RwLock.
TypeOK ==
  /\ kind \in {"mutex", "rwlock"} /\ poisoned \in BOOLEAN
  /\ first \in 0..MaxChanges /\ second \in 0..MaxChanges
  /\ at \in [Threads -> {"idle", "gone", "toRead", "toWrite", "reading"}
                          \cup Exclusive
                          \cup IF kind = "mutex" THEN {"asleep", "woken"}
                                                 ELSE {}]
  /\ method \in [Threads -> {"none", "wait", "wait_while"}]
  /\ deadline \in [Threads -> {"never", "pending", "elapsed"}]
  /\ base \in [Threads -> 0..MaxChanges]
  /\ told \in [Threads -> {"nothing", "false", "timeout"}]

\* Whoever holds a guard sees no half-finished change of another thread; only
\* a change that a panic has cut short may be left behind, as the lock is not
\* poisoned.  This is what lets the other modules make a critical section one
\* action, with an action for the panic inside it.
SeesWholeChanges ==
  \A t \in Holders : at[t] = "updating" \/ first = second \/ poisoned

\* The condition variable loses no notification between the look at the
\* contents and the sleep: a thread sleeps only if nothing has changed, or
\* somebody who holds the mutex is about to notify, or has panicked before.
SleepersWillBeNotified ==
  \A t \in Asleep : \/ condition(t) \/ poisoned
                    \/ \E u \in Threads : at[u] \in {"updating", "updated"}

\* wait_while and wait_timeout_while tell their caller the truth about the
\* condition for as long as the guard is held, if no holder has ever panicked.
WaitsAreTruthful ==
  \A t \in Threads : ~poisoned =>
    /\ told[t] = "false" => ~condition(t)
    /\ told[t] = "timeout" => condition(t)

\* A change is made when it has been announced: when the waiters of a Mutex are
\* notified, and with the assignment itself under an RwLock.
Version == IF \E t \in Threads : at[t] \in {"updating", "updated"}
           THEN first - 1 ELSE first

Waiting == {t \in Threads : at[t] \in {"asleep", "woken"}}

Shared == INSTANCE Monitor WITH
  version <- Version, damaged <- poisoned,
  waiting <- Waiting, asleep <- Asleep, seen <- base

\* Locks and condition variable implement the monitor: although a change, its
\* notification and a wait take several steps, with panics, time-outs and
\* spurious wake-ups between them, they take effect as one step each.
ImplementsMonitor == Shared!Spec

\* No poisoning: a lock that somebody asks for and nobody holds is acquired,
\* whatever panics it has seen.
FreeLockIsAcquired ==
  \A t \in Threads : at[t] \in {"toRead", "toWrite"} /\ Holders = {}
    ~> Holders # {}

\* A mirror of std::sync without lock poisoning: wait_while returns when the
\* condition is false, also if some holder of the mutex has panicked.
WaitWhileWaits == \A t \in Threads : told[t] = "false" => ~condition(t)
=============================================================================
