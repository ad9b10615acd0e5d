------------------------------ MODULE BlockOn ------------------------------
(***************************************************************************)
(* block_on (src/src/test.rs), the executor that the unit tests use to run *)
(* the futures of promise.rs and reactive.rs: one thread polls a future    *)
(* and sleeps on a counter, other threads wake it through a Waker.         *)
(***************************************************************************)
EXTENDS Naturals

CONSTANTS Sources,   \* threads that hold a clone of the Waker
          MaxWakes   \* bound: calls of Waker::wake

VARIABLES
  ready,      \* poll would return Ready
  registered, \* poll has handed out a clone of the waker
  mtx,        \* the u64 behind RealWaker::mtx
  cur,        \* the value that block_on compares it with
  main,       \* block_on: "poll", "lock", "parked", "woken" or "done"
  waking      \* [Sources -> "no", "call" (is about to wake), "notify"]

vars == <<ready, registered, mtx, cur, main, waking>>

Init == /\ ready = FALSE /\ registered = FALSE /\ mtx = 0 /\ cur = 0
        /\ main = "poll" /\ waking = [s \in Sources |-> "no"]

\* External: an event completes the future; its source wakes the task if the
\* future registered a waker (Promise::fulfill, Value::set, Value::drop).
Complete(s) ==
  /\ ~ready /\ waking[s] = "no"
  /\ ready' = TRUE
  /\ waking' = [waking EXCEPT ![s] = IF registered THEN "call" ELSE "no"]
  /\ UNCHANGED <<registered, mtx, cur, main>>

\* External: a wake-up that the future did not ask for.
SpuriousWake(s) ==
  /\ registered /\ ~ready /\ waking[s] = "no" /\ mtx < MaxWakes
  /\ waking' = [waking EXCEPT ![s] = "call"]
  /\ UNCHANGED <<ready, registered, mtx, cur, main>>

\* RealWaker::wake: the increment under the mutex, then the notification.
Notified == IF main = "parked" THEN "woken" ELSE main

WakeIncrement(s) ==
  /\ waking[s] = "call"
  /\ mtx' = mtx + 1
  /\ waking' = [waking EXCEPT ![s] = "notify"]
  /\ UNCHANGED <<ready, registered, cur, main>>

WakeNotify(s) ==
  /\ waking[s] = "notify"
  /\ main' = Notified
  /\ waking' = [waking EXCEPT ![s] = "no"]
  /\ UNCHANGED <<ready, registered, mtx, cur>>

\* One poll of the future.
Poll == /\ main = "poll"
        /\ main' = IF ready THEN "done" ELSE "lock"
        /\ registered' = TRUE
        /\ UNCHANGED <<ready, mtx, cur, waking>>

\* After Pending: lock, read the counter and wait while it keeps that value.
\* The condition holds at the first test, so the thread always goes to sleep.
Sleep == /\ main = "lock"
         /\ cur' = mtx /\ main' = "parked"
         /\ UNCHANGED <<ready, registered, mtx, waking>>

\* wait_while tests its condition again, also after a spurious wake-up.
Recheck == /\ main = "woken"
           /\ main' = IF mtx = cur THEN "parked" ELSE "poll"
           /\ UNCHANGED <<ready, registered, mtx, cur, waking>>

SpuriousWakeup == /\ main = "parked" /\ main' = "woken"
                  /\ UNCHANGED <<ready, registered, mtx, cur, waking>>

Executor == Poll \/ Sleep \/ Recheck
Waking(s) == WakeIncrement(s) \/ WakeNotify(s)
Next == \/ Executor \/ SpuriousWakeup
        \/ \E s \in Sources : Complete(s) \/ SpuriousWake(s) \/ Waking(s)

Spec == Init /\ [][Next]_vars
\* Threads that run proceed; nobody has to complete the future.
FairSpec == Spec /\ WF_vars(Executor) /\ \A s \in Sources : WF_vars(Waking(s))

-----------------------------------------------------------------------------
\* block_on "polls a future to completion": when the future becomes ready the
\* function returns.
RunsToCompletion == ready ~> main = "done"
=============================================================================
