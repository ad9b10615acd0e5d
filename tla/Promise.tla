------------------------------ MODULE Promise ------------------------------
(***************************************************************************)
(* A connected pair of Promise and PromiseHandle (src/src/promise.rs): one *)
(* producer thread that owns the Promise, one consumer that owns the       *)
(* handle and either blocks a thread on it or polls it as a future.        *)
(*                                                                         *)
(* The shared PromiseState is only touched with the mutex held, so each    *)
(* critical section is one action.  What happens after the mutex is        *)
(* released (the notification of Promise::drop, the decrement of the Arc)  *)
(* is an action of its own.                                                *)
(***************************************************************************)
EXTENDS Naturals, Sequences, SequencesExt

CONSTANTS Values,    \* what a Promise can be fulfilled with
          Wakers,    \* wakers of the tasks that may poll the future
          MaxPolls   \* bound: no spurious poll with that many wakers in the vector

ASSUME ValuesAreNotTags ==
  Values \cap {"Empty", "Dropped", "None", "PromiseDropped",
               "Pending", "Broken"} = {}
ASSUME BoundIsNat == MaxPolls \in Nat

VARIABLES
  state,     \* PromiseState: "Empty", "Dropped", or v for Fulfilled(v)
  wakers,    \* the Vec<Waker> inside Empty
  strong,    \* strong count of the Arc<PromiseInner>
  producer,  \* where the owner of the Promise is
  consumer,  \* where the owner of the PromiseHandle is
  waker,     \* waker of the task that polled the future last
  woken,     \* wakers that were woken since they were last registered
  result     \* what block() or wait() returned

vars == <<state, wakers, strong, producer, consumer, waker, woken, result>>
consumerVars == <<consumer, waker, result>>

Init ==
  /\ state = "Empty" /\ wakers = <<>> /\ strong = 2
  /\ producer = "holding" /\ consumer = "idle"
  /\ waker = "None" /\ woken = {} /\ result = "None"

-----------------------------------------------------------------------------
(* The producer. *)

\* Mistaken variant, not part of Next.
NotifyNobody == UNCHANGED consumer

\* Condvar::notify_one: the consumer is the only thread that ever waits.
NotifyOne == consumer' = IF consumer = "parked" THEN "blocking" ELSE consumer

\* The wakers are dropped with the old state.
ForgetWakers == wakers' = <<>> /\ UNCHANGED woken

\* Mistaken variant, not part of Next.
WakeFirst == /\ wakers' = <<>>
             /\ woken' = woken \cup {wakers[i] : i \in DOMAIN wakers \cap {1}}

\* The wakers are taken out of the state and woken, all of them, in order.
WakeAll == wakers' = <<>> /\ woken' = woken \cup ToSet(wakers)

\* Promise::fulfill, up to the release of the mutex.  Its unreachable!() arm
\* is excluded by FulfillFindsEmpty.
Fulfill(v) ==
  /\ producer = "holding"
  /\ state' = v
  /\ WakeAll /\ NotifyOne
  /\ producer' = "releasing"
  /\ UNCHANGED <<strong, waker, result>>

\* Mistaken variant, not part of Next.
DropReleasesFirst ==
  /\ producer = "holding"
  /\ strong' = strong - 1 /\ producer' = "notifying"
  /\ UNCHANGED <<state, wakers, woken, consumerVars>>

\* Promise::drop of an unfulfilled promise: the assignment drops the old
\* state and the wakers in it, then the temporary guard is released.
DropPromise ==
  /\ producer = "holding"
  /\ state' = "Dropped"
  /\ ForgetWakers
  /\ producer' = "notifying"
  /\ UNCHANGED <<strong, consumerVars>>

NotifyDropped ==
  /\ producer = "notifying"
  /\ NotifyOne
  /\ producer' = "releasing"
  /\ UNCHANGED <<state, wakers, strong, waker, woken, result>>

\* Mistaken variant, not part of Next.
ReleaseIgnoringFulfilled ==
  /\ producer = "releasing"
  /\ producer' = "gone" /\ strong' = strong - 1 /\ state' = "Dropped"
  /\ UNCHANGED <<wakers, woken, consumerVars>>

\* The field `inner` is dropped last; Promise::drop of a fulfilled promise
\* has returned early.
ReleasePromise ==
  /\ producer = "releasing"
  /\ producer' = "gone" /\ strong' = strong - 1
  /\ UNCHANGED <<state, wakers, woken, consumerVars>>

-----------------------------------------------------------------------------
(* The consumer. *)

\* PromiseHandle::will_block, a lock-free read of the reference count.
WillBlock == strong = 2

\* Mistaken variant, not part of Next.
TakeUnchecked ==
  /\ result' = IF state \in Values THEN state ELSE "PromiseDropped"
  /\ state' = "Dropped"
  /\ consumer' = "gone" /\ strong' = strong - 1

\* The Fulfilled and Dropped arms shared by block() and by poll: take the
\* result out of the state, then drop the handle.
Take ==
  /\ state # "Empty"
  /\ result' = IF state = "Dropped" THEN "PromiseDropped" ELSE state
  /\ state' = "Dropped"
  /\ consumer' = "gone" /\ strong' = strong - 1

Call(op) ==
  /\ consumer = "idle"
  /\ consumer' = op
  /\ UNCHANGED <<state, wakers, strong, producer, waker, woken, result>>

\* One iteration of the loop of PromiseHandle::block.
BlockStep ==
  /\ consumer = "blocking"
  /\ \/ /\ state = "Empty"
        /\ consumer' = "parked"
        /\ UNCHANGED <<state, strong, result>>
     \/ Take
  /\ UNCHANGED <<wakers, producer, waker, woken>>

\* std's condition variables may return from wait without a notification.
SpuriousWakeup ==
  /\ consumer = "parked"
  /\ consumer' = "blocking"
  /\ UNCHANGED <<state, wakers, strong, producer, waker, woken, result>>

\* Waiter::poll called by a task whose waker is w.
Poll(w) ==
  /\ \/ /\ state = "Empty"
        /\ wakers' = Append(wakers, w) /\ woken' = woken \ {w}
        /\ waker' = w /\ consumer' = "pending"
        /\ UNCHANGED <<state, strong, result>>
     \/ /\ Take
        /\ UNCHANGED <<wakers, waker, woken>>
  /\ UNCHANGED producer

\* The executor's polls: the first one, the one that a wake-up of the task
\* asks for, and polls the task was not woken for (the future may be part of
\* a larger one, or have moved to another task).
FirstPoll    == consumer = "scheduled" /\ \E w \in Wakers : Poll(w)
PollWoken    == consumer = "pending" /\ waker \in woken /\ Poll(waker)
SpuriousPoll == /\ consumer = "pending" /\ Len(wakers) < MaxPolls
                /\ \E w \in Wakers : Poll(w)

\* Dropping the handle, or the future that holds it (cancellation).
DropHandle ==
  /\ consumer \in {"idle", "scheduled", "pending"}
  /\ consumer' = "gone" /\ strong' = strong - 1
  /\ UNCHANGED <<state, wakers, producer, waker, woken, result>>

-----------------------------------------------------------------------------
Produce == (\E v \in Values : Fulfill(v)) \/ DropPromise
Settle == NotifyDropped \/ ReleasePromise
Consume == \/ Call("blocking") \/ Call("scheduled")
           \/ BlockStep \/ SpuriousWakeup
           \/ FirstPoll \/ PollWoken \/ SpuriousPoll
           \/ DropHandle

Next == Produce \/ Settle \/ Consume

Spec == Init /\ [][Next]_vars

\* A running thread proceeds and an executor polls a task that was woken.
\* Nobody is obliged to resolve the promise, to wait for it or to cancel.
Fairness == /\ WF_vars(Settle) /\ WF_vars(BlockStep)
            /\ WF_vars(FirstPoll) /\ WF_vars(PollWoken)

FairSpec == Spec /\ Fairness

-----------------------------------------------------------------------------
\* Types of the fields, and the places the two owners can be in.
TypeOK ==
  /\ state \in Values \cup {"Empty", "Dropped"}
  /\ wakers \in Seq(Wakers) /\ woken \subseteq Wakers
  /\ waker \in Wakers \cup {"None"}
  /\ strong \in 0..2
  /\ producer \in {"holding", "notifying", "releasing", "gone"}
  /\ consumer \in {"idle", "blocking", "parked",
                   "scheduled", "pending", "gone"}
  /\ result \in Values \cup {"None", "PromiseDropped"}

\* As long as the Promise is held nobody has resolved its slot: the
\* unreachable!() in Promise::fulfill and those behind mem::replace in
\* block() and poll cannot be reached.
FulfillFindsEmpty == producer = "holding" => state = "Empty"

\* The documentation of will_block: once it returns false the promise has
\* been resolved, so block() will not wait, although the count it reads is
\* not protected by the mutex that protects the state.
WillBlockFalseMeansResolved ==
  consumer = "idle" /\ ~WillBlock => state # "Empty"

\* A thread sleeps in the condition variable only while there is nothing to
\* return or the notification that will wake it is still on its way.
SleeperWillBeNotified ==
  consumer = "parked" => state = "Empty" \/ producer = "notifying"

\* A task whose future returned Pending has been woken if the promise is now
\* fulfilled, whichever tasks polled the future before it.
FulfilledTaskIsWoken ==
  consumer = "pending" /\ state \in Values => waker \in woken

\* A consumer that blocks gets the resolution, be it a value or the drop of
\* the promise; a consumer that awaits gets the value of a fulfilled one.
ResolutionArrives ==
  /\ producer # "holding" /\ consumer \in {"blocking", "parked"}
       ~> consumer = "gone"
  /\ state \in Values /\ consumer \in {"scheduled", "pending"}
       ~> consumer = "gone"

\* wait() returns Err(PromiseDropped) when the promise is dropped: not only
\* to a task that polls afterwards, also to one that is already waiting.
WaitLearnsOfDrop ==
  state = "Dropped" /\ consumer = "pending" ~> consumer = "gone"

\* The pair implements the one-shot slot: what block() or wait() returns is
\* what the producer did, and nothing changes it in between.
Slot == CASE result = "PromiseDropped" -> "Broken"
          [] result \in Values -> result
          [] OTHER -> CASE state = "Empty" -> "Pending"
                        [] state = "Dropped" -> "Broken"
                        [] OTHER -> state
Abstract == INSTANCE OneShot
              WITH slot <- Slot, got <- result,
                   holder <- IF consumer = "gone" THEN "gone" ELSE "open"
ImplementsOneShot == Abstract!Spec
=============================================================================
