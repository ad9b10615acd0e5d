--------------------------- MODULE PromiseProofs ---------------------------
(***************************************************************************)
(* The safety properties of Promise hold for every set of values and of    *)
(* wakers and every bound, and the pair implements OneShot.                *)
(***************************************************************************)
EXTENDS Promise, TLAPS

\* The Arc counts the owners that still exist.
StrongCountsOwners ==
  strong = (IF producer = "gone" THEN 0 ELSE 1)
         + (IF consumer = "gone" THEN 0 ELSE 1)

\* Once the producer is past the assignment of the state, only a consumer
\* that leaves can have changed it again.
ResolvedUntilTaken ==
  producer # "holding" /\ consumer # "gone" => state # "Empty"

\* The task to wake is among the registered wakers.
PendingIsRegistered ==
  consumer = "pending" /\ state = "Empty" => waker \in ToSet(wakers)

\* A result is handed out only by a consumer that leaves, and only after the
\* producer has resolved the promise.
ResultIsFinal == result # "None" => consumer = "gone" /\ producer # "holding"

Inv == /\ TypeOK /\ StrongCountsOwners
       /\ FulfillFindsEmpty /\ ResolvedUntilTaken /\ ResultIsFinal
       /\ SleeperWillBeNotified
       /\ PendingIsRegistered /\ FulfilledTaskIsWoken

-----------------------------------------------------------------------------
\* What ToSet gives for the sequence a poll appends to.
LEMMA ToSetAppend ==
  ASSUME NEW S, NEW s \in Seq(S), NEW x \in S
  PROVE  /\ ToSet(Append(s, x)) = ToSet(s) \cup {x}
         /\ ToSet(s) \subseteq S
<1>1. ToSet(s) \subseteq S
  BY DEF ToSet
<1>2. ToSet(Append(s, x)) = ToSet(s) \cup {x}
  <2>1. /\ Len(Append(s, x)) = Len(s) + 1
        /\ DOMAIN Append(s, x) = 1 .. Len(s) + 1
        /\ DOMAIN s = 1 .. Len(s)
        /\ Len(s) \in Nat
        /\ Append(s, x)[Len(s) + 1] = x
        /\ \A i \in 1 .. Len(s) : Append(s, x)[i] = s[i]
    OBVIOUS
  <2>2. ASSUME NEW y \in ToSet(Append(s, x)) PROVE y \in ToSet(s) \cup {x}
    <3>1. PICK i \in 1 .. Len(s) + 1 : y = Append(s, x)[i]
      BY <2>1, <2>2 DEF ToSet
    <3>2. CASE i = Len(s) + 1
      BY <2>1, <3>1, <3>2
    <3>3. CASE i \in 1 .. Len(s)
      BY <2>1, <3>1, <3>3 DEF ToSet
    <3>4. QED
      BY <2>1, <3>2, <3>3
  <2>3. ASSUME NEW y \in ToSet(s) \cup {x} PROVE y \in ToSet(Append(s, x))
    <3>1. CASE y = x
      <4>1. Len(s) + 1 \in DOMAIN Append(s, x)
        BY <2>1
      <4>2. QED
        BY <2>1, <3>1, <4>1 DEF ToSet
    <3>2. CASE y \in ToSet(s)
      <4>1. PICK i \in 1 .. Len(s) : y = s[i]
        BY <2>1, <3>2 DEF ToSet
      <4>2. i \in DOMAIN Append(s, x) /\ y = Append(s, x)[i]
        BY <2>1, <4>1
      <4>3. QED
        BY <4>2 DEF ToSet
    <3>3. QED
      BY <2>3, <3>1, <3>2
  <2>4. QED
    BY <2>2, <2>3
<1>3. QED
  BY <1>1, <1>2

-----------------------------------------------------------------------------
\* The invariant holds initially.
LEMMA InvInit == Init => Inv
BY DEF Init, Inv, TypeOK, StrongCountsOwners, FulfillFindsEmpty,
       ResolvedUntilTaken, ResultIsFinal, SleeperWillBeNotified,
       PendingIsRegistered, FulfilledTaskIsWoken

\* Every step of the producer and of the consumer keeps the invariant.
LEMMA InvStep == Inv /\ [Next]_vars => Inv'
<1> SUFFICES ASSUME Inv, [Next]_vars PROVE Inv'
  OBVIOUS
<1> USE ValuesAreNotTags
    DEF Inv, TypeOK, StrongCountsOwners, FulfillFindsEmpty,
        ResolvedUntilTaken, ResultIsFinal, SleeperWillBeNotified,
        PendingIsRegistered, FulfilledTaskIsWoken, consumerVars
<1>1. ASSUME NEW v \in Values, Fulfill(v) PROVE Inv'
  <2>1. ToSet(wakers) \subseteq Wakers
    BY DEF ToSet
  <2>2. QED
    BY <1>1, <2>1 DEF Fulfill, WakeAll, NotifyOne
<1>2. CASE DropPromise
  BY <1>2 DEF DropPromise, ForgetWakers
<1>3. CASE NotifyDropped
  BY <1>3 DEF NotifyDropped, NotifyOne
<1>4. CASE ReleasePromise
  BY <1>4 DEF ReleasePromise
<1>5. ASSUME NEW op \in {"blocking", "scheduled"}, Call(op) PROVE Inv'
  BY <1>5 DEF Call
<1>6. CASE BlockStep
  BY <1>6 DEF BlockStep, Take
<1>7. CASE SpuriousWakeup
  BY <1>7 DEF SpuriousWakeup
<1>8. ASSUME NEW w \in Wakers, Poll(w), consumer \in {"scheduled", "pending"}
      PROVE Inv'
  <2>1. CASE state = "Empty"
    <3>1. w \in ToSet(Append(wakers, w))
      BY ToSetAppend
    <3>2. /\ wakers' = Append(wakers, w) /\ woken' = woken \ {w}
          /\ waker' = w /\ consumer' = "pending"
          /\ UNCHANGED <<state, strong, result, producer>>
      BY <1>8, <2>1 DEF Poll, Take
    <3>3. wakers' \in Seq(Wakers)
      BY <3>2
    <3>4. waker' \in ToSet(wakers')
      BY <3>1, <3>2
    <3>5. ~(state' \in Values)
      BY <2>1, <3>2
    <3>6. QED
      BY <1>8, <2>1, <3>2, <3>3, <3>4, <3>5
  <2>2. CASE state # "Empty"
    BY <1>8, <2>2 DEF Poll, Take
  <2>3. QED
    BY <2>1, <2>2
<1>9. CASE FirstPoll \/ PollWoken \/ SpuriousPoll
  BY <1>8, <1>9 DEF FirstPoll, PollWoken, SpuriousPoll
<1>10. CASE DropHandle
  BY <1>10 DEF DropHandle
<1>11. CASE UNCHANGED vars
  BY <1>11 DEF vars
<1>12. QED
  BY <1>1, <1>2, <1>3, <1>4, <1>5, <1>6, <1>7, <1>9, <1>10, <1>11
     DEF Next, Produce, Settle, Consume

\* The invariant holds in every reachable state.
LEMMA InvAlways == Spec => []Inv
BY InvInit, InvStep, PTL DEF Spec

-----------------------------------------------------------------------------
\* Type correctness; in particular the reference count never underflows.
THEOREM TypeCorrect == Spec => []TypeOK
BY InvAlways, PTL DEF Inv

\* The unreachable!() arms of promise.rs are unreachable.
THEOREM NoUnreachable == Spec => []FulfillFindsEmpty
BY InvAlways, PTL DEF Inv

\* will_block() = false is a promise that block() returns at once.
THEOREM WillBlockIsSound == Spec => []WillBlockFalseMeansResolved
<1>1. Inv => WillBlockFalseMeansResolved
  BY DEF Inv, StrongCountsOwners, ResolvedUntilTaken,
         WillBlockFalseMeansResolved, WillBlock, TypeOK
<1>2. QED
  BY <1>1, InvAlways, PTL

\* No thread sleeps through the resolution of its promise.
THEOREM NoSleepThroughResolution == Spec => []SleeperWillBeNotified
BY InvAlways, PTL DEF Inv

\* No pending task misses the fulfilment of its promise.
THEOREM NoTaskMissesFulfilment == Spec => []FulfilledTaskIsWoken
BY InvAlways, PTL DEF Inv

-----------------------------------------------------------------------------
\* The refinement mapping, named for the proofs.
Holder == IF consumer = "gone" THEN "gone" ELSE "open"
AbstractVars == <<Slot, Holder, result>>

\* A new pair is an open slot.
LEMMA RefinesInit == Init => Abstract!Init
BY ValuesAreNotTags DEF Init, Abstract!Init, Slot

\* Every step is a step of the one-shot slot or does not touch it.
LEMMA RefinesStep ==
  Inv /\ [Next]_vars => Abstract!Next \/ UNCHANGED AbstractVars
<1> SUFFICES ASSUME Inv, [Next]_vars
             PROVE Abstract!Next \/ UNCHANGED AbstractVars
  OBVIOUS
<1> USE ValuesAreNotTags
    DEF Inv, TypeOK, FulfillFindsEmpty, ResultIsFinal, Slot, Holder,
        AbstractVars, consumerVars, Abstract!Next
<1>1. ASSUME NEW v \in Values, Fulfill(v) PROVE Abstract!Resolve
  BY <1>1 DEF Fulfill, NotifyOne, Abstract!Resolve
<1>2. CASE DropPromise
  BY <1>2 DEF DropPromise, Abstract!Resolve
<1>3. CASE NotifyDropped \/ ReleasePromise \/ SpuriousWakeup
  BY <1>3 DEF NotifyDropped, NotifyOne, ReleasePromise, SpuriousWakeup
<1>4. ASSUME NEW op \in {"blocking", "scheduled"}, Call(op)
      PROVE UNCHANGED AbstractVars
  BY <1>4 DEF Call
<1>5. ASSUME Take, consumer # "gone" PROVE Abstract!Deliver
  BY <1>5 DEF Take, Abstract!Deliver
<1>6. CASE BlockStep
  BY <1>5, <1>6 DEF BlockStep
<1>7. ASSUME NEW w, Poll(w), consumer \in {"scheduled", "pending"}
      PROVE Abstract!Deliver \/ UNCHANGED AbstractVars
  BY <1>5, <1>7 DEF Poll
<1>8. CASE FirstPoll \/ PollWoken \/ SpuriousPoll
  BY <1>7, <1>8 DEF FirstPoll, PollWoken, SpuriousPoll
<1>9. CASE DropHandle
  BY <1>9 DEF DropHandle, Abstract!Abandon
<1>10. CASE UNCHANGED vars
  BY <1>10 DEF vars
<1>11. QED
  BY <1>1, <1>2, <1>3, <1>4, <1>6, <1>8, <1>9, <1>10
     DEF Next, Produce, Settle, Consume

\* What the consumer of the detailed pair observes is what the one-shot slot
\* allows: one resolution, delivered unchanged and at most once.
THEOREM Refinement == Spec => ImplementsOneShot
<1>1. Inv /\ [Next]_vars => [Abstract!Next]_AbstractVars
  BY RefinesStep
<1>2. QED
  BY <1>1, RefinesInit, InvAlways, PTL
     DEF Spec, ImplementsOneShot, Abstract!Spec, AbstractVars, Holder
=============================================================================
