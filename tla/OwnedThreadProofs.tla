-------------------------- MODULE OwnedThreadProofs --------------------------
(***************************************************************************)
(* Safety properties of OwnedThread for any amount of data.                *)
(***************************************************************************)
EXTENDS OwnedThread, TLAPS

\* The stream is shut down by the call that ends the thread, which is made
\* once, unless it is broken already; a thread that has ended stays as it is.
CallsMatch ==
  /\ owner = "idle" => ~shut
  /\ owner # "idle" => call \in {"stop", "drop"}
  /\ owner # "idle" /\ kind = "reader" => shut \/ broken
  /\ thread \in {"told", "finished"} => result # "none"

Inv == TypeOK /\ CallsMatch /\ OwnerLearnsOfEnd

-----------------------------------------------------------------------------
\* The invariant holds initially.
LEMMA InvInit == Init => Inv
<1> SUFFICES ASSUME Init PROVE Inv
  OBVIOUS
<1>1. TypeOK
  <2>1. 0 \in 0..MaxData /\ 0 \in 0..0
    BY DataIsNat
  <2>2. QED
    BY <2>1 DEF Init, TypeOK
<1>2. CallsMatch /\ OwnerLearnsOfEnd
  BY DEF Init, CallsMatch, OwnerLearnsOfEnd, Ended
<1>3. QED
  BY <1>1, <1>2 DEF Inv

\* The peer and the stream.
LEMMA PeerStep ==
  ASSUME Inv, Peer
  PROVE  Inv'
<1> USE DataIsNat DEF Inv, TypeOK, Peer, Arrive, Close, Break, ownerVars, job
<1>1. TypeOK'
  <2>1. CASE Arrive
    <3>1. arrived' \in 0..MaxData /\ buffered' \in 0..arrived'
      BY <2>1
    <3>2. QED
      BY <2>1, <3>1
  <2>2. CASE Close
    BY <2>2
  <2>3. CASE Break
    BY <2>3
  <2>4. QED
    BY <2>1, <2>2, <2>3
<1>2. CallsMatch'
  BY DEF CallsMatch
<1>3. OwnerLearnsOfEnd'
  BY DEF OwnerLearnsOfEnd, Ended
<1>4. QED
  BY <1>1, <1>2, <1>3

\* The thread, which moves only while it has not ended.
LEMMA ThreadStep ==
  ASSUME Inv, Thread
  PROVE  Inv'
<1> USE DataIsNat DEF Inv, TypeOK, Thread, Reads, CallRead, ReadData, ReadEnds,
                  DataToRead, HandlerReturns, HandlerPanics, ownerVars, stream
<1>1. TypeOK'
  OBVIOUS
<1>2. CallsMatch'
  BY DEF CallsMatch
<1>3. OwnerLearnsOfEnd'
  BY DEF OwnerLearnsOfEnd, Ended
<1>4. QED
  BY <1>1, <1>2, <1>3

\* The call that ends the thread, up to the join.
LEMMA EndThreadStep ==
  ASSUME Inv, NEW c \in {"stop", "drop"}, EndThread(c)
  PROVE  Inv'
<1> USE DataIsNat DEF Inv, TypeOK, EndThread, Shutdown, stream, job
<1>1. TypeOK'
  <2>1. shut' \in BOOLEAN
    BY Zenon
  <2>2. QED
    BY <2>1
<1>2. CallsMatch'
  BY DEF CallsMatch
<1>3. OwnerLearnsOfEnd'
  BY DEF OwnerLearnsOfEnd
<1>4. QED
  BY <1>1, <1>2, <1>3

\* The join and what the call makes of it.
LEMMA JoinStep ==
  ASSUME Inv, Join
  PROVE  Inv'
<1> USE DEF Inv, TypeOK, Join, Ended, Resumes, CallsMatch, stream, job
<1>1. TypeOK'
  OBVIOUS
<1>2. CallsMatch'
  OBVIOUS
<1>3. OwnerLearnsOfEnd'
  BY DEF OwnerLearnsOfEnd
<1>4. QED
  BY <1>1, <1>2, <1>3

\* The invariant is inductive.
LEMMA InvNext == Inv /\ [Next]_vars => Inv'
<1> SUFFICES ASSUME Inv, [Next]_vars PROVE Inv'
  OBVIOUS
<1>1. CASE PanicOrCatch
  BY <1>1 DEF PanicOrCatch, Inv, TypeOK, CallsMatch, OwnerLearnsOfEnd,
              Ended, job, stream
<1>2. CASE UNCHANGED vars
  BY <1>2 DEF vars, ownerVars, job, stream, Inv, TypeOK, CallsMatch,
              OwnerLearnsOfEnd, Ended
<1>3. QED
  BY <1>1, <1>2, PeerStep, ThreadStep, EndThreadStep, JoinStep DEF Next, User

\* The invariant holds in every state.
LEMMA Invariance == Spec => []Inv
BY InvInit, InvNext, PTL DEF Spec

-----------------------------------------------------------------------------
\* The places of both threads and the amounts of data keep their types: in
\* particular no more can be read than has arrived.
THEOREM TypeCorrect == Spec => []TypeOK
BY Invariance, PTL DEF Inv

\* stop, join and drop in reader.rs and background.rs: they return after the
\* thread has ended, pass on its panic or result, and drop does not abort.
THEOREM EndIsLearned == Spec => []OwnerLearnsOfEnd
BY Invariance, PTL DEF Inv

-----------------------------------------------------------------------------
\* While a Reader is being stopped or dropped its thread is not blocked: a read
\* has data to return, or an end to report.
ReadsReturn ==
  kind = "reader" /\ owner = "joining" /\ thread = "reading" =>
    buffered > 0 \/ shut \/ broken

\* No deadlock between the owner of a Reader and a thread in a read, also when
\* the shutdown fails.
THEOREM NoDeadlock == Spec => []ReadsReturn
<1>1. Inv => ReadsReturn
  BY DEF Inv, CallsMatch, ReadsReturn
<1>2. QED
  BY <1>1, Invariance, PTL

\* How many steps the thread has left, at most: three for every piece of data
\* that can be read or may still arrive, and those it takes to end.
WorkLeft == 3 * ((MaxData - arrived) + buffered)
              + CASE thread = "running" -> 3
                  [] thread = "reading" -> 2
                  [] thread = "told"    -> 1
                  [] OTHER              -> 0

\* Every step of the thread uses up some of that work, and no step of the
\* peer, of the owner or of the shutdown adds to it.
HandlerRunsOut ==
  [][WorkLeft' <= WorkLeft /\ (Thread => WorkLeft' < WorkLeft)]_vars

\* A handler that reads to the end of its stream goes on for ever only if data
\* arrives for ever, be it after the shutdown; with NoDeadlock, only fairness
\* is missing for EndingReturns.
THEOREM EndingEnds == Spec => HandlerRunsOut
<1>1. ASSUME Inv, [Next]_vars
      PROVE  WorkLeft' <= WorkLeft /\ (Thread => WorkLeft' < WorkLeft)
  <2>1. /\ MaxData \in Nat /\ arrived \in 0..MaxData /\ buffered \in 0..arrived
        /\ thread \in {"running", "reading", "told", "finished", "panicked"}
    BY <1>1, DataIsNat DEF Inv, TypeOK
  <2>2. CASE Thread
    BY <2>1, <2>2 DEF Thread, Reads, CallRead, ReadData, DataToRead, ReadEnds,
         HandlerReturns, HandlerPanics, stream, WorkLeft
  <2>3. CASE ~Thread
    <3>1. thread' = thread
      BY <1>1, <2>3 DEF Next, Peer, Arrive, Close, Break, Join, User,
           PanicOrCatch, EndThread, vars, job
    <3>2. CASE Arrive
      BY <2>1, <2>3, <3>1, <3>2 DEF Arrive, WorkLeft
    <3>3. CASE ~Arrive
      <4>1. arrived' = arrived /\ (buffered' = buffered \/ buffered' = 0)
        BY <1>1, <2>3, <3>3 DEF Next, Peer, Close, Break, Join, User,
             PanicOrCatch, EndThread, Shutdown, vars, stream
      <4>2. QED
        BY <2>1, <2>3, <3>1, <4>1 DEF WorkLeft
    <3>4. QED
      BY <3>2, <3>3
  <2>4. QED
    BY <2>2, <2>3
<1>2. Inv /\ [Next]_vars =>
        [WorkLeft' <= WorkLeft /\ (Thread => WorkLeft' < WorkLeft)]_vars
  BY <1>1
<1>3. QED
  BY <1>2, Invariance, PTL DEF Spec, HandlerRunsOut
=============================================================================
