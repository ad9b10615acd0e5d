---------------------------- MODULE WorkerProofs ----------------------------
(***************************************************************************)
(* Safety properties of Worker for any capacities and any number of        *)
(* messages.                                                               *)
(***************************************************************************)
EXTENDS Worker, TLAPS

\* The loop owns the Receiver, and the Worker its Sender until it is dropped.
ChannelMatches ==
  /\ thread \in {"recv", "handling"} => receiver
  /\ Ended => ~receiver
  /\ ~receiver => queue = <<>>
  /\ ~sender => owner \in {"joinDrop", "dropped"}
  /\ thread = "finished" => ~sender
  /\ owner = "sending" => next \in Msgs

\* The channel holds the messages sent last, and the handler has the one
\* before them.
QueueInOrder ==
  /\ \A i \in 1..Len(queue) : queue[i] + Len(queue) + 1 = next + i
  /\ thread = "handling" =>
       /\ current \in Msgs /\ current + Len(queue) + 1 = next
       /\ msg[current] \in {"running", "fulfilled"}

\* All that precede those are done with, and no promise is dropped before the
\* handler panics.
MessagesMatch ==
  /\ \A m \in Msgs : m + Len(queue) < next => Resolved(m)
                       \/ (thread = "handling" /\ m = current)
  /\ \A m \in Msgs : m >= next => msg[m] = "unsent"
  /\ thread \in {"recv", "handling", "finished"} =>
       \A m \in Msgs : msg[m] # "dropped"

\* The thread is joined once; its panic is passed on then.
PanicsMatch ==
  /\ handle => reported = 0 /\ ~swallowed
  /\ ~handle => Ended
  /\ ~handle /\ thread = "panicked" =>
       (reported = 1 /\ ~swallowed) \/ (reported = 0 /\ swallowed)
  /\ reported <= 1
  /\ owner = "dropped" => ~handle
  /\ extra => reported = 1 \/ swallowed

Inv == TypeOK /\ ChannelMatches /\ QueueInOrder /\ MessagesMatch /\ PanicsMatch

\* What the calls of the owner can rely on: a thread that waits has handled all
\* that is not in the channel; a thread is joined when the channel is
\* disconnected from one end; the owner only waits for what it has sent; and a
\* block() that has failed because of a panic has seen the thread unwind.
CallsMatch ==
  /\ thread = "recv" => current + Len(queue) + 1 = next
  /\ owner = "joinSend" => ~receiver
  /\ owner = "joinDrop" => ~sender
  /\ \A m \in held : m < next
  /\ owner = "blocked" => awaited \in Msgs /\ awaited < next
  /\ sawPanic => thread \in {"unwinding", "panicked"}

-----------------------------------------------------------------------------
\* Receiving takes the first message off a queue.
LEMMA TailFacts ==
  ASSUME NEW q \in Seq(Msgs), q # <<>>
  PROVE  /\ Tail(q) \in Seq(Msgs) /\ Len(q) \in Nat /\ Len(Tail(q)) = Len(q) - 1
         /\ Len(q) > 0 /\ Head(q) = q[1] /\ Head(q) \in Msgs
         /\ \A i \in 1..Len(Tail(q)) : Tail(q)[i] = q[i + 1]
OBVIOUS

\* Sending puts a message behind the others.
LEMMA AppendFacts ==
  ASSUME NEW q \in Seq(Msgs), NEW m \in Msgs
  PROVE  /\ Append(q, m) \in Seq(Msgs) /\ Len(q) \in Nat
         /\ Len(Append(q, m)) = Len(q) + 1
         /\ \A i \in 1..Len(Append(q, m)) :
              Append(q, m)[i] = IF i <= Len(q) THEN q[i] ELSE m
OBVIOUS

\* The invariant holds initially.
LEMMA InvInit == Init => Inv
<1> SUFFICES ASSUME Init PROVE Inv
  OBVIOUS
<1>1. TypeOK
  <2>1. /\ 0 \in 0..MaxMsgs /\ 1 \in 1..(MaxMsgs + 1) /\ <<>> \in Seq(Msgs)
        /\ Len(<<>>) = 0 /\ capacity \in Capacities /\ 0 <= capacity
    BY ParametersAreNat DEF Init
  <2>2. QED
    BY <2>1 DEF Init, TypeOK, MsgStates
<1>2. ChannelMatches /\ PanicsMatch
  BY DEF Init, ChannelMatches, PanicsMatch, Ended
<1>3. QueueInOrder /\ MessagesMatch
  BY DEF Init, QueueInOrder, MessagesMatch, Msgs
<1>4. QED
  BY <1>1, <1>2, <1>3 DEF Inv

\* The worker thread takes the next message.
LEMMA ReceiveStep == Inv /\ Receive => Inv'
<1> SUFFICES ASSUME Inv, Receive PROVE Inv'
  OBVIOUS
<1> USE DEF Inv, Msgs
<1>1. /\ thread = "recv" /\ queue # <<>> /\ receiver
      /\ thread' = "handling" /\ current' = Head(queue)
      /\ queue' = Tail(queue)
      /\ msg' = [msg EXCEPT ![Head(queue)] = "running"]
      /\ UNCHANGED <<capacity, sender, handle, owner, panicking, next, held,
                     awaited, receiver, reported, swallowed, sawPanic, extra>>
  BY DEF Receive, StartHandling, ownerVars, history, ChannelMatches
<1>2. queue \in Seq(Msgs) /\ next \in Nat /\ capacity \in Nat
  BY ParametersAreNat DEF TypeOK
<1>3. /\ queue' \in Seq(Msgs) /\ Len(queue) \in Nat
      /\ Len(queue') = Len(queue) - 1 /\ Len(queue) > 0
      /\ current' = queue[1] /\ current' \in Msgs
      /\ \A i \in 1..Len(queue') : queue'[i] = queue[i + 1]
  BY <1>1, <1>2, TailFacts
<1>4. current' + Len(queue) = next
  <2>1. 1 \in 1..Len(queue) /\ queue[1] \in Nat
    BY <1>3, ParametersAreNat
  <2>2. queue[1] + Len(queue) + 1 = next + 1
    BY <2>1 DEF QueueInOrder
  <2>3. Len(queue) \in Nat /\ next \in Nat /\ current' = queue[1]
    BY <1>2, <1>3
  <2>4. QED
    BY <2>1, <2>2, <2>3
<1>5. TypeOK'
  BY <1>1, <1>2, <1>3, ParametersAreNat DEF TypeOK, MsgStates
<1>6. ChannelMatches' /\ PanicsMatch'
  BY <1>1 DEF ChannelMatches, PanicsMatch, Ended
<1>7. QueueInOrder'
  <2>1. ASSUME NEW i \in 1..Len(queue')
        PROVE  queue'[i] + Len(queue') + 1 = next' + i
    <3>1. i + 1 \in 1..Len(queue) /\ queue'[i] = queue[i + 1]
      BY <1>3
    <3>2. queue[i + 1] + Len(queue) + 1 = next + (i + 1)
      BY <3>1 DEF QueueInOrder
    <3>3. queue[i + 1] \in Nat
      BY <3>1, <1>2, ParametersAreNat
    <3>4. /\ next' = next /\ next \in Nat /\ Len(queue) \in Nat
          /\ Len(queue') = Len(queue) - 1 /\ i \in Nat
      BY <1>1, <1>2, <1>3
    <3>5. QED
      BY <3>1, <3>2, <3>3, <3>4
  <2>2. current' + Len(queue') + 1 = next' /\ msg'[current'] = "running"
    BY <1>1, <1>2, <1>3, <1>4, ParametersAreNat DEF TypeOK
  <2>3. QED
    BY <2>1, <2>2, <1>3 DEF QueueInOrder
<1>8. MessagesMatch'
  <2>1. ASSUME NEW m \in Msgs, m + Len(queue') < next'
        PROVE  Resolved(m)' \/ m = current'
    <3>1. m = current' \/ m + Len(queue) < next
      BY <2>1, <1>1, <1>2, <1>3, <1>4, ParametersAreNat
    <3>2. QED
      BY <3>1, <1>1 DEF MessagesMatch, Resolved, TypeOK
  <2>2. ASSUME NEW m \in Msgs, m >= next'
        PROVE  msg'[m] = "unsent"
    <3>1. m # current'
      BY <2>2, <1>1, <1>2, <1>3, <1>4, ParametersAreNat
    <3>2. QED
      BY <2>2, <3>1, <1>1 DEF MessagesMatch, TypeOK
  <2>3. QED
    BY <2>1, <2>2, <1>1 DEF MessagesMatch, TypeOK
<1>9. QED
  BY <1>5, <1>6, <1>7, <1>8

\* The handler works on its message and ends.
LEMMA HandlerStep ==
  ASSUME Inv, HandlerFulfills \/ HandlerReturns \/ HandlerPanics
  PROVE  Inv'
<1> USE DEF Inv
<1>1. PICK where \in {"handling", "recv", "unwinding"},
           fate \in {"fulfilled", "skipped", "dropped"} :
        /\ thread = "handling" /\ thread' = where
        /\ msg' = [msg EXCEPT ![current] = IF @ = "running" THEN fate ELSE @]
        /\ fate = "dropped" => where = "unwinding"
        /\ where = "handling" => fate = "fulfilled"
        /\ UNCHANGED <<ownerVars, queue, receiver, current, history>>
  BY DEF HandlerFulfills, HandlerReturns, HandlerPanics, HandlerEnds, worker
<1>2. /\ current \in Msgs /\ msg[current] \in {"running", "fulfilled"}
      /\ msg'[current] \in {"fulfilled", "skipped", "dropped"}
      /\ msg'[current] = "dropped" => thread' = "unwinding"
      /\ thread' = "handling" => msg'[current] = "fulfilled"
      /\ \A m \in Msgs : m # current => msg'[m] = msg[m]
  BY <1>1 DEF QueueInOrder, TypeOK
<1>3. UNCHANGED <<capacity, sender, handle, owner, panicking, next, held,
                  awaited, queue, receiver, current, reported, swallowed,
                  sawPanic, extra>>
  BY <1>1 DEF ownerVars, history
<1>4. TypeOK'
  <2>1. msg' \in [Msgs -> MsgStates]
    BY <1>1, <1>2 DEF TypeOK, MsgStates
  <2>2. QED
    BY <1>1, <1>3, <2>1 DEF TypeOK
<1>5. ChannelMatches' /\ PanicsMatch'
  BY <1>1, <1>3 DEF ChannelMatches, PanicsMatch, Ended
<1>6. QueueInOrder'
  BY <1>1, <1>2, <1>3 DEF QueueInOrder
<1>7. MessagesMatch'
  <2>1. ASSUME NEW m \in Msgs, m + Len(queue') < next'
        PROVE  Resolved(m)'
    BY <2>1, <1>1, <1>2, <1>3 DEF MessagesMatch, Resolved
  <2>2. ASSUME NEW m \in Msgs, m >= next'
        PROVE  msg'[m] = "unsent"
    <3>1. msg[m] = "unsent"
      BY <2>2, <1>3 DEF MessagesMatch
    <3>2. QED
      BY <3>1, <1>2
  <2>3. ASSUME thread' \in {"recv", "handling", "finished"}, NEW m \in Msgs
        PROVE  msg'[m] # "dropped"
    BY <2>3, <1>1, <1>2 DEF MessagesMatch
  <2>4. QED
    BY <2>1, <2>2, <2>3 DEF MessagesMatch
<1>8. QED
  BY <1>4, <1>5, <1>6, <1>7

\* The loop ends, by itself or by unwinding.
LEMMA EndStep ==
  ASSUME Inv, Exit \/ DropReceiver \/ ThreadPanicked
  PROVE  Inv'
<1> USE DEF Inv
<1>1. CASE Exit
  BY <1>1 DEF Exit, ExitWithoutDraining, ownerVars, history, TypeOK,
              ChannelMatches, QueueInOrder, MessagesMatch, PanicsMatch, Ended,
              Resolved
<1>2. CASE ThreadPanicked
  BY <1>2 DEF ThreadPanicked, ownerVars, channel, history, TypeOK,
              ChannelMatches, QueueInOrder, MessagesMatch, PanicsMatch, Ended,
              Resolved
<1>3. CASE DropReceiver
  <2>1. /\ thread = "unwinding" /\ receiver /\ receiver' = FALSE
        /\ queue' = <<>>
        /\ msg' = [m \in Msgs |-> IF m \in ToSet(queue) THEN "dropped"
                                                        ELSE msg[m]]
        /\ UNCHANGED <<capacity, sender, handle, owner, panicking, next, held,
                       awaited, thread, current, reported, swallowed, sawPanic,
                       extra>>
    BY <1>3 DEF DropReceiver, DiscardQueue, ownerVars, worker, history
  <2>2. /\ queue \in Seq(Msgs) /\ Len(queue) \in Nat /\ next \in Nat
        /\ queue' \in Seq(Msgs) /\ Len(queue') = 0
    BY <2>1, ParametersAreNat DEF TypeOK
  <2>3. TypeOK'
    <3>1. msg' \in [Msgs -> MsgStates]
      BY <2>1 DEF TypeOK, MsgStates
    <3>2. capacity \in Nat /\ Len(queue') <= capacity
      BY <2>2, ParametersAreNat DEF TypeOK
    <3>3. QED
      BY <2>1, <2>2, <3>1, <3>2 DEF TypeOK
  <2>4. ChannelMatches' /\ PanicsMatch' /\ QueueInOrder'
    BY <2>1, <2>2 DEF ChannelMatches, PanicsMatch, QueueInOrder, Ended
  <2>5. ASSUME NEW m \in Msgs, m < next
        PROVE  Resolved(m)'
    <3>1. CASE m + Len(queue) < next
      BY <3>1, <2>1 DEF MessagesMatch, Resolved
    <3>2. CASE m + Len(queue) >= next
      <4>1. m + Len(queue) + 1 - next \in 1..Len(queue)
        BY <3>2, <2>2, <2>5, ParametersAreNat DEF Msgs
      <4>2. PICK i \in 1..Len(queue) : i = m + Len(queue) + 1 - next
        BY <4>1
      <4>3. queue[i] \in Nat /\ queue[i] + Len(queue) + 1 = next + i
        BY <2>2, ParametersAreNat DEF QueueInOrder, Msgs
      <4>4. queue[i] = m
        BY <4>2, <4>3, <2>2, ParametersAreNat DEF Msgs
      <4>5. m \in ToSet(queue)
        BY <4>4, <2>2 DEF ToSet
      <4>6. QED
        BY <4>5, <2>1 DEF Resolved
    <3>3. QED
      BY <3>1, <3>2, <2>2, ParametersAreNat DEF Msgs
  <2>6. ASSUME NEW m \in Msgs, m >= next
        PROVE  msg'[m] = "unsent"
    <3>1. m \notin ToSet(queue)
      <4>1. SUFFICES ASSUME NEW i \in 1..Len(queue), queue[i] = m PROVE FALSE
        BY <2>2 DEF ToSet
      <4>2. m + Len(queue) + 1 = next + i
        BY <4>1 DEF QueueInOrder
      <4>3. QED
        BY <4>2, <2>2, <2>6, ParametersAreNat DEF Msgs
    <3>2. QED
      BY <3>1, <2>1, <2>6 DEF MessagesMatch
  <2>7. MessagesMatch'
    BY <2>1, <2>2, <2>5, <2>6, ParametersAreNat DEF MessagesMatch, Msgs
  <2>8. QED
    BY <2>3, <2>4, <2>7
<1>4. QED
  BY <1>1, <1>2, <1>3

\* The channel takes a message: behind the others, or for a thread that waits.
LEMMA AcceptStep ==
  ASSUME Inv, Rendezvous \/ Enqueue
  PROVE  Inv'
<1> USE DEF Inv
<1>1. /\ owner = "sending" /\ receiver /\ owner' = "idle" /\ next' = next + 1
      /\ held' = held \cup {next}
      /\ UNCHANGED <<capacity, sender, handle, panicking, awaited, receiver,
                     reported, swallowed, sawPanic, extra>>
  BY DEF Rendezvous, Enqueue, EnqueueUnbounded, Accepted, worker, history
<1>2. /\ next \in Msgs /\ next \in Nat /\ next' \in 1..(MaxMsgs + 1)
      /\ queue \in Seq(Msgs) /\ Len(queue) \in Nat /\ capacity \in Nat
      /\ Len(queue) <= capacity /\ MaxMsgs \in Nat
  BY <1>1, ParametersAreNat DEF ChannelMatches, TypeOK, Msgs
<1>3. \A m \in Msgs : m \in Nat
  BY ParametersAreNat DEF Msgs
<1>4. CASE Rendezvous
  <2>1. /\ capacity = 0 /\ thread = "recv" /\ thread' = "handling"
        /\ current' = next /\ queue' = queue
        /\ msg' = [msg EXCEPT ![next] = "running"]
    BY <1>4 DEF Rendezvous, Accepted, StartHandling
  <2>2. Len(queue) = 0
    BY <2>1, <1>2
  <2>3. TypeOK'
    <3>1. msg' \in [Msgs -> MsgStates]
      BY <2>1 DEF TypeOK, MsgStates
    <3>2. current' \in 0..MaxMsgs
      BY <2>1, <1>2 DEF Msgs
    <3>3. QED
      BY <1>1, <1>2, <2>1, <3>1, <3>2 DEF TypeOK
  <2>4. ChannelMatches' /\ PanicsMatch'
    BY <1>1, <2>1 DEF ChannelMatches, PanicsMatch, Ended
  <2>5. QueueInOrder'
    <3>1. msg'[next] = "running"
      BY <2>1, <1>2 DEF TypeOK
    <3>2. \A i \in 1..Len(queue') : FALSE
      BY <2>1, <2>2
    <3>3. current' + Len(queue') + 1 = next'
      BY <1>1, <1>2, <2>1, <2>2
    <3>4. QED
      BY <1>2, <2>1, <3>1, <3>2, <3>3 DEF QueueInOrder
  <2>6. MessagesMatch'
    <3>1. \A m \in Msgs : m < next => Resolved(m)
      BY <1>2, <1>3, <2>1, <2>2 DEF MessagesMatch
    <3>2. \A m \in Msgs : m # next => msg'[m] = msg[m]
      BY <2>1 DEF TypeOK
    <3>3. ASSUME NEW m \in Msgs, m + Len(queue') < next'
          PROVE  Resolved(m)' \/ m = current'
      <4>1. m = next \/ m < next
        BY <3>3, <1>1, <1>2, <1>3, <2>1, <2>2
      <4>2. QED
        BY <4>1, <3>1, <3>2, <2>1 DEF Resolved
    <3>4. ASSUME NEW m \in Msgs, m >= next'
          PROVE  msg'[m] = "unsent"
      <4>1. m # next /\ m >= next
        BY <3>4, <1>1, <1>2, <1>3
      <4>2. QED
        BY <4>1, <3>2 DEF MessagesMatch
    <3>5. \A m \in Msgs : msg'[m] # "dropped"
      BY <2>1 DEF MessagesMatch, TypeOK
    <3>6. QED
      BY <3>3, <3>4, <3>5, <2>1 DEF MessagesMatch
  <2>7. QED
    BY <2>3, <2>4, <2>5, <2>6
<1>5. CASE Enqueue
  <2>1. /\ Len(queue) < capacity /\ queue' = Append(queue, next)
        /\ msg' = [msg EXCEPT ![next] = "queued"]
        /\ thread' = thread /\ current' = current
    BY <1>5 DEF Enqueue, EnqueueUnbounded, Accepted, worker
  <2>2. /\ queue' \in Seq(Msgs) /\ Len(queue') = Len(queue) + 1
        /\ \A i \in 1..Len(queue') :
             queue'[i] = IF i <= Len(queue) THEN queue[i] ELSE next
    BY <2>1, <1>2, AppendFacts
  <2>3. TypeOK'
    <3>1. msg' \in [Msgs -> MsgStates]
      BY <2>1 DEF TypeOK, MsgStates
    <3>2. Len(queue') <= capacity
      BY <2>1, <2>2, <1>2
    <3>3. held' \subseteq Msgs
      BY <1>1, <1>2 DEF TypeOK
    <3>4. QED
      BY <1>1, <1>2, <2>1, <2>2, <3>1, <3>2, <3>3 DEF TypeOK
  <2>4. ChannelMatches' /\ PanicsMatch'
    BY <1>1, <2>1 DEF ChannelMatches, PanicsMatch, Ended
  <2>5. \A m \in Msgs : m # next => msg'[m] = msg[m]
    BY <2>1 DEF TypeOK
  <2>6. QueueInOrder'
    <3>1. ASSUME NEW i \in 1..Len(queue')
          PROVE  queue'[i] + Len(queue') + 1 = next' + i
      <4>1. next' = next + 1 /\ next \in Nat /\ Len(queue) \in Nat /\ i \in Nat
        BY <1>1, <1>2, <2>2
      <4>2. CASE i <= Len(queue)
        <5>1. i \in 1..Len(queue) /\ queue'[i] = queue[i]
          BY <4>1, <4>2, <2>2
        <5>2. queue[i] \in Nat /\ queue[i] + Len(queue) + 1 = next + i
          <6>1. queue[i] \in Msgs
            BY <5>1, <1>2
          <6>2. QED
            BY <5>1, <6>1, <1>3 DEF QueueInOrder
        <5>3. Len(queue') = Len(queue) + 1
          BY <2>2
        <5>4. QED
          BY <4>1, <5>1, <5>2, <5>3
      <4>3. CASE i > Len(queue)
        <5>1. i = Len(queue) + 1 /\ queue'[i] = next
          BY <4>1, <4>3, <2>2
        <5>2. Len(queue') = Len(queue) + 1
          BY <2>2
        <5>3. QED
          BY <4>1, <5>1, <5>2
      <4>4. QED
        BY <4>1, <4>2, <4>3
    <3>2. ASSUME thread' = "handling"
          PROVE  /\ current' \in Msgs /\ current' + Len(queue') + 1 = next'
                 /\ msg'[current'] \in {"running", "fulfilled"}
      <4>1. /\ current \in Msgs /\ current + Len(queue) + 1 = next
            /\ msg[current] \in {"running", "fulfilled"}
        BY <3>2, <2>1 DEF QueueInOrder
      <4>2. current # next /\ current + (Len(queue) + 1) + 1 = next + 1
        BY <4>1, <1>2, <1>3
      <4>3. QED
        BY <4>1, <4>2, <1>1, <2>1, <2>2, <2>5
    <3>3. QED
      BY <3>1, <3>2 DEF QueueInOrder
  <2>7. MessagesMatch'
    <3>1. ASSUME NEW m \in Msgs, m + Len(queue') < next'
          PROVE  Resolved(m)' \/ (thread' = "handling" /\ m = current')
      <4>1. m + Len(queue) < next /\ m # next
        BY <3>1, <1>1, <1>2, <1>3, <2>2
      <4>2. QED
        BY <4>1, <2>1, <2>5 DEF MessagesMatch, Resolved
    <3>2. ASSUME NEW m \in Msgs, m >= next'
          PROVE  msg'[m] = "unsent"
      <4>1. m # next /\ m >= next
        BY <3>2, <1>1, <1>2, <1>3
      <4>2. QED
        BY <4>1, <2>5 DEF MessagesMatch
    <3>3. ASSUME thread' \in {"recv", "handling", "finished"}, NEW m \in Msgs
          PROVE  msg'[m] # "dropped"
      BY <3>3, <2>1 DEF MessagesMatch, TypeOK
    <3>4. QED
      BY <3>1, <3>2, <3>3 DEF MessagesMatch
  <2>8. QED
    BY <2>3, <2>4, <2>6, <2>7
<1>6. QED
  BY <1>4, <1>5

\* The channel is disconnected, which takes a panic of the handler.
LEMMA RejectStep == Inv /\ SendFails => Inv'
<1> SUFFICES ASSUME Inv, SendFails PROVE Inv'
  OBVIOUS
<1> USE DEF Inv
<1>1. /\ owner = "sending" /\ ~receiver /\ owner' = "joinSend"
      /\ next' = next + 1 /\ msg' = [msg EXCEPT ![next] = "dropped"]
      /\ UNCHANGED <<capacity, sender, handle, panicking, held, awaited, queue,
                     receiver, thread, current, reported, swallowed, sawPanic,
                     extra>>
  BY DEF SendFails, Rejected, worker, history
<1>2. /\ next \in Msgs /\ next \in Nat /\ next' \in 1..(MaxMsgs + 1)
      /\ queue = <<>> /\ Len(queue) = 0 /\ thread \in {"unwinding", "panicked"}
  BY <1>1, ParametersAreNat DEF ChannelMatches, TypeOK, Msgs
<1>3. \A m \in Msgs : m \in Nat
  BY ParametersAreNat DEF Msgs
<1>4. TypeOK'
  <2>1. msg' \in [Msgs -> MsgStates]
    BY <1>1 DEF TypeOK, MsgStates
  <2>2. QED
    BY <1>1, <1>2, <2>1 DEF TypeOK
<1>5. ChannelMatches' /\ PanicsMatch'
  BY <1>1, <1>2 DEF ChannelMatches, PanicsMatch, Ended
<1>6. QueueInOrder'
  BY <1>1, <1>2 DEF QueueInOrder
<1>7. MessagesMatch'
  <2>1. \A m \in Msgs : m # next => msg'[m] = msg[m]
    BY <1>1 DEF TypeOK
  <2>2. msg'[next] = "dropped"
    BY <1>1, <1>2 DEF TypeOK
  <2>3. ASSUME NEW m \in Msgs, m + Len(queue') < next'
        PROVE  Resolved(m)'
    <3>1. m = next \/ m + Len(queue) < next
      BY <2>3, <1>1, <1>2, <1>3
    <3>2. QED
      BY <3>1, <2>1, <2>2, <1>2 DEF MessagesMatch, Resolved
  <2>4. ASSUME NEW m \in Msgs, m >= next'
        PROVE  msg'[m] = "unsent"
    <3>1. m # next /\ m >= next
      BY <2>4, <1>1, <1>2, <1>3
    <3>2. QED
      BY <3>1, <2>1 DEF MessagesMatch
  <2>5. QED
    BY <2>3, <2>4, <1>1, <1>2 DEF MessagesMatch
<1>8. QED
  BY <1>4, <1>5, <1>6, <1>7

\* wait_for_exit: only the panic of a thread that was not joined is passed on.
LEMMA JoinStep ==
  ASSUME Inv, JoinInSend \/ JoinInDrop
  PROVE  Inv'
<1> USE DEF Inv
<1>1. /\ owner \in {"joinSend", "joinDrop"} /\ Ended
      /\ handle' = FALSE /\ Report
      /\ owner' \in {"aborted", "idle", "dropped"}
      /\ owner = "joinDrop" => owner' = "dropped"
      /\ panicking' \in BOOLEAN /\ extra' \in BOOLEAN
      /\ owner = "joinDrop" => extra' = extra
      /\ UNCHANGED <<capacity, sender, next, held, awaited, queue, receiver,
                     msg, thread, current>>
  BY DEF JoinInSend, JoinInDrop, CanJoin, TakeHandle, PanicsMatch, channel,
         worker, TypeOK, JoinedPanic
<1>2. /\ reported' = IF handle /\ thread = "panicked" /\ ~panicking
                     THEN reported + 1 ELSE reported
      /\ swallowed' <=> swallowed \/ (handle /\ thread = "panicked"
                                             /\ panicking)
      /\ swallowed' \in BOOLEAN /\ sawPanic' = sawPanic
  BY <1>1 DEF Report, JoinedPanic, TypeOK
<1>3. reported' <= 1 /\ reported' \in Nat
  BY <1>2 DEF PanicsMatch, TypeOK
<1>4. thread = "panicked" =>
        (reported' = 1 /\ ~swallowed') \/ (reported' = 0 /\ swallowed')
  BY <1>2 DEF PanicsMatch
<1>5. owner = "joinSend" => thread = "panicked"
  BY <1>1 DEF ChannelMatches, Ended
<1>6. extra /\ owner = "joinDrop" => reported' = 1 \/ swallowed'
  BY <1>2 DEF PanicsMatch
<1>7. TypeOK'
  BY <1>1, <1>2, <1>3 DEF TypeOK
<1>8. ChannelMatches' /\ QueueInOrder' /\ MessagesMatch'
  BY <1>1 DEF ChannelMatches, QueueInOrder, MessagesMatch, Ended, Resolved
<1>9. PanicsMatch'
  BY <1>1, <1>3, <1>4, <1>5, <1>6 DEF PanicsMatch, Ended
<1>10. QED
  BY <1>7, <1>8, <1>9

\* The owner's other steps touch neither the thread nor the channel.
LEMMA OwnerStep ==
  ASSUME Inv,
         \/ Send \/ Drop \/ PanicOrCatch \/ BlockReturns
         \/ \E m \in Msgs : CallBlock(m)
         \/ UNCHANGED vars
  PROVE  Inv'
<1> USE DEF Inv
<1>1. /\ UNCHANGED <<capacity, handle, next, queue, receiver, msg, thread,
                     current, reported, swallowed, extra>>
      /\ \/ owner' = owner /\ sender' = sender
         \/ owner = "idle" /\ owner' \in {"sending", "blocked"}
            /\ sender' = sender /\ (owner' = "sending" => next \in Msgs)
         \/ owner = "blocked" /\ owner' = "idle" /\ sender' = sender
         \/ owner = "idle" /\ owner' = "joinDrop" /\ sender' = FALSE
  BY DEF Send, Drop, PanicOrCatch, BlockReturns, CallBlock, vars, ownerVars,
         channel, worker, history
<1>2. /\ panicking' \in BOOLEAN /\ sawPanic' \in BOOLEAN
      /\ held' \subseteq Msgs /\ awaited' \in 0..MaxMsgs
  <2>1. Msgs \subseteq 0..MaxMsgs
    BY ParametersAreNat DEF Msgs
  <2>2. CASE Send \/ Drop \/ UNCHANGED vars
    BY <2>2 DEF Send, Drop, vars, ownerVars, history, TypeOK
  <2>3. CASE PanicOrCatch
    BY <2>3 DEF PanicOrCatch, history, TypeOK
  <2>4. CASE BlockReturns
    BY <2>4 DEF BlockReturns, TypeOK
  <2>5. ASSUME NEW m \in Msgs, CallBlock(m)
        PROVE  /\ panicking' \in BOOLEAN /\ sawPanic' \in BOOLEAN
               /\ held' \subseteq Msgs /\ awaited' \in 0..MaxMsgs
    BY <2>1, <2>5 DEF CallBlock, history, TypeOK
  <2>6. QED
    BY <2>2, <2>3, <2>4, <2>5
<1>3. TypeOK'
  BY <1>1, <1>2 DEF TypeOK
<1>4. ChannelMatches' /\ PanicsMatch'
  BY <1>1 DEF ChannelMatches, PanicsMatch, Ended
<1>5. QueueInOrder' /\ MessagesMatch'
  BY <1>1 DEF QueueInOrder, MessagesMatch, Resolved
<1>6. QED
  BY <1>3, <1>4, <1>5

\* The invariant is inductive.
LEMMA InvNext == Inv /\ [Next]_vars => Inv'
BY ReceiveStep, HandlerStep, EndStep, AcceptStep, RejectStep, JoinStep,
   OwnerStep DEF Next, Thread, InCall, User

\* The invariant holds in every state.
LEMMA Invariance == Spec => []Inv
BY InvInit, InvNext, PTL DEF Spec

\* A new Worker waits for its first message.
LEMMA CallsInit == Init => CallsMatch
<1> SUFFICES ASSUME Init PROVE CallsMatch
  OBVIOUS
<1>1. 0 + Len(<<>>) + 1 = 1
  OBVIOUS
<1>2. QED
  BY <1>1 DEF Init, CallsMatch

\* A thread that goes back to the channel is done with the message before those
\* in it; no step of the thread reconnects the channel or undoes a panic.
LEMMA CallsThreadStep == Inv /\ CallsMatch /\ Thread => CallsMatch'
<1> SUFFICES ASSUME Inv, CallsMatch, Thread PROVE CallsMatch'
  OBVIOUS
<1>1. /\ UNCHANGED <<ownerVars, history>>
      /\ receiver' => receiver
      /\ thread \in {"unwinding", "panicked"} =>
           thread' \in {"unwinding", "panicked"}
  BY DEF Thread, Receive, StartHandling, Exit, ExitWithoutDraining,
         HandlerFulfills, HandlerReturns, HandlerPanics, HandlerEnds,
         DropReceiver, ThreadPanicked, channel, worker
<1>2. ASSUME thread' = "recv"
      PROVE  thread = "handling" /\ UNCHANGED <<current, queue>>
  BY <1>2 DEF Thread, Receive, StartHandling, Exit, ExitWithoutDraining,
         HandlerFulfills, HandlerReturns, HandlerPanics, HandlerEnds,
         DropReceiver, ThreadPanicked, worker
<1>3. thread' = "recv" => current' + Len(queue') + 1 = next'
  BY <1>1, <1>2 DEF Inv, QueueInOrder, ownerVars
<1>4. QED
  BY <1>1, <1>3 DEF CallsMatch, ownerVars, history

\* A call of the owner that ends: send hands over a message or fails, and block
\* learns of the panic from a promise that was dropped by it.
LEMMA CallsReturnStep == Inv /\ CallsMatch /\ InCall => CallsMatch'
<1> SUFFICES ASSUME Inv, CallsMatch, InCall PROVE CallsMatch'
  OBVIOUS
<1>1. CASE Rendezvous \/ Enqueue
  <2>1. /\ owner = "sending" /\ owner' = "idle" /\ receiver' = receiver
        /\ next' = next + 1 /\ held' = held \cup {next}
        /\ sawPanic' = sawPanic
    BY <1>1 DEF Rendezvous, Enqueue, EnqueueUnbounded, Accepted, history
  <2>2. thread' = "recv" => /\ thread = "recv" /\ current' = current
                            /\ queue' = Append(queue, next)
    BY <1>1 DEF Rendezvous, Enqueue, EnqueueUnbounded, StartHandling, worker
  <2>3. sawPanic => thread' \in {"unwinding", "panicked"}
    BY <1>1 DEF Rendezvous, Enqueue, EnqueueUnbounded, worker, CallsMatch
  <2>4. next \in Msgs /\ next \in Nat /\ queue \in Seq(Msgs)
    BY <2>1, ParametersAreNat DEF Inv, TypeOK, ChannelMatches, Msgs
  <2>5. thread' = "recv" => current' + Len(queue') + 1 = next'
    <3>1. Len(Append(queue, next)) = Len(queue) + 1 /\ Len(queue) \in Nat
      BY <2>4, AppendFacts
    <3>2. current \in Nat
      BY ParametersAreNat DEF Inv, TypeOK
    <3>3. QED
      BY <2>1, <2>2, <2>4, <3>1, <3>2 DEF CallsMatch
  <2>6. \A m \in held' : m < next'
    <3>1. \A m \in held : m \in Nat
      BY ParametersAreNat DEF Inv, TypeOK, Msgs
    <3>2. QED
      BY <2>1, <2>4, <3>1 DEF CallsMatch
  <2>7. QED
    BY <2>1, <2>3, <2>5, <2>6 DEF CallsMatch
<1>2. CASE SendFails
  <2>1. /\ owner = "sending" /\ owner' = "joinSend" /\ ~receiver
        /\ next' = next + 1
        /\ UNCHANGED <<held, queue, receiver, thread, current, sawPanic>>
    BY <1>2 DEF SendFails, Rejected, worker, history
  <2>2. thread # "recv"
    BY <2>1 DEF Inv, ChannelMatches
  <2>3. next \in Nat /\ \A m \in held : m \in Nat
    BY ParametersAreNat DEF Inv, TypeOK, Msgs
  <2>4. QED
    BY <2>1, <2>2, <2>3 DEF CallsMatch
<1>3. CASE JoinInSend \/ JoinInDrop
  BY <1>3 DEF JoinInSend, JoinInDrop, Report, channel, worker, CallsMatch
<1>4. CASE BlockReturns
  <2>1. /\ owner = "blocked" /\ owner' = "idle"
        /\ sawPanic' => sawPanic \/ msg[awaited] = "dropped"
        /\ UNCHANGED <<next, held, queue, thread, current>>
    BY <1>4 DEF BlockReturns, channel, worker
  <2>2. msg[awaited] = "dropped" => thread \in {"unwinding", "panicked"}
    BY <2>1 DEF CallsMatch, Inv, TypeOK, MessagesMatch
  <2>3. QED
    BY <2>1, <2>2 DEF CallsMatch
<1>5. QED
  BY <1>1, <1>2, <1>3, <1>4 DEF InCall

\* The owner begins a call: block for a message it has sent, drop with the
\* channel closed.
LEMMA CallsUserStep ==
  Inv /\ CallsMatch /\ (User \/ UNCHANGED vars) => CallsMatch'
<1> SUFFICES ASSUME Inv, CallsMatch, User \/ UNCHANGED vars PROVE CallsMatch'
  OBVIOUS
<1>1. ASSUME NEW m \in Msgs, CallBlock(m) PROVE CallsMatch'
  BY <1>1 DEF CallBlock, channel, worker, history, CallsMatch
<1>2. CASE Send \/ Drop \/ PanicOrCatch \/ UNCHANGED vars
  BY <1>2 DEF Send, Drop, PanicOrCatch, vars, ownerVars, channel, worker,
       history, CallsMatch
<1>3. QED
  BY <1>1, <1>2 DEF User

\* It holds in every state.
LEMMA CallsAlways == Spec => []CallsMatch
<1>1. Inv /\ CallsMatch /\ [Next]_vars => CallsMatch'
  BY CallsThreadStep, CallsReturnStep, CallsUserStep DEF Next
<1>2. QED
  BY <1>1, InvInit, InvNext, CallsInit, PTL DEF Spec

-----------------------------------------------------------------------------
\* Types; in particular the channel never holds more than its capacity.
THEOREM TypeCorrect == Spec => []TypeOK
BY Invariance, PTL DEF Inv

\* The back-pressure that WorkerBuilder::capacity promises: the worker is done
\* with all but the last capacity + 1 of the messages sent.
THEOREM BackPressure == Spec => []SendWaitsForPredecessors
<1>1. ASSUME Inv, NEW m \in Msgs, m + capacity + 1 < next
      PROVE  Resolved(m) /\ ~(thread = "handling" /\ current = m)
  <2>1. /\ m \in Nat /\ next \in Nat /\ capacity \in Nat /\ Len(queue) \in Nat
        /\ Len(queue) <= capacity
    BY <1>1, ParametersAreNat DEF Inv, TypeOK, Msgs
  <2>2. m + Len(queue) < next /\ m + Len(queue) + 1 # next
    BY <1>1, <2>1
  <2>3. ~(thread = "handling" /\ current = m)
    BY <1>1, <2>2 DEF Inv, QueueInOrder
  <2>4. QED
    BY <1>1, <2>2, <2>3 DEF Inv, MessagesMatch
<1>2. Inv => SendWaitsForPredecessors
  BY <1>1 DEF SendWaitsForPredecessors
<1>3. QED
  BY <1>2, Invariance, PTL

\* Dropping a Worker joins its thread, and loses no message if the handler
\* did not panic.
THEOREM DropIsGraceful == Spec => []DropJoinsAndDrains
<1>1. ASSUME Inv, owner = "dropped", thread = "finished", NEW m \in Msgs
      PROVE  msg[m] \in {"unsent", "fulfilled", "skipped"}
  <2>1. /\ m \in Nat /\ next \in Nat /\ Len(queue) = 0
    BY <1>1, ParametersAreNat DEF Inv, TypeOK, Msgs, ChannelMatches, Ended
  <2>2. m >= next \/ m + Len(queue) < next
    BY <2>1
  <2>3. msg[m] = "unsent" \/ Resolved(m)
    BY <1>1, <2>2 DEF Inv, MessagesMatch
  <2>4. QED
    BY <1>1, <2>3 DEF Inv, MessagesMatch, Resolved
<1>2. Inv /\ owner = "dropped" => Ended
  BY DEF Inv, PanicsMatch
<1>3. Inv => DropJoinsAndDrains
  BY <1>1, <1>2 DEF DropJoinsAndDrains
<1>4. QED
  BY <1>3, Invariance, PTL

\* The panic of a Worker's thread reaches its owner exactly once, and before
\* any panic that send adds.
THEOREM OnePanicReported == Spec => []PanicReportedOnce
<1>1. Inv => PanicReportedOnce
  BY DEF Inv, PanicsMatch, PanicReportedOnce
<1>2. QED
  BY <1>1, Invariance, PTL

\* Without a buffer, no send succeeds once a block() has failed because of the
\* worker's panic: it joins the thread, which passes the panic on.
THEOREM SendPropagates == Spec => UnbufferedSendPropagates
<1>1. ASSUME Inv, CallsMatch, [Next]_vars, capacity = 0, sawPanic,
             owner = "sending"
      PROVE  owner' \in {"sending", "joinSend"}
  <2>1. ~Rendezvous
    BY <1>1 DEF Rendezvous, CallsMatch
  <2>2. ~Enqueue
    BY <1>1 DEF Enqueue, EnqueueUnbounded
  <2>3. CASE Thread \/ UNCHANGED vars
    BY <1>1, <2>3 DEF Thread, Receive, Exit, ExitWithoutDraining,
         HandlerFulfills, HandlerReturns, HandlerPanics, HandlerEnds,
         DropReceiver, ThreadPanicked, vars, ownerVars
  <2>4. CASE InCall
    BY <1>1, <2>1, <2>2, <2>4 DEF InCall, SendFails, Rejected, JoinInSend,
         JoinInDrop, BlockReturns
  <2>5. CASE User
    BY <1>1, <2>5 DEF User, Send, Drop, PanicOrCatch, CallBlock
  <2>6. QED
    BY <1>1, <2>3, <2>4, <2>5 DEF Next
<1>2. Inv /\ CallsMatch /\ [Next]_vars =>
        [capacity = 0 /\ sawPanic /\ owner = "sending" =>
           owner' \in {"sending", "joinSend"}]_vars
  BY <1>1
<1>3. QED
  BY <1>2, Invariance, CallsAlways, PTL DEF Spec, UnbufferedSendPropagates

-----------------------------------------------------------------------------
\* The thread waits for the owner, or does not run any more.
ThreadIsIdle == Ended \/ (thread = "recv" /\ queue = <<>> /\ sender)

\* The owner and the thread never wait for each other: when the thread can do
\* nothing by itself, the channel takes the message of send or is disconnected,
\* the promise of block is resolved, and join returns.
NobodyHangs ==
  ThreadIsIdle =>
    /\ owner = "sending" =>
         \/ ~receiver
         \/ capacity = 0 /\ thread = "recv"
         \/ capacity > 0 /\ Len(queue) < capacity
    /\ owner = "blocked" => Resolved(awaited)
    /\ owner \in {"joinSend", "joinDrop"} => CanJoin

\* How many steps the thread has left, at most.
WorkLeft ==
  5 * Len(queue) +
    CASE thread = "handling" -> IF msg[current] = "running" THEN 4 ELSE 3
      [] thread = "recv" -> 1
      [] thread = "unwinding" -> IF receiver THEN 2 ELSE 1
      [] OTHER -> 0

\* Every step of the thread leaves it less to do, and only a send that
\* succeeds gives it more.
WorkRunsOut ==
  [][/\ Thread => WorkLeft' < WorkLeft
     /\ WorkLeft' > WorkLeft => owner = "sending" /\ owner' = "idle"]_vars

\* No deadlock between a Worker and its owner, for any capacity: in particular
\* drop and send join a thread only when nothing keeps it in the channel.
THEOREM NoDeadlock == Spec => []NobodyHangs
<1>1. ASSUME Inv, CallsMatch, ThreadIsIdle
      PROVE  queue = <<>> /\ Len(queue) = 0 /\ thread # "handling"
  BY <1>1 DEF Inv, ChannelMatches, ThreadIsIdle, Ended
<1>2. ASSUME Inv, CallsMatch, ThreadIsIdle, owner = "sending", receiver
      PROVE  \/ capacity = 0 /\ thread = "recv"
             \/ capacity > 0 /\ Len(queue) < capacity
  <2>1. thread = "recv" /\ Len(queue) = 0
    BY <1>1, <1>2 DEF Inv, ChannelMatches, ThreadIsIdle
  <2>2. capacity \in Nat
    BY <1>2, ParametersAreNat DEF Inv, TypeOK
  <2>3. QED
    BY <2>1, <2>2
<1>3. ASSUME Inv, CallsMatch, ThreadIsIdle, owner = "blocked"
      PROVE  Resolved(awaited)
  <2>1. awaited \in Msgs /\ awaited \in Nat /\ awaited + Len(queue) < next
    BY <1>1, <1>3, ParametersAreNat DEF CallsMatch, Msgs
  <2>2. QED
    BY <1>1, <1>3, <2>1 DEF Inv, MessagesMatch
<1>4. ASSUME Inv, CallsMatch, ThreadIsIdle, owner \in {"joinSend", "joinDrop"}
      PROVE  CanJoin
  BY <1>4 DEF Inv, ChannelMatches, CallsMatch, ThreadIsIdle, CanJoin
<1>5. Inv /\ CallsMatch => NobodyHangs
  BY <1>2, <1>3, <1>4 DEF NobodyHangs
<1>6. QED
  BY <1>5, Invariance, CallsAlways, PTL

\* What keeps CallsReturn and PromisesResolve from being proved is fairness
\* alone: the thread never runs for ever without a new message, provided its
\* handler ends.
THEOREM ThreadRunsOut == Spec => WorkRunsOut
<1>1. Inv => WorkLeft \in Nat
  <2>1. Inv => Len(queue) \in Nat
    BY DEF Inv, TypeOK
  <2>2. QED
    BY <2>1 DEF WorkLeft
<1>2. Inv' => WorkLeft' \in Nat
  <2>1. Inv' => Len(queue') \in Nat
    BY DEF Inv, TypeOK
  <2>2. QED
    BY <2>1 DEF WorkLeft
<1>3. ASSUME Inv, Thread
      PROVE  WorkLeft' < WorkLeft
  <2>1. Len(queue) \in Nat /\ queue \in Seq(Msgs)
    BY <1>3 DEF Inv, TypeOK
  <2>2. CASE Receive
    <3>1. /\ thread = "recv" /\ thread' = "handling" /\ queue # <<>>
          /\ queue' = Tail(queue)
      BY <2>2 DEF Receive, StartHandling
    <3>2. Len(queue') = Len(queue) - 1
      BY <2>1, <3>1, TailFacts
    <3>3. QED
      BY <2>1, <3>1, <3>2 DEF WorkLeft
  <2>3. CASE Exit
    BY <2>1, <2>3 DEF Exit, ExitWithoutDraining, WorkLeft
  <2>4. CASE HandlerFulfills
    <3>1. /\ thread = "handling" /\ thread' = "handling"
          /\ msg[current] = "running" /\ current \in Msgs
          /\ current' = current /\ queue' = queue
          /\ msg' = [msg EXCEPT ![current] = "fulfilled"]
      BY <1>3, <2>4 DEF HandlerFulfills, worker, Inv, QueueInOrder
    <3>2. msg'[current'] = "fulfilled"
      BY <1>3, <3>1 DEF Inv, TypeOK
    <3>3. QED
      BY <2>1, <3>1, <3>2 DEF WorkLeft
  <2>5. CASE HandlerReturns \/ HandlerPanics
    BY <2>1, <2>5 DEF HandlerReturns, HandlerPanics, HandlerEnds, WorkLeft
  <2>6. CASE DropReceiver
    <3>1. /\ thread = "unwinding" /\ thread' = "unwinding"
          /\ receiver /\ ~receiver' /\ Len(queue') = 0
      BY <2>6 DEF DropReceiver, DiscardQueue, worker
    <3>2. QED
      BY <2>1, <3>1 DEF WorkLeft
  <2>7. CASE ThreadPanicked
    BY <2>1, <2>7 DEF ThreadPanicked, channel, WorkLeft
  <2>8. QED
    BY <1>3, <2>2, <2>3, <2>4, <2>5, <2>6, <2>7 DEF Thread
<1>4. ASSUME Inv, [Next]_vars, ~Thread,
             ~(owner = "sending" /\ owner' = "idle")
      PROVE  WorkLeft' <= WorkLeft
  <2>1. Len(queue) \in Nat
    BY <1>4 DEF Inv, TypeOK
  <2>2. ~Rendezvous /\ ~Enqueue
    BY <1>4 DEF Rendezvous, Enqueue, EnqueueUnbounded, Accepted
  <2>3. /\ UNCHANGED <<queue, receiver, thread, current>>
        /\ msg' = msg \/ msg' = [msg EXCEPT ![next] = "dropped"]
    BY <1>4, <2>2 DEF Next, InCall, User, SendFails, Rejected, JoinInSend,
         JoinInDrop, BlockReturns, Send, Drop, PanicOrCatch, CallBlock, vars,
         channel, worker
  <2>4. thread = "handling" /\ msg'[current] = "running" =>
          msg[current] = "running"
    BY <1>4, <2>3 DEF Inv, TypeOK, QueueInOrder
  <2>5. QED
    BY <2>1, <2>3, <2>4 DEF WorkLeft
<1>5. ASSUME Inv, [Next]_vars
      PROVE  /\ Thread => WorkLeft' < WorkLeft
             /\ WorkLeft' > WorkLeft => owner = "sending" /\ owner' = "idle"
  <2>1. WorkLeft \in Nat /\ WorkLeft' \in Nat
    BY <1>1, <1>2, <1>5, InvNext
  <2>2. QED
    BY <1>3, <1>4, <1>5, <2>1
<1>6. Inv /\ [Next]_vars =>
        [/\ Thread => WorkLeft' < WorkLeft
         /\ WorkLeft' > WorkLeft => owner = "sending" /\ owner' = "idle"]_vars
  BY <1>5
<1>7. QED
  BY <1>6, Invariance, PTL DEF Spec, WorkRunsOut

-----------------------------------------------------------------------------
\* A new Worker is a pipeline with nothing in it.
LEMMA PipeInit == Init => Pipe!Init
BY DEF Init, Pipe!Init

\* The thread: a handler that returns has processed a message, one that panics
\* breaks the pipeline, and the loop ends when nothing is left.
LEMMA PipeThreadStep == Inv /\ CallsMatch /\ Thread => [Pipe!Next]_(Pipe!vars)
<1> SUFFICES ASSUME Inv, CallsMatch, Thread PROVE [Pipe!Next]_(Pipe!vars)
  OBVIOUS
<1>1. /\ capacity' = capacity /\ next' = next /\ sender' = sender
      /\ owner' = owner
  BY DEF Thread, Receive, Exit, ExitWithoutDraining, HandlerFulfills,
         HandlerReturns, HandlerPanics, HandlerEnds, DropReceiver,
         ThreadPanicked, ownerVars
<1>2. next \in Nat /\ current \in Nat /\ Len(queue) \in Nat
  BY ParametersAreNat DEF Inv, TypeOK
<1>3. CASE Receive
  <2>1. /\ thread = "recv" /\ thread' = "handling" /\ queue # <<>>
        /\ current' = Head(queue)
    BY <1>3 DEF Receive, StartHandling
  <2>2. /\ Head(queue) = queue[1] /\ 1 \in 1..Len(queue)
        /\ queue[1] \in Nat
    BY <2>1, TailFacts, ParametersAreNat DEF Inv, TypeOK, Msgs
  <2>3. queue[1] + Len(queue) + 1 = next + 1 /\ current + Len(queue) + 1 = next
    BY <2>1, <2>2 DEF Inv, QueueInOrder, CallsMatch
  <2>4. current' - 1 = current
    BY <1>2, <2>1, <2>2, <2>3
  <2>5. QED
    BY <1>1, <2>1, <2>4 DEF Pipe!vars
<1>4. CASE HandlerFulfills \/ DropReceiver
  BY <1>1, <1>4 DEF HandlerFulfills, DropReceiver, worker, Pipe!vars
<1>5. CASE ThreadPanicked
  BY <1>1, <1>5 DEF ThreadPanicked, Pipe!vars
<1>6. CASE HandlerReturns \/ HandlerPanics
  <2>1. /\ thread = "handling" /\ current' = current
        /\ \/ HandlerReturns /\ thread' = "recv"
           \/ HandlerPanics /\ thread' = "unwinding"
    BY <1>6 DEF HandlerReturns, HandlerPanics, HandlerEnds
  <2>2. current + Len(queue) + 1 = next
    BY <2>1 DEF Inv, QueueInOrder
  <2>3. current - 1 < next - 1 /\ current = (current - 1) + 1
    BY <1>2, <2>2
  <2>4. CASE HandlerReturns /\ thread' = "recv"
    BY <1>1, <2>1, <2>3, <2>4 DEF Pipe!Next, Pipe!Process
  <2>5. CASE HandlerPanics /\ thread' = "unwinding"
    BY <1>1, <2>1, <2>3, <2>5 DEF Pipe!Next, Pipe!Break
  <2>6. QED
    BY <2>1, <2>4, <2>5
<1>7. CASE Exit
  <2>1. /\ thread = "recv" /\ thread' = "finished" /\ ~sender
        /\ queue = <<>> /\ current' = current
    BY <1>7 DEF Exit, ExitWithoutDraining
  <2>2. current = next - 1
    BY <1>2, <2>1 DEF CallsMatch
  <2>3. QED
    BY <1>1, <2>1, <2>2 DEF Pipe!Next, Pipe!Finish
<1>8. QED
  BY <1>3, <1>4, <1>5, <1>6, <1>7 DEF Thread

\* The owner: every send counts, also one that fails, because it takes a broken
\* pipeline to fail; the channel takes no more than the pipeline may hold.
LEMMA PipeOwnerStep ==
  Inv /\ CallsMatch /\ (InCall \/ User \/ UNCHANGED vars)
    => [Pipe!Next]_(Pipe!vars)
<1> SUFFICES ASSUME Inv, CallsMatch, InCall \/ User \/ UNCHANGED vars
             PROVE  [Pipe!Next]_(Pipe!vars)
  OBVIOUS
<1>1. /\ next \in Nat /\ current \in Nat /\ Len(queue) \in Nat
      /\ capacity \in Nat
  BY ParametersAreNat DEF Inv, TypeOK
<1>2. CASE Rendezvous \/ Enqueue
  <2>1. /\ owner = "sending" /\ owner' = "idle" /\ receiver
        /\ next' = next + 1 /\ sender' = sender /\ capacity' = capacity
    BY <1>2 DEF Rendezvous, Enqueue, EnqueueUnbounded, Accepted
  <2>2. sender
    BY <2>1 DEF Inv, ChannelMatches
  <2>3. CASE Rendezvous
    <3>1. /\ capacity = 0 /\ thread = "recv" /\ thread' = "handling"
          /\ current' = next
      BY <2>3 DEF Rendezvous, StartHandling
    <3>2. Len(queue) = 0
      BY <1>1, <3>1 DEF Inv, TypeOK
    <3>3. next - 1 = current /\ current' - 1 = current
      BY <1>1, <3>1, <3>2 DEF CallsMatch
    <3>4. QED
      BY <1>1, <2>1, <2>2, <3>1, <3>3 DEF Pipe!Next, Pipe!Send
  <2>4. CASE Enqueue
    <3>1. /\ Len(queue) < capacity /\ thread' = thread /\ current' = current
      BY <2>4 DEF Enqueue, EnqueueUnbounded, worker
    <3>2. thread = "recv" => (next - 1) - current <= capacity
      BY <1>1, <3>1 DEF CallsMatch
    <3>3. thread = "handling" => (next - 1) - (current - 1) <= capacity
      BY <1>1, <3>1 DEF Inv, QueueInOrder
    <3>4. thread # "finished"
      BY <2>2 DEF Inv, ChannelMatches
    <3>5. QED
      BY <1>1, <2>1, <2>2, <3>1, <3>2, <3>3, <3>4 DEF Pipe!Next, Pipe!Send
  <2>5. QED
    BY <1>2, <2>3, <2>4
<1>3. CASE SendFails
  <2>1. /\ owner = "sending" /\ owner' = "joinSend" /\ ~receiver
        /\ next' = next + 1 /\ sender' = sender /\ capacity' = capacity
        /\ thread' = thread /\ current' = current
    BY <1>3 DEF SendFails, Rejected, worker
  <2>2. sender /\ thread \in {"unwinding", "panicked"}
    BY <2>1 DEF Inv, ChannelMatches, TypeOK
  <2>3. QED
    BY <1>1, <2>1, <2>2 DEF Pipe!Next, Pipe!Send
<1>4. CASE JoinInDrop
  <2>1. /\ owner = "joinDrop" /\ owner' = "dropped" /\ CanJoin
        /\ UNCHANGED <<capacity, sender, next, thread, current>>
    BY <1>4 DEF JoinInDrop, worker
  <2>2. ~sender /\ Ended
    BY <2>1 DEF CallsMatch, CanJoin, Inv, PanicsMatch
  <2>3. QED
    BY <2>1, <2>2 DEF Ended, Pipe!Next, Pipe!Leave
<1>5. CASE Drop
  <2>1. /\ owner = "idle" /\ owner' = "joinDrop" /\ sender' = FALSE
        /\ UNCHANGED <<capacity, next, thread, current>>
    BY <1>5 DEF Drop, worker
  <2>2. sender
    BY <2>1 DEF Inv, ChannelMatches
  <2>3. QED
    BY <2>1, <2>2 DEF Pipe!Next, Pipe!Close
<1>6. CASE \/ JoinInSend \/ BlockReturns \/ Send \/ PanicOrCatch
           \/ (\E m \in Msgs : CallBlock(m)) \/ UNCHANGED vars
  <2>1. /\ owner # "dropped" \/ owner' = owner
        /\ owner' # "dropped" \/ owner' = owner
        /\ UNCHANGED <<capacity, sender, next, thread, current>>
    BY <1>6 DEF JoinInSend, BlockReturns, Send, PanicOrCatch, CallBlock, vars,
         ownerVars, worker
  <2>2. QED
    BY <2>1 DEF Pipe!vars
<1>7. QED
  BY <1>2, <1>3, <1>4, <1>5, <1>6 DEF InCall, User

\* A Worker is a pipeline: whatever its capacity and whoever panics, messages
\* are handled in the order of the sends, one at a time and once, at most
\* capacity + 1 are under way, and a drop waits for all that were sent.
THEOREM Refinement == Spec => ImplementsPipeline
<1>1. Inv /\ CallsMatch /\ [Next]_vars => [Pipe!Next]_(Pipe!vars)
  BY PipeThreadStep, PipeOwnerStep DEF Next
<1>2. QED
  BY <1>1, PipeInit, Invariance, CallsAlways, PTL
     DEF Spec, ImplementsPipeline, Pipe!Spec
=============================================================================
