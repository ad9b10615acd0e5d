------------------------------- MODULE Worker -------------------------------
(***************************************************************************)
(* A Worker (src/src/worker.rs): an owner feeds messages to one background *)
(* thread through a bounded channel and joins the thread when the Worker   *)
(* is dropped or a send fails.  Every message carries a Promise, abstracted*)
(* to its resolution (OneShot).                                            *)
(*                                                                         *)
(* The owner may panic for reasons of its own, call send from a destructor *)
(* while it unwinds, and catch a panic and go on using the Worker; the     *)
(* handler may panic on any message.                                       *)
(***************************************************************************)
EXTENDS Naturals, Sequences, SequencesExt

CONSTANTS Capacities, \* the values of WorkerBuilder::capacity
          MaxMsgs     \* bound: calls of send

ASSUME ParametersAreNat == Capacities \subseteq Nat /\ MaxMsgs \in Nat

Msgs == 1..MaxMsgs   \* in the order of the calls of send

VARIABLES
  capacity,  \* the capacity the Worker was built with
  sender,    \* Worker::sender is Some
  handle,    \* Worker::handle is Some
  owner,     \* where the owning thread is
  panicking, \* thread::panicking() in the owning thread
  next,      \* the message of the current or next send
  held,      \* messages whose PromiseHandle the owner still has
  awaited,   \* the message whose handle the owner blocks on
  queue,     \* the buffer of the channel
  receiver,  \* the Receiver has not been dropped
  thread,    \* where the worker thread is
  current,   \* the message given to the handler last
  msg,       \* [Msgs -> state of the message and of its promise]
  reported,  \* history: times the payload of the worker's panic was resumed
  swallowed, \* history: it was ignored because the owner was panicking
  sawPanic,  \* history: a block() failed because the worker's panic dropped
             \*          the promise
  extra      \* history: unreachable!("should have propagated panic") ran

channel == <<queue, receiver, msg>>
worker  == <<thread, current>>
ownerVars ==
  <<capacity, sender, handle, owner, panicking, next, held, awaited>>
history == <<reported, swallowed, sawPanic, extra>>
vars == <<ownerVars, channel, worker, history>>

Init ==
  /\ capacity \in Capacities
  /\ sender = TRUE /\ handle = TRUE /\ owner = "idle" /\ panicking = FALSE
  /\ next = 1 /\ held = {} /\ awaited = 0
  /\ queue = <<>> /\ receiver = TRUE /\ thread = "recv" /\ current = 0
  /\ msg = [m \in Msgs |-> "unsent"]
  /\ reported = 0 /\ swallowed = FALSE /\ sawPanic = FALSE /\ extra = FALSE

Ended == thread \in {"finished", "panicked"}
Resolved(m) == msg[m] \in {"fulfilled", "skipped", "dropped"}

-----------------------------------------------------------------------------
(* The worker thread. *)

StartHandling(m) == thread' = "handling" /\ current' = m

\* Mistaken variant, not part of Next.
ReceiveNewest ==
  /\ thread = "recv" /\ queue # <<>>
  /\ StartHandling(Last(queue))
  /\ queue' = Front(queue)
  /\ msg' = [msg EXCEPT ![Last(queue)] = "running"]
  /\ UNCHANGED <<ownerVars, receiver, history>>

\* The next iteration of `for message in recv`.
Receive ==
  /\ thread = "recv" /\ queue # <<>>
  /\ StartHandling(Head(queue))
  /\ queue' = Tail(queue)
  /\ msg' = [msg EXCEPT ![Head(queue)] = "running"]
  /\ UNCHANGED <<ownerVars, receiver, history>>

\* The channel is disconnected and empty: the loop ends, then the thread.
ExitWithoutDraining ==
  /\ thread = "recv" /\ ~sender
  /\ thread' = "finished" /\ receiver' = FALSE
  /\ UNCHANGED <<ownerVars, queue, msg, current, history>>

Exit == queue = <<>> /\ ExitWithoutDraining

\* The handler is the user's: it may fulfill the promise, and it returns or
\* panics, which drops a promise that it has not fulfilled.
HandlerFulfills ==
  /\ thread = "handling" /\ msg[current] = "running"
  /\ msg' = [msg EXCEPT ![current] = "fulfilled"]
  /\ UNCHANGED <<ownerVars, queue, receiver, worker, history>>

HandlerEnds(where, fate) ==
  /\ thread = "handling"
  /\ thread' = where
  /\ msg' = [msg EXCEPT ![current] = IF @ = "running" THEN fate ELSE @]
  /\ UNCHANGED <<ownerVars, queue, receiver, current, history>>

HandlerReturns == HandlerEnds("recv", "skipped")
HandlerPanics  == HandlerEnds("unwinding", "dropped")

\* Mistaken variant, not part of Next.
LeakQueue == UNCHANGED <<queue, msg>>

\* Unwinding leaves the handler first; the Receiver in the frame of the loop
\* is dropped after that, with the messages that are still in the channel.
DiscardQueue ==
  /\ queue' = <<>>
  /\ msg' = [m \in Msgs |-> IF m \in ToSet(queue) THEN "dropped" ELSE msg[m]]

DropReceiver ==
  /\ thread = "unwinding" /\ receiver
  /\ receiver' = FALSE /\ DiscardQueue
  /\ UNCHANGED <<ownerVars, worker, history>>

ThreadPanicked ==
  /\ thread = "unwinding" /\ ~receiver
  /\ thread' = "panicked"
  /\ UNCHANGED <<ownerVars, channel, current, history>>

-----------------------------------------------------------------------------
(* Worker::send. *)

Send ==
  /\ owner = "idle" /\ next \in Msgs
  /\ owner' = "sending"
  /\ UNCHANGED <<capacity, sender, handle, panicking, next, held, awaited,
                 channel, worker, history>>

Accepted(state) ==
  /\ owner = "sending" /\ receiver
  /\ owner' = "idle" /\ next' = next + 1 /\ held' = held \cup {next}
  /\ msg' = [msg EXCEPT ![next] = state]

\* Mistaken variant, not part of Next.
RendezvousUnchecked ==
  /\ capacity = 0 /\ thread \in {"recv", "handling"}
  /\ Accepted("running") /\ StartHandling(next)
  /\ UNCHANGED <<capacity, sender, handle, panicking, awaited, queue, receiver,
                 history>>

\* Without a buffer the channel hands the message to a thread that waits.
Rendezvous ==
  /\ capacity = 0 /\ thread = "recv"
  /\ Accepted("running") /\ StartHandling(next)
  /\ UNCHANGED <<capacity, sender, handle, panicking, awaited, queue, receiver,
                 history>>

EnqueueUnbounded ==
  /\ capacity > 0
  /\ Accepted("queued")
  /\ queue' = Append(queue, next)
  /\ UNCHANGED <<capacity, sender, handle, panicking, awaited, receiver,
                 worker, history>>

Enqueue == Len(queue) < capacity /\ EnqueueUnbounded

\* SendError: the message is dropped and the owner joins the thread.
Rejected(where) ==
  /\ owner = "sending" /\ ~receiver
  /\ owner' = where /\ next' = next + 1
  /\ msg' = [msg EXCEPT ![next] = "dropped"]
  /\ UNCHANGED <<capacity, sender, handle, panicking, held, awaited,
                 queue, receiver, worker, history>>

\* Mistaken variant, not part of Next.
SendErrorIgnored == Rejected("idle")

SendFails == Rejected("joinSend")

-----------------------------------------------------------------------------
(* Worker::wait_for_exit, from send and from Drop. *)

\* Mistaken variant, not part of Next.
KeepHandle == UNCHANGED handle

TakeHandle == handle' = FALSE

\* join() returns when the thread has ended.
CanJoin == handle => Ended

\* handle.take() found a thread and join() returned its panic payload.
JoinedPanic == handle /\ thread = "panicked"

\* resume_unwind(payload), unless this thread is panicking already.
Report ==
  /\ reported'  = IF JoinedPanic /\ ~panicking THEN reported + 1 ELSE reported
  /\ swallowed' = (swallowed \/ (JoinedPanic /\ panicking))
  /\ UNCHANGED sawPanic

\* When wait_for_exit returns to send, unreachable!() panics: an ordinary
\* panic if the thread was not panicking, an abort of the process if it was.
JoinInSend ==
  /\ owner = "joinSend" /\ CanJoin
  /\ TakeHandle /\ Report
  /\ panicking' = TRUE
  /\ owner' = IF panicking THEN "aborted" ELSE "idle"
  /\ extra' = (extra \/ panicking \/ ~JoinedPanic)
  /\ UNCHANGED <<capacity, sender, next, held, awaited, channel, worker>>

\* Mistaken variant, not part of Next.
DropKeepsSender ==
  /\ owner = "idle"
  /\ owner' = "joinDrop"
  /\ UNCHANGED <<capacity, sender, handle, panicking, next, held, awaited,
                 channel, worker, history>>

\* Drop for Worker: drop(self.sender.take()), then wait_for_exit.
Drop ==
  /\ owner = "idle"
  /\ owner' = "joinDrop" /\ sender' = FALSE
  /\ UNCHANGED <<capacity, handle, panicking, next, held, awaited,
                 channel, worker, history>>

JoinInDrop ==
  /\ owner = "joinDrop" /\ CanJoin
  /\ TakeHandle /\ Report
  /\ panicking' = (panicking \/ JoinedPanic)
  /\ owner' = "dropped"
  /\ UNCHANGED <<capacity, sender, next, held, awaited, channel, worker,
                 extra>>

-----------------------------------------------------------------------------
(* The owner's own code. *)

\* PromiseHandle::block on the promise of message m.
CallBlock(m) ==
  /\ owner = "idle" /\ m \in held
  /\ owner' = "blocked" /\ awaited' = m /\ held' = held \ {m}
  /\ UNCHANGED <<capacity, sender, handle, panicking, next, channel, worker,
                 history>>

BlockReturns ==
  /\ owner = "blocked" /\ Resolved(awaited)
  /\ owner' = "idle"
  /\ sawPanic' = (sawPanic \/ msg[awaited] = "dropped")
  /\ UNCHANGED <<capacity, sender, handle, panicking, next, held, awaited,
                 channel, worker, reported, swallowed, extra>>

\* A panic of the owner, or catch_unwind around the code that panicked.
PanicOrCatch ==
  /\ owner = "idle"
  /\ panicking' = ~panicking
  /\ UNCHANGED <<capacity, sender, handle, owner, next, held, awaited,
                 channel, worker, history>>

-----------------------------------------------------------------------------
Thread == \/ Receive \/ Exit \/ HandlerFulfills
          \/ HandlerReturns \/ HandlerPanics
          \/ DropReceiver \/ ThreadPanicked
InCall == \/ Rendezvous \/ Enqueue \/ SendFails
          \/ JoinInSend \/ JoinInDrop \/ BlockReturns
User == \/ Send \/ Drop \/ PanicOrCatch
        \/ \E m \in Msgs : CallBlock(m)

Next == Thread \/ InCall \/ User

Spec == Init /\ [][Next]_vars

\* The scheduler runs both threads, and handlers terminate (HandlerFulfills
\* is disabled by itself, so Thread cannot go on without ending the handler).
\* Nobody has to send, drop or wait.
FairSpec == Spec /\ WF_vars(Thread) /\ WF_vars(InCall)

-----------------------------------------------------------------------------
MsgStates == {"unsent", "queued", "running", "fulfilled", "skipped", "dropped"}

\* Types; the channel never holds more than its capacity.
TypeOK ==
  /\ capacity \in Capacities
  /\ sender \in BOOLEAN /\ handle \in BOOLEAN /\ panicking \in BOOLEAN
  /\ owner \in {"idle", "sending", "blocked", "joinSend", "joinDrop",
                "dropped", "aborted"}
  /\ next \in 1..(MaxMsgs + 1) /\ held \subseteq Msgs /\ awaited \in 0..MaxMsgs
  /\ queue \in Seq(Msgs) /\ Len(queue) <= capacity /\ receiver \in BOOLEAN
  /\ thread \in {"recv", "handling", "unwinding", "panicked", "finished"}
  /\ current \in 0..MaxMsgs /\ msg \in [Msgs -> MsgStates]
  /\ reported \in Nat /\ swallowed \in BOOLEAN
  /\ sawPanic \in BOOLEAN /\ extra \in BOOLEAN

\* Back-pressure (documentation of WorkerBuilder::capacity): when a send has
\* returned, the worker is done with every message but the last capacity + 1;
\* without a buffer, with everything that precedes the message just sent.
SendWaitsForPredecessors ==
  \A m \in Msgs : m + capacity + 1 < next =>
    Resolved(m) /\ ~(thread = "handling" /\ current = m)

\* Structured concurrency: once the Worker is dropped its thread has ended,
\* and if no handler panicked no accepted message was lost: all of them went
\* through the handler first.
DropJoinsAndDrains ==
  owner = "dropped" =>
    /\ Ended
    /\ thread = "finished" =>
         \A m \in Msgs : msg[m] \in {"unsent", "fulfilled", "skipped"}

\* Messages that were sent are counted from 0; the worker is done with all that
\* precede the one it has in hand.
Pipe == INSTANCE Pipeline WITH
  sent   <- next - 1,
  done   <- IF thread \in {"recv", "finished"} THEN current ELSE current - 1,
  closed <- ~sender,
  state  <- CASE thread \in {"recv", "handling"} -> "running"
              [] thread = "finished" -> "finished"
              [] OTHER -> "broken",
  gone   <- owner = "dropped"

\* The Worker implements the pipeline: whatever its capacity, messages are
\* handled one by one in the order of the sends, none is skipped or handled
\* twice, and none after a panic; a drop waits for what was sent before it.
ImplementsPipeline == Pipe!Spec

\* The panic of the thread reaches the owner exactly once by the time the
\* Worker is gone; it is passed over only if the owner was unwinding when it
\* joined the thread.  unreachable!() in send adds a panic of its own only
\* after that, never before or instead of the worker's.
PanicReportedOnce ==
  /\ reported <= 1
  /\ owner = "dropped" /\ thread = "panicked" =>
       (reported = 1 /\ ~swallowed) \/ (reported = 0 /\ swallowed)
  /\ extra => reported = 1 \/ swallowed

\* Every accepted message gives up its promise in the end, fulfilled or not,
\* also when it is still in the channel when the handler panics.
PromisesResolve ==
  \A m \in Msgs : msg[m] \in {"queued", "running"} ~> Resolved(m)

\* No call of the library hangs: not send when the thread panics meanwhile,
\* not drop, not block.
CallsReturn ==
  owner \in {"sending", "blocked", "joinSend", "joinDrop"}
    ~> owner \in {"idle", "dropped", "aborted"}

\* The documentation of PromiseHandle::block: after block() has failed because
\* the worker panicked, the next attempt to send propagates the panic, so no
\* send succeeds any more.  That holds for a Worker without a buffer, the
\* default; with a buffer, a send between the drop of the message and the drop
\* of the Receiver succeeds and its message is lost.
UnbufferedSendPropagates ==
  [][capacity = 0 /\ sawPanic /\ owner = "sending" =>
       owner' \in {"sending", "joinSend"}]_vars
=============================================================================
