----------------------------- MODULE WorkerSet -----------------------------
(***************************************************************************)
(* A WorkerSet (src/src/worker.rs): Count threads that receive from one    *)
(* channel without a buffer and share a panic flag.  The model starts      *)
(* inside WorkerSetBuilder::spawn, which may fail between two threads.     *)
(*                                                                         *)
(* Messages are not told apart: a thread that is "handling" has one.  The  *)
(* owner is the one of module Worker: it may panic, send while it unwinds, *)
(* and catch a panic and go on.                                            *)
(***************************************************************************)
EXTENDS Integers, FiniteSets

CONSTANT Count       \* the argument of spawn

\* assert_ne!(count, 0)
ASSUME CountIsPositive == Count \in Nat \ {0}

Threads == 1..Count

VARIABLES
  sender,     \* WorkerSet::sender is Some
  handles,    \* the threads in WorkerSet::handles
  free_sends,
  panic_flag,
  owner,      \* where the owning thread is
  panicking,  \* thread::panicking() in the owning thread
  payload,    \* wait_for_exit has joined a thread that panicked
  thread,     \* [Threads -> where the thread is]
  taken,      \* history: threads that have received a message
  reported,   \* history: times a payload was resumed in the owner
  swallowed   \* history: it was ignored because the owner was panicking

history == <<reported, swallowed>>
vars == <<sender, handles, free_sends, panic_flag, owner, panicking, payload,
          thread, taken, history>>

Init ==
  /\ sender = TRUE /\ handles = {} /\ free_sends = 0 /\ panic_flag = FALSE
  /\ owner = "spawning" /\ panicking = FALSE /\ payload = FALSE
  /\ thread = [t \in Threads |-> "none"] /\ taken = {}
  /\ reported = 0 /\ swallowed = FALSE

Ended == {"finished", "panicked"}

\* The thread still has its clone of the Receiver.
Receiving(t) == thread[t] \in {"looping", "recv", "handling", "unwinding"}

\* A thread that received a message and panicked.
Broken(t) == thread[t] \in {"unwinding", "caught", "panicked"}

-----------------------------------------------------------------------------
(* WorkerSetBuilder::spawn. *)

SpawnThread(t) ==
  /\ owner = "spawning" /\ thread[t] = "none"
  /\ \A u \in 1..(t-1) : thread[u] # "none"
  /\ thread' = [thread EXCEPT ![t] = "looping"]
  /\ handles' = handles \cup {t}
  /\ UNCHANGED <<sender, free_sends, panic_flag, owner, panicking, payload,
                 taken, history>>

\* builder.spawn(..)?: the locals are dropped, which detaches the threads.
SpawnFails ==
  /\ owner = "spawning" /\ handles # Threads
  /\ owner' = "failed" /\ sender' = FALSE /\ handles' = {}
  /\ UNCHANGED <<free_sends, panic_flag, panicking, payload, thread, taken,
                 history>>

Spawned ==
  /\ owner = "spawning" /\ handles = Threads
  /\ owner' = "idle" /\ free_sends' = Count
  /\ UNCHANGED <<sender, handles, panic_flag, panicking, payload, thread,
                 taken, history>>

-----------------------------------------------------------------------------
(* A thread of the set. *)

Move(t, from, to) ==
  /\ thread[t] = from
  /\ thread' = [thread EXCEPT ![t] = to]
  /\ UNCHANGED <<sender, handles, free_sends, owner, panicking, payload,
                 taken, history>>

\* The thread starts to wait in the channel, where try_send can see it.
Park(t) == Move(t, "looping", "recv") /\ UNCHANGED panic_flag

\* The channel is disconnected: `for message in recv` ends.
Exit(t) == ~sender /\ Move(t, "recv", "finished") /\ UNCHANGED panic_flag

HandlerReturns(t) == Move(t, "handling", "looping") /\ UNCHANGED panic_flag

\* Unwinding drops the message, then the Receiver; catch_unwind stops it, the
\* flag is set and the thread resumes its panic.
HandlerPanics(t) == Move(t, "handling", "unwinding") /\ UNCHANGED panic_flag
DropReceiver(t)  == Move(t, "unwinding", "caught") /\ UNCHANGED panic_flag

SetFlag(t)       == Move(t, "caught", "panicked") /\ panic_flag' = TRUE

-----------------------------------------------------------------------------
(* WorkerSet::send and WorkerSet::try_send. *)

\* Both read the flag first.  try_send without free sends does not wait.
TryAlways ==
  /\ owner = "idle" /\ ~panic_flag
  /\ owner' = "trying"
  /\ UNCHANGED <<sender, handles, free_sends, panic_flag, panicking, payload,
                 thread, taken, history>>

\* Mistaken variant, not part of Next.
SendUnchecked ==
  /\ owner = "idle"
  /\ owner' = "sending"
  /\ UNCHANGED <<sender, handles, free_sends, panic_flag, panicking, payload,
                 thread, taken, history>>

Send ==
  /\ owner = "idle" /\ ~panic_flag
  /\ owner' = "sending"
  /\ UNCHANGED <<sender, handles, free_sends, panic_flag, panicking, payload,
                 thread, taken, history>>

TrySend == IF free_sends > 0 THEN Send ELSE TryAlways

\* The flag is set: close the channel and join.
FlagSeen ==
  /\ owner = "idle" /\ panic_flag
  /\ owner' = "joinSend" /\ sender' = FALSE
  /\ UNCHANGED <<handles, free_sends, panic_flag, panicking, payload, thread,
                 taken, history>>

\* Mistaken variant, not part of Next.
NeverUsedUp == UNCHANGED free_sends

\* The channel hands the message to a thread that waits for one.
UsedUp == free_sends' = IF free_sends > 0 THEN free_sends - 1 ELSE 0

Handoff(t) ==
  /\ owner \in {"sending", "trying"} /\ thread[t] = "recv"
  /\ owner' = "idle"
  /\ thread' = [thread EXCEPT ![t] = "handling"]
  /\ taken' = taken \cup {t} /\ UsedUp
  /\ UNCHANGED <<sender, handles, panic_flag, panicking, payload, history>>

\* TrySendError::Full.
Full ==
  /\ owner = "trying"
  /\ \E t \in Threads : Receiving(t)
  /\ \A t \in Threads : thread[t] # "recv"
  /\ owner' = "idle"
  /\ UNCHANGED <<sender, handles, free_sends, panic_flag, panicking, payload,
                 thread, taken, history>>

\* All receivers are gone: join, without closing the channel.
Disconnected ==
  /\ owner \in {"sending", "trying"} /\ \A t \in Threads : ~Receiving(t)
  /\ owner' = "joinSend"
  /\ UNCHANGED <<sender, handles, free_sends, panic_flag, panicking, payload,
                 thread, taken, history>>

-----------------------------------------------------------------------------
(* WorkerSet::wait_for_exit, from send, try_send and Drop. *)

Joining == owner \in {"joinSend", "joinDrop"}

\* handles.drain(..): one thread after the other.
JoinAnyway(t) ==
  /\ Joining /\ t \in handles /\ \A u \in handles : t <= u
  /\ handles' = handles \ {t}
  /\ payload' = (payload \/ thread[t] = "panicked")
  /\ UNCHANGED <<sender, free_sends, panic_flag, owner, panicking, thread,
                 taken, history>>

Join(t) == thread[t] \in Ended /\ JoinAnyway(t)

\* Mistaken variant, not part of Next.
ResumeAlways == reported' = IF payload THEN reported + 1 ELSE reported

\* resume_unwind(payload) unless this thread is panicking.  In send and
\* try_send unreachable!() panics if wait_for_exit has returned.
Resume == reported' = IF payload /\ ~panicking THEN reported + 1 ELSE reported

Joined ==
  /\ Joining /\ handles = {}
  /\ Resume /\ swallowed' = (swallowed \/ (payload /\ panicking))
  /\ payload' = FALSE
  /\ panicking' = (panicking \/ payload \/ owner = "joinSend")
  /\ owner' = CASE owner = "joinDrop" -> "dropped"
                [] panicking -> "aborted"
                [] OTHER -> "idle"
  /\ UNCHANGED <<sender, handles, free_sends, panic_flag, thread, taken>>

\* Mistaken variant, not part of Next.
DropKeepsSender ==
  /\ owner = "idle"
  /\ owner' = "joinDrop"
  /\ UNCHANGED <<sender, handles, free_sends, panic_flag, panicking, payload,
                 thread, taken, history>>

Drop ==
  /\ owner = "idle"
  /\ owner' = "joinDrop" /\ sender' = FALSE
  /\ UNCHANGED <<handles, free_sends, panic_flag, panicking, payload, thread,
                 taken, history>>

-----------------------------------------------------------------------------
(* The owner's own code. *)

PanicOrCatch ==
  /\ owner = "idle"
  /\ panicking' = ~panicking
  /\ UNCHANGED <<sender, handles, free_sends, panic_flag, owner, payload,
                 thread, taken, history>>

-----------------------------------------------------------------------------
Handling(t) == HandlerReturns(t) \/ HandlerPanics(t)
Loop(t) == Park(t) \/ Exit(t) \/ DropReceiver(t) \/ SetFlag(t)
Spawning == Spawned \/ \E t \in Threads : SpawnThread(t)
InCall == \/ Full \/ Disconnected \/ Joined
          \/ \E t \in Threads : Handoff(t) \/ Join(t)
User == Send \/ TrySend \/ FlagSeen \/ Drop \/ PanicOrCatch

Next == \/ Spawning \/ SpawnFails \/ InCall \/ User
        \/ \E t \in Threads : Loop(t) \/ Handling(t)

Spec == Init /\ [][Next]_vars

\* The scheduler runs every thread.  Handlers may run for ever.
FairSpec == /\ Spec /\ WF_vars(InCall)
            /\ \A t \in Threads : WF_vars(Loop(t))

-----------------------------------------------------------------------------
\* Types of the fields and the places of the threads.
TypeOK ==
  /\ sender \in BOOLEAN /\ panic_flag \in BOOLEAN /\ panicking \in BOOLEAN
  /\ handles \subseteq Threads /\ taken \subseteq Threads
  /\ free_sends \in 0..Count /\ payload \in BOOLEAN
  /\ owner \in {"spawning", "failed", "idle", "sending", "trying",
                "joinSend", "joinDrop", "dropped", "aborted"}
  /\ thread \in [Threads -> {"none", "looping", "recv", "handling",
                             "unwinding", "caught"} \cup Ended]
  /\ reported \in Nat /\ swallowed \in BOOLEAN

\* The comment in try_send: a free send never waits for a handler, because
\* some thread has not received anything yet and is in or near the channel,
\* whatever has panicked in the meantime.
FreeSendFindsThread ==
  owner = "sending" /\ free_sends > 0 =>
    \E t \in Threads : thread[t] \in {"looping", "recv"} /\ t \notin taken

\* The unwrap() of the sender in send and try_send cannot fail, also when
\* the owner has caught a propagated panic, which took the sender away.
SenderPresent == owner \in {"sending", "trying"} => sender

\* Once the WorkerSet is dropped, or a send has propagated a panic, all its
\* threads have ended.
AllThreadsJoined ==
  owner = "dropped" \/ reported > 0 => \A t \in Threads : thread[t] \in Ended

\* wait_for_exit is not entered while a thread might wait in the channel for
\* ever: send and drop have closed it, or no thread is left that receives,
\* also when the owner has caught a panic of the set and drops it later.
JoinedThreadsCanEnd == Joining /\ sender => \A t \in Threads : ~Receiving(t)

\* The panics of the set reach the owner as one panic by the time the set is
\* gone, passed over only if the owner was unwinding when it joined.
PanicReportedOnce ==
  /\ reported <= 1
  /\ owner = "dropped" /\ (\E t \in Threads : Broken(t)) =>
       (reported = 1 /\ ~swallowed) \/ (reported = 0 /\ swallowed)

\* send, try_send and drop return, also when threads panic meanwhile, unless
\* a handler runs for ever.
CallsReturn ==
  (\A t \in Threads : []<>(thread[t] # "handling")) =>
    (owner \in {"sending", "trying", "joinSend", "joinDrop"}
       ~> owner \in {"idle", "dropped", "aborted"})

\* The crate's documentation: "Every background operation is represented by
\* an owned handle" and none "outlasts its handle", so none is left running
\* by a spawn that has failed.
NoThreadWithoutHandle ==
  owner = "failed" => \A t \in Threads : thread[t] \in Ended \cup {"none"}
=============================================================================
