----------------------------- MODULE OwnedThread -----------------------------
(***************************************************************************)
(* The threads that do one job: Background (src/src/background.rs) and     *)
(* reader::Reader (src/src/reader.rs).  A Background runs a closure to its *)
(* end.  A Reader runs a handler that reads from a stream, which the owner *)
(* shuts down before it joins the thread.                                  *)
(*                                                                         *)
(* The handler keeps its contract: it blocks nowhere but in a read, and    *)
(* after it was told that nothing more comes it returns, as read_to_end    *)
(* does.  The streams are TcpStream and UnixStream, of which the model     *)
(* has what the thread can tell: data that reaches the local buffer, some  *)
(* time after the peer wrote it.  What shutdown(Read) does to data in the  *)
(* buffer, and to data that comes later, differs between the two and from  *)
(* system to system: both are left open.                                   *)
(* The owner may panic for reasons of its own, end the thread from a       *)
(* destructor while it unwinds, and catch a panic.                         *)
(***************************************************************************)
EXTENDS Naturals

CONSTANT MaxData   \* bound: pieces of data that arrive from the peer

ASSUME DataIsNat == MaxData \in Nat

VARIABLES
  kind,      \* "background" or "reader"
  owner,     \* where the owner is: "idle", "joining", "gone", "aborted"
  call,      \* the call that ends the thread: "stop" (or join), or "drop"
  panicking, \* thread::panicking() in the owning thread
  outcome,   \* what that call has made of the end of the thread
  thread,    \* where the thread is
  result,    \* what the handler returns
  arrived, buffered,   \* pieces of data: ever arrived, not read yet
  closed, shut, broken \* the stream: closed by the peer, shut down by the
                       \* owner, lost by an error

stream    == <<arrived, buffered, closed, shut, broken>>
ownerVars == <<owner, call, panicking, outcome>>
job       == <<thread, result>>
vars == <<kind, ownerVars, job, stream>>

Init ==
  /\ kind \in {"background", "reader"}
  /\ owner = "idle" /\ call = "none" /\ panicking = FALSE /\ outcome = "none"
  /\ thread = "running" /\ result = "none"
  /\ arrived = 0 /\ buffered = 0
  /\ closed = FALSE /\ shut = FALSE /\ broken = FALSE

Ended == thread \in {"finished", "panicked"}

-----------------------------------------------------------------------------
(* The stream and its peer. *)

\* Data that the peer has written arrives.  After the shutdown some systems
\* take it in all the same (TcpStream on Linux), others do not.
Arrive ==
  /\ kind = "reader" /\ arrived < MaxData /\ ~closed /\ ~broken
  /\ arrived' = arrived + 1
  /\ \/ buffered' = buffered + 1
     \/ shut /\ buffered' = buffered
  /\ UNCHANGED <<kind, ownerVars, job, closed, shut, broken>>

\* The end of the peer's data arrives.
Close == /\ kind = "reader" /\ ~closed
         /\ closed' = TRUE
         /\ UNCHANGED <<kind, ownerVars, job, arrived, buffered, shut, broken>>

Break == /\ kind = "reader" /\ ~broken
         /\ broken' = TRUE /\ buffered' = 0
         /\ UNCHANGED <<kind, ownerVars, job, arrived, closed, shut>>

\* self.reader.shutdown().ok(): the error of a broken stream is ignored.  What
\* is in the buffer is still delivered, as the tests rely on, or it is not, as
\* the documentation of the trait says.
Shutdown == /\ shut' = ~broken
            /\ buffered' \in {0, buffered}
            /\ UNCHANGED <<arrived, closed, broken>>

-----------------------------------------------------------------------------
(* The thread. *)

CallRead == /\ kind = "reader" /\ thread = "running"
            /\ thread' = "reading"
            /\ UNCHANGED <<kind, ownerVars, result, stream>>

DataToRead == buffered > 0

ReadData ==
  /\ thread = "reading" /\ DataToRead
  /\ thread' = "running" /\ buffered' = buffered - 1
  /\ UNCHANGED <<kind, ownerVars, result, arrived, closed, shut, broken>>

\* Ok(0) when the stream is shut down or closed, or an error.  The handler
\* cannot tell a shutdown, with data still under way, from the peer's end.
ReadEnds ==
  /\ thread = "reading" /\ buffered = 0 /\ (shut \/ closed \/ broken)
  /\ thread' = "told"
  /\ result' = IF broken THEN "error" ELSE "complete"
  /\ UNCHANGED <<kind, ownerVars, stream>>

HandlerReturns ==
  /\ thread \in {"running", "told"}
  /\ thread' = "finished"
  /\ result' = IF thread = "told" THEN result ELSE "early"
  /\ UNCHANGED <<kind, ownerVars, stream>>

HandlerPanics ==
  /\ thread \in {"running", "told"}
  /\ thread' = "panicked"
  /\ UNCHANGED <<kind, ownerVars, result, stream>>

-----------------------------------------------------------------------------
(* The owner. *)

\* Mistaken variant, not part of Next.
JoinOnly(c) ==
  /\ owner = "idle"
  /\ owner' = "joining" /\ call' = c
  /\ UNCHANGED <<kind, panicking, outcome, job, stream>>

\* Reader::stop, Background::join, and Drop for both: take the handle, and
\* shut down the stream if there is one.
EndThread(c) ==
  /\ owner = "idle"
  /\ owner' = "joining" /\ call' = c
  /\ IF kind = "reader" THEN Shutdown ELSE UNCHANGED stream
  /\ UNCHANGED <<kind, panicking, outcome, job>>

\* Mistaken variant, not part of Next.
AlwaysResumes == TRUE

\* resume_unwind(payload): drop looks at thread::panicking() first.
Resumes == call = "stop" \/ ~panicking

\* thread.join() returns, and so does the call: with the result, which drop
\* discards, or with the panic of the thread.  A panic that leaves a
\* destructor while its thread unwinds aborts the process.
Join ==
  /\ owner = "joining" /\ Ended
  /\ outcome' = CASE thread = "finished" /\ call = "stop" -> "returned"
                  [] thread = "finished" /\ call = "drop" -> "discarded"
                  [] thread = "panicked" /\ Resumes -> "reported"
                  [] thread = "panicked" /\ ~Resumes -> "swallowed"
  /\ owner' = IF outcome' = "reported" /\ panicking THEN "aborted" ELSE "gone"
  /\ panicking' = (panicking \/ outcome' = "reported")
  /\ UNCHANGED <<kind, call, job, stream>>

\* A panic of the owner, or catch_unwind around the code that panicked.
PanicOrCatch ==
  /\ owner = "idle"
  /\ panicking' = ~panicking
  /\ UNCHANGED <<kind, owner, call, outcome, job, stream>>

-----------------------------------------------------------------------------
Peer   == Arrive \/ Close \/ Break
Reads  == CallRead \/ ReadData \/ ReadEnds
Thread == Reads \/ HandlerReturns \/ HandlerPanics
User   == PanicOrCatch \/ \E c \in {"stop", "drop"} : EndThread(c)

Next == Peer \/ Thread \/ Join \/ User

Spec == Init /\ [][Next]_vars

\* A join whose thread has ended returns, and the thread of a Reader runs on
\* while it is not blocked in a read.  A closure in the background need not
\* end, and neither the peer nor the owner has to do anything.
FairSpec == Spec /\ WF_vars(Join) /\ WF_vars(kind = "reader" /\ Thread)

-----------------------------------------------------------------------------
\* Types and the places of both threads.
TypeOK ==
  /\ kind \in {"background", "reader"}
  /\ owner \in {"idle", "joining", "gone", "aborted"}
  /\ call \in {"none", "stop", "drop"} /\ panicking \in BOOLEAN
  /\ outcome \in {"none", "returned", "discarded", "reported", "swallowed"}
  /\ thread \in {"running", "reading", "told", "finished", "panicked"}
  /\ result \in {"none", "early", "complete", "error"}
  /\ closed \in BOOLEAN /\ shut \in BOOLEAN /\ broken \in BOOLEAN
  /\ arrived \in 0..MaxData /\ buffered \in 0..arrived

\* Structured concurrency: no thread outlasts its handle; its panic reaches
\* the owner, and is passed over only by a drop in an owner that unwinds; the
\* result is returned by stop or join.  Dropping never aborts the process.
OwnerLearnsOfEnd ==
  /\ owner \in {"gone", "aborted"} => Ended
  /\ owner = "gone" /\ thread = "panicked" =>
       outcome = "reported" \/ (outcome = "swallowed" /\ call = "drop"
                                                      /\ panicking)
  /\ owner = "gone" /\ thread = "finished" /\ call = "stop" =>
       outcome = "returned" /\ result # "none"
  /\ owner = "aborted" => call = "stop" /\ thread = "panicked"

\* stop, join and drop return: the shutdown ends a read that is in progress
\* and any later one, also when it fails, and no data or peer is needed for
\* it; what still arrives delays it, but not for ever, unless the peer never
\* stops writing.  A Background is waited for as long as it runs.
EndingReturns ==
  owner = "joining" /\ (kind = "reader" \/ Ended)
    ~> owner \in {"gone", "aborted"}
=============================================================================
