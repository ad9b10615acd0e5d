------------------------------ MODULE Pipeline ------------------------------
(***************************************************************************)
(* What a Worker promises to its owner (src/src/worker.rs), without saying *)
(* how: messages are processed one by one in the order in which they were  *)
(* sent, each of them once, and no more than capacity + 1 of them are      *)
(* under way.  The worker ends when it was closed and has processed all of *)
(* them, or when one of them breaks it; then nothing is processed any      *)
(* more, and messages may go nowhere.  It is gone only when it has ended.  *)
(***************************************************************************)
EXTENDS Naturals

CONSTANT Capacities

VARIABLES capacity, \* of the buffer between the owner and the worker
          sent,     \* how many messages were sent
          done,     \* how many of them were processed
          closed,   \* nothing can be sent any more
          state,    \* of the worker: "running", "finished" or "broken"
          gone      \* the owner has got rid of it

vars == <<capacity, sent, done, closed, state, gone>>

Init == /\ capacity \in Capacities /\ sent = 0 /\ done = 0
        /\ closed = FALSE /\ state = "running" /\ gone = FALSE

Send == /\ ~closed /\ (state = "broken" \/ sent - done <= capacity)
        /\ sent' = sent + 1
        /\ UNCHANGED <<capacity, done, closed, state, gone>>

Process == /\ state = "running" /\ done < sent
           /\ done' = done + 1
           /\ UNCHANGED <<capacity, sent, closed, state, gone>>

Break == /\ state = "running" /\ done < sent
         /\ state' = "broken"
         /\ UNCHANGED <<capacity, sent, done, closed, gone>>

Close == /\ ~closed /\ closed' = TRUE
         /\ UNCHANGED <<capacity, sent, done, state, gone>>

Finish == /\ state = "running" /\ closed /\ done = sent
          /\ state' = "finished"
          /\ UNCHANGED <<capacity, sent, done, closed, gone>>

Leave == /\ closed /\ state # "running" /\ ~gone
         /\ gone' = TRUE
         /\ UNCHANGED <<capacity, sent, done, closed, state>>

Next == Send \/ Process \/ Break \/ Close \/ Finish \/ Leave

Spec == Init /\ [][Next]_vars
=============================================================================
