------------------------------ MODULE Conveyor ------------------------------
(***************************************************************************)
(* What an IsochronousProcessor promises (src/src/isochronous.rs), without *)
(* saying how: jobs are accepted in the order of time and finish, or are   *)
(* lost, in any order; they are served in the order in which they came,    *)
(* one by one, each of them once.  A job that was lost has no result; the  *)
(* result of every other one keeps the distance of its input to the input  *)
(* before it.                                                              *)
(***************************************************************************)
EXTENDS Naturals, Sequences

CONSTANT Jobs   \* numbered in the order in which they come

VARIABLES now,       \* the time
          accepted,  \* how many jobs were accepted
          submitted, \* [Jobs -> when]
          fate,      \* [Jobs -> "open", "done" or "lost"]
          served,    \* how many jobs were served
          last,      \* when the last result was handed out, or 0
          results    \* the jobs that had a result, with the time of it

vars == <<now, accepted, submitted, fate, served, last, results>>

Init == /\ now = 1 /\ accepted = 0 /\ submitted = [j \in Jobs |-> 0]
        /\ fate = [j \in Jobs |-> "open"]
        /\ served = 0 /\ last = 0 /\ results = <<>>

Tick == now' = now + 1
        /\ UNCHANGED <<accepted, submitted, fate, served, last, results>>

Accept(time) ==
  /\ accepted + 1 \in Jobs /\ time <= now
  /\ accepted > 0 => submitted[accepted] <= time
  /\ accepted' = accepted + 1
  /\ submitted' = [submitted EXCEPT ![accepted + 1] = time]
  /\ UNCHANGED <<now, fate, served, last, results>>

Settle(j, end) ==
  /\ j <= accepted /\ fate[j] = "open"
  /\ fate' = [fate EXCEPT ![j] = end]
  /\ UNCHANGED <<now, accepted, submitted, served, last, results>>

\* The distance that a job keeps to the result before its own.
Pace(j) == IF j = 1 THEN 0 ELSE submitted[j] - submitted[j-1]

Yield ==
  /\ served < accepted /\ fate[served + 1] = "done"
  /\ last = 0 \/ now >= last + Pace(served + 1)
  /\ served' = served + 1 /\ last' = now
  /\ results' = Append(results, [job |-> served + 1, time |-> now])
  /\ UNCHANGED <<now, accepted, submitted, fate>>

Skip ==
  /\ served < accepted /\ fate[served + 1] = "lost"
  /\ served' = served + 1
  /\ UNCHANGED <<now, accepted, submitted, fate, last, results>>

Next == \/ Tick \/ Yield \/ Skip
        \/ \E time \in 1..now : Accept(time)
        \/ \E j \in Jobs, end \in {"done", "lost"} : Settle(j, end)

Spec == Init /\ [][Next]_vars
=============================================================================
