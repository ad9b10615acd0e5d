------------------------------- MODULE Monitor -------------------------------
(***************************************************************************)
(* What the locks of src/src/sync.rs promise to those who share one,       *)
(* without saying how: the contents change at once, and with all the       *)
(* wake-ups that the change calls for; a look at them and the sleep that   *)
(* follows it are one step; a wait ends with a truthful answer, and        *)
(* nothing changes while somebody relies on that answer.  A panic in the   *)
(* middle of a change damages the monitor: the change is made without the  *)
(* wake-ups, and the answers are worth nothing from then on.               *)
(***************************************************************************)
EXTENDS Naturals

CONSTANT Threads

VARIABLES version,  \* how often the contents have changed
          damaged,  \* somebody has panicked while changing them
          waiting,  \* the threads that wait for a change
          asleep,   \* those of them that nothing has woken yet
          seen,     \* [Threads -> the version whose change is waited for]
          told      \* [Threads -> "nothing" or the answer of the last wait: the
                    \*             version is "false" by now, or still true at
                    \*             the "timeout"]

vars == <<version, damaged, waiting, asleep, seen, told>>

Init == /\ version = 0 /\ damaged = FALSE /\ waiting = {} /\ asleep = {}
        /\ seen = [t \in Threads |-> 0] /\ told = [t \in Threads |-> "nothing"]

NobodyRelies == \A t \in Threads : told[t] = "nothing"

Modify == /\ NobodyRelies
          /\ version' = version + 1 /\ asleep' = {}
          /\ UNCHANGED <<damaged, waiting, seen, told>>

\* The answer of the last wait is not relied on any longer.
Forget(t) == /\ t \notin waiting
             /\ told' = [told EXCEPT ![t] = "nothing"]
             /\ seen' = [seen EXCEPT ![t] = 0]

Leave(t) == Forget(t) /\ UNCHANGED <<version, damaged, waiting, asleep>>

\* With or without the change that was being made.
Damage(t) == /\ Forget(t) /\ damaged' = TRUE
             /\ \/ version' = version
                \/ version' = version + 1 /\ NobodyRelies
             /\ UNCHANGED <<waiting, asleep>>

Sleep(t) == /\ t \notin waiting
            /\ waiting' = waiting \cup {t} /\ asleep' = asleep \cup {t}
            /\ seen' = [seen EXCEPT ![t] = version]
            /\ told' = [told EXCEPT ![t] = "nothing"]
            /\ UNCHANGED <<version, damaged>>

Wake(t) == /\ t \in asleep /\ asleep' = asleep \ {t}
           /\ UNCHANGED <<version, damaged, waiting, seen, told>>

\* What is waited for has not come.
SleepOn(t) == /\ t \in waiting /\ seen[t] = version
              /\ asleep' = asleep \cup {t}
              /\ UNCHANGED <<version, damaged, waiting, seen, told>>

\* A wait without a condition gives no answer.
Return(t, answer) ==
  /\ t \in waiting \ asleep /\ waiting' = waiting \ {t}
  /\ answer = "false"   => damaged \/ seen[t] # version
  /\ answer = "timeout" => damaged \/ seen[t] = version
  /\ told' = [told EXCEPT ![t] = answer]
  /\ seen' = [seen EXCEPT ![t] = IF answer = "nothing" THEN 0 ELSE @]
  /\ UNCHANGED <<version, damaged, asleep>>

Next == \/ Modify
        \/ \E t \in Threads :
             \/ Leave(t) \/ Damage(t) \/ Sleep(t) \/ Wake(t) \/ SleepOn(t)
             \/ \E answer \in {"nothing", "false", "timeout"} : Return(t, answer)

Spec == Init /\ [][Next]_vars
=============================================================================
