------------------------------ MODULE OneShot ------------------------------
(***************************************************************************)
(* What a connected Promise / PromiseHandle pair promises to its users     *)
(* (src/src/promise.rs): the producer resolves the slot at most once, with *)
(* a value or by giving up, and the holder of the handle receives exactly  *)
(* that resolution, at most once, unless it abandons the handle.           *)
(***************************************************************************)
CONSTANT Values

VARIABLES slot,    \* "Pending", "Broken" or the value of the resolution
          holder,  \* "open" while the handle exists, then "gone"
          got     \* "None", "PromiseDropped" or the value received

Init == slot = "Pending" /\ holder = "open" /\ got = "None"

Resolve == /\ slot = "Pending"
           /\ slot' \in Values \cup {"Broken"}
           /\ UNCHANGED <<holder, got>>

Deliver == /\ slot # "Pending" /\ holder = "open"
           /\ got' = IF slot = "Broken" THEN "PromiseDropped" ELSE slot
           /\ holder' = "gone"
           /\ UNCHANGED slot

Abandon == /\ holder = "open"
           /\ holder' = "gone"
           /\ UNCHANGED <<slot, got>>

Next == Resolve \/ Deliver \/ Abandon

Spec == Init /\ [][Next]_<<slot, holder, got>>
=============================================================================
