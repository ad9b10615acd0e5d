-------------------------------- MODULE Watch --------------------------------
(***************************************************************************)
(* What a reactive::Value promises to its Readers (src/src/reactive.rs),   *)
(* without saying how: a register whose versions are published until it is *)
(* closed.  Every Reader may skip versions, but what it reads is the       *)
(* newest, it reads no version twice, and it is told of the end only when  *)
(* it has read the last one.  The end is final.                            *)
(***************************************************************************)
EXTENDS Naturals

CONSTANT Readers

VARIABLES version,  \* the number of the newest version
          closed,   \* nobody can publish any more
          users,    \* the Readers that exist
          last,     \* [Readers -> the version read last]
          told      \* the Readers that were told of the end

vars == <<version, closed, users, last, told>>

Init == /\ version = 0 /\ closed = FALSE /\ users = {}
        /\ last = [r \in Readers |-> 0] /\ told = {}

Publish == /\ ~closed /\ version' = version + 1
           /\ UNCHANGED <<closed, users, last, told>>

Close == /\ ~closed /\ closed' = TRUE
         /\ UNCHANGED <<version, users, last, told>>

\* A new Reader starts with the present version.
Join(r) == /\ ~closed /\ r \notin users
           /\ users' = users \cup {r} /\ told' = told \ {r}
           /\ last' = [last EXCEPT ![r] = version]
           /\ UNCHANGED <<version, closed>>

\* A cloned one has read what the original has.
Fork(r, q) == /\ r \in users /\ q \notin users
              /\ users' = users \cup {q}
              /\ told' = IF r \in told THEN told \cup {q} ELSE told \ {q}
              /\ last' = [last EXCEPT ![q] = last[r]]
              /\ UNCHANGED <<version, closed>>

Leave(r) == /\ r \in users /\ users' = users \ {r}
            /\ UNCHANGED <<version, closed, last, told>>

Read(r) == /\ r \in users /\ last[r] # version
           /\ last' = [last EXCEPT ![r] = version]
           /\ UNCHANGED <<version, closed, users, told>>

Disconnect(r) == /\ r \in users /\ closed /\ last[r] = version
                 /\ told' = told \cup {r}
                 /\ UNCHANGED <<version, closed, users, last>>

Next == \/ Publish \/ Close
        \/ \E r \in Readers : \/ Join(r) \/ Leave(r) \/ Read(r) \/ Disconnect(r)
                              \/ \E q \in Readers : Fork(r, q)

Spec == Init /\ [][Next]_vars
=============================================================================
