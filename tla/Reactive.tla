----------------------------- MODULE Reactive ------------------------------
(***************************************************************************)
(* The reactive Value and its Readers (src/src/reactive.rs): any number of *)
(* Value handles change one shared value, any number of Readers poll it,   *)
(* block on it or await it.                                                *)
(*                                                                         *)
(* Everything in ValueInner is only touched with the mutex held and both   *)
(* the wakers and the condition variable are notified before it is         *)
(* released, so a critical section is one action.  The value is abstracted *)
(* to the number of times its contents have changed.                       *)
(***************************************************************************)
EXTENDS Naturals, FiniteSets

CONSTANTS Writers,   \* places for Value handles
          Readers,   \* places for Reader handles
          MaxGen     \* bound: changes of the value, and generations

Blocking == {"block", "block_until_changed"}
Async    == {"wait", "has_changed_signal"}
Reading  == {"block", "wait"}            \* methods that take &mut self

ASSUME WritersAreNotMethods ==
  Writers \cap ({"none", "idle"} \cup Blocking \cup Async) = {}
ASSUME BoundIsNat == MaxGen \in Nat
ASSUME FiniteHandles == IsFiniteSet(Writers) /\ IsFiniteSet(Readers)

VARIABLES
  value,             \* times the contents have changed
  generation,
  wakers,            \* Readers whose task has a waker in ValueInner::wakers
  writers,           \* the Value handles that exist
  writer_count, reader_count,
  op,                \* [Readers -> "none", "idle", the method in progress, or
                     \*  the Value whose reader() is creating the Reader]
  timed,             \* Readers whose blocking method has a timeout
  asleep,            \* Readers parked in the condvar or pending as a future
  read_gen,          \* Reader::read_gen
  read_disconnected, \* Readers with Reader::read_disconnected
  seen,              \* history: [Readers -> contents last seen]
  published          \* history: contents at the last new generation

shared  == <<value, generation, published>>
counts  == <<writers, writer_count, reader_count>>
waiting == <<wakers, asleep>>
memory  == <<read_gen, read_disconnected, seen>>
vars == <<shared, counts, waiting, memory, op, timed>>

Init ==
  /\ value = 0 /\ generation = 0 /\ published = 0
  /\ \E w \in Writers : writers = {w}
  /\ writer_count = 1 /\ reader_count = 0
  /\ wakers = {} /\ asleep = {} /\ timed = {}
  /\ op = [r \in Readers |-> "none"]
  /\ read_gen = [r \in Readers |-> 0] /\ read_disconnected = {}
  /\ seen = [r \in Readers |-> 0]

disconnected == writer_count = 0
Unread(r) == generation # read_gen[r]

\* Reader::has_changed.
has_changed(r) == Unread(r) \/ disconnected # (r \in read_disconnected)

\* What each method waits for.
Ready(r) == IF op[r] \in Reading THEN Unread(r) \/ disconnected
                                 ELSE has_changed(r)

-----------------------------------------------------------------------------
(* Value. *)

\* Clone, drop and mutate need a Value that no call borrows; reader() borrows
\* it shared, which excludes dropping and mutating it.
Unborrowed(w) == w \in writers /\ \A r \in Readers : op[r] # w

\* Mistaken variant, not part of Next.
WakeTasksOnly == wakers' = {} /\ asleep' = asleep \ wakers

\* wakers.drain(..).for_each(Waker::wake) and condvar.notify_all().
WakeReaders == /\ wakers' = {}
               /\ asleep' = {r \in asleep \ wakers : op[r] \notin Blocking}

\* mutate: the closure has changed the contents, or has only marked them.
Publish(w, contents) ==
  /\ Unborrowed(w) /\ generation < MaxGen
  /\ value' = contents /\ published' = contents
  /\ generation' = generation + 1
  /\ WakeReaders
  /\ UNCHANGED <<counts, memory, op, timed>>

set(w) == value < MaxGen /\ Publish(w, value + 1)
MarkChanged(w) == Publish(w, value)

\* mutate: the contents have changed, but `changed` is false at the end
\* because the closure has used Mut::set_changed, or the closure panicked
\* inside the critical section of a mutex that does not poison.
ChangeSilently(w) ==
  /\ Unborrowed(w) /\ value < MaxGen
  /\ value' = value + 1
  /\ UNCHANGED <<generation, published, counts, waiting, memory, op, timed>>

CloneValue(w, v) ==
  /\ w \in writers /\ v \notin writers
  /\ writers' = writers \cup {v} /\ writer_count' = writer_count + 1
  /\ UNCHANGED <<shared, reader_count, waiting, memory, op, timed>>

\* Mistaken variant, not part of Next.
DropSilently(w) ==
  /\ Unborrowed(w)
  /\ writers' = writers \ {w} /\ writer_count' = writer_count - 1
  /\ UNCHANGED <<shared, reader_count, waiting, memory, op, timed>>

DropValue(w) ==
  /\ Unborrowed(w)
  /\ writers' = writers \ {w} /\ writer_count' = writer_count - 1
  /\ WakeReaders
  /\ UNCHANGED <<shared, reader_count, memory, op, timed>>

-----------------------------------------------------------------------------
(* Readers come and go. *)

\* Mistaken variant, not part of Next.
ReaderUncounted(w, r) ==
  /\ w \in writers /\ op[r] = "none"
  /\ op' = [op EXCEPT ![r] = w]
  /\ UNCHANGED <<shared, counts, waiting, memory, timed>>

\* Value::reader counts the Reader before it waits for the mutex.
reader(w, r) ==
  /\ w \in writers /\ op[r] = "none"
  /\ reader_count' = reader_count + 1
  /\ op' = [op EXCEPT ![r] = w]
  /\ UNCHANGED <<shared, writers, writer_count, waiting, memory, timed>>

ReaderCreated(r) ==
  /\ op[r] \in Writers
  /\ op' = [op EXCEPT ![r] = "idle"]
  /\ read_gen' = [read_gen EXCEPT ![r] = generation]
  /\ read_disconnected' = read_disconnected \ {r}
  /\ seen' = [seen EXCEPT ![r] = value]
  /\ UNCHANGED <<shared, counts, waiting, timed>>

\* Mistaken variant, not part of Next.
FreshGen(r) == generation

\* Clone needs &self: not while a method has the Reader as &mut self.
CopiedGen(r) == read_gen[r]

CloneReader(r, q) ==
  /\ op[r] \in {"idle", "block_until_changed", "has_changed_signal"}
  /\ op[q] = "none"
  /\ reader_count' = reader_count + 1
  /\ op' = [op EXCEPT ![q] = "idle"]
  /\ read_gen' = [read_gen EXCEPT ![q] = CopiedGen(r)]
  /\ read_disconnected' = IF r \in read_disconnected
                          THEN read_disconnected \cup {q}
                          ELSE read_disconnected \ {q}
  /\ seen' = [seen EXCEPT ![q] = seen[r]]
  /\ UNCHANGED <<shared, writers, writer_count, waiting, timed>>

DropReader(r) ==
  /\ op[r] = "idle"
  /\ op' = [op EXCEPT ![r] = "none"]
  /\ reader_count' = reader_count - 1
  /\ UNCHANGED <<shared, writers, writer_count, waiting, memory, timed>>

-----------------------------------------------------------------------------
(* Methods of Reader. *)

\* Mistaken variant, not part of Next.
DisconnectedFirst(r) ==
  \/ /\ disconnected
     /\ read_disconnected' = read_disconnected \cup {r}
     /\ UNCHANGED <<read_gen, seen>>
  \/ /\ ~disconnected /\ Unread(r)
     /\ read_gen' = [read_gen EXCEPT ![r] = generation]
     /\ seen' = [seen EXCEPT ![r] = value]
     /\ UNCHANGED read_disconnected

\* The common part of with, block_impl and wait: a value that was not read
\* yet comes first, even if there is no Value any more.
Deliver(r) ==
  \/ /\ Unread(r)
     /\ read_gen' = [read_gen EXCEPT ![r] = generation]
     /\ seen' = [seen EXCEPT ![r] = value]
     /\ UNCHANGED read_disconnected
  \/ /\ ~Unread(r) /\ disconnected
     /\ read_disconnected' = read_disconnected \cup {r}
     /\ UNCHANGED <<read_gen, seen>>

\* get and with: deliver, or else the old value again.
with(r) ==
  /\ op[r] = "idle"
  /\ \/ Deliver(r)
     \/ /\ ~Unread(r) /\ ~disconnected
        /\ seen' = [seen EXCEPT ![r] = value]
        /\ UNCHANGED <<read_gen, read_disconnected>>
  /\ UNCHANGED <<shared, counts, waiting, op, timed>>

Call(r, method, withTimeout) ==
  /\ op[r] = "idle" /\ (withTimeout => method \in Blocking)
  /\ op' = [op EXCEPT ![r] = method]
  /\ timed' = IF withTimeout THEN timed \cup {r} ELSE timed
  /\ UNCHANGED <<shared, counts, waiting, memory>>

\* One iteration of the loop of a blocking method, one poll of an async one.
Return(r) ==
  /\ op[r] \in Blocking \cup Async /\ r \notin asleep /\ Ready(r)
  /\ IF op[r] \in Reading THEN Deliver(r) ELSE UNCHANGED memory
  /\ op' = [op EXCEPT ![r] = "idle"] /\ timed' = timed \ {r}
  /\ UNCHANGED <<shared, counts, waiting>>

Sleep(r) ==
  /\ op[r] \in Blocking \cup Async /\ r \notin asleep /\ ~Ready(r)
  /\ asleep' = asleep \cup {r}
  /\ wakers' = IF op[r] \in Async THEN wakers \cup {r} ELSE wakers
  /\ UNCHANGED <<shared, counts, memory, op, timed>>

\* wait_timeout has timed out.  Its result is ignored and the loop goes on,
\* as it does when the condition variable or the executor wakes spuriously.
Resume(r) ==
  /\ r \in asleep
  /\ asleep' = asleep \ {r}
  /\ UNCHANGED <<shared, counts, wakers, memory, op, timed>>

TimedOut(r) == r \in timed /\ Resume(r)
SpuriousWakeup(r) == r \notin timed /\ Resume(r)

\* The future of wait or has_changed_signal is dropped; its waker stays.
Cancel(r) ==
  /\ op[r] \in Async
  /\ op' = [op EXCEPT ![r] = "idle"] /\ asleep' = asleep \ {r}
  /\ UNCHANGED <<shared, counts, wakers, memory, timed>>

-----------------------------------------------------------------------------
Write == \E w \in Writers :
  \/ set(w) \/ MarkChanged(w) \/ ChangeSilently(w) \/ DropValue(w)
  \/ \E v \in Writers : CloneValue(w, v)
  \/ \E r \in Readers : reader(w, r)

Handle(r) == \/ DropReader(r) \/ with(r) \/ SpuriousWakeup(r) \/ Cancel(r)
             \/ \E q \in Readers : CloneReader(r, q)
             \/ \E m \in Blocking \cup Async, t \in BOOLEAN : Call(r, m, t)

Proceed(r) == ReaderCreated(r) \/ Return(r) \/ Sleep(r) \/ TimedOut(r)

Next == Write \/ \E r \in Readers : Handle(r) \/ Proceed(r)

Spec == Init /\ [][Next]_vars

\* Calls proceed, timers fire and executors poll tasks that were woken; the
\* owners of the handles are not obliged to do anything.
FairSpec == Spec /\ \A r \in Readers : WF_vars(Proceed(r))

-----------------------------------------------------------------------------
\* Types of the fields and the places of the Readers.
TypeOK ==
  /\ value \in 0..MaxGen /\ generation \in 0..MaxGen
  /\ published \in 0..MaxGen
  /\ wakers \subseteq Readers /\ asleep \subseteq Readers
  /\ timed \subseteq Readers /\ read_disconnected \subseteq Readers
  /\ writers \subseteq Writers /\ writer_count \in Nat /\ reader_count \in Nat
  /\ op \in [Readers -> {"none", "idle"} \cup Blocking \cup Async \cup Writers]
  /\ read_gen \in [Readers -> 0..MaxGen] /\ seen \in [Readers -> 0..MaxGen]

\* The atomic counters agree with the handles that exist, so disconnected()
\* and has_readers() mean what they say.
CountsAreExact ==
  /\ writer_count = Cardinality(writers)
  /\ reader_count = Cardinality({r \in Readers : op[r] # "none"})

\* No lost wake-up: a Reader sleeps, as a thread or as a task, only while
\* what it waits for has not happened.
NoLostWakeup == \A r \in asleep : ~Ready(r)

\* A Reader that has_changed() calls unchanged has seen the newest published
\* contents, through whatever mix of creation, clones, reads and changes.
UnchangedMeansSeen ==
  \A r \in Readers : op[r] \notin {"none"} \cup Writers /\ ~Unread(r)
    => seen[r] >= published

\* Disconnected is only reported when no Value is left and after the last
\* published contents ("last value written ... even if the Value has been
\* dropped since"), also if it was reported to the Reader this is a clone of.
DisconnectedComesLast ==
  \A r \in read_disconnected : op[r] \notin {"none"} \cup Writers =>
    writers = {} /\ ~Unread(r) /\ seen[r] >= published

\* A disconnected value never comes back to life: every Reader may remember
\* that it was told.
DisconnectedForGood ==
  [][disconnected => disconnected' /\ UNCHANGED shared]_vars

\* A method whose condition holds returns.
ReadyMethodsReturn ==
  \A r \in Readers : op[r] \in Blocking \cup Async /\ Ready(r) ~> op[r] = "idle"

\* The Readers that exist for their owners.
users == {r \in Readers : op[r] \notin {"none"} \cup Writers}

\* Without its mutex, condition variable, wakers and counters, the Value is a
\* register of versions that each Reader reads at its own pace.
W == INSTANCE Watch WITH version <- generation, closed <- disconnected,
                         last <- read_gen, told <- read_disconnected

\* The Value implements that register: a Reader is given the newest version,
\* once, and hears of the end after the last version, for good.
ImplementsWatch == W!Spec

\* Documentation of block_timeout and block_until_changed_timeout: the call
\* blocks until a change "or a timeout expires", so it always returns.
TimedCallsReturn == \A r \in Readers : r \in timed ~> r \notin timed
=============================================================================
