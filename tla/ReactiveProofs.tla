--------------------------- MODULE ReactiveProofs --------------------------
(***************************************************************************)
(* The safety properties of Reactive hold for any number of Values and     *)
(* Readers and any number of changes.                                      *)
(***************************************************************************)
EXTENDS Reactive, FiniteSetTheorems, TLAPS

Methods == Blocking \cup Async

\* The Readers that a caller can use.
Usable(r) == op[r] \notin {"none"} \cup Writers

\* TypeOK without the counters, whose range follows from CountsAreExact; no
\* Reader remembers a generation that is still to come.
Types ==
  /\ value \in 0..MaxGen /\ generation \in 0..MaxGen
  /\ published \in 0..MaxGen
  /\ wakers \subseteq Readers /\ asleep \subseteq Readers
  /\ timed \subseteq Readers /\ read_disconnected \subseteq Readers
  /\ writers \subseteq Writers
  /\ op \in [Readers -> {"none", "idle"} \cup Methods \cup Writers]
  /\ read_gen \in [Readers -> 0..MaxGen] /\ seen \in [Readers -> 0..MaxGen]
  /\ published <= value /\ \A r \in Readers : read_gen[r] <= generation

\* A Reader sleeps only inside a method; as a task it has a waker in the list,
\* as a thread it is in the condition variable, so a change reaches it.
SleepersAreReachable ==
  \A r \in asleep : op[r] \in Methods /\ (op[r] \in Async => r \in wakers)

Inv == /\ Types /\ CountsAreExact
       /\ SleepersAreReachable /\ NoLostWakeup
       /\ UnchangedMeansSeen /\ DisconnectedComesLast

\* What the counters of an invariant state say.
DisconnectedMeansNoWriter == disconnected <=> writers = {}

-----------------------------------------------------------------------------
\* The counter of the Values is zero only when none is left.
LEMMA CountsMeaning ==
  ASSUME writers \subseteq Writers, CountsAreExact
  PROVE  DisconnectedMeansNoWriter
<1>1. IsFiniteSet(writers)
  BY FiniteHandles, FS_Subset
<1>2. QED
  BY <1>1, FS_EmptySet DEF CountsAreExact, DisconnectedMeansNoWriter,
                           disconnected

\* The counter of the Readers follows a change of one Reader's place.
LEMMA ReadersCounted ==
  ASSUME Types, CountsAreExact, NEW r \in Readers, NEW x
  PROVE  LET before == {q \in Readers : op[q] # "none"}
             after  == {q \in Readers : [op EXCEPT ![r] = x][q] # "none"}
         IN  /\ op[r] # "none" /\ x # "none" => after = before
             /\ op[r] = "none" /\ x # "none" =>
                  Cardinality(after) = Cardinality(before) + 1
             /\ op[r] # "none" /\ x = "none" =>
                  Cardinality(after) = Cardinality(before) - 1
<1> DEFINE before == {q \in Readers : op[q] # "none"}
           after  == {q \in Readers : [op EXCEPT ![r] = x][q] # "none"}
<1>1. IsFiniteSet(before) /\ Cardinality(before) \in Nat
  BY FiniteHandles, FS_Subset, FS_CardinalityType
<1>2. DOMAIN op = Readers
  BY DEF Types
<1>3. op[r] # "none" /\ x # "none" => after = before
  BY <1>2
<1>4. op[r] = "none" /\ x # "none" =>
        after = before \cup {r} /\ r \notin before
  BY <1>2
<1>5. op[r] # "none" /\ x = "none" => after = before \ {r} /\ r \in before
  BY <1>2
<1>6. op[r] = "none" /\ x # "none" => Cardinality(after) = Cardinality(before) + 1
  BY <1>1, <1>4, FS_AddElement
<1>7. op[r] # "none" /\ x = "none" => Cardinality(after) = Cardinality(before) - 1
  BY <1>1, <1>5, FS_RemoveElement
<1>8. QED
  BY <1>3, <1>6, <1>7

-----------------------------------------------------------------------------
\* The invariant holds of a new Value.
LEMMA InvInit == Init => Inv
<1> SUFFICES ASSUME Init PROVE Inv
  OBVIOUS
<1>1. Types
  <2>1. 0 \in 0..MaxGen /\ 0 <= 0
    BY BoundIsNat
  <2>2. PICK w \in Writers : writers = {w}
    BY DEF Init
  <2>3. QED
    BY <2>1, <2>2 DEF Init, Types
<1>2. CountsAreExact
  <2>1. \A w : Cardinality({w}) = 1
    BY FS_Singleton
  <2>2. {r \in Readers : op[r] # "none"} = {}
    BY DEF Init
  <2>3. QED
    BY <2>1, <2>2, FS_EmptySet DEF Init, CountsAreExact
<1>3. SleepersAreReachable /\ NoLostWakeup /\ UnchangedMeansSeen
        /\ DisconnectedComesLast
  BY DEF Init, SleepersAreReachable, NoLostWakeup, UnchangedMeansSeen,
         DisconnectedComesLast
<1>4. QED
  BY <1>1, <1>2, <1>3 DEF Inv

-----------------------------------------------------------------------------
\* The actions of Next, one by one.
LEMMA NextCases ==
  ASSUME Next, NEW P,
         \A w \in Writers : set(w) => P,
         \A w \in Writers : MarkChanged(w) => P,
         \A w \in Writers : ChangeSilently(w) => P,
         \A w \in Writers : DropValue(w) => P,
         \A w, v \in Writers : CloneValue(w, v) => P,
         \A w \in Writers, r \in Readers : reader(w, r) => P,
         \A r \in Readers : ReaderCreated(r) => P,
         \A r, q \in Readers : CloneReader(r, q) => P,
         \A r \in Readers : DropReader(r) => P,
         \A r \in Readers : with(r) => P,
         \A r \in Readers, m \in Methods, t \in BOOLEAN : Call(r, m, t) => P,
         \A r \in Readers : Return(r) => P,
         \A r \in Readers : Sleep(r) => P,
         \A r \in Readers : Resume(r) => P,
         \A r \in Readers : Cancel(r) => P
  PROVE  P
<1>1. CASE Write
  BY <1>1 DEF Write
<1>2. CASE \E r \in Readers : Handle(r)
  BY <1>2 DEF Handle, SpuriousWakeup, Methods
<1>3. CASE \E r \in Readers : Proceed(r)
  BY <1>3 DEF Proceed, TimedOut
<1>4. QED
  BY <1>1, <1>2, <1>3 DEF Next

\* Publish, for set and MarkChanged alike.
LEMMA PublishCase ==
  ASSUME Types, NEW w \in Writers, set(w) \/ MarkChanged(w)
  PROVE  \E c \in 0..MaxGen : c >= value /\ Publish(w, c)
<1>1. value \in 0..MaxGen /\ MaxGen \in Nat
  BY BoundIsNat DEF Types
<1>2. CASE set(w)
  BY <1>1, <1>2 DEF set
<1>3. CASE MarkChanged(w)
  BY <1>1, <1>3 DEF MarkChanged
<1>4. QED
  BY <1>2, <1>3

-----------------------------------------------------------------------------
\* Every step keeps the types.
LEMMA TypesStep ==
  ASSUME Types, [Next]_vars
  PROVE  Types'
<1> USE BoundIsNat
<1>1. CASE Next
  <2> DEFINE P == Types'
  <2>1. ASSUME NEW w \in Writers, set(w) \/ MarkChanged(w) PROVE P
    <3>1. PICK c \in 0..MaxGen : c >= value /\ Publish(w, c)
      BY <2>1, PublishCase
    <3>2. /\ generation' = generation + 1 /\ generation + 1 \in 0..MaxGen
          /\ value' = c /\ published' = c
          /\ wakers' = {} /\ asleep' \subseteq asleep
          /\ UNCHANGED <<timed, read_disconnected, writers, op,
                         read_gen, seen>>
      BY <3>1 DEF Types, Publish, WakeReaders, counts, memory
    <3>3. \A r \in Readers : read_gen'[r] <= generation'
      BY <3>2 DEF Types
    <3>4. published' <= value'
      BY <3>2
    <3>5. QED
      BY <3>2, <3>3, <3>4 DEF Types
  <2>2. ASSUME NEW w \in Writers, ChangeSilently(w) PROVE P
    <3>1. /\ value' = value + 1 /\ value + 1 \in 0..MaxGen
          /\ published <= value + 1
          /\ UNCHANGED <<generation, published, wakers, asleep, timed,
                         read_disconnected, writers, op, read_gen, seen>>
      BY <2>2 DEF Types, ChangeSilently, counts, waiting, memory
    <3>2. QED
      BY <3>1 DEF Types
  <2>3. ASSUME NEW w \in Writers, DropValue(w) PROVE P
    BY <2>3 DEF Types, DropValue, WakeReaders, shared, memory
  <2>4. ASSUME NEW w \in Writers, NEW v \in Writers, CloneValue(w, v) PROVE P
    BY <2>4 DEF Types, CloneValue, shared, waiting, memory
  <2>5. ASSUME NEW w \in Writers, NEW r \in Readers, reader(w, r) PROVE P
    BY <2>5 DEF Types, reader, shared, waiting, memory
  <2>6. ASSUME NEW r \in Readers, ReaderCreated(r) PROVE P
    BY <2>6 DEF Types, ReaderCreated, shared, counts, waiting
  <2>7. ASSUME NEW r \in Readers, NEW q \in Readers, CloneReader(r, q) PROVE P
    BY <2>7 DEF Types, CloneReader, CopiedGen, shared, waiting
  <2>8. ASSUME NEW r \in Readers, DropReader(r) PROVE P
    BY <2>8 DEF Types, DropReader, shared, waiting, memory
  <2>9. ASSUME NEW r \in Readers, with(r) PROVE P
    BY <2>9 DEF Types, with, Deliver, shared, counts, waiting
  <2>10. ASSUME NEW r \in Readers, NEW m \in Methods, NEW t \in BOOLEAN,
                Call(r, m, t)
         PROVE  P
    BY <2>10 DEF Types, Call, shared, counts, waiting, memory
  <2>11. ASSUME NEW r \in Readers, Return(r) PROVE P
    BY <2>11 DEF Types, Return, Deliver, shared, counts, waiting, memory
  <2>12. ASSUME NEW r \in Readers, Sleep(r) PROVE P
    BY <2>12 DEF Types, Sleep, shared, counts, memory
  <2>13. ASSUME NEW r \in Readers, Resume(r) \/ Cancel(r) PROVE P
    BY <2>13 DEF Types, Resume, Cancel, shared, counts, memory
  <2>14. QED
    <3> HIDE DEF P
    <3>1. P
      BY <1>1, <2>1, <2>2, <2>3, <2>4, <2>5, <2>6, <2>7, <2>8, <2>9, <2>10,
         <2>11, <2>12, <2>13, NextCases
    <3>2. QED
      BY <3>1 DEF P
<1>2. CASE UNCHANGED vars
  BY <1>2 DEF Types, vars, shared, counts, waiting, memory
<1>3. QED
  BY <1>1, <1>2

-----------------------------------------------------------------------------
\* Every step keeps the counters exact: each changes with its set of handles.
LEMMA CountsStep ==
  ASSUME Types, CountsAreExact, [Next]_vars
  PROVE  CountsAreExact'
<1> USE WritersAreNotMethods
<1>1. CASE Next
  <2> DEFINE P == CountsAreExact'
  <2>1. IsFiniteSet(writers) /\ Cardinality(writers) \in Nat
    BY FiniteHandles, FS_Subset, FS_CardinalityType DEF Types
  <2>2. ASSUME UNCHANGED <<counts, op>> PROVE P
    BY <2>2 DEF CountsAreExact, counts
  <2>3. ASSUME NEW r \in Readers, NEW x, op' = [op EXCEPT ![r] = x],
               op[r] # "none", x # "none", UNCHANGED counts
        PROVE  P
    BY <2>3, ReadersCounted DEF CountsAreExact, counts
  <2>4. ASSUME NEW r \in Readers, NEW x, op' = [op EXCEPT ![r] = x],
               op[r] = "none", x # "none", reader_count' = reader_count + 1,
               UNCHANGED <<writers, writer_count>>
        PROVE  P
    <3>1. Cardinality({q \in Readers : [op EXCEPT ![r] = x][q] # "none"})
            = Cardinality({q \in Readers : op[q] # "none"}) + 1
      BY <2>4, ReadersCounted
    <3>2. {q \in Readers : op'[q] # "none"}
            = {q \in Readers : [op EXCEPT ![r] = x][q] # "none"}
      BY <2>4
    <3>3. QED
      BY <2>4, <3>1, <3>2 DEF CountsAreExact
  <2>5. ASSUME NEW w \in Writers, NEW v \in Writers, CloneValue(w, v) PROVE P
    BY <2>1, <2>5, FS_AddElement DEF CountsAreExact, CloneValue
  <2>6. ASSUME NEW w \in Writers, DropValue(w) PROVE P
    <3>1. w \in writers
      BY <2>6 DEF DropValue, Unborrowed
    <3>2. Cardinality(writers \ {w}) = Cardinality(writers) - 1
      BY <2>1, <3>1, FS_RemoveElement
    <3>3. QED
      BY <2>6, <3>2 DEF CountsAreExact, DropValue
  <2>7. ASSUME NEW w \in Writers, set(w) \/ MarkChanged(w) PROVE P
    BY <2>2, <2>7 DEF set, MarkChanged, Publish
  <2>8. ASSUME NEW w \in Writers, ChangeSilently(w) PROVE P
    BY <2>2, <2>8 DEF ChangeSilently
  <2>9. ASSUME NEW w \in Writers, NEW r \in Readers, reader(w, r) PROVE P
    BY <2>4, <2>9 DEF reader
  <2>10. ASSUME NEW r \in Readers, ReaderCreated(r) PROVE P
    BY <2>3, <2>10 DEF ReaderCreated
  <2>11. ASSUME NEW r \in Readers, NEW q \in Readers, CloneReader(r, q) PROVE P
    BY <2>4, <2>11 DEF CloneReader
  <2>12. ASSUME NEW r \in Readers, DropReader(r) PROVE P
    BY <2>12, ReadersCounted DEF CountsAreExact, DropReader
  <2>13. ASSUME NEW r \in Readers,
                with(r) \/ Sleep(r) \/ Resume(r)
         PROVE  P
    BY <2>2, <2>13 DEF with, Sleep, Resume
  <2>14. ASSUME NEW r \in Readers, NEW m \in Methods, NEW t \in BOOLEAN,
                Call(r, m, t)
         PROVE  P
    BY <2>3, <2>14 DEF Call, Methods, Blocking, Async
  <2>15. ASSUME NEW r \in Readers, Return(r) \/ Cancel(r) PROVE P
    BY <2>3, <2>15 DEF Return, Cancel, Blocking, Async
  <2>16. QED
    <3> HIDE DEF P
    <3>1. P
      BY <1>1, <2>5, <2>6, <2>7, <2>8, <2>9, <2>10, <2>11, <2>12, <2>13,
         <2>14, <2>15, NextCases
    <3>2. QED
      BY <3>1 DEF P
<1>2. CASE UNCHANGED vars
  BY <1>2 DEF CountsAreExact, vars, counts
<1>3. QED
  BY <1>1, <1>2

-----------------------------------------------------------------------------
\* What a Reader waits for cannot happen without emptying the set of sleepers,
\* and a Reader goes to sleep only after it has looked.
LEMMA SleepStep ==
  ASSUME Inv, [Next]_vars, DisconnectedMeansNoWriter
  PROVE  (SleepersAreReachable /\ NoLostWakeup)'
<1> USE WritersAreNotMethods DEF Inv, Methods
<1>1. CASE Next
  <2> DEFINE P == (SleepersAreReachable /\ NoLostWakeup)'
  <2>1. ASSUME WakeReaders, UNCHANGED op PROVE P
    <3>1. asleep' = {}
      BY <2>1 DEF WakeReaders, SleepersAreReachable
    <3>2. QED
      BY <3>1 DEF SleepersAreReachable, NoLostWakeup
  <2>2. ASSUME UNCHANGED <<generation, asleep, wakers>>,
               disconnected' = disconnected,
               \A q \in asleep :
                 /\ op'[q] = op[q] /\ read_gen'[q] = read_gen[q]
                 /\ (q \in read_disconnected)' = (q \in read_disconnected)
        PROVE  P
    BY <2>2 DEF SleepersAreReachable, NoLostWakeup, Ready, has_changed, Unread
  <2>3. ASSUME NEW w \in Writers,
               set(w) \/ MarkChanged(w) \/ DropValue(w)
        PROVE  P
    BY <2>1, <2>3 DEF set, MarkChanged, Publish, DropValue
  <2>4. ASSUME NEW w \in Writers, ChangeSilently(w) PROVE P
    BY <2>2, <2>4 DEF ChangeSilently, counts, waiting, memory,
                      disconnected
  <2>5. ASSUME NEW w \in Writers, NEW v \in Writers, CloneValue(w, v) PROVE P
    <3>1. disconnected' = disconnected
      <4>1. writers # {} /\ writers \subseteq Writers
        BY <2>5 DEF CloneValue, Types
      <4>2. writer_count \in Nat /\ writer_count # 0
        BY <4>1, FiniteHandles, FS_Subset, FS_CardinalityType
           DEF CountsAreExact, DisconnectedMeansNoWriter, disconnected
      <4>3. QED
        BY <2>5, <4>2 DEF CloneValue, disconnected
    <3>2. QED
      BY <2>2, <2>5, <3>1 DEF CloneValue, shared, waiting, memory
  <2>6. ASSUME NEW r \in Readers, r \notin asleep,
               UNCHANGED <<generation, waiting, writer_count>>,
               \A q \in Readers \ {r} :
                 /\ op'[q] = op[q] /\ read_gen'[q] = read_gen[q]
                 /\ (q \in read_disconnected)' = (q \in read_disconnected)
        PROVE  P
    BY <2>2, <2>6 DEF Types, waiting, disconnected
  <2>7. ASSUME NEW w \in Writers, NEW r \in Readers, reader(w, r) PROVE P
    BY <2>6, <2>7 DEF reader, shared, memory, Types, SleepersAreReachable,
                      Blocking, Async
  <2>8. ASSUME NEW r \in Readers, ReaderCreated(r) PROVE P
    BY <2>6, <2>8 DEF ReaderCreated, shared, counts, Types,
                      SleepersAreReachable
  <2>9. ASSUME NEW r \in Readers, NEW q \in Readers, CloneReader(r, q) PROVE P
    BY <2>6, <2>9 DEF CloneReader, shared, Types, SleepersAreReachable,
                      Blocking, Async
  <2>10. ASSUME NEW r \in Readers, DropReader(r) PROVE P
    BY <2>6, <2>10 DEF DropReader, shared, memory, Types,
                       SleepersAreReachable, Blocking, Async
  <2>11. ASSUME NEW r \in Readers, with(r) PROVE P
    BY <2>6, <2>11 DEF with, Deliver, shared, counts, Types,
                       SleepersAreReachable, Blocking, Async
  <2>12. ASSUME NEW r \in Readers, NEW m \in Methods, NEW t \in BOOLEAN,
                Call(r, m, t)
         PROVE  P
    BY <2>6, <2>12 DEF Call, shared, counts, memory, Types,
                       SleepersAreReachable, Blocking, Async
  <2>13. ASSUME NEW r \in Readers, Return(r) PROVE P
    BY <2>6, <2>13 DEF Return, Deliver, shared, counts, memory, Types
  <2>14. ASSUME NEW r \in Readers, Sleep(r) PROVE P
    BY <2>14 DEF Sleep, SleepersAreReachable, NoLostWakeup, Ready, has_changed,
                 Unread, disconnected, shared, counts, memory
  <2>15. ASSUME NEW r \in Readers, Resume(r) \/ Cancel(r) PROVE P
    BY <2>15 DEF Resume, Cancel, SleepersAreReachable, NoLostWakeup, Ready,
                 has_changed, Unread, disconnected, shared, counts, memory,
                 Types
  <2>16. QED
    <3> HIDE DEF P
    <3>1. P
      BY <1>1, <2>3, <2>4, <2>5, <2>7, <2>8, <2>9, <2>10, <2>11, <2>12,
         <2>13, <2>14, <2>15, NextCases
    <3>2. QED
      BY <3>1 DEF P
<1>2. CASE UNCHANGED vars
  BY <1>2 DEF SleepersAreReachable, NoLostWakeup, Ready, has_changed, Unread,
              disconnected, vars, shared, counts, waiting, memory
<1>3. QED
  BY <1>1, <1>2
-----------------------------------------------------------------------------
\* What a Reader remembers stays behind what has been published: changes come
\* with a new generation, and after the last Value there are none.
LEMMA MemoryStep ==
  ASSUME Inv, [Next]_vars, DisconnectedMeansNoWriter,
         DisconnectedMeansNoWriter'
  PROVE  (UnchangedMeansSeen /\ DisconnectedComesLast)'
<1> USE WritersAreNotMethods DEF Inv, Methods
<1>1. CASE Next
  <2> DEFINE P == (UnchangedMeansSeen /\ DisconnectedComesLast)'
  <2>1. ASSUME NEW w \in Writers, set(w) \/ MarkChanged(w) PROVE P
    <3>1. PICK c \in 0..MaxGen : Publish(w, c)
      BY <2>1, PublishCase
    <3>2. writers # {} /\ UNCHANGED <<writers, op>>
      BY <3>1 DEF Publish, Unborrowed, counts
    <3>3. generation' = generation + 1 /\ UNCHANGED <<memory, counts>>
      BY <3>1 DEF Publish
    <3>4. \A r \in Readers : (op[r] \notin {"none"} \cup Writers) =>
            read_gen'[r] # generation'
      BY <3>3, BoundIsNat DEF Types, memory
    <3>5. QED
      BY <3>2, <3>3, <3>4 DEF UnchangedMeansSeen, DisconnectedComesLast,
                              Unread, memory, counts
  <2>2. ASSUME NEW w \in Writers, ChangeSilently(w) PROVE P
    BY <2>2 DEF ChangeSilently, counts, memory,
                UnchangedMeansSeen, DisconnectedComesLast, Unread
  <2>3. ASSUME NEW w \in Writers, DropValue(w) PROVE P
    BY <2>3 DEF DropValue, shared, memory, UnchangedMeansSeen,
                DisconnectedComesLast, Unread
  <2>4. ASSUME NEW w \in Writers, NEW v \in Writers, CloneValue(w, v) PROVE P
    BY <2>4 DEF CloneValue, shared, memory, UnchangedMeansSeen,
                DisconnectedComesLast, Unread
  <2>5. ASSUME NEW w \in Writers, NEW r \in Readers, reader(w, r) PROVE P
    BY <2>5 DEF reader, shared, memory, Types, UnchangedMeansSeen,
                DisconnectedComesLast, Unread
  <2>6. ASSUME NEW r \in Readers, ReaderCreated(r) PROVE P
    BY <2>6 DEF ReaderCreated, shared, counts, Types, UnchangedMeansSeen,
                DisconnectedComesLast, Unread
  <2>7. ASSUME NEW r \in Readers, NEW q \in Readers, CloneReader(r, q) PROVE P
    BY <2>7 DEF CloneReader, CopiedGen, shared, Types, UnchangedMeansSeen,
                DisconnectedComesLast, Unread, Blocking, Async
  <2>8. ASSUME NEW r \in Readers, DropReader(r) PROVE P
    BY <2>8 DEF DropReader, shared, memory, Types, UnchangedMeansSeen,
                DisconnectedComesLast, Unread
  <2>9. ASSUME NEW r \in Readers, with(r) PROVE P
    BY <2>9 DEF with, Deliver, shared, counts, Types, UnchangedMeansSeen,
                DisconnectedComesLast, DisconnectedMeansNoWriter, Unread
  <2>10. ASSUME NEW r \in Readers, NEW m \in Methods, NEW t \in BOOLEAN,
                Call(r, m, t)
         PROVE  P
    BY <2>10 DEF Call, shared, counts, memory, Types, UnchangedMeansSeen,
                 DisconnectedComesLast, Unread, Blocking, Async
  <2>11. ASSUME NEW r \in Readers, Return(r) PROVE P
    BY <2>11 DEF Return, Deliver, shared, counts, memory, Types,
                 UnchangedMeansSeen, DisconnectedComesLast,
                 DisconnectedMeansNoWriter, Unread, Blocking, Async
  <2>12. ASSUME NEW r \in Readers, Sleep(r) \/ Resume(r) PROVE P
    BY <2>12 DEF Sleep, Resume, shared, counts, memory, UnchangedMeansSeen,
                 DisconnectedComesLast, Unread
  <2>13. ASSUME NEW r \in Readers, Cancel(r) PROVE P
    BY <2>13 DEF Cancel, shared, counts, memory, Types, UnchangedMeansSeen,
                 DisconnectedComesLast, Unread, Async
  <2>14. QED
    <3> HIDE DEF P
    <3>1. P
      BY <1>1, <2>1, <2>2, <2>3, <2>4, <2>5, <2>6, <2>7, <2>8, <2>9, <2>10,
         <2>11, <2>12, <2>13, NextCases
    <3>2. QED
      BY <3>1 DEF P
<1>2. CASE UNCHANGED vars
  BY <1>2 DEF UnchangedMeansSeen, DisconnectedComesLast, Unread, vars, shared,
              counts, memory
<1>3. QED
  BY <1>1, <1>2

-----------------------------------------------------------------------------
\* Every step keeps the whole invariant.
LEMMA InvStep == Inv /\ [Next]_vars => Inv'
<1> SUFFICES ASSUME Inv, [Next]_vars PROVE Inv'
  OBVIOUS
<1>1. DisconnectedMeansNoWriter
  BY CountsMeaning DEF Inv, Types
<1>2. Types' /\ CountsAreExact'
  BY TypesStep, CountsStep DEF Inv
<1>3. DisconnectedMeansNoWriter'
  <2>1. IsFiniteSet(writers')
    BY <1>2, FiniteHandles, FS_Subset DEF Types
  <2>2. QED
    BY <1>2, <2>1, FS_EmptySet DEF CountsAreExact, DisconnectedMeansNoWriter,
                                   disconnected
<1>4. QED
  BY <1>1, <1>2, <1>3, SleepStep, MemoryStep DEF Inv

\* The invariant holds in every reachable state.
LEMMA InvAlways == Spec => []Inv
BY InvInit, InvStep, PTL DEF Spec

-----------------------------------------------------------------------------
\* The fields and counters of ValueInner and of the Readers keep their types.
THEOREM TypeCorrect == Spec => []TypeOK
<1>1. Inv => TypeOK
  <2>1. ASSUME Inv PROVE writer_count \in Nat /\ reader_count \in Nat
    BY <2>1, FiniteHandles, FS_Subset, FS_CardinalityType
       DEF Inv, Types, CountsAreExact
  <2>2. QED
    BY <2>1 DEF Inv, Types, TypeOK, Methods
<1>2. QED
  BY <1>1, InvAlways, PTL

\* reader_count and writer_count always agree with the handles, whatever is
\* created, cloned and dropped at the same time.
THEOREM CountsExact == Spec => []CountsAreExact
<1>1. Inv => CountsAreExact
  BY DEF Inv
<1>2. QED
  BY <1>1, InvAlways, PTL

\* No thread in a blocking method and no pending task sleeps through what it
\* waits for.
THEOREM NoWakeupLost == Spec => []NoLostWakeup
<1>1. Inv => NoLostWakeup
  BY DEF Inv
<1>2. QED
  BY <1>1, InvAlways, PTL

\* has_changed() is sound: a Reader with nothing unread has seen the newest
\* published contents.
THEOREM UnchangedSeen == Spec => []UnchangedMeansSeen
<1>1. Inv => UnchangedMeansSeen
  BY DEF Inv
<1>2. QED
  BY <1>1, InvAlways, PTL

\* Disconnected is reported only when no Value is left, and after the last
\* published contents.
THEOREM DisconnectedLast == Spec => []DisconnectedComesLast
<1>1. Inv => DisconnectedComesLast
  BY DEF Inv
<1>2. QED
  BY <1>1, InvAlways, PTL

\* A disconnected value never changes again and never gets a Value back.
THEOREM DisconnectedFinal == Spec => DisconnectedForGood
<1>1. ASSUME Inv, [Next]_vars, disconnected
      PROVE  disconnected' /\ UNCHANGED shared
  <2>1. writers = {}
    BY <1>1, CountsMeaning DEF Inv, Types, DisconnectedMeansNoWriter
  <2>2. CASE Next
    <3> DEFINE P == disconnected' /\ UNCHANGED shared
    <3>1. ASSUME NEW w \in Writers,
                 set(w) \/ MarkChanged(w) \/ ChangeSilently(w) \/ DropValue(w)
          PROVE  P
      BY <2>1, <3>1 DEF set, MarkChanged, Publish, ChangeSilently,
                        DropValue, Unborrowed
    <3>2. ASSUME NEW w \in Writers, NEW v \in Writers, CloneValue(w, v)
          PROVE  P
      BY <2>1, <3>2 DEF CloneValue
    <3>3. ASSUME NEW w \in Writers, NEW r \in Readers, reader(w, r)
          PROVE  P
      BY <2>1, <3>3 DEF reader
    <3>4. ASSUME NEW r \in Readers, NEW q \in Readers,
                 ReaderCreated(r) \/ CloneReader(r, q) \/ DropReader(r)
                   \/ with(r)
          PROVE  P
      BY <1>1, <3>4 DEF ReaderCreated, CloneReader, DropReader, with, counts,
                        disconnected
    <3>5. ASSUME NEW r \in Readers, NEW m \in Methods, NEW t \in BOOLEAN,
                 Call(r, m, t)
          PROVE  P
      BY <1>1, <3>5 DEF Call, counts, disconnected
    <3>6. ASSUME NEW r \in Readers,
                 Return(r) \/ Sleep(r) \/ Resume(r) \/ Cancel(r)
          PROVE  P
      BY <1>1, <3>6 DEF Return, Sleep, Resume, Cancel, counts, disconnected
    <3>7. QED
      <4> HIDE DEF P
      <4>1. P
        BY <2>2, <3>1, <3>2, <3>3, <3>4, <3>5, <3>6, NextCases
      <4>2. QED
        BY <4>1 DEF P
  <2>3. CASE UNCHANGED vars
    BY <1>1, <2>3 DEF vars, counts, disconnected
  <2>4. QED
    BY <1>1, <2>2, <2>3
<1>2. Inv /\ [Next]_vars =>
        [disconnected => disconnected' /\ UNCHANGED shared]_vars
  BY <1>1
<1>3. QED
  BY <1>2, InvAlways, PTL DEF Spec, DisconnectedForGood
-----------------------------------------------------------------------------
\* reader() borrows its Value until the Reader is created.
BorrowsAreAlive == \A r \in Readers : op[r] \in Writers => op[r] \in writers

\* A Value that is borrowed is not dropped.
LEMMA BorrowsStep ==
  ASSUME Types, BorrowsAreAlive, [Next]_vars
  PROVE  BorrowsAreAlive'
<1>1. CASE Next
  <2> DEFINE P == BorrowsAreAlive'
  <2>1. ASSUME NEW w \in Writers,
               set(w) \/ MarkChanged(w) \/ ChangeSilently(w)
        PROVE  P
    BY <2>1 DEF set, MarkChanged, Publish, ChangeSilently, counts,
                BorrowsAreAlive
  <2>2. ASSUME NEW w \in Writers, DropValue(w) PROVE P
    BY <2>2 DEF DropValue, Unborrowed, BorrowsAreAlive
  <2>3. ASSUME NEW w \in Writers, NEW v \in Writers, CloneValue(w, v) PROVE P
    BY <2>3 DEF CloneValue, BorrowsAreAlive
  <2>4. ASSUME NEW w \in Writers, NEW r \in Readers, reader(w, r) PROVE P
    BY <2>4 DEF reader, BorrowsAreAlive, Types
  <2>5. ASSUME NEW r \in Readers, NEW q \in Readers,
               ReaderCreated(r) \/ CloneReader(r, q) \/ DropReader(r)
                 \/ with(r)
        PROVE  P
    BY <2>5, WritersAreNotMethods
       DEF ReaderCreated, CloneReader, DropReader, with, counts,
           BorrowsAreAlive, Types
  <2>6. ASSUME NEW r \in Readers, NEW m \in Methods, NEW t \in BOOLEAN,
               Call(r, m, t)
        PROVE  P
    BY <2>6, WritersAreNotMethods
       DEF Call, counts, BorrowsAreAlive, Types, Methods
  <2>7. ASSUME NEW r \in Readers,
               Return(r) \/ Sleep(r) \/ Resume(r) \/ Cancel(r)
        PROVE  P
    BY <2>7, WritersAreNotMethods
       DEF Return, Sleep, Resume, Cancel, counts, BorrowsAreAlive, Types
  <2>8. QED
    <3> HIDE DEF P
    <3>1. P
      BY <1>1, <2>1, <2>2, <2>3, <2>4, <2>5, <2>6, <2>7, NextCases
    <3>2. QED
      BY <3>1 DEF P
<1>2. CASE UNCHANGED vars
  BY <1>2 DEF vars, counts, BorrowsAreAlive
<1>3. QED
  BY <1>1, <1>2

\* Delivering is reading the newest version, or hearing of the end.
LEMMA DeliverIsRead ==
  ASSUME NEW r \in Readers, r \in users, Deliver(r),
         UNCHANGED <<generation, disconnected, users>>
  PROVE  W!Read(r) \/ W!Disconnect(r)
BY DEF Deliver, Unread, W!Read, W!Disconnect

\* Every step of the Value is a step of the register or hidden in it.
LEMMA WatchStep ==
  ASSUME Inv, BorrowsAreAlive, [Next]_vars
  PROVE  [W!Next]_(W!vars)
<1> DEFINE P == [W!Next]_(W!vars)
<1>1. DisconnectedMeansNoWriter
  BY CountsMeaning DEF Inv, Types
<1>2. CASE Next
  <2>1. ASSUME NEW w \in Writers, set(w) \/ MarkChanged(w) PROVE P
    <3>1. ~disconnected /\ UNCHANGED <<disconnected, users>>
      BY <1>1, <2>1 DEF set, MarkChanged, Publish, Unborrowed, counts, users,
                        disconnected, DisconnectedMeansNoWriter
    <3>2. W!Publish
      BY <2>1, <3>1 DEF set, MarkChanged, Publish, memory, W!Publish
    <3>3. QED
      BY <3>2 DEF W!Next
  <2>2. ASSUME NEW w \in Writers, ChangeSilently(w) PROVE P
    BY <2>2 DEF ChangeSilently, counts, memory, users, disconnected, W!vars
  <2>3. ASSUME NEW w \in Writers, DropValue(w) PROVE P
    <3>1. ~disconnected /\ UNCHANGED <<generation, users, read_gen,
                                       read_disconnected>>
      BY <1>1, <2>3 DEF DropValue, Unborrowed, shared, memory, users,
                        DisconnectedMeansNoWriter
    <3>3. CASE disconnected'
      BY <3>1, <3>3 DEF disconnected, W!Close, W!Next
    <3>4. CASE ~disconnected'
      <4>1. UNCHANGED disconnected
        BY <3>1, <3>4 DEF disconnected
      <4>2. QED
        BY <3>1, <4>1 DEF W!vars
    <3>5. QED
      BY <3>3, <3>4
  <2>4. ASSUME NEW w \in Writers, NEW v \in Writers, CloneValue(w, v) PROVE P
    <3>1. writers # {} /\ writers' # {} /\ UNCHANGED <<generation, users,
                                       read_gen, read_disconnected>>
      BY <2>4 DEF CloneValue, shared, memory, users
    <3>2. DisconnectedMeansNoWriter'
      BY CountsStep, TypesStep, FiniteHandles, FS_Subset, FS_EmptySet
         DEF Inv, Types, CountsAreExact, DisconnectedMeansNoWriter,
             disconnected
    <3>3. QED
      BY <1>1, <3>1, <3>2 DEF DisconnectedMeansNoWriter, W!vars
  <2>5. ASSUME NEW w \in Writers, NEW r \in Readers, reader(w, r) PROVE P
    <3>1. UNCHANGED users
      BY <2>5 DEF reader, users, Inv, Types
    <3>2. QED
      BY <2>5, <3>1 DEF reader, shared, memory, disconnected, W!vars
  <2>6. ASSUME NEW r \in Readers, ReaderCreated(r) PROVE P
    <3>1. /\ ~disconnected /\ UNCHANGED disconnected
          /\ r \notin users /\ users' = users \cup {r}
      BY <1>1, <2>6, WritersAreNotMethods
         DEF ReaderCreated, BorrowsAreAlive, counts, users, disconnected,
             DisconnectedMeansNoWriter, Inv, Types
    <3>2. W!Join(r)
      BY <2>6, <3>1 DEF ReaderCreated, shared, W!Join
    <3>3. QED
      BY <3>2 DEF W!Next
  <2>7. ASSUME NEW r \in Readers, NEW q \in Readers, CloneReader(r, q) PROVE P
    <3>1. /\ UNCHANGED disconnected
          /\ r \in users /\ q \notin users /\ users' = users \cup {q}
      BY <2>7, WritersAreNotMethods
         DEF CloneReader, counts, users, disconnected, Inv, Types, Blocking,
             Async
    <3>2. W!Fork(r, q)
      BY <2>7, <3>1 DEF CloneReader, CopiedGen, shared, W!Fork
    <3>3. QED
      BY <3>2 DEF W!Next
  <2>8. ASSUME NEW r \in Readers, DropReader(r) PROVE P
    <3>1. /\ UNCHANGED disconnected
          /\ r \in users /\ users' = users \ {r}
      BY <2>8, WritersAreNotMethods
         DEF DropReader, users, disconnected, Inv, Types
    <3>2. W!Leave(r)
      BY <2>8, <3>1 DEF DropReader, shared, memory, W!Leave
    <3>3. QED
      BY <3>2 DEF W!Next
  <2>9. ASSUME NEW r \in Readers, with(r) PROVE P
    <3>1. r \in users /\ UNCHANGED <<generation, disconnected, users>>
      BY <2>9, WritersAreNotMethods
         DEF with, shared, counts, users, disconnected
    <3>2. CASE Deliver(r)
      BY <3>1, <3>2, DeliverIsRead DEF W!Next
    <3>3. CASE UNCHANGED <<read_gen, read_disconnected>>
      BY <3>1, <3>3 DEF W!vars
    <3>4. QED
      BY <2>9, <3>2, <3>3 DEF with
  <2>10. ASSUME NEW r \in Readers, NEW m \in Methods, NEW t \in BOOLEAN,
                Call(r, m, t)
         PROVE  P
    <3>1. UNCHANGED users
      BY <2>10, WritersAreNotMethods
         DEF Call, users, Inv, Types, Methods, Blocking, Async
    <3>2. QED
      BY <2>10, <3>1 DEF Call, shared, counts, memory, disconnected, W!vars
  <2>11. ASSUME NEW r \in Readers, Return(r) PROVE P
    <3>1. r \in users /\ UNCHANGED <<generation, disconnected, users>>
      BY <2>11, WritersAreNotMethods
         DEF Return, shared, counts, users, disconnected, Inv, Types,
             Blocking, Async
    <3>2. CASE Deliver(r)
      BY <3>1, <3>2, DeliverIsRead DEF W!Next
    <3>3. CASE UNCHANGED memory
      BY <3>1, <3>3 DEF memory, W!vars
    <3>4. QED
      BY <2>11, <3>2, <3>3 DEF Return
  <2>12. ASSUME NEW r \in Readers, Sleep(r) \/ Resume(r) PROVE P
    BY <2>12 DEF Sleep, Resume, shared, counts, memory, users, disconnected,
                 W!vars
  <2>13. ASSUME NEW r \in Readers, Cancel(r) PROVE P
    <3>1. UNCHANGED users
      BY <2>13, WritersAreNotMethods
         DEF Cancel, users, Inv, Types, Async
    <3>2. QED
      BY <2>13, <3>1 DEF Cancel, shared, counts, memory, disconnected, W!vars
  <2>14. QED
    <3> HIDE DEF P
    <3>1. P
      BY <1>2, <2>1, <2>2, <2>3, <2>4, <2>5, <2>6, <2>7, <2>8, <2>9, <2>10,
         <2>11, <2>12, <2>13, NextCases
    <3>2. QED
      BY <3>1 DEF P
<1>3. CASE UNCHANGED vars
  BY <1>3 DEF vars, shared, counts, memory, users, disconnected, W!vars
<1>4. QED
  BY <1>2, <1>3

\* The Value with its mutex, condition variable, wakers and counters
\* implements the register of versions.
THEOREM Refinement == Spec => ImplementsWatch
<1>1. Init => W!Init /\ BorrowsAreAlive
  <2> SUFFICES ASSUME Init PROVE W!Init /\ BorrowsAreAlive
    OBVIOUS
  <2>1. disconnected = FALSE /\ users = {}
    BY DEF Init, disconnected, users
  <2>2. BorrowsAreAlive
    BY WritersAreNotMethods DEF Init, BorrowsAreAlive
  <2>3. QED
    BY <2>1, <2>2 DEF Init, W!Init
<1>2. Inv /\ BorrowsAreAlive /\ [Next]_vars => BorrowsAreAlive'
  BY BorrowsStep DEF Inv
<1>3. Inv /\ BorrowsAreAlive /\ [Next]_vars => [W!Next]_(W!vars)
  BY WatchStep
<1>4. QED
  BY <1>1, <1>2, <1>3, InvAlways, PTL DEF Spec, ImplementsWatch, W!Spec
=============================================================================
