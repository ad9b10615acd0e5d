SPECIFICATION FairSpec
CONSTANTS
  Writers = {w1, w2}
  Readers = {r1, r2}
  MaxGen = 2
INVARIANTS
  CountsAreExact
  NoLostWakeup
  UnchangedMeansSeen
  DisconnectedComesLast
PROPERTIES
  ReadyMethodsReturn
  ImplementsWatch
\* all handles may be gone
CHECK_DEADLOCK FALSE
