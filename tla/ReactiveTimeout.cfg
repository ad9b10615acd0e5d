SPECIFICATION FairSpec
CONSTANTS
  Writers = {w1}
  Readers = {r1}
  MaxGen = 1
PROPERTIES
  TimedCallsReturn
CHECK_DEADLOCK FALSE
