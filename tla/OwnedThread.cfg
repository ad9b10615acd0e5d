SPECIFICATION FairSpec
CONSTANTS
  MaxData = 3
INVARIANTS
  OwnerLearnsOfEnd
PROPERTIES
  EndingReturns
\* the thread has ended and been joined, or nobody ends it
CHECK_DEADLOCK FALSE
