SPECIFICATION FairSpec
CONSTANTS
  Values = {v1}
  Wakers = {w1}
  MaxPolls = 1
PROPERTY WaitLearnsOfDrop
CHECK_DEADLOCK FALSE
