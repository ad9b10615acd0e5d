SPECIFICATION FairSpec
CONSTANTS
  Values = {v1, v2}
  Wakers = {w1, w2}
  MaxPolls = 3
INVARIANTS
  FulfillFindsEmpty
  WillBlockFalseMeansResolved
  SleeperWillBeNotified
  FulfilledTaskIsWoken
PROPERTIES
  ResolutionArrives
  ImplementsOneShot
\* both owners may be done, or the producer may never resolve the promise
CHECK_DEADLOCK FALSE
