SPECIFICATION FairSpec
CONSTANTS
  Capacities = {0, 1, 2}
  MaxMsgs = 4
INVARIANTS
  SendWaitsForPredecessors
  DropJoinsAndDrains
  PanicReportedOnce
PROPERTIES
  ImplementsPipeline
  PromisesResolve
  CallsReturn
  UnbufferedSendPropagates
\* the owner may drop the worker, abort, or stop sending
CHECK_DEADLOCK FALSE
