SPECIFICATION FairSpec
CONSTANTS
  Count = 2
  MaxJobs = 3
  MaxTime = 3
INVARIANTS
  ResultsInOrder
  ResultsArePaced
  ExchangeDoesNotWait
  LossesAreReported
PROPERTIES
  ImplementsConveyor
  MethodsReturn
\* the owner may drop the processor, abort, or stop calling
CHECK_DEADLOCK FALSE
