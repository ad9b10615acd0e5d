SPECIFICATION FairSpec
CONSTANTS
  Threads = {t1, t2, t3}
  MaxChanges = 2
INVARIANTS
  SeesWholeChanges
  SleepersWillBeNotified
  WaitsAreTruthful
PROPERTIES
  FreeLockIsAcquired
  ImplementsMonitor
\* everybody may sleep, or be done with the lock
CHECK_DEADLOCK FALSE
