SPECIFICATION Spec
CONSTANTS
  Threads = {t1, t2}
  MaxChanges = 1
INVARIANTS
  WaitWhileWaits
CHECK_DEADLOCK FALSE
