SPECIFICATION Spec
CONSTANT Count = 2
INVARIANTS
  NoThreadWithoutHandle
CHECK_DEADLOCK FALSE
