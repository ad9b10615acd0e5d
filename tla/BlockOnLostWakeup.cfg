SPECIFICATION FairSpec
CONSTANTS
  Sources = {s1}
  MaxWakes = 0
PROPERTY RunsToCompletion
CHECK_DEADLOCK FALSE
