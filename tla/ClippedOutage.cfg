SPECIFICATION Spec
CONSTANTS
  Whole = 2
  DefaultOccurrences = 5
  Cause <- MCCause
  Sims <- LongRepair
INVARIANT OutagesAreApplied
CHECK_DEADLOCK FALSE
