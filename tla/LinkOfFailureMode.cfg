SPECIFICATION Spec
CONSTANTS
  Whole = 2
  DefaultOccurrences = 5
  Cause <- MCCause
  Sims <- SwappedLinks
INVARIANT SchedulesFollowTheirMode
CHECK_DEADLOCK FALSE
