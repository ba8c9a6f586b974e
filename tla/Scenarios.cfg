SPECIFICATION Spec
CONSTANTS
  Whole = 2
  DefaultOccurrences = 5
  Cause <- MCCause
  Sims <- MCSims
INVARIANTS
  TypeOK
  OutagesAreApplied
  SchedulesSuitTheSimulation
  AvailabilityIsTheTimeUp
  FailuresAreCounted
  LoadsAreTheScenarios
  OccurrencesAreComplete
PROPERTY Terminates
CHECK_DEADLOCK FALSE
