CONSTANTS
  IntMax = 7
  Whole = 2
  Inputs <- UnnamedScenario
SPECIFICATION Spec
INVARIANT OffsetsAreAsDeclared
CHECK_DEADLOCK FALSE
