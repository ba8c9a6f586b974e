CONSTANTS
  IntMax = 7
  Whole = 2
  Inputs <- MCInputs
SPECIFICATION Spec
INVARIANTS
  TypeOK
  ComponentsAreAsDeclared
  ModesAreAsDeclared
  ScenariosAreAsDeclared
  VerdictIsTheInputs
  CheckFindsEveryFault
  CheckPassesGoodNetworks
  StoresCanBeUsed
  NodesReportEveryConnection
CHECK_DEADLOCK FALSE
