SPECIFICATION Spec
CONSTANTS
  MaxFlow = 20
  CastOverflow = 0
  TicksPerSecond = 60
  MaxTimes = 6
  MaxLoop = 6
  EnableSwitchLogic = TRUE
  Comp <- MCComp
  Part <- MCPart
  Conn <- MCConn
  Connection <- MCConnection
  Models <- MCModels
  FinalTime <- MCFinalTime
  TimeSteps <- MCTimeSteps
INVARIANTS
  StoreWithinCapacity
  StoresStopAtTheirLimits
  StoredEnergyIsAccountedFor
  FailedComponentsCarryNothing
  EnergyBalances
  UniformRowsShowTheRun
