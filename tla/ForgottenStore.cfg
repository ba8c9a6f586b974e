SPECIFICATION Spec
CONSTANTS
  MaxFlow = 20
  CastOverflow = 0
  TicksPerSecond = 60
  MaxTimes = 6
  MaxLoop = 6
  EnableSwitchLogic = TRUE
  Comp <- ChainComp
  Part <- ChainPart
  Conn <- ChainConn
  Connection <- ChainConnection
  Models <- ChainModels
  FinalTime <- ChainFinalTime
  TimeSteps <- MCTimeSteps
INVARIANT StoreWithinCapacity
