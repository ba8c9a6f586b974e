SPECIFICATION Spec
CONSTANTS
  MaxFlow = 10
  CastOverflow = 0
  TicksPerSecond = 1
  MaxTimes = 6
  MaxLoop = 6
  EnableSwitchLogic = TRUE
  Comp <- MCComp
  Part <- MCPart
  Conn <- MCConn
  Connection <- MCConnection
  Models <- MCModels
  FinalTime <- MCFinalTime
  TimeSteps <- MCTimeSteps
INVARIANTS
  TypeOK
  FlowsAreAFixedPoint
  MuxDispatchesInOrder
  OutOfServiceAsScheduled
  FailedComponentsCarryNothing
  SchedulesAreFollowed
  EventsAreRecorded
  SolverConverges
  OutagesAreAccountedFor
PROPERTY KeepsTheCalendar
