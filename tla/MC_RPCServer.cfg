CONSTANTS
  w1 = w1
  w2 = w2
  httpTimers = httpTimers
  noInterface = noInterface
  Workers <- MCWorkers
  BuiltinNames <- MCBuiltinNames
  CommandNames <- MCCommandNames
  TimerOf <- MCTimerOf
  Requests <- MCRequests
  RescanCommands <- MCRescanCommands
  HTTPTimers <- httpTimers
  NoInterface <- noInterface

SPECIFICATION Spec
INVARIANT ScanningHeldByOneReserver
PROPERTIES
  
  ShutdownCompletes
