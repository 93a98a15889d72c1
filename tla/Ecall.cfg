SPECIFICATION Spec
CHECK_DEADLOCK FALSE
CONSTANTS
  Configs <- MCConfigs
  Requests <- MCRequests
  Numbers = {112, 999}
  MaxCalls = 2
  MaxHangups = 1
  MaxPulls = 1
CONSTRAINT Explored
INVARIANTS UndisturbedIsSafe CallbackTimersReset CallTimersStopped TimersWatched EndedLeaves
PROPERTIES OnlyEndedLeave
