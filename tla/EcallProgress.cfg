SPECIFICATION FairSpec
CHECK_DEADLOCK FALSE
CONSTANTS
  Configs <- MCSingle
  Requests <- MCOneNumber
  Numbers = {112}
  MaxCalls = 1
  MaxHangups = 1
  MaxPulls = 1
PROPERTIES DialableAgain PullEnds
