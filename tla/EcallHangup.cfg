SPECIFICATION Spec
CHECK_DEADLOCK FALSE
CONSTANTS
  Configs <- MCPlain
  Requests <- MCDialing
  Numbers = {112}
  MaxCalls = 1
  MaxHangups = 1
  MaxPulls = 0
PROPERTIES HangupEnds
