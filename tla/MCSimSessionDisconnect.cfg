CONSTANTS
  Ends <- MCEnds
  Callers <- OneCaller
  MaxCalls = 1
  MaxCreates = 0
  GiveUp = 5
  InterruptResends = 1
  Beats <- Timely
  Duplicating = FALSE
  Losing = TRUE
  a = a
  b = b
SPECIFICATION FairSpec
PROPERTY DisconnectResolves
CHECK_DEADLOCK FALSE
