CONSTANTS
  Ends <- MCEnds
  Callers <- OneCaller
  MaxCalls = 1
  MaxCreates = 0
  GiveUp = 5
  InterruptResends = 1
  Beats <- Timely
  Duplicating = FALSE
  Losing = TRUE
  a = a
  b = b
SPECIFICATION FairSpec
INVARIANT PlayKnown
PROPERTIES
  WaitingResolves
  SilentPeerReleased
CHECK_DEADLOCK FALSE
