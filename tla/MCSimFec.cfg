CONSTANTS
  FrameGaps <- One
  FrameTotals <- Two
  ProtectFractions <- Fractions
  FecDelays <- Zero
  RegroupDelay = 1
  EVICT_FEC_DELAY = 2
  MaxFecId = 2
  MaxPackets = 16
  MaxTime = 8
  MaxPassed = 0
SPECIFICATION PromptSpec
INVARIANTS
  RecoversLost
CHECK_DEADLOCK FALSE
