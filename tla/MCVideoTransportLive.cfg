CONSTANTS
  CacheSize = 4
  EvictDelays <- One
  NACK_NUM = 1
  ACK_NUM = 1
  LossDelay = 3
  Rtts <- Fast
  Totals <- One
  Gaps <- One
  KeyEvery = 3
  Fecs <- Zero
  MaxFrames = 3
  MaxWaiting = 0
  MaxCtrl = 1
  MaxLost = 4
  MaxEvicts = 0
  MaxCalls = 1
SPECIFICATION FairSpec
PROPERTIES
  PlayerCatchesUp
CHECK_DEADLOCK FALSE
