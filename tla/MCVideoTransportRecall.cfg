CONSTANTS
  CacheSize = 4
  EvictDelays <- One
  NACK_NUM = 1
  ACK_NUM = 1
  LossDelay = 1
  Rtts <- AnyRtt
  Totals <- One
  Gaps <- One
  KeyEvery = 3
  Fecs <- Zero
  MaxFrames = 2
  MaxWaiting = 0
  MaxCtrl = 1
  MaxLost = 1
  MaxEvicts = 1
  MaxCalls = 2
SPECIFICATION Spec
INVARIANTS
  CachesSound
CHECK_DEADLOCK FALSE
