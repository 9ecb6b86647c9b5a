CONSTANTS
  CacheSize = 4
  EvictDelays <- One
  NACK_NUM = 1
  ACK_NUM = 1
  LossDelay = 1
  Rtts <- Fast
  Totals <- Small
  Gaps <- One
  KeyEvery = 4
  MaxFrames = 5
  Ahead = 2
  Behind = 3
  MaxPackets = 6
  wnd_size = 2
  k_loss_statistics_window_ms = 2
  k_max_statistics_window_number = 3
  k_min_statistics_number = 2
  remb_time_event = 1
  LastId = 3
  RembSizes <- Small
  PerTime = 2
  LastTime = 3
  Pauses <- ShortOrLong
  SeqRange = 8
  RingSize = 5
  Sizes <- MCSizes
  MAX_BBR_FEELBACK_COUNT = 3
  BBR_FEEDBACK_THROLD = 3
  Duplicating = TRUE
  Lag = 3
  MaxOld = 1
  MaxReports = 2
  MaxSent = 9
SPECIFICATION PartsSpec
INVARIANTS
  SlotsOwned
  NoneForgotten
  TypeOK
  KeysTrue
  BytesAccounted
PROPERTIES
  ImplementsVideoSpec
  RembTrue
CHECK_DEADLOCK FALSE
