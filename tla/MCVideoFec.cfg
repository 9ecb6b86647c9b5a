CONSTANTS
  CacheSize = 4
  EvictDelays <- One
  NACK_NUM = 1
  ACK_NUM = 1
  LossDelay = 1
  Rtts <- AnyRtt
  Totals <- One
  Gaps <- One
  KeyEvery = 3
  Fecs <- Zero
  MaxFrames = 3
  MaxWaiting = 0
  MaxCtrl = 2
  MaxLost = 1
  MaxEvicts = 0
  MaxCalls = 1
  FrameGaps <- Short
  FrameTotals <- TwoOrFive
  ProtectFractions <- Fractions
  FecDelays <- Prompt
  RegroupDelay = 2
  EVICT_FEC_DELAY = 3
  MaxFecId = 2
  MaxPackets = 8
  MaxTime = 7
  MaxPassed = 1
  SeqRange = 8
  TsRange = 8
  MAX_FEELBACK_COUNT = 3
  BACK_WINDOWS_MS = 4
  GccPauses <- MCGccPauses
  MaxGccSent = 6
  MaxGccLag = 2
  MaxGccReports = 1
  MaxGccRepeats = 1
  MaxGccNow = 8
  kGainCycleLength = 3
  num_startup_rtts = 2
  kMinRttExpiry = 0
  kProbeRttTimeMs = 1
  min_congestion_window = 2
  initial_congestion_window = 2
  max_congestion_window = 3
  kMaxSegmentSize = 1
  RttSamples <- MCRtts
  Amounts <- MCAmounts
  Targets <- MCTargets
  MaxNumber = 2
  MaxNow = 3
  MaxWindow = 3
  filter_wnd_size = 10
  BwSamples <- MCBwSamples
  RoundGaps <- MCRoundGaps
  MaxRounds = 15
SPECIFICATION PartsSpec
INVARIANTS
  PartsTypeOK
  SenderBaseSound
  KeptWhileWanted
  RecoveredGenuine
  FlexLive
  DecoderComplete
  GccFeedbackSound
  ControllerSound
  FilterSound
PROPERTIES
  ImplementsVideoSpec
  ProbeRttLasts
  RttGivenUp
CHECK_DEADLOCK FALSE
