CONSTANTS
  PacketSeqs <- MCPacketSeqs
  MaxQueMs = 250
  Sizes <- MCSizes
  Bitrates <- MCBitrates
  PacingRates <- MCPacingRates
  PaddingRates <- MCPaddingRates
  Delays <- MCDelays
  MaxNow = 250
  tiers_kbps <- MCTiers
  threshold = 8
  frames_per_row = 2
  first_bitrate = 4000
  Confidences <- MCConfidences
  Rows <- MCRows
  CcBitrates <- MCCcBitrates
  MaxIndex = 8
  reduce_interval = 1
  headroom = 2
  Increments = {4}
  heartbeat_interval = 1
  k_normal_notify_timer = 2
  k_bwe_increase_interval_ms = 2
  k_limit_num_packets = 2
  k_start_phase_ms = 2
  k_feelback_interval_ms = 3
  k_feelback_timeout_intervals = 1
  k_timeout_interval_ms = 2
  k_bwe_decrease_interval_ms = 1
  MIN_HISTORY_ARR_SIZE = 8
  least_increase = 1
  RoundTrips = {1}
  Settings <- MCSettings
  AckedRates <- MCAckedRates
  Rembs = {12}
  Losses <- MCLosses
  Waits = {2}
  MaxCalls = 2
  MaxFeedbacks = 2
  MaxTime = 4
SPECIFICATION PartsSpec
INVARIANTS
  TypeOK
  QueueConsistent
  BytesExact
  AgeExact
  BurstBounded
  BitrateSettles
  GccRateSound
PROPERTIES
  ImplementsPaceSpec
  PaddingYields
  GccReacts
CHECK_DEADLOCK FALSE
