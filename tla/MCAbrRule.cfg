CONSTANTS
  tiers_kbps <- MCTiers
  threshold = 8
  frames_per_row = 2
  first_bitrate = 4000
  Confidences <- MCConfidences
  Rows <- MCRows
  CcBitrates <- MCCcBitrates
  MaxIndex = 8
SPECIFICATION AbrSpec
INVARIANT MinimalBitrate
CHECK_DEADLOCK FALSE
