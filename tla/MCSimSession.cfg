CONSTANTS
  Ends <- MCEnds
  Callers <- MCEnds
  MaxCalls = 2
  MaxCreates = 1
  GiveUp = 5
  InterruptResends = 1
  Beats <- Timely
  Duplicating = TRUE
  Losing = FALSE
  a = a
  b = b
SPECIFICATION Spec
SYMMETRY Swapped
INVARIANTS
  TypeOK
  SenderOfCall
  CallKnown
  RecordingExact
PROPERTIES
  GivesUpOnSilence
  CallSurvives
CHECK_DEADLOCK FALSE
