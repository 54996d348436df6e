SPECIFICATION Spec
CHECK_DEADLOCK FALSE
CONSTANTS
  s1 = s1
  s2 = s2
  t = t
  w1 = w1
  Sources <- TwoSources
  Target = t
  Writers <- OneWriter
  MaxAttempts = 2
  Plans <- Switching
CONSTRAINT DroppedInTime
INVARIANTS
  CancelUndone
PROPERTIES
  ForwardStopsAtFlip
  NothingLeftBehind
  SequencesCarried
