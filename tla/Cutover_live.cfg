SPECIFICATION EndingSpec
CHECK_DEADLOCK FALSE
CONSTANTS
  s1 = s1
  s2 = s2
  t = t
  w1 = w1
  Sources <- OneSource
  Target = t
  Writers <- OneWriter
  MaxAttempts = 2
  Plans <- Ending
PROPERTIES
  StageEnds
  WritesResume
  RollbackKeepsWrites
