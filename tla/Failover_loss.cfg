CONSTANTS
  a = a b = b c = c
  Members = {a, b, c}
  First = a
  None = None
  Operator = Operator
  Plans <- OneWrite
SPECIFICATION LossSpec
INVARIANTS AckedSurvive
CHECK_DEADLOCK FALSE
