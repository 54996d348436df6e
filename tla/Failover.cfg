CONSTANTS
  a = a b = b c = c
  Members = {a, b, c}
  First = a
  None = None
  Operator = Operator
  Plans <- Both
SPECIFICATION FairSpec
INVARIANTS AckedSurvive OneWriter FencePublishedFirst
PROPERTIES DesignatedPromoted
CHECK_DEADLOCK FALSE
