CONSTANTS
  a = a  b = b
  Table <- MCTable
  Collections = {c, d}
  Presets = {p}
  None = None  Torn = Torn
  Bounded = TRUE
  MaxEvents = 4
SPECIFICATION FairSpec
INVARIANTS Kept ReleasedStops
PROPERTIES RightGoto CallsReturn
CHECK_DEADLOCK FALSE
