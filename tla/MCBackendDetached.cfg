CONSTANTS
  a = a  b = b
  Table <- MCTable
  Collections = {c, d}
  Presets = {p}
  None = None  Torn = Torn
  Bounded = FALSE
  MaxEvents = 4
SPECIFICATION Spec
INVARIANTS NothingAfterUnload
CHECK_DEADLOCK FALSE
