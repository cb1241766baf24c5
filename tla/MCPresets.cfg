CONSTANTS
  a = a  b = b
  Cameras = {a, b}
  None = None
  Tokens = {1, 2}
  StartPresets = {1}
  Threads = {1, 2}
  MaxProfile = 1
  MaxEvents = 2
SPECIFICATION FairSpec
INVARIANTS RightList LastIsServed
CHECK_DEADLOCK FALSE
PROPERTIES Heals
