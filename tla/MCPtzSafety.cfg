CONSTANTS
  v1 = v1  v2 = v2  t1 = t1  t2 = t2
  Cameras = {1, 2}
  Velocities = {v1, v2}
  Callers = {t1, t2}
  Still = Still
  None = None
  SettingsChoices <- AllSettings
  Runtime = TRUE
  Reliable = FALSE
  MaxCalls = 4
SPECIFICATION Spec
SYMMETRY Symmetry
INVARIANTS TypeOK FloorHasWork NoLostIdleWakeup ControlInv
PROPERTY LatestWins
CHECK_DEADLOCK FALSE
