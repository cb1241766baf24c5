CONSTANTS
  v1 = v1  v2 = v2  t1 = t1  t2 = t2
  Cameras = {1, 2}
  Velocities = {v1}
  Callers = {t1}
  Still = Still
  None = None
  SettingsChoices <- Bounded
  Runtime = FALSE
  Reliable = FALSE
  MaxCalls = 4
SPECIFICATION FairSpec
PROPERTY RestsAfterRelease
CHECK_DEADLOCK FALSE
