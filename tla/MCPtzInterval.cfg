CONSTANTS
  v1 = v1  v2 = v2  t1 = t1  t2 = t2
  Cameras = {1}
  Velocities = {v1, v2}
  Callers = {t1}
  Still = Still
  None = None
  SettingsChoices <- Bounded
  Runtime = FALSE
  Reliable = TRUE
  MaxCalls = 2
SPECIFICATION Spec
PROPERTY MinInterval
CHECK_DEADLOCK FALSE
