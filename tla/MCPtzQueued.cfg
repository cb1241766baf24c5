CONSTANTS
  v1 = v1  v2 = v2  t1 = t1  t2 = t2
  Cameras = {1, 2}
  Velocities = {v1, v2}
  Callers = {t1}
  Still = Still
  None = None
  SettingsChoices <- QueuedUnbounded
  Runtime = TRUE
  Reliable = TRUE
  MaxCalls = 4
SPECIFICATION FairSpec
INVARIANT NoRunaway
PROPERTIES StopLands Convergence ShutdownReturns
CHECK_DEADLOCK FALSE
