CONSTANTS
  h1 = h1  h2 = h2
  Threads = {"control", "dock"}
  Control = "control"
  Services = {"ptz"}
  Handles = {h1, h2}
  None = None
  AllowBasic = TRUE
  MaxCalls = 1
  MaxChanges = 1
SPECIFICATION FairSpec
INVARIANT OneUser
PROPERTIES OnceWhenCalm LearnsAccepted AbortEnds CallsReturn
CHECK_DEADLOCK FALSE
