CONSTANTS
  a = a  b = b  s1 = s1  s2 = s2  u = u  w = w
  Cameras = {a, b}
  Sources = {s1, s2}
  Userinfos = {u, w}
  NoUserinfo = NoUserinfo
  None = None
  Outputs = {"streaming", "recording"}
  Vault <- OneVault
  MappingChoices <- Tables
  PolicyChoices = {"ask", "always"}
  MaxRestarts = 1
  MaxEvents = 4
SPECIFICATION FairSpec
INVARIANT PipelineInv
PROPERTIES ConsentWhenLive RightCamera UserinfoKept AutoRepair
CHECK_DEADLOCK FALSE
