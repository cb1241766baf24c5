CONSTANTS
  a = a  b = b  s1 = s1  s2 = s2  u = u  w = w
  Cameras = {a, b}
  Sources = {s1, s2}
  Userinfos = {u, w}
  NoUserinfo = NoUserinfo
  None = None
  Outputs = {"streaming"}
  Vault <- OneVault
  MappingChoices <- FixedTable
  PolicyChoices = {"ask"}
  MaxRestarts = 0
  MaxEvents = 4
SPECIFICATION Spec
PROPERTY CredentialsStay
CHECK_DEADLOCK FALSE
