CONSTANTS
  c1 = c1  c2 = c2  sn1 = sn1  mac2 = mac2  hw2 = hw2  x = x  y = y
  Devices = {c1}
  Addrs = {x, y}
  Ids = {sn1}
  FoundAs <- OneSerial
  AddedAs <- OneSerial
  MacNamed = {}
  None = None
  Loop = "loop"
  Workers = {"dock"}
  StaleBeats = 1
  Multicast = TRUE
  Directed = TRUE
  Firewall = FALSE
  MaxNet = 1
  MaxEvents = 4
  MaxRestarts = 1
SPECIFICATION Spec
INVARIANTS TypeOK ManualStaysOnline TableTold TableSaved
CHECK_DEADLOCK FALSE
