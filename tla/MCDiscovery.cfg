CONSTANTS
  c1 = c1  c2 = c2  sn1 = sn1  mac2 = mac2  hw2 = hw2  x = x  y = y
  Devices = {c2}
  Addrs = {x, y}
  Ids = {mac2, hw2}
  FoundAs <- OneMac
  AddedAs <- OneHardware
  MacNamed = {c2}
  None = None
  Loop = "loop"
  Workers = {"dock"}
  StaleBeats = 1
  Multicast = TRUE
  Directed = TRUE
  Firewall = FALSE
  MaxNet = 1
  MaxEvents = 2
  MaxRestarts = 1
SPECIFICATION FairSpec
INVARIANTS TypeOK ManualStaysOnline TableTold TableSaved
PROPERTIES Tracked FeedFollows GoneGoesOffline
CHECK_DEADLOCK FALSE
