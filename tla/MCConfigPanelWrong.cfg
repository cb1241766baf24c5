CONSTANTS
  a = a  b = b
  Cameras = {a, b}
  None = None  Typed = Typed  Blank = Blank  Off = Off  Near = Near
  Fixed = Fixed  Fail = Fail
  Services <- MCServices
  Media2 = {b}
  Fast = {b}
  LongList = {}
  Bare = {}
  Inexact <- MCInexact
  StartTables <- MCTables
  Loads = {l1, l2}
  Jobs = {j1, j2}
  EditParts = {"osd"}
  MaxEvents = 2
SPECIFICATION Spec
INVARIANTS OwnForm
CHECK_DEADLOCK FALSE
