\* keep() while another process replaces the staged object.
SPECIFICATION Spec
CONSTANTS
  Client = {c1}
  Kind = {"keep"}
  CrossDevice = {FALSE}
  CoarseClock = FALSE
  Faults = FALSE
  UnlinkFails = FALSE
  Crashes = FALSE
  Interference = {"put"}
  InitType = {"regular"}
  PutType = {"regular"}
  GivenMode = {"0755"}
  HardLinked = FALSE
  MaxClock = 2
  Ino = {i1, i2, i3}
  NoIno = NoIno
  NoNode = NoNode
  Byte = {"nul", "a"}
  Nul = "nul"
  NBlocks = 1
  Owner = {"root"}
  ZeroOwner = "root"
  ZeroMode = "0000"
  LinkMode = "0777"
  Mode <- Modes
  Stripped <- StrippedModes
  c1 = c1
  i1 = i1
  i2 = i2
  i3 = i3
SYMMETRY Symmetry
PROPERTIES
  OnlyObservedIsRemoved
CHECK_DEADLOCK FALSE
