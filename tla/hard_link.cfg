\* install() of a pair of names that are links to one inode.
SPECIFICATION Spec
CONSTANTS
  Client = {c1}
  Kind = {"install"}
  CrossDevice = {FALSE}
  CoarseClock = FALSE
  Faults = FALSE
  UnlinkFails = FALSE
  Crashes = FALSE
  Interference = {}
  InitType = {"regular"}
  PutType = {}
  GivenMode = {"0755", "4755"}
  HardLinked = TRUE
  MaxClock = 2
  Ino = {i1, i2, i3}
  NoIno = NoIno
  NoNode = NoNode
  Byte = {"nul", "a"}
  Nul = "nul"
  NBlocks = 1
  Owner = {"root"}
  ZeroOwner = "root"
  ZeroMode = "0000"
  LinkMode = "0777"
  Mode <- Modes
  Stripped <- StrippedModes
  c1 = c1
  i1 = i1
  i2 = i2
  i3 = i3
SYMMETRY Symmetry
INVARIANTS
  InstallConsumesStaged
CHECK_DEADLOCK FALSE
