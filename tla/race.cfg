\* Two clients resolve the same pair at the same time, copying across filesystems.
SPECIFICATION Spec
CONSTANTS
  Client = {c1, c2}
  Kind = {"keep", "install", "install_merged", "restore", "relocate_relic", "remove_relic"}
  CrossDevice = {TRUE}
  CoarseClock = FALSE
  Faults = TRUE
  UnlinkFails = FALSE
  Crashes = FALSE
  Interference = {}
  InitType = {"regular"}
  PutType = {}
  GivenMode = {"0755"}
  HardLinked = FALSE
  MaxClock = 2
  Ino = {i1, i2, i3, i4, i5}
  NoIno = NoIno
  NoNode = NoNode
  Byte = {"nul", "a"}
  Nul = "nul"
  NBlocks = 1
  Owner = {"root"}
  ZeroOwner = "root"
  ZeroMode = "0000"
  LinkMode = "0777"
  Mode <- Modes
  Stripped <- StrippedModes
  c1 = c1
  c2 = c2
  i1 = i1
  i2 = i2
  i3 = i3
  i4 = i4
  i5 = i5
SYMMETRY Symmetry
INVARIANTS
  AtMostOneWinner
  StagedSurvives
PROPERTIES
  RelicNeverReplaces
  NoTemporaryLeft
CHECK_DEADLOCK FALSE
