\* One client alone, every disposition and replays of it, failing calls, failing cleanups and crashes.
SPECIFICATION Spec
CONSTANTS
  Client = {c1}
  Kind = {"keep", "install", "install_merged", "restore", "relocate_relic", "remove_relic", "compare_text"}
  CrossDevice = {TRUE, FALSE}
  CoarseClock = FALSE
  Faults = TRUE
  UnlinkFails = TRUE
  Crashes = TRUE
  Interference = {}
  InitType = {"regular", "directory", "symlink", "other"}
  PutType = {}
  GivenMode = {"0755", "4755"}
  HardLinked = FALSE
  MaxClock = 2
  Ino = {i1, i2, i3, i4}
  NoIno = NoIno
  NoNode = NoNode
  Byte = {"nul", "a"}
  Nul = "nul"
  NBlocks = 2
  Owner = {"root", "user"}
  ZeroOwner = "root"
  ZeroMode = "0000"
  LinkMode = "0777"
  Mode <- Modes
  Stripped <- StrippedModes
  c1 = c1
  i1 = i1
  i2 = i2
  i3 = i3
  i4 = i4
SYMMETRY Symmetry
INVARIANTS
  TypeOK
  SuccessDelivers
  StagedSurvives
  MergedIsAtomic
  ResolvedFileIsStale
PROPERTIES
  Implements
CHECK_DEADLOCK FALSE
