\* Scans and comparisons while other processes interfere.
SPECIFICATION Spec
CONSTANTS
  Client = {c1}
  Kind = {"compare_text"}
  CrossDevice = {TRUE}
  CoarseClock = FALSE
  Faults = FALSE
  UnlinkFails = FALSE
  Crashes = FALSE
  Interference = {"write", "put", "remove", "chmod"}
  InitType = {"regular", "symlink"}
  PutType = {"regular", "symlink"}
  GivenMode = {"0755", "4755"}
  HardLinked = FALSE
  MaxClock = 2
  Ino = {i1, i2, i3}
  NoIno = NoIno
  NoNode = NoNode
  Byte = {"nul", "a"}
  Nul = "nul"
  NBlocks = 2
  Owner = {"root"}
  ZeroOwner = "root"
  ZeroMode = "0000"
  LinkMode = "0777"
  Mode <- Modes
  Stripped <- StrippedModes
  c1 = c1
  i1 = i1
  i2 = i2
  i3 = i3
SYMMETRY Symmetry
INVARIANTS
  CandidateTruthful
  FlagsMatchFingerprints
  EditMakesStale
PROPERTIES
  ComparedTruthful
CHECK_DEADLOCK FALSE
