\* A staged directory whose installed counterpart is a file.
SPECIFICATION Spec
CONSTANTS
  Path <- Paths
  Above <- Parents
  Rank <- Strings
  Original <- Originals
  InitNode <- Bare
  Linked = {}
  Conflicts <- Conflict
  Faults = FALSE
  Interference = {"write", "reject"}
  MaxEdits = 0
  Ino <- Inodes
  NoIno = 0
  NoNode = NoNode
  Byte = {"nul", "a", "b"}
  Nul = "nul"
  NBlocks = 1
  Owner = {"root"}
  ZeroOwner = "root"
  Mode <- AllModes
  ZeroMode = "0000"
  LinkMode = "0777"
  Stripped <- StrippedModes
PROPERTIES
  ScanReturns
CHECK_DEADLOCK FALSE
