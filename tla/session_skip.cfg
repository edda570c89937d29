\* A skipped directory, undisturbed.
SPECIFICATION Spec
CONSTANTS
  Path <- Paths
  Above <- Parents
  Rank <- Strings
  Original <- Originals
  InitNode <- Bare
  Linked = {}
  Conflicts <- Conflict
  Faults = FALSE
  Interference = {"write", "reject"}
  MaxEdits = 0
  Ino <- Inodes
  NoIno = 0
  NoNode = NoNode
  Byte = {"nul", "a", "b"}
  Nul = "nul"
  NBlocks = 1
  Owner = {"root"}
  ZeroOwner = "root"
  Mode <- AllModes
  ZeroMode = "0000"
  LinkMode = "0777"
  Stripped <- StrippedModes
INVARIANTS
  SkippedStays
CHECK_DEADLOCK FALSE
