\* An empty staged directory becomes a file while cleanup runs.
SPECIFICATION Spec
CONSTANTS
  Path <- Paths
  Above <- Parents
  Rank <- Strings
  Original <- Originals
  InitNode <- Bare
  Linked = {}
  Conflicts <- Conflict
  Faults = FALSE
  Interference = {"replace"}
  MaxEdits = 1
  Ino <- Inodes
  NoIno = 0
  NoNode = NoNode
  Byte = {"nul", "a", "b"}
  Nul = "nul"
  NBlocks = 1
  Owner = {"root"}
  ZeroOwner = "root"
  Mode <- AllModes
  ZeroMode = "0000"
  LinkMode = "0777"
  Stripped <- StrippedModes
PROPERTIES
  OnlyDirectoriesAreSwept
CHECK_DEADLOCK FALSE
