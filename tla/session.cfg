\* Sessions over two small trees while other processes act once.
SPECIFICATION FewerSpec
CONSTANTS
  Path <- Paths
  Above <- Parents
  Rank <- Strings
  Original <- Originals
  InitNode <- Objects
  Linked <- Links
  Conflicts <- Conflict
  Faults = TRUE
  Interference = {"write", "reject", "replace"}
  MaxEdits = 1
  Ino <- Inodes
  NoIno = 0
  NoNode = NoNode
  Byte = {"nul", "a", "b"}
  Nul = "nul"
  NBlocks = 1
  Owner = {"root"}
  ZeroOwner = "root"
  Mode <- AllModes
  ZeroMode = "0000"
  LinkMode = "0777"
  Stripped <- StrippedModes
INVARIANTS
  SessionTypeOK
  ChildrenFirst
  SummaryAccounts
  CompleteSessionLeavesNothing
  SkippedFilesStay
  SiblingsStayFresh
PROPERTIES
  DryRunIsReadOnly
  NothingLost
  OnlyShownIsActedOn
  Ends
CHECK_DEADLOCK FALSE
