------------------------------ MODULE Candidate ------------------------------
(***************************************************************************)
(* What lstat(2) reports of a filesystem object, and what a `candidate`    *)
(* records of an installed/staged pair: the two fingerprints and the       *)
(* semantic state classify_candidate() derives from them.                  *)
(*                                                                         *)
(* Every content of the model has the same length, so st_size never tells  *)
(* two contents apart, and `ctime` stands for both timestamps: the kernel  *)
(* moves st_ctim whenever it moves st_mtim.  An inode number stands for    *)
(* the pair (st_dev, st_ino).                                              *)
(***************************************************************************)
EXTENDS Naturals

CONSTANTS
  Ino,          \* inode numbers; a released one may be handed out again
  NoIno,        \* what a name without a directory entry refers to
  NoNode,       \* the content of an inode nobody refers to
  Byte,         \* values of one block of a file
  Nul,          \* the block value that contains a NUL byte
  NBlocks,      \* a file is read and written in this many blocks
  Owner,        \* (uid, gid) pairs
  ZeroOwner,    \* uid 0, gid 0: the owner in a default-constructed record
  Mode,         \* permission words
  ZeroMode,     \* mode 0: the mode in a default-constructed record
  LinkMode,     \* the mode of every symbolic link (0777)
  Stripped      \* what chown(2) leaves of a mode: set-id bits are dropped

ASSUME InoAssumption   == NoIno \notin Ino
ASSUME ByteAssumption  == Nul \in Byte /\ NBlocks \in Nat \ {0}
ASSUME OwnerAssumption == ZeroOwner \in Owner
ASSUME ModeAssumption  == ZeroMode \in Mode /\ LinkMode \in Mode /\ Stripped \in [Mode -> Mode]

Block == 1 .. NBlocks
Data  == [Block -> Byte]

NodeType == {"regular", "directory", "symlink", "other"}

(* An inode.  `data` is a regular file's bytes or a symbolic link's target *)
(* and means nothing for the other types.                                  *)
Node == [type: NodeType, data: Data, mode: Mode, owner: Owner, ctime: Nat]

ASSUME NodeAssumption == NoNode \notin Node

------------------------------------------------------------------------------
(* raw_fingerprint, with the metadata record made from the same stat.      *)
Fingerprint ==
  [exists: BOOLEAN, inode: Ino \cup {NoIno}, type: NodeType \cup {"missing"},
   mode: Mode, owner: Owner, ctime: Nat]

Missing ==
  [exists |-> FALSE, inode |-> NoIno, type |-> "missing",
   mode |-> ZeroMode, owner |-> ZeroOwner, ctime |-> 0]

(* observe(): lstat the inode i that a name refers to in the table nd.     *)
Observe(nd, i) ==
  IF i = NoIno
  THEN Missing
  ELSE [exists |-> TRUE, inode |-> i, type |-> nd[i].type,
        mode |-> nd[i].mode, owner |-> nd[i].owner, ctime |-> nd[i].ctime]

(* fingerprint_matches() without its timestamp comparison: an edit that is *)
(* visible only in st_ctim would no longer make a candidate stale.         *)
MatchesIgnoringTimes(expected, actual) ==
  /\ expected.exists = actual.exists
  /\ expected.inode = actual.inode
  /\ expected.type = actual.type
  /\ expected.mode = actual.mode
  /\ expected.owner = actual.owner

(* The same with an object that is gone taken for unchanged.               *)
MatchesMissing(expected, actual) == actual.exists => expected = actual

(* The same with the timestamps of directories compared as well.           *)
MatchesExactly(expected, actual) == expected = actual

(* candidate_access::fingerprint_matches(): directories are compared       *)
(* without their timestamps, which resolving a child changes.              *)
FingerprintMatches(expected, actual) ==
  /\ expected.exists = actual.exists
  /\ expected.inode = actual.inode
  /\ expected.type = actual.type
  /\ expected.mode = actual.mode
  /\ expected.owner = actual.owner
  /\ \/ ~expected.exists
     \/ expected.type = "directory"
     \/ expected.ctime = actual.ctime

(* same_fingerprint(): used while reading, it exempts nothing.             *)
SameFingerprint(lhs, rhs) == lhs = rhs

------------------------------------------------------------------------------
(* same_metadata(): a symlink's mode is not applicable metadata.           *)
SameMetadata(lhs, rhs) ==
  /\ lhs.type = rhs.type
  /\ lhs.owner = rhs.owner
  /\ lhs.type = "symlink" \/ lhs.mode = rhs.mode

CandidateState == {"duplicate", "metadata_only", "changed", "type_changed", "relic"}

(* classify_candidate() with the relic and type_changed tests swapped.     *)
ClassifyTypeFirst(installed, staged, content_equal, metadata_equal) ==
  IF installed # staged THEN "type_changed"
  ELSE IF installed = "missing" THEN "relic"
  ELSE IF content_equal /\ metadata_equal THEN "duplicate"
  ELSE IF content_equal THEN "metadata_only" ELSE "changed"

ClassifyCandidate(installed, staged, content_equal, metadata_equal) ==
  IF installed = "missing" THEN "relic"
  ELSE IF installed # staged THEN "type_changed"
  ELSE IF content_equal /\ metadata_equal THEN "duplicate"
  ELSE IF content_equal THEN "metadata_only" ELSE "changed"

(* A candidate: what scan() saw.  Its state and metadata_equal() are       *)
(* computed once by the code from fields that never change afterwards.     *)
CandidateRecord ==
  [installed: Fingerprint, staged: Fingerprint, equal: BOOLEAN, text: BOOLEAN]

MetadataEqual(cd) == SameMetadata(cd.installed, cd.staged)

State(cd) ==
  ClassifyCandidate(cd.installed.type, cd.staged.type, cd.equal, MetadataEqual(cd))

Relic(cd) == State(cd) = "relic"

(* A regular file is text when no block holds a NUL byte.                  *)
TextData(d) == \A k \in Block : d[k] # Nul
==============================================================================
