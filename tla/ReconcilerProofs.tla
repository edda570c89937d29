--------------------------- MODULE ReconcilerProofs ---------------------------
(***************************************************************************)
(* Theorems about Reconciler, proved for every value of its constants.     *)
(***************************************************************************)
EXTENDS Reconciler, TLAPS

(* Where a client counts the blocks it has read, and where more follow.    *)
Counting == {"read_installed", "read_staged", "recheck", "copy_block", "seal",
             "load_installed", "verify_installed", "load_staged", "verify_staged"}

MoreToRead == {"read_installed", "read_staged", "copy_block", "load_installed",
               "load_staged"}

(* Where it holds descriptors: of both sides, or of one.                   *)
BothOpen      == {"read_installed", "read_staged", "recheck"}
InstalledOpen == {"load_installed", "verify_installed"}
StagedOpen    == {"load_staged", "verify_staged", "copy_block"}

(* Where both sides of the candidate are known to be regular files.        *)
Regular == {"inspect", "open_installed", "load_installed", "verify_installed",
            "open_staged"}

(* The part of the control state the types depend on.                      *)
Control ==
  \A c \in Client :
    /\ pc[c] \notin Counting => got[c].blocks = 0
    /\ pc[c] \in MoreToRead => got[c].blocks < NBlocks
    /\ pc[c] \in BothOpen => fd[c]["installed"] # NoIno /\ fd[c]["staged"] # NoIno
    /\ pc[c] \in InstalledOpen => fd[c]["installed"] # NoIno /\ fd[c]["staged"] = NoIno
    /\ pc[c] \in StagedOpen => fd[c]["staged"] # NoIno
    /\ pc[c] \in {"load_staged", "verify_staged"} => fd[c]["installed"] = NoIno
    /\ pc[c] \notin BothOpen \cup InstalledOpen \cup StagedOpen \cup {"seal"} => fd[c] = Closed
    /\ pc[c] \in {"copy_block", "seal", "publish"} => tmp[c] # NoIno
    /\ pc[c] \in Regular => /\ cand[c]["installed"].type = "regular"
                            /\ cand[c]["staged"].type = "regular"

IInv == TypeOK /\ Control

------------------------------------------------------------------------------
LEMMA BlockFacts == 1 \in Block /\ NBlocks \in Nat /\ NBlocks >= 1
BY ByteAssumption DEF Block

LEMMA BlankType == Blank \in Data /\ NothingGot \in [installed: Data, staged: Data, blocks: 0 .. NBlocks]
BY ByteAssumption DEF Blank, Data, NothingGot, Block

LEMMA MissingType == Missing \in Fingerprint /\ NoCandidate \in CandidateRecord
BY OwnerAssumption, ModeAssumption DEF Missing, Fingerprint, NoCandidate, CandidateRecord

LEMMA ObserveType ==
  ASSUME NEW nd \in [Ino -> Node \cup {NoNode}], NEW i \in Ino \cup {NoIno},
         i # NoIno => nd[i] # NoNode
  PROVE  Observe(nd, i) \in Fingerprint
<1>1. CASE i = NoIno
  BY <1>1, MissingType DEF Observe
<1>2. CASE i # NoIno
  <2>1. nd[i] \in Node
    BY <1>2
  <2> QED
    BY <1>2, <2>1 DEF Observe, Fingerprint, Node
<1> QED
  BY <1>1, <1>2

LEMMA TouchType ==
  ASSUME NEW nd \in [Ino -> Node \cup {NoNode}], NEW touched, NEW t \in Nat
  PROVE  /\ Touch(nd, touched, t) \in [Ino -> Node \cup {NoNode}]
         /\ \A i \in Ino : Touch(nd, touched, t)[i] = NoNode <=> nd[i] = NoNode
<1>1. ASSUME NEW i \in Ino, nd[i] # NoNode
      PROVE  [nd[i] EXCEPT !.ctime = t] \in Node
  BY <1>1 DEF Node
<1> QED
  BY <1>1, NodeAssumption DEF Touch

LEMMA SettleType ==
  ASSUME NEW nd \in [Ino -> Node \cup {NoNode}], Settle(nd),
         \A i \in Ino : i \in Live' => nd[i] # NoNode
  PROVE  /\ node' \in [Ino -> Node \cup {NoNode}]
         /\ \A i \in Ino : i \in Live' => node'[i] # NoNode
BY DEF Settle

LEMMA NowType ==
  ASSUME clock \in Nat, NEW t \in Now
  PROVE  t \in Nat
BY DEF Now

(* A change to one inode, which may be newly in use.                       *)
LEMMA ChangeType ==
  ASSUME TypeOK, NEW i \in Ino, NEW n \in Node, NEW t \in Now, Change(i, n, t),
         \A j \in Ino : j \in Live' => j \in Live \/ j = i
  PROVE  /\ node' \in [Ino -> Node \cup {NoNode}]
         /\ clock' \in Nat
         /\ \A j \in Ino : j \in Live' => node'[j] # NoNode
<1> DEFINE nd == [node EXCEPT ![i] = n]
<1>1. t \in Nat
  BY NowType DEF TypeOK
<1>2. nd \in [Ino -> Node \cup {NoNode}]
  BY DEF TypeOK
<1>3. \A j \in Ino : j \in Live' => nd[j] # NoNode
  BY NodeAssumption DEF TypeOK
<1>4. Touch(nd, {i}, t) \in [Ino -> Node \cup {NoNode}]
  BY <1>1, <1>2, TouchType
<1>5. \A j \in Ino : j \in Live' => Touch(nd, {i}, t)[j] # NoNode
  BY <1>1, <1>2, <1>3, TouchType
<1>6. Settle(Touch(nd, {i}, t)) /\ clock' = t
  BY DEF Change
<1> QED
  BY <1>1, <1>4, <1>5, <1>6, SettleType

(* A change to names only.                                                 *)
LEMMA RelinkType ==
  ASSUME TypeOK, NEW touched, NEW t \in Now, Settle(Touch(node, touched, t)), clock' = t,
         \A j \in Ino : j \in Live' => j \in Live
  PROVE  /\ node' \in [Ino -> Node \cup {NoNode}]
         /\ clock' \in Nat
         /\ \A j \in Ino : j \in Live' => node'[j] # NoNode
<1>1. t \in Nat
  BY NowType DEF TypeOK
<1>2. /\ Touch(node, touched, t) \in [Ino -> Node \cup {NoNode}]
      /\ \A j \in Ino : j \in Live' => Touch(node, touched, t)[j] # NoNode
  BY <1>1, TouchType DEF TypeOK
<1> QED
  BY <1>1, <1>2, SettleType

(* No change to any inode.                                                 *)
LEMMA ReleaseType ==
  ASSUME TypeOK, Settle(node), \A j \in Ino : j \in Live' => j \in Live
  PROVE  /\ node' \in [Ino -> Node \cup {NoNode}]
         /\ \A j \in Ino : j \in Live' => node'[j] # NoNode
BY SettleType DEF TypeOK

------------------------------------------------------------------------------
(* Leaving scan() and leaving a disposition with an exception.             *)
LEMMA SeesType ==
  ASSUME TypeOK, NEW c \in Client, NEW s \in Side
  PROVE  Sees(c, s) \in Fingerprint
<1>1. entry[s] # NoIno => node[entry[s]] # NoNode
  BY InoAssumption DEF TypeOK, Live, Slot, Side
<1>2. entry[s] \in Ino \cup {NoIno} /\ node \in [Ino -> Node \cup {NoNode}]
  BY DEF TypeOK, Slot, Side
<1> QED
  BY <1>1, <1>2, ObserveType DEF Sees

LEMMA AbortType ==
  ASSUME IInv, NEW c \in Client, AbortScan(c)
  PROVE  IInv'
<1>1. \A j \in Ino : j \in Live' => j \in Live
  BY InoAssumption DEF IInv, TypeOK, AbortScan, Idle, Live, Closed, Side
<1>2. /\ node' \in [Ino -> Node \cup {NoNode}]
      /\ \A j \in Ino : j \in Live' => node'[j] # NoNode
  BY <1>1, ReleaseType DEF IInv, AbortScan
<1>3. TypeOK'
  BY <1>2, BlankType, MissingType DEF IInv, TypeOK, AbortScan, Idle, Goto, Closed, Label
<1>4. Control'
  BY DEF IInv, TypeOK, Control, AbortScan, Idle, Goto, NothingGot, Closed, Counting,
         MoreToRead, BothOpen, InstalledOpen, StagedOpen, Regular
<1> QED
  BY <1>3, <1>4 DEF IInv

LEMMA ThrowType ==
  ASSUME IInv, NEW c \in Client, Throw(c)
  PROVE  IInv'
<1>1. \A j \in Ino : j \in Live' => j \in Live
  BY InoAssumption DEF IInv, TypeOK, Throw, Live, Closed, Side
<1>2. /\ node' \in [Ino -> Node \cup {NoNode}]
      /\ \A j \in Ino : j \in Live' => node'[j] # NoNode
  BY <1>1, ReleaseType DEF IInv, Throw
<1>3. TypeOK'
  BY <1>2, BlankType DEF IInv, TypeOK, Throw, Goto, Closed, Label, histVars
<1>4. Control'
  BY DEF IInv, TypeOK, Control, Throw, Goto, NothingGot, Closed, Counting,
         MoreToRead, BothOpen, InstalledOpen, StagedOpen, Regular
<1> QED
  BY <1>3, <1>4 DEF IInv

(* Nothing is opened, closed, linked or changed on disk.                   *)
LEMMA SameFiles ==
  ASSUME TypeOK, UNCHANGED fsVars
  PROVE  /\ entry' \in [Slot -> Ino \cup {NoIno}]
         /\ node' \in [Ino -> Node \cup {NoNode}]
         /\ clock' \in Nat
         /\ orphans' \subseteq Ino
         /\ tmp' \in [Client -> Ino \cup {NoIno}]
         /\ fd' \in [Client -> [Side -> Ino \cup {NoIno}]]
         /\ \A i \in Ino : i \in Live' => node'[i] # NoNode
BY DEF TypeOK, fsVars, Live

LEMMA OpenNode ==
  ASSUME TypeOK, NEW c \in Client, NEW s \in Side, fd[c][s] # NoIno
  PROVE  fd[c][s] \in Ino /\ node[fd[c][s]] \in Node
BY DEF TypeOK, Live

LEMMA NamedNode ==
  ASSUME TypeOK, NEW s \in Slot, entry[s] # NoIno
  PROVE  entry[s] \in Ino /\ node[entry[s]] \in Node
BY DEF TypeOK, Live

LEMMA TemporaryNode ==
  ASSUME TypeOK, NEW c \in Client, tmp[c] # NoIno
  PROVE  tmp[c] \in Ino /\ node[tmp[c]] \in Node
BY DEF TypeOK, Live

LEMMA ObserveStagedType ==
  ASSUME IInv, NEW c \in Client, ScanObserveStaged(c)
  PROVE  IInv'
<1>1. entry["staged"] \in Ino /\ node[entry["staged"]] \in Node
  BY NamedNode DEF IInv, ScanObserveStaged, Slot
<1>2. Sees(c, "staged") \in Fingerprint
  BY SeesType DEF IInv, Side
<1>3. NoCall \in Disposition
  BY BlankType DEF NoCall, Disposition, Kinds, Source, Slot
<1>4. TypeOK'
  <2>1. cand' \in [Client -> CandidateRecord]
    BY <1>2, MissingType DEF IInv, TypeOK, ScanObserveStaged, NoCandidate, CandidateRecord
  <2>2. seen' \in [Client -> [Side -> Node \cup {NoNode}]]
    BY <1>1 DEF IInv, TypeOK, ScanObserveStaged, Side
  <2> QED
    BY <1>3, <2>1, <2>2, SameFiles
    DEF IInv, TypeOK, ScanObserveStaged, Goto, Label, ScanLabel, fsVars
<1>5. Control'
  BY DEF IInv, TypeOK, Control, ScanObserveStaged, Goto, fsVars, Counting, MoreToRead,
         BothOpen, InstalledOpen, StagedOpen, Regular
<1> QED
  BY <1>4, <1>5 DEF IInv

LEMMA ObserveInstalledType ==
  ASSUME IInv, NEW c \in Client, ScanObserveInstalled(c)
  PROVE  IInv'
<1>1. entry["installed"] # NoIno => node[entry["installed"]] \in Node
  BY NamedNode DEF IInv, Slot
<1>2. Sees(c, "installed") \in Fingerprint
  BY SeesType DEF IInv, Side
<1>3. Sees(c, "installed").exists => entry["installed"] # NoIno
  BY DEF Sees, Observe, Missing
<1>4. TypeOK'
  <2>1. cand' \in [Client -> CandidateRecord]
    BY <1>2 DEF IInv, TypeOK, ScanObserveInstalled, CandidateRecord
  <2>2. seen' \in [Client -> [Side -> Node \cup {NoNode}]]
    BY <1>1, <1>3 DEF IInv, TypeOK, ScanObserveInstalled, Side
  <2>3. pc' \in [Client -> Label] /\ (pc'[c] = "ready" => fd[c] = Closed)
    BY DEF IInv, TypeOK, Control, ScanObserveInstalled, Goto, ScanNext, Label, ScanLabel,
           BothOpen, InstalledOpen, StagedOpen
  <2>4. \A d \in Client : pc'[d] \in {"idle", "ready"} => fd'[d] = Closed
    BY <2>3 DEF IInv, TypeOK, ScanObserveInstalled, ScanNext, Goto, fsVars
  <2> QED
    BY <2>1, <2>2, <2>3, <2>4, SameFiles DEF IInv, TypeOK, ScanObserveInstalled
<1>5. Control'
  BY DEF IInv, TypeOK, Control, ScanObserveInstalled, ScanNext, Goto, fsVars, Counting,
         MoreToRead, BothOpen, InstalledOpen, StagedOpen, Regular
<1> QED
  BY <1>4, <1>5 DEF IInv

LEMMA InspectOpenType ==
  ASSUME IInv, NEW c \in Client, InspectOpen(c)
  PROVE  IInv'
<1>1. CASE AbortScan(c)
  BY <1>1, AbortType
<1>2. CASE ~AbortScan(c)
  <2>1. \A s \in Side : SameFingerprint(Sees(c, s), cand[c][s])
    BY <1>2 DEF InspectOpen
  <2>2. /\ pc[c] = "inspect"
        /\ fd' = [fd EXCEPT ![c] = [s \in Side |-> entry[s]]]
        /\ pc' = [pc EXCEPT ![c] = "read_installed"]
        /\ UNCHANGED <<entry, node, clock, orphans, tmp, got, cand, call, result, seen, log>>
    BY <2>1 DEF InspectOpen, Goto, ctlVars, histVars
  <2>3. entry["installed"] # NoIno /\ entry["staged"] # NoIno
    <3>1. /\ cand[c]["installed"].type = "regular" /\ cand[c]["staged"].type = "regular"
      BY <2>2 DEF IInv, Control, Regular
    <3>2. /\ Sees(c, "installed").type = "regular" /\ Sees(c, "staged").type = "regular"
      BY <2>1, <3>1 DEF SameFingerprint, Side
    <3> QED
      BY <3>2 DEF Sees, Observe, Missing
  <2>4. \A j \in Ino : j \in Live' => j \in Live
    BY <2>2 DEF IInv, TypeOK, Live, Slot, Side
  <2>5. TypeOK'
    BY <2>2, <2>4 DEF IInv, TypeOK, Label, ScanLabel, Slot, Side
  <2>6. Control'
    BY <2>2, <2>3, BlockFacts DEF IInv, TypeOK, Control, Counting, MoreToRead, BothOpen, InstalledOpen,
           StagedOpen, Regular, Side
  <2> QED
    BY <2>5, <2>6 DEF IInv
<1> QED
  BY <1>1, <1>2

LEMMA ReadBlockType ==
  ASSUME IInv, NEW c \in Client, NEW s \in Side, fd[c][s] # NoIno, pc[c] \in MoreToRead
  PROVE  /\ ReadBlock(c, s, got[c].blocks + 1) \in Data
         /\ got[c].blocks + 1 \in Block
         /\ got[c].blocks + 1 \in 0 .. NBlocks
<1>1. node[fd[c][s]] \in Node
  BY OpenNode DEF IInv
<1>2. got[c].blocks + 1 \in Block /\ got[c].blocks + 1 \in 0 .. NBlocks
  BY BlockFacts DEF IInv, TypeOK, Control, Block
<1>3. got[c][s] \in Data
  BY DEF IInv, TypeOK, Side
<1>4. node[fd[c][s]].data[got[c].blocks + 1] \in Byte
  BY <1>1, <1>2 DEF Node, Data
<1> QED
  BY <1>2, <1>3, <1>4 DEF ReadBlock, Data

(* What a read puts into the buffers.                                      *)
LEMMA BufferType ==
  ASSUME NEW g \in [installed: Data, staged: Data, blocks: 0 .. NBlocks],
         NEW s \in Side, NEW d \in Data
  PROVE  /\ [g EXCEPT ![s] = d] \in [installed: Data, staged: Data, blocks: 0 .. NBlocks]
         /\ \A k \in 0 .. NBlocks :
              [g EXCEPT ![s] = d, !.blocks = k]
                \in [installed: Data, staged: Data, blocks: 0 .. NBlocks]
<1>1. CASE s = "installed"
  BY <1>1
<1>2. CASE s = "staged"
  BY <1>2
<1> QED
  BY <1>1, <1>2 DEF Side

LEMMA BufferOf ==
  ASSUME TypeOK, NEW c \in Client
  PROVE  got[c] \in [installed: Data, staged: Data, blocks: 0 .. NBlocks]
BY DEF TypeOK

LEMMA BuffersType ==
  ASSUME TypeOK, NEW c \in Client,
         NEW g \in [installed: Data, staged: Data, blocks: 0 .. NBlocks],
         got' = [got EXCEPT ![c] = g]
  PROVE  got' \in [Client -> [installed: Data, staged: Data, blocks: 0 .. NBlocks]]
BY DEF TypeOK

LEMMA InspectReadType ==
  ASSUME IInv, NEW c \in Client, InspectReadInstalled(c) \/ InspectReadStaged(c)
  PROVE  IInv'
<1> DEFINE k == got[c].blocks + 1
<1>1. CASE InspectReadInstalled(c)
  <2>1. fd[c]["installed"] # NoIno
    BY <1>1 DEF IInv, Control, InspectReadInstalled, BothOpen
  <2>2. ReadBlock(c, "installed", k) \in Data
    BY <1>1, <2>1, ReadBlockType DEF InspectReadInstalled, MoreToRead, Side
  <2>3. TypeOK'
    BY <1>1, <2>2, SameFiles
    DEF IInv, TypeOK, InspectReadInstalled, Goto, Label, ScanLabel, fsVars, ctlVars, histVars
  <2>4. Control'
    BY <1>1 DEF IInv, TypeOK, Control, InspectReadInstalled, Goto, fsVars, ctlVars, Counting,
           MoreToRead, BothOpen, InstalledOpen, StagedOpen, Regular
  <2> QED
    BY <2>3, <2>4 DEF IInv
<1>2. CASE InspectReadStaged(c)
  <2>1. fd[c]["staged"] # NoIno
    BY <1>2 DEF IInv, Control, InspectReadStaged, BothOpen
  <2>2. ReadBlock(c, "staged", k) \in Data /\ k \in 0 .. NBlocks
    BY <1>2, <2>1, ReadBlockType DEF InspectReadStaged, MoreToRead, Side
  <2>3. TypeOK'
    <3>1. got' \in [Client -> [installed: Data, staged: Data, blocks: 0 .. NBlocks]]
      <4>1. [got[c] EXCEPT !.staged = ReadBlock(c, "staged", k), !.blocks = k]
              \in [installed: Data, staged: Data, blocks: 0 .. NBlocks]
        BY <2>2, BufferType, BufferOf DEF IInv, Side
      <4> QED
        BY <1>2, <4>1, BuffersType DEF IInv, InspectReadStaged
    <3>2. pc' \in [Client -> Label] /\ pc'[c] \notin {"idle", "ready"}
      BY <1>2 DEF IInv, TypeOK, InspectReadStaged, Goto, Label, ScanLabel
    <3> QED
      BY <1>2, <3>1, <3>2, SameFiles
      DEF IInv, TypeOK, InspectReadStaged, Goto, fsVars, ctlVars, histVars
  <2>4. /\ got'[c].blocks = k
        /\ \A d \in Client \ {c} : got'[d] = got[d]
        /\ pc' = [pc EXCEPT ![c] = IF k = NBlocks THEN "recheck" ELSE "read_installed"]
        /\ UNCHANGED <<cand, fd, tmp>>
        /\ k = NBlocks \/ k < NBlocks
    BY <1>2, <2>2, BlockFacts DEF IInv, TypeOK, InspectReadStaged, Goto, fsVars, ctlVars
  <2>5. Control'
    BY <1>2, <2>4
    DEF IInv, TypeOK, Control, InspectReadStaged, Counting, MoreToRead, BothOpen,
        InstalledOpen, StagedOpen, Regular
  <2> QED
    BY <2>3, <2>5 DEF IInv
<1> QED
  BY <1>1, <1>2

LEMMA ScanReturnsType ==
  ASSUME IInv, NEW c \in Client, NEW equal \in BOOLEAN, NEW text \in BOOLEAN,
         ScanReturns(c, equal, text)
  PROVE  IInv'
<1>1. \A j \in Ino : j \in Live' => j \in Live
  BY InoAssumption DEF IInv, TypeOK, ScanReturns, Live, Closed, Side
<1>2. /\ node' \in [Ino -> Node \cup {NoNode}]
      /\ \A j \in Ino : j \in Live' => node'[j] # NoNode
  BY <1>1, ReleaseType DEF IInv, ScanReturns
<1>3. TypeOK'
  <2>1. cand' \in [Client -> CandidateRecord]
    <3>1. cand[c] \in CandidateRecord
      BY DEF IInv, TypeOK
    <3>2. [cand[c] EXCEPT !.equal = equal, !.text = text] \in CandidateRecord
      BY <3>1 DEF CandidateRecord
    <3> QED
      BY <3>2 DEF IInv, TypeOK, ScanReturns
  <2>2. got' \in [Client -> [installed: Data, staged: Data, blocks: 0 .. NBlocks]]
    BY BlankType, BuffersType DEF IInv, ScanReturns
  <2>3. fd' \in [Client -> [Side -> Ino \cup {NoIno}]] /\ pc' \in [Client -> Label]
    BY DEF IInv, TypeOK, ScanReturns, Goto, Closed, Label
  <2>4. \A d \in Client : pc'[d] \in {"idle", "ready"} => fd'[d] = Closed
    BY DEF IInv, TypeOK, ScanReturns, Goto
  <2> QED
    BY <1>2, <2>1, <2>2, <2>3, <2>4 DEF IInv, TypeOK, ScanReturns, histVars
<1>4. Control'
  BY DEF IInv, TypeOK, Control, ScanReturns, Goto, NothingGot, Closed, Counting,
         MoreToRead, BothOpen, InstalledOpen, StagedOpen, Regular
<1> QED
  BY <1>3, <1>4 DEF IInv

LEMMA InspectRecheckType ==
  ASSUME IInv, NEW c \in Client, InspectRecheck(c)
  PROVE  IInv'
BY AbortType, ScanReturnsType DEF InspectRecheck, TextData

LEMMA LinkReadType ==
  ASSUME IInv, NEW c \in Client, NEW s \in Side, LinkRead(c, s)
  PROVE  IInv'
<1>1. CASE Sees(c, s).type # "symlink"
  BY <1>1, AbortType DEF LinkRead
<1>2. CASE Sees(c, s).type = "symlink"
  <2>1. entry[s] # NoIno
    BY <1>2 DEF Sees, Observe, Missing
  <2>2. node[entry[s]].data \in Data
    BY <2>1, NamedNode DEF IInv, Slot, Side, Node
  <2>3. /\ got' = [got EXCEPT ![c] = [@ EXCEPT ![s] = node[entry[s]].data]]
        /\ pc' = [pc EXCEPT ![c] = CheckLabel(s)]
        /\ pc[c] \in {"link_installed", "link_staged"}
        /\ UNCHANGED <<fsVars, ctlVars, histVars>>
    BY <1>2 DEF LinkRead, LinkLabel, Goto
  <2>4. CheckLabel(s) \in {"check_installed", "check_staged"}
    BY DEF CheckLabel
  <2>5. TypeOK'
    <3>1. got' \in [Client -> [installed: Data, staged: Data, blocks: 0 .. NBlocks]]
      <4>1. [got[c] EXCEPT ![s] = node[entry[s]].data]
              \in [installed: Data, staged: Data, blocks: 0 .. NBlocks]
        BY <2>2, BufferType, BufferOf DEF IInv
      <4> QED
        BY <2>3, <4>1, BuffersType DEF IInv
    <3>2. pc' \in [Client -> Label] /\ pc'[c] \notin {"idle", "ready"}
      BY <2>3, <2>4 DEF IInv, TypeOK, Label, ScanLabel
    <3> QED
      BY <2>3, <3>1, <3>2, SameFiles DEF IInv, TypeOK, fsVars, ctlVars, histVars
  <2>6. Control'
    BY <2>3, <2>4 DEF IInv, TypeOK, Control, fsVars, ctlVars, Counting, MoreToRead, BothOpen,
           InstalledOpen, StagedOpen, Regular, Side
  <2> QED
    BY <2>5, <2>6 DEF IInv
<1> QED
  BY <1>1, <1>2

LEMMA LinkCheckType ==
  ASSUME IInv, NEW c \in Client, NEW s \in Side, LinkCheck(c, s)
  PROVE  IInv'
<1>1. CASE ~SameFingerprint(Sees(c, s), cand[c][s])
  BY <1>1, AbortType DEF LinkCheck
<1>2. CASE SameFingerprint(Sees(c, s), cand[c][s]) /\ s = "staged"
  BY <1>2, ScanReturnsType DEF LinkCheck
<1>3. CASE SameFingerprint(Sees(c, s), cand[c][s]) /\ s = "installed"
  <2>1. /\ pc[c] = "check_installed"
        /\ pc' = [pc EXCEPT ![c] = "link_staged"]
        /\ UNCHANGED <<fsVars, got, ctlVars, histVars>>
    BY <1>3 DEF LinkCheck, CheckLabel, LinkLabel, Goto
  <2>2. TypeOK'
    BY <2>1, SameFiles DEF IInv, TypeOK, Label, ScanLabel, fsVars, ctlVars, histVars
  <2>3. Control'
    BY <2>1 DEF IInv, TypeOK, Control, fsVars, ctlVars, Counting, MoreToRead, BothOpen,
           InstalledOpen, StagedOpen, Regular
  <2> QED
    BY <2>2, <2>3 DEF IInv
<1> QED
  BY <1>1, <1>2, <1>3 DEF Side

LEMMA ScanType ==
  ASSUME IInv, NEW c \in Client, Scan(c)
  PROVE  IInv'
<1>1. CASE ScanOmitStructural(c) \/ Forget(c)
  BY <1>1, AbortType DEF ScanOmitStructural, Forget
<1> QED
  BY <1>1, ObserveStagedType, ObserveInstalledType, InspectOpenType, InspectReadType,
     InspectRecheckType, LinkReadType, LinkCheckType DEF Scan

------------------------------------------------------------------------------
(* The dispositions.  A step that opens nothing, reads nothing and has no  *)
(* temporary file preserves the invariant if the files stay well-formed.   *)
LEMMA AdvanceType ==
  ASSUME IInv, NEW c \in Client, NEW l \in Label, Goto(c, l),
         pc[c] \notin Counting, l \notin Counting \cup {"publish"},
         l \in Regular => /\ cand[c]["installed"].type = "regular"
                         /\ cand[c]["staged"].type = "regular",
         UNCHANGED <<orphans, tmp, fd, got, cand, seen>>,
         entry' \in [Slot -> Ino \cup {NoIno}],
         node' \in [Ino -> Node \cup {NoNode}],
         clock' \in Nat,
         \A i \in Ino : i \in Live' => node'[i] # NoNode,
         call' \in [Client -> Disposition],
         result' \in [Client -> {"none", "ok", "failed"}],
         log' \subseteq Kinds
  PROVE  IInv'
<1>1. fd[c] = Closed
  BY DEF IInv, Control, Counting, BothOpen, InstalledOpen, StagedOpen
<1>2. TypeOK'
  BY <1>1 DEF IInv, TypeOK, Goto
<1>3. Control'
  BY <1>1 DEF IInv, TypeOK, Control, Goto, Counting, MoreToRead, BothOpen, InstalledOpen,
         StagedOpen, Regular
<1> QED
  BY <1>2, <1>3 DEF IInv

LEMMA ProceedType ==
  ASSUME TypeOK, NEW c \in Client, NEW l, Proceed(c, l)
  PROVE  Goto(c, l) /\ result' \in [Client -> {"none", "ok", "failed"}]
BY DEF TypeOK, Proceed

LEMMA BeginType ==
  ASSUME IInv, NEW c \in Client, NEW d \in Calls, Begin(c, d)
  PROVE  IInv'
<1>1. d \in Disposition
  BY DEF Calls
<1>2. /\ call' \in [Client -> Disposition]
      /\ result' \in [Client -> {"none", "ok", "failed"}]
      /\ log' \subseteq Kinds
  BY <1>1 DEF IInv, TypeOK, Begin, histVars
<1> QED
  BY <1>2, AdvanceType, SameFiles
  DEF IInv, Begin, Label, CallLabel, Counting, Regular, fsVars, histVars

LEMMA ValidateType ==
  ASSUME IInv, NEW c \in Client, ValidateInstalled(c) \/ ValidateStaged(c)
  PROVE  IInv'
<1>1. CASE Throw(c)
  BY <1>1, ThrowType
<1>2. CASE ValidateInstalled(c) /\ ~Throw(c)
  <2>1. /\ pc[c] = "validate_installed"
        /\ Goto(c, "validate_staged")
        /\ UNCHANGED <<fsVars, got, ctlVars, histVars>>
    BY <1>2 DEF ValidateInstalled
  <2> QED
    BY <2>1, AdvanceType, SameFiles
    DEF IInv, TypeOK, Label, CallLabel, Counting, Regular, fsVars, ctlVars, histVars
<1>3. CASE ValidateStaged(c) /\ ~Throw(c)
  <2> DEFINE l == FirstStep(call[c], cand[c])
  <2>1. /\ pc[c] = "validate_staged"
        /\ Goto(c, l)
        /\ Applicable(call[c].kind, cand[c])
        /\ UNCHANGED <<fsVars, got, ctlVars, histVars>>
    BY <1>3 DEF ValidateStaged
  <2>2. l \in {"chown", "retire", "rename", "write_merged", "open_installed"}
    BY DEF FirstStep, OpenAt
  <2>3. l = "open_installed" => call[c].kind = "compare_text"
    BY DEF FirstStep, OpenAt
  <2>4. l = "open_installed" => /\ cand[c]["installed"].type = "regular"
                                /\ cand[c]["staged"].type = "regular"
    BY <2>1, <2>3 DEF Applicable
  <2>5. l \in Label
    BY <2>2 DEF Label, CallLabel, OpenAt, Side
  <2>6. l \notin Counting \cup {"publish"} /\ (l \in Regular => l = "open_installed")
    BY <2>2 DEF Counting, Regular
  <2>7. pc[c] \notin Counting
    BY <2>1 DEF Counting
  <2> HIDE DEF l
  <2> QED
    BY <2>1, <2>4, <2>5, <2>6, <2>7, AdvanceType, SameFiles
    DEF IInv, TypeOK, fsVars, ctlVars, histVars
<1> QED
  BY <1>1, <1>2, <1>3

LEMMA ChownedType ==
  ASSUME NEW n \in Node, NEW owner \in Owner
  PROVE  Chowned(n, owner) \in Node
BY ModeAssumption DEF Chowned, Node

LEMMA DressedType ==
  ASSUME NEW n \in Node, NEW owner \in Owner, NEW mode \in Mode
  PROVE  Dressed(n, owner, mode) \in Node
<1>1. Chowned(n, owner) \in Node
  BY ChownedType
<1> QED
  BY <1>1 DEF Dressed, Node

LEMMA SelectedType ==
  ASSUME TypeOK, NEW c \in Client
  PROVE  Selected(c).owner \in Owner /\ Selected(c).mode \in Mode
<1>1. call[c].source \in Side
  BY DEF TypeOK, Disposition, Source, Side
<1>2. cand[c] \in CandidateRecord
  BY DEF TypeOK
<1>3. cand[c][call[c].source] \in Fingerprint
  BY <1>1, <1>2 DEF CandidateRecord, Side
<1> QED
  BY <1>3 DEF Selected, Fingerprint

(* Labels from which and to which a client carries nothing.                *)
LEMMA PlainLabels ==
  ASSUME NEW l \in {"ready", "chown", "chmod", "retire", "rename", "copy_open",
                    "write_merged"}
  PROVE  l \in Label /\ l \notin Counting \cup {"publish"} /\ l \notin Regular
BY DEF Label, CallLabel, Counting, Regular

LEMMA ChownType ==
  ASSUME IInv, NEW c \in Client, Chown(c)
  PROVE  IInv'
<1> DEFINE i == entry["installed"]
           l == IF node[i].type = "symlink" THEN AfterMetadata(c) ELSE "chmod"
<1>1. CASE i = NoIno
  BY <1>1, ThrowType DEF Chown
<1>2. CASE i # NoIno
  <2>1. i \in Ino /\ node[i] \in Node
    BY <1>2, NamedNode DEF IInv, Slot
  <2>2. PICK t \in Now : Change(i, Chowned(node[i], Selected(c).owner), t)
    BY <1>2 DEF Chown
  <2>3. Chowned(node[i], Selected(c).owner) \in Node
    BY <2>1, ChownedType, SelectedType DEF IInv
  <2>4. /\ pc[c] = "chown" /\ Proceed(c, l)
        /\ UNCHANGED <<entry, orphans, tmp, fd, got, cand, call, histVars>>
    BY <1>2 DEF Chown
  <2>5. \A j \in Ino : j \in Live' => j \in Live
    BY <2>4 DEF Live
  <2>6. /\ node' \in [Ino -> Node \cup {NoNode}] /\ clock' \in Nat
        /\ \A j \in Ino : j \in Live' => node'[j] # NoNode
    BY <2>1, <2>2, <2>3, <2>5, ChangeType DEF IInv
  <2>7. l \in {"retire", "ready", "chmod"}
    BY DEF AfterMetadata
  <2>8. pc[c] \notin Counting
    BY <2>4, PlainLabels
  <2> HIDE DEF l
  <2>9. Goto(c, l) /\ result' \in [Client -> {"none", "ok", "failed"}]
    BY <2>4, ProceedType DEF IInv
  <2>10. l \in Label /\ l \notin Counting \cup {"publish"} /\ l \notin Regular
    BY <2>7, PlainLabels
  <2> QED
    BY <2>4, <2>6, <2>8, <2>9, <2>10, AdvanceType DEF IInv, TypeOK, histVars
<1> QED
  BY <1>1, <1>2

LEMMA ChmodType ==
  ASSUME IInv, NEW c \in Client, Chmod(c)
  PROVE  IInv'
<1> DEFINE i == entry["installed"]
           l == AfterMetadata(c)
<1>1. CASE i = NoIno
  BY <1>1, ThrowType DEF Chmod
<1>2. CASE i # NoIno
  <2>1. i \in Ino /\ node[i] \in Node
    BY <1>2, NamedNode DEF IInv, Slot
  <2>2. /\ pc[c] = "chmod" /\ Proceed(c, l)
        /\ UNCHANGED <<entry, orphans, tmp, fd, got, cand, call, histVars>>
    BY <1>2 DEF Chmod
  <2>3. \A j \in Ino : j \in Live' => j \in Live
    BY <2>2 DEF Live
  <2>4. [node[i] EXCEPT !.mode = Selected(c).mode] \in Node
    BY <2>1, SelectedType DEF IInv, Node
  <2>5. /\ node' \in [Ino -> Node \cup {NoNode}] /\ clock' \in Nat
        /\ \A j \in Ino : j \in Live' => node'[j] # NoNode
    <3>1. CASE node[i].type = "symlink"
      BY <1>2, <2>3, <3>1 DEF Chmod, IInv, TypeOK
    <3>2. CASE node[i].type # "symlink"
      <4>1. PICK t \in Now : Change(i, [node[i] EXCEPT !.mode = Selected(c).mode], t)
        BY <1>2, <3>2 DEF Chmod
      <4> QED
        BY <2>1, <2>3, <2>4, <4>1, ChangeType DEF IInv
    <3> QED
      BY <3>1, <3>2
  <2>6. l \in {"retire", "ready"}
    BY DEF AfterMetadata
  <2>7. pc[c] \notin Counting
    BY <2>2, PlainLabels
  <2> HIDE DEF l
  <2>8. Goto(c, l) /\ result' \in [Client -> {"none", "ok", "failed"}]
    BY <2>2, ProceedType DEF IInv
  <2>9. l \in Label /\ l \notin Counting \cup {"publish"} /\ l \notin Regular
    BY <2>6, PlainLabels
  <2> QED
    BY <2>2, <2>5, <2>7, <2>8, <2>9, AdvanceType DEF IInv, TypeOK, histVars
<1> QED
  BY <1>1, <1>2

LEMMA RetireType ==
  ASSUME IInv, NEW c \in Client,
         RetireUnlinks(c) \/ RetireFindsNothing(c) \/ RetireFindsChildren(c)
  PROVE  IInv'
<1> DEFINE l == AfterRetire(c)
<1>1. l \in {"chown", "ready"}
  BY DEF AfterRetire
<1>2. pc[c] = "retire" /\ pc[c] \notin Counting
  BY PlainLabels DEF RetireUnlinks, RetireFindsNothing, RetireFindsChildren
<1> HIDE DEF l
<1>3. CASE RetireUnlinks(c)
  <2>1. /\ entry' = [entry EXCEPT !["staged"] = NoIno]
        /\ log' = log \cup ({call[c].kind} \cap GivesUpStaged)
        /\ Proceed(c, l)
        /\ UNCHANGED <<orphans, tmp, fd, got, cand, call, seen>>
    BY <1>3 DEF RetireUnlinks, l
  <2>2. PICK t \in Now : Settle(Touch(node, {entry["staged"]}, t)) /\ clock' = t
    BY <1>3 DEF RetireUnlinks
  <2>3. entry' \in [Slot -> Ino \cup {NoIno}]
    BY <2>1 DEF IInv, TypeOK
  <2>4. \A j \in Ino : j \in Live' => j \in Live
    BY <2>1, InoAssumption DEF IInv, TypeOK, Live, Slot
  <2>5. /\ node' \in [Ino -> Node \cup {NoNode}] /\ clock' \in Nat
        /\ \A j \in Ino : j \in Live' => node'[j] # NoNode
    BY <2>2, <2>4, RelinkType DEF IInv
  <2>6. log' \subseteq Kinds
    BY <2>1 DEF IInv, TypeOK, GivesUpStaged, Kinds
  <2>7. Goto(c, l) /\ result' \in [Client -> {"none", "ok", "failed"}]
    BY <2>1, ProceedType DEF IInv
  <2>8. l \in Label /\ l \notin Counting \cup {"publish"} /\ l \notin Regular
    BY <1>1, PlainLabels
  <2>9. call' \in [Client -> Disposition]
    BY <2>1 DEF IInv, TypeOK
  <2> QED
    BY <1>2, <2>1, <2>3, <2>5, <2>6, <2>7, <2>8, <2>9, AdvanceType
<1>4. CASE Throw(c)
  BY <1>4, ThrowType
<1>5. CASE ~RetireUnlinks(c) /\ ~Throw(c)
  <2>1. Proceed(c, l) /\ UNCHANGED <<fsVars, got, cand, call, histVars>>
    BY <1>5 DEF RetireFindsNothing, RetireFindsChildren, l
  <2>2. Goto(c, l) /\ result' \in [Client -> {"none", "ok", "failed"}]
    BY <2>1, ProceedType DEF IInv
  <2>3. l \in Label /\ l \notin Counting \cup {"publish"} /\ l \notin Regular
    BY <1>1, PlainLabels
  <2> QED
    BY <1>2, <2>1, <2>2, <2>3, AdvanceType, SameFiles DEF IInv, TypeOK, fsVars, histVars
<1> QED
  BY <1>3, <1>4, <1>5

LEMMA RenameType ==
  ASSUME IInv, NEW c \in Client, Rename(c)
  PROVE  IInv'
<1> DEFINE i == entry["staged"]
           dest == call[c].dest
           l == IF call[c].kind = "install" THEN "chown" ELSE "ready"
<1>1. CASE i = NoIno \/ Refuses(c, i)
  BY <1>1, ThrowType DEF Rename
<1>2. CASE ~(i = NoIno \/ Refuses(c, i))
  <2>1. /\ pc[c] = "rename"
        /\ entry' = Renamed("staged", dest, i)
        /\ Proceed(c, l)
        /\ UNCHANGED <<orphans, tmp, fd, got, cand, call, histVars>>
    BY <1>2 DEF Rename
  <2>2. dest \in Slot /\ i \in Ino
    BY <1>2, NamedNode DEF IInv, TypeOK, Disposition, Slot
  <2>3. entry' \in [Slot -> Ino \cup {NoIno}]
    BY <2>1, <2>2 DEF IInv, TypeOK, Renamed
  <2>4. \A j \in Ino : j \in Live' => j \in Live
    <3>1. \A r \in Slot : entry'[r] \in {entry[q] : q \in Slot} \cup {NoIno}
      BY <2>1, <2>2 DEF IInv, TypeOK, Slot, Renamed
    <3>2. UNCHANGED <<tmp, fd, orphans>>
      BY <2>1
    <3> QED
      BY <3>1, <3>2, InoAssumption DEF Live
  <2>5. /\ node' \in [Ino -> Node \cup {NoNode}] /\ clock' \in Nat
        /\ \A j \in Ino : j \in Live' => node'[j] # NoNode
    <3>1. CASE entry[dest] = i
      BY <1>2, <2>4, <3>1 DEF Rename, IInv, TypeOK
    <3>2. CASE entry[dest] # i
      <4>1. PICK t \in Now : Settle(Touch(node, {i, entry[dest]}, t)) /\ clock' = t
        BY <1>2, <3>2 DEF Rename
      <4> QED
        BY <2>4, <4>1, RelinkType DEF IInv
    <3> QED
      BY <3>1, <3>2
  <2>6. l \in {"chown", "ready"} /\ pc[c] \notin Counting
    BY <2>1, PlainLabels
  <2> HIDE DEF l
  <2>7. Goto(c, l) /\ result' \in [Client -> {"none", "ok", "failed"}]
    BY <2>1, ProceedType DEF IInv
  <2>8. l \in Label /\ l \notin Counting \cup {"publish"} /\ l \notin Regular
    BY <2>6, PlainLabels
  <2>9. call' \in [Client -> Disposition] /\ log' \subseteq Kinds /\ UNCHANGED seen
    BY <2>1 DEF IInv, TypeOK, histVars
  <2> QED
    BY <2>1, <2>3, <2>5, <2>6, <2>7, <2>8, <2>9, AdvanceType
<1> QED
  BY <1>1, <1>2

LEMMA RenameCrossDeviceType ==
  ASSUME IInv, NEW c \in Client, RenameCrossDevice(c)
  PROVE  IInv'
<1>1. CASE Throw(c)
  BY <1>1, ThrowType
<1>2. CASE ~Throw(c)
  <2>1. /\ pc[c] = "rename" /\ Goto(c, "copy_open")
        /\ UNCHANGED <<fsVars, got, ctlVars, histVars>>
    BY <1>2 DEF RenameCrossDevice
  <2>2. pc[c] \notin Counting
    BY <2>1, PlainLabels
  <2> QED
    BY <2>1, <2>2, PlainLabels, AdvanceType, SameFiles
    DEF IInv, TypeOK, fsVars, ctlVars, histVars
<1> QED
  BY <1>1, <1>2

------------------------------------------------------------------------------
(* Temporary files.                                                        *)
LEMMA CreateTemporaryType ==
  ASSUME IInv, NEW c \in Client, NEW i \in Ino, NEW type \in {"regular", "symlink"},
         NEW data \in Data, CreateTemporary(c, i, type, data),
         fd' = [fd EXCEPT ![c] = Closed] \/
           \E j \in Ino : j \in Live /\ fd' = [fd EXCEPT ![c].staged = j]
  PROVE  /\ node' \in [Ino -> Node \cup {NoNode}]
         /\ clock' \in Nat
         /\ \A j \in Ino : j \in Live' => node'[j] # NoNode
         /\ tmp' \in [Client -> Ino \cup {NoIno}] /\ tmp'[c] = i
<1> DEFINE n(t) == [type |-> type, data |-> data, owner |-> ZeroOwner, ctime |-> t,
                    mode |-> IF type = "symlink" THEN LinkMode ELSE ZeroMode]
<1>1. PICK t \in Now : Change(i, n(t), t)
  BY DEF CreateTemporary
<1>2. t \in Nat
  BY NowType DEF IInv, TypeOK
<1>3. n(t) \in Node
  BY <1>2, OwnerAssumption, ModeAssumption DEF Node, NodeType
<1>4. tmp' = [tmp EXCEPT ![c] = i] /\ entry' = entry /\ orphans' = orphans
  BY DEF CreateTemporary
<1>5. \A j \in Ino : j \in Live' => j \in Live \/ j = i
  <2>1. \A d \in Client, s \in Side : fd'[d][s] \in Live \cup {NoIno}
    <3>1. \A d \in Client, s \in Side : fd[d][s] \in Live
      BY DEF Live
    <3>2. CASE fd' = [fd EXCEPT ![c] = Closed]
      BY <3>1, <3>2 DEF IInv, TypeOK, Closed
    <3>3. CASE \E j \in Ino : j \in Live /\ fd' = [fd EXCEPT ![c].staged = j]
      BY <3>1, <3>3 DEF IInv, TypeOK, Side
    <3> QED
      BY <3>2, <3>3
  <2>2. \A d \in Client : tmp'[d] \in Live \cup {i}
    BY <1>4 DEF IInv, TypeOK, Live
  <2>3. \A r \in Slot : entry'[r] \in Live
    BY <1>4 DEF Live
  <2>4. orphans' \subseteq Live
    BY <1>4 DEF Live
  <2> QED
    BY <2>1, <2>2, <2>3, <2>4, InoAssumption DEF Live
<1> HIDE DEF n
<1>6. /\ node' \in [Ino -> Node \cup {NoNode}]
      /\ clock' \in Nat
      /\ \A j \in Ino : j \in Live' => node'[j] # NoNode
  BY <1>1, <1>3, <1>5, ChangeType DEF IInv
<1> QED
  BY <1>4, <1>6 DEF IInv, TypeOK

LEMMA CopyOpenType ==
  ASSUME IInv, NEW c \in Client, CopyOpen(c)
  PROVE  IInv'
<1> DEFINE source == entry["staged"]
           type == cand[c].staged.type
<1>1. CASE Throw(c)
  BY <1>1, ThrowType
<1>2. CASE ~Throw(c)
  <2>0. /\ pc[c] = "copy_open" /\ source # NoIno /\ Sees(c, "staged").type = type
        /\ fd[c] = Closed /\ got[c].blocks = 0
    BY <1>2 DEF CopyOpen, IInv, Control, Counting, BothOpen, InstalledOpen, StagedOpen
  <2>1. source \in Ino /\ source \in Live /\ node[source] \in Node
    BY <2>0, NamedNode DEF IInv, Slot, Live
  <2>2. CASE type = "regular"
    <3>1. PICK i \in Unused :
            /\ fd' = [fd EXCEPT ![c].staged = source]
            /\ Goto(c, "copy_block")
            /\ CreateTemporary(c, i, "regular", Blank)
      BY <1>2, <2>2 DEF CopyOpen
    <3>2. /\ node' \in [Ino -> Node \cup {NoNode}] /\ clock' \in Nat
          /\ \A j \in Ino : j \in Live' => node'[j] # NoNode
          /\ tmp' \in [Client -> Ino \cup {NoIno}] /\ tmp'[c] = i
      BY <2>1, <3>1, BlankType, CreateTemporaryType DEF Unused
    <3>3. UNCHANGED <<entry, orphans, got, cand, call, result, seen, log>>
      BY <3>1 DEF CreateTemporary, ctlVars, histVars
    <3>4. TypeOK'
      BY <2>1, <3>1, <3>2, <3>3 DEF IInv, TypeOK, Goto, Label, CallLabel, Side
    <3>5. tmp'[c] # NoIno /\ \A d \in Client \ {c} : tmp'[d] = tmp[d]
      BY <3>1, <3>2, InoAssumption DEF CreateTemporary, Unused, IInv, TypeOK
    <3>6. source # NoIno
      BY <2>0
    <3>7. Control'
      BY <2>0, <3>1, <3>3, <3>5, <3>6, BlockFacts
      DEF IInv, TypeOK, Control, Goto, Counting, MoreToRead, BothOpen, InstalledOpen,
          StagedOpen, Regular, Side
    <3> QED
      BY <3>4, <3>7 DEF IInv
  <2>3. CASE type # "regular"
    <3>1. PICK i \in Unused :
            /\ Goto(c, "seal") /\ UNCHANGED fd
            /\ CreateTemporary(c, i, "symlink", node[source].data)
      BY <1>2, <2>3 DEF CopyOpen
    <3>2. node[source].data \in Data /\ fd' = [fd EXCEPT ![c] = Closed]
      BY <2>0, <2>1, <3>1 DEF Node, IInv, TypeOK
    <3>3. /\ node' \in [Ino -> Node \cup {NoNode}] /\ clock' \in Nat
          /\ \A j \in Ino : j \in Live' => node'[j] # NoNode
          /\ tmp' \in [Client -> Ino \cup {NoIno}] /\ tmp'[c] = i
      BY <3>1, <3>2, CreateTemporaryType DEF Unused
    <3>4. UNCHANGED <<entry, orphans, got, cand, call, result, seen, log>>
      BY <3>1 DEF CreateTemporary, ctlVars, histVars
    <3>5. TypeOK'
      BY <3>1, <3>3, <3>4 DEF IInv, TypeOK, Goto, Label, CallLabel
    <3>6. tmp'[c] # NoIno /\ \A d \in Client \ {c} : tmp'[d] = tmp[d]
      BY <3>1, <3>3, InoAssumption DEF CreateTemporary, Unused, IInv, TypeOK
    <3>7. Control'
      BY <2>0, <3>1, <3>4, <3>6
      DEF IInv, TypeOK, Control, Goto, Counting, MoreToRead, BothOpen, InstalledOpen,
          StagedOpen, Regular
    <3> QED
      BY <3>5, <3>7 DEF IInv
  <2> QED
    BY <2>2, <2>3
<1> QED
  BY <1>1, <1>2

LEMMA CopyBlockType ==
  ASSUME IInv, NEW c \in Client, CopyBlock(c)
  PROVE  IInv'
<1> DEFINE k == got[c].blocks + 1
           i == tmp[c]
           n == [node[i] EXCEPT !.data = [@ EXCEPT ![k] = node[fd[c].staged].data[k]]]
<1>1. /\ pc[c] = "copy_block"
      /\ fd[c]["staged"] # NoIno /\ tmp[c] # NoIno
      /\ k \in Block /\ k \in 0 .. NBlocks /\ (k = NBlocks \/ k < NBlocks)
  <2>1. pc[c] = "copy_block"
    BY DEF CopyBlock
  <2>2. fd[c]["staged"] # NoIno /\ tmp[c] # NoIno
    BY <2>1 DEF IInv, Control, StagedOpen
  <2>3. got[c].blocks \in 0 .. NBlocks /\ got[c].blocks < NBlocks
    BY <2>1 DEF IInv, TypeOK, Control, MoreToRead
  <2> QED
    BY <2>1, <2>2, <2>3, BlockFacts DEF Block
<1>2. i \in Ino /\ node[i] \in Node /\ node[fd[c]["staged"]] \in Node
  BY <1>1, TemporaryNode, OpenNode DEF IInv, Side
<1>3. n \in Node
  BY <1>1, <1>2 DEF Node, Data
<1>4. PICK t \in Now : Change(i, n, t)
  BY DEF CopyBlock
<1>5. /\ got' = [got EXCEPT ![c] = [@ EXCEPT !.blocks = k]]
      /\ pc' = [pc EXCEPT ![c] = IF k = NBlocks THEN "seal" ELSE "copy_block"]
      /\ UNCHANGED <<entry, orphans, tmp, fd, cand, call, result, seen, log>>
  BY DEF CopyBlock, Goto, ctlVars, histVars
<1> HIDE DEF n
<1>6. \A j \in Ino : j \in Live' => j \in Live
  BY <1>5 DEF Live
<1>7. /\ node' \in [Ino -> Node \cup {NoNode}] /\ clock' \in Nat
      /\ \A j \in Ino : j \in Live' => node'[j] # NoNode
  BY <1>2, <1>3, <1>4, <1>6, ChangeType DEF IInv
<1>8. TypeOK'
  BY <1>1, <1>5, <1>7 DEF IInv, TypeOK, Label, CallLabel
<1>9. Control'
  <2>1. got'[c].blocks = k /\ \A d \in Client \ {c} : got'[d] = got[d]
    BY <1>5 DEF IInv, TypeOK
  <2> HIDE DEF k
  <2> QED
    BY <1>1, <1>5, <2>1 DEF IInv, TypeOK, Control, Counting, MoreToRead, BothOpen,
           InstalledOpen, StagedOpen, Regular
<1> QED
  BY <1>8, <1>9 DEF IInv

LEMMA WriteMergedType ==
  ASSUME IInv, NEW c \in Client, WriteMerged(c)
  PROVE  IInv'
<1>1. PICK i \in Unused : CreateTemporary(c, i, "regular", call[c].bytes)
  BY DEF WriteMerged
<1>2. pc[c] = "write_merged" /\ pc' = [pc EXCEPT ![c] = "seal"] /\ fd' = fd
  BY DEF WriteMerged, Goto
<1>3. fd[c] = Closed /\ got[c].blocks = 0
  BY <1>2 DEF IInv, Control, Counting, BothOpen, InstalledOpen, StagedOpen
<1>4. call[c].bytes \in Data /\ fd' = [fd EXCEPT ![c] = Closed]
  BY <1>2, <1>3 DEF IInv, TypeOK, Disposition
<1>5. /\ node' \in [Ino -> Node \cup {NoNode}] /\ clock' \in Nat
      /\ \A j \in Ino : j \in Live' => node'[j] # NoNode
      /\ tmp' \in [Client -> Ino \cup {NoIno}] /\ tmp'[c] = i
  BY <1>1, <1>4, CreateTemporaryType DEF Unused
<1>6. UNCHANGED <<entry, orphans, got, cand, call, result, seen, log>>
  BY <1>1 DEF CreateTemporary, ctlVars, histVars
<1>7. TypeOK'
  BY <1>2, <1>5, <1>6 DEF IInv, TypeOK, Label, CallLabel
<1>8. tmp'[c] # NoIno /\ \A d \in Client \ {c} : tmp'[d] = tmp[d]
  BY <1>1, <1>5, InoAssumption DEF CreateTemporary, Unused, IInv, TypeOK
<1>9. Control'
  BY <1>2, <1>3, <1>6, <1>8
  DEF IInv, TypeOK, Control, Counting, MoreToRead, BothOpen, InstalledOpen, StagedOpen, Regular
<1> QED
  BY <1>7, <1>9 DEF IInv

LEMMA SealType ==
  ASSUME IInv, NEW c \in Client, Seal(c)
  PROVE  IInv'
<1> DEFINE m == IF call[c].kind = "install_merged" THEN Selected(c) ELSE cand[c].staged
           i == tmp[c]
<1>1. /\ pc[c] = "seal" /\ pc' = [pc EXCEPT ![c] = "publish"]
      /\ fd' = [fd EXCEPT ![c] = Closed] /\ got' = [got EXCEPT ![c] = NothingGot]
      /\ UNCHANGED <<entry, orphans, tmp, cand, call, result, seen, log>>
  BY DEF Seal, Goto, ctlVars, histVars
<1>2. tmp[c] # NoIno
  BY <1>1 DEF IInv, Control
<1>3. i \in Ino /\ node[i] \in Node
  BY <1>2, TemporaryNode DEF IInv
<1>4. m.owner \in Owner /\ m.mode \in Mode
  <2>1. cand[c].staged \in Fingerprint
    BY DEF IInv, TypeOK, CandidateRecord
  <2> QED
    BY <2>1, SelectedType DEF IInv, Fingerprint
<1>5. PICK t \in Now : Change(i, Dressed(node[i], m.owner, m.mode), t)
  BY DEF Seal
<1> HIDE DEF m
<1>6. Dressed(node[i], m.owner, m.mode) \in Node
  BY <1>3, <1>4, DressedType
<1>7. \A j \in Ino : j \in Live' => j \in Live
  BY <1>1, InoAssumption DEF IInv, TypeOK, Live, Closed, Side
<1>8. /\ node' \in [Ino -> Node \cup {NoNode}] /\ clock' \in Nat
      /\ \A j \in Ino : j \in Live' => node'[j] # NoNode
  BY <1>3, <1>5, <1>6, <1>7, ChangeType DEF IInv
<1>9. TypeOK'
  BY <1>1, <1>8, BlankType DEF IInv, TypeOK, Label, CallLabel, Closed
<1>10. Control'
  BY <1>1, <1>2 DEF IInv, TypeOK, Control, NothingGot, Counting, MoreToRead, BothOpen,
         InstalledOpen, StagedOpen, Regular
<1> QED
  BY <1>9, <1>10 DEF IInv

LEMMA PublishType ==
  ASSUME IInv, NEW c \in Client, Publish(c)
  PROVE  IInv'
<1> DEFINE dest == call[c].dest
           i == tmp[c]
<1>1. CASE Throw(c)
  BY <1>1, ThrowType
<1>2. CASE ~Throw(c)
  <2>1. /\ pc[c] = "publish" /\ pc' = [pc EXCEPT ![c] = "retire"]
        /\ entry' = [entry EXCEPT ![dest] = i]
        /\ tmp' = [tmp EXCEPT ![c] = NoIno]
        /\ log' = log \cup ({call[c].kind} \cap GivesUpStaged)
        /\ UNCHANGED <<orphans, fd, got, cand, call, result, seen>>
    BY <1>2 DEF Publish, Goto, ctlVars, histVars
  <2>2. PICK t \in Now : Settle(Touch(node, {i, entry[dest]}, t)) /\ clock' = t
    BY <1>2 DEF Publish
  <2>3. i \in Ino /\ i \in Live
    BY <2>1, TemporaryNode DEF IInv, Control, Live
  <2>4. \A j \in Ino : j \in Live' => j \in Live
    <3>1. \A r \in Slot : entry'[r] \in Live
      BY <2>1, <2>3 DEF IInv, TypeOK, Live
    <3>2. \A d \in Client : tmp'[d] \in Live \cup {NoIno}
      BY <2>1 DEF IInv, TypeOK, Live
    <3>3. fd' = fd /\ orphans' = orphans
      BY <2>1
    <3> QED
      BY <3>1, <3>2, <3>3, InoAssumption DEF Live
  <2>5. /\ node' \in [Ino -> Node \cup {NoNode}] /\ clock' \in Nat
        /\ \A j \in Ino : j \in Live' => node'[j] # NoNode
    BY <2>2, <2>4, RelinkType DEF IInv
  <2>6. log' \subseteq Kinds
    BY <2>1 DEF IInv, TypeOK, GivesUpStaged, Kinds
  <2>7. TypeOK'
    BY <2>1, <2>3, <2>5, <2>6 DEF IInv, TypeOK, Label, CallLabel
  <2>8. Control'
    BY <2>1 DEF IInv, TypeOK, Control, Counting, MoreToRead, BothOpen, InstalledOpen,
           StagedOpen, Regular
  <2> QED
    BY <2>7, <2>8 DEF IInv
<1> QED
  BY <1>1, <1>2

------------------------------------------------------------------------------
(* compare_text().                                                         *)
LEMMA LabelOf ==
  /\ OpenAt["installed"] = "open_installed" /\ OpenAt["staged"] = "open_staged"
  /\ ReadAt["installed"] = "load_installed" /\ ReadAt["staged"] = "load_staged"
  /\ VerifyAt["installed"] = "verify_installed" /\ VerifyAt["staged"] = "verify_staged"
BY DEF OpenAt, ReadAt, VerifyAt

LEMMA CompareOpenType ==
  ASSUME IInv, NEW c \in Client, NEW s \in Side, CompareOpen(c, s)
  PROVE  IInv'
<1>1. CASE Throw(c)
  BY <1>1, ThrowType
<1>2. CASE ~Throw(c)
  <2>1. /\ pc[c] = OpenAt[s] /\ pc' = [pc EXCEPT ![c] = ReadAt[s]]
        /\ FingerprintMatches(cand[c][s], Sees(c, s))
        /\ fd' = [fd EXCEPT ![c][s] = entry[s]]
        /\ UNCHANGED <<entry, node, clock, orphans, tmp, got, cand, call, result, seen, log>>
    BY <1>2 DEF CompareOpen, Goto, ctlVars, histVars
  <2>2. pc[c] \in {"open_installed", "open_staged"}
    BY <2>1 DEF OpenAt, Side
  <2>3. cand[c][s].type = "regular"
    BY <2>2 DEF IInv, Control, Regular, Side
  <2>4. entry[s] # NoIno
    BY <2>1, <2>3 DEF FingerprintMatches, Sees, Observe, Missing
  <2>5. \A j \in Ino : j \in Live' => j \in Live
    <3>1. \A d \in Client, r \in Side : fd'[d][r] \in Live
      BY <2>1 DEF IInv, TypeOK, Live, Side, Slot
    <3>2. UNCHANGED <<entry, tmp, orphans>>
      BY <2>1
    <3> QED
      BY <3>1, <3>2 DEF Live
  <2>6. TypeOK'
    <3>1. fd' \in [Client -> [Side -> Ino \cup {NoIno}]]
      BY <2>1 DEF IInv, TypeOK, Side, Slot
    <3>2. pc' \in [Client -> Label] /\ pc'[c] \in {"load_installed", "load_staged"}
      BY <2>1 DEF IInv, TypeOK, Label, CallLabel, ReadAt, Side
    <3>3. \A d \in Client : pc'[d] \in {"idle", "ready"} => fd'[d] = Closed
      BY <2>1, <3>2 DEF IInv, TypeOK
    <3> QED
      BY <2>1, <2>5, <3>1, <3>2, <3>3 DEF IInv, TypeOK
  <2>7. fd[c] = Closed /\ got[c].blocks = 0
    BY <2>2 DEF IInv, Control, Counting, BothOpen, InstalledOpen, StagedOpen
  <2>8. Control'
    BY <2>1, <2>2, <2>4, <2>7, BlockFacts
    DEF IInv, TypeOK, Control, OpenAt, ReadAt, Closed, Counting, MoreToRead, BothOpen,
        InstalledOpen, StagedOpen, Regular, Side
  <2> QED
    BY <2>6, <2>8 DEF IInv
<1> QED
  BY <1>1, <1>2

LEMMA CompareReadType ==
  ASSUME IInv, NEW c \in Client, NEW s \in Side, CompareRead(c, s)
  PROVE  IInv'
<1> DEFINE k == got[c].blocks + 1
<1>1. /\ pc[c] = ReadAt[s]
      /\ got' = [got EXCEPT ![c] = [@ EXCEPT ![s] = ReadBlock(c, s, k), !.blocks = k]]
      /\ pc' = [pc EXCEPT ![c] = IF k = NBlocks THEN VerifyAt[s] ELSE ReadAt[s]]
      /\ UNCHANGED <<entry, node, clock, orphans, tmp, fd, cand, call, result, seen, log>>
  BY DEF CompareRead, Goto, fsVars, ctlVars, histVars
<1>2. fd[c][s] # NoIno /\ pc[c] \in MoreToRead
  <2>1. \/ s = "installed" /\ pc[c] = "load_installed"
        \/ s = "staged" /\ pc[c] = "load_staged"
    BY <1>1, LabelOf DEF Side
  <2> QED
    BY <2>1 DEF IInv, Control, InstalledOpen, StagedOpen, MoreToRead
<1>3. ReadBlock(c, s, k) \in Data /\ k \in 0 .. NBlocks
  BY <1>2, ReadBlockType
<1>4. pc'[c] \in {"load_installed", "load_staged", "verify_installed", "verify_staged"}
  BY <1>1, LabelOf DEF IInv, TypeOK, Side
<1>5. got' \in [Client -> [installed: Data, staged: Data, blocks: 0 .. NBlocks]]
  <2>1. [got[c] EXCEPT ![s] = ReadBlock(c, s, k), !.blocks = k]
          \in [installed: Data, staged: Data, blocks: 0 .. NBlocks]
    BY <1>3, BufferType, BufferOf DEF IInv
  <2> QED
    BY <1>1, <2>1, BuffersType DEF IInv
<1>6. TypeOK'
  <2>1. pc' \in [Client -> Label]
    BY <1>1 DEF IInv, TypeOK, Label, CallLabel, ReadAt, VerifyAt, Side
  <2> QED
    BY <1>1, <1>4, <1>5, <2>1, SameFiles DEF IInv, TypeOK, fsVars
<1>7. /\ got'[c].blocks = k
      /\ \A d \in Client \ {c} : got'[d] = got[d]
      /\ k = NBlocks \/ k < NBlocks
  <2>1. s = "installed" \/ s = "staged"
    BY DEF Side
  <2> DEFINE b == ReadBlock(c, s, k)
  <2>2. got[c] \in [installed: Data, staged: Data, blocks: 0 .. NBlocks]
        /\ got'[c] = [got[c] EXCEPT ![s] = b, !.blocks = k]
    BY <1>1 DEF IInv, TypeOK
  <2> HIDE DEF b, k
  <2>3. ASSUME s = "installed" PROVE got'[c].blocks = k
    BY <2>2, <2>3
  <2>4. ASSUME s = "staged" PROVE got'[c].blocks = k
    BY <2>2, <2>4
  <2>5. got'[c].blocks = k
    BY <2>1, <2>3, <2>4
  <2>6. \A d \in Client \ {c} : got'[d] = got[d]
    BY <1>1 DEF IInv, TypeOK
  <2>7. k = NBlocks \/ k < NBlocks
    BY <1>3, BlockFacts
  <2> QED
    BY <2>5, <2>6, <2>7
<1> HIDE DEF k
<1>8. Control'
  <2>1. \/ pc[c] = "load_installed" /\ pc'[c] \in {"load_installed", "verify_installed"}
        \/ pc[c] = "load_staged" /\ pc'[c] \in {"load_staged", "verify_staged"}
    BY <1>1, LabelOf DEF IInv, TypeOK, Side
  <2>2. pc'[c] \in {"load_installed", "load_staged"} => k < NBlocks
    BY <1>1, <1>7, LabelOf DEF IInv, TypeOK, Side
  <2>3. \A d \in Client \ {c} : pc'[d] = pc[d] /\ got'[d] = got[d]
    BY <1>1, <1>7 DEF IInv, TypeOK
  <2>4. cand' = cand /\ fd' = fd /\ tmp' = tmp /\ got'[c].blocks = k
    BY <1>1, <1>7
  <2> QED
    BY <2>1, <2>2, <2>3, <2>4
    DEF IInv, Control, Counting, MoreToRead, BothOpen, InstalledOpen, StagedOpen, Regular
<1> QED
  BY <1>6, <1>8 DEF IInv

LEMMA CompareVerifyType ==
  ASSUME IInv, NEW c \in Client, NEW s \in Side, CompareVerify(c, s)
  PROVE  IInv'
<1>1. CASE Throw(c)
  BY <1>1, ThrowType
<1>2. CASE ~Throw(c)
  <2>1. /\ pc[c] = VerifyAt[s]
        /\ fd' = [fd EXCEPT ![c][s] = NoIno]
        /\ pc' = [pc EXCEPT ![c] = IF s = "installed" THEN "open_staged" ELSE "ready"]
        /\ got' = [got EXCEPT ![c] =
                     IF s = "installed" THEN [@ EXCEPT !.blocks = 0] ELSE NothingGot]
        /\ UNCHANGED <<entry, clock, orphans, tmp, cand, call, seen, log>>
        /\ Settle(node)
    BY <1>2 DEF CompareVerify, Proceed, Goto, OpenAt, Side, histVars
  <2>2. result' \in [Client -> {"none", "ok", "failed"}]
    BY <1>2, ProceedType DEF CompareVerify, IInv
  <2>3. \A j \in Ino : j \in Live' => j \in Live
    <3>1. \A d \in Client, r \in Side : fd'[d][r] \in Live \cup {NoIno}
      BY <2>1 DEF IInv, TypeOK, Live, Side
    <3>2. UNCHANGED <<entry, tmp, orphans>>
      BY <2>1
    <3> QED
      BY <3>1, <3>2, InoAssumption DEF Live
  <2>4. /\ node' \in [Ino -> Node \cup {NoNode}]
        /\ \A j \in Ino : j \in Live' => node'[j] # NoNode
    BY <2>1, <2>3, ReleaseType DEF IInv
  <2>5. fd'[c] = Closed
    <3>1. fd[c] \in [Side -> Ino \cup {NoIno}] /\ fd'[c] = [fd[c] EXCEPT ![s] = NoIno]
      BY <2>1 DEF IInv, TypeOK
    <3>2. CASE s = "installed"
      <4>1. fd[c]["staged"] = NoIno
        BY <2>1, <3>2, LabelOf DEF IInv, Control, InstalledOpen
      <4> QED
        BY <3>1, <3>2, <4>1 DEF Closed, Side
    <3>3. CASE s = "staged"
      <4>1. fd[c]["installed"] = NoIno
        BY <2>1, <3>3, LabelOf DEF IInv, Control
      <4> QED
        BY <3>1, <3>3, <4>1 DEF Closed, Side
    <3> QED
      BY <3>2, <3>3 DEF Side
  <2>6. TypeOK'
    <3>1. /\ fd' \in [Client -> [Side -> Ino \cup {NoIno}]]
          /\ pc' \in [Client -> Label]
          /\ got' \in [Client -> [installed: Data, staged: Data, blocks: 0 .. NBlocks]]
      BY <2>1, BlankType, BlockFacts
      DEF IInv, TypeOK, Label, CallLabel, OpenAt, Side
    <3>2. \A d \in Client : pc'[d] \in {"idle", "ready"} => fd'[d] = Closed
      BY <2>1, <2>5 DEF IInv, TypeOK
    <3> QED
      BY <2>1, <2>2, <2>4, <3>1, <3>2 DEF IInv, TypeOK
  <2>7. got'[c].blocks = 0 /\ \A d \in Client \ {c} : got'[d] = got[d] /\ fd'[d] = fd[d]
    BY <2>1 DEF IInv, TypeOK, NothingGot
  <2>8. Control'
    BY <2>1, <2>5, <2>7
    DEF IInv, TypeOK, Control, VerifyAt, Counting, MoreToRead, BothOpen, InstalledOpen,
        StagedOpen, Regular, Side
  <2> QED
    BY <2>6, <2>8 DEF IInv
<1> QED
  BY <1>1, <1>2

LEMMA ResolveType ==
  ASSUME IInv, NEW c \in Client, Resolve(c)
  PROVE  IInv'
BY BeginType, ValidateType, ChownType, ChmodType, RetireType, RenameType,
   RenameCrossDeviceType, CopyOpenType, CopyBlockType, WriteMergedType, SealType, PublishType,
   CompareOpenType, CompareReadType, CompareVerifyType DEF Resolve

------------------------------------------------------------------------------
(* The death of a client, and other processes.                             *)
LEMMA CrashType ==
  ASSUME IInv, NEW c \in Client, Crash(c)
  PROVE  IInv'
<1>1. /\ tmp' = [tmp EXCEPT ![c] = NoIno]
      /\ orphans' = orphans \cup ({tmp[c]} \ {NoIno})
      /\ fd' = [fd EXCEPT ![c] = Closed] /\ entry' = entry
      /\ Settle(node)
  BY DEF Crash, Idle
<1>2. \A j \in Ino : j \in Live' => j \in Live
  <2>1. \A d \in Client : tmp'[d] \in Live \cup {NoIno}
    BY <1>1 DEF IInv, TypeOK, Live
  <2>2. \A d \in Client, s \in Side : fd'[d][s] \in Live \cup {NoIno}
    BY <1>1 DEF IInv, TypeOK, Live, Closed
  <2>3. orphans' \subseteq Live /\ \A r \in Slot : entry'[r] \in Live
    BY <1>1 DEF Live
  <2> QED
    BY <2>1, <2>2, <2>3, InoAssumption DEF Live
<1>3. /\ node' \in [Ino -> Node \cup {NoNode}]
      /\ \A j \in Ino : j \in Live' => node'[j] # NoNode
  BY <1>1, <1>2, ReleaseType DEF IInv
<1>4. NoCall \in Disposition
  BY BlankType DEF NoCall, Disposition, Kinds, Source, Slot
<1>5. TypeOK'
  BY <1>1, <1>3, <1>4, BlankType, MissingType
  DEF IInv, TypeOK, Crash, Idle, Goto, Closed, Label
<1>6. Control'
  BY DEF IInv, TypeOK, Control, Crash, Idle, Goto, NothingGot, Closed, Counting, MoreToRead,
         BothOpen, InstalledOpen, StagedOpen, Regular
<1> QED
  BY <1>5, <1>6 DEF IInv

LEMMA OthersType ==
  ASSUME IInv, Others
  PROVE  IInv'
<1>1. OthersLeaveAlone
  BY DEF Others, OtherRemoves, OtherWrites, OtherChmods, OtherPuts
<1>2. Control'
  BY <1>1 DEF IInv, Control, OthersLeaveAlone, ctlVars
<1>3. PICK s \in Slot :
        \/ OtherRemoves(s)
        \/ \E d \in Data : OtherWrites(s, d)
        \/ \E m \in GivenMode : OtherChmods(s, m)
        \/ \E i \in Unused, type \in PutType, d \in Data, m \in GivenMode \cup {LinkMode}, o \in Owner :
             OtherPuts(s, i, type, d, m, o)
  BY DEF Others
<1>4. /\ entry' \in [Slot -> Ino \cup {NoIno}]
      /\ node' \in [Ino -> Node \cup {NoNode}] /\ clock' \in Nat
      /\ \A j \in Ino : j \in Live' => node'[j] # NoNode
  <2>1. CASE OtherRemoves(s)
    <3>1. PICK t \in Now : Settle(Touch(node, {entry[s]}, t)) /\ clock' = t
      BY <2>1 DEF OtherRemoves
    <3>2. entry' = [entry EXCEPT ![s] = NoIno]
      BY <2>1 DEF OtherRemoves
    <3>3. \A j \in Ino : j \in Live' => j \in Live
      BY <1>1, <3>2, InoAssumption DEF OthersLeaveAlone, IInv, TypeOK, Live
    <3> QED
      BY <3>1, <3>2, <3>3, RelinkType DEF IInv, TypeOK
  <2>2. ASSUME NEW d \in Data, OtherWrites(s, d)
        PROVE  /\ entry' \in [Slot -> Ino \cup {NoIno}]
               /\ node' \in [Ino -> Node \cup {NoNode}] /\ clock' \in Nat
               /\ \A j \in Ino : j \in Live' => node'[j] # NoNode
    <3>1. entry[s] \in Ino /\ node[entry[s]] \in Node
      BY <2>2, NamedNode DEF OtherWrites, IInv
    <3>2. [node[entry[s]] EXCEPT !.data = d] \in Node
      BY <3>1 DEF Node
    <3>3. PICK t \in Now : Change(entry[s], [node[entry[s]] EXCEPT !.data = d], t)
      BY <2>2 DEF OtherWrites
    <3>4. entry' = entry /\ \A j \in Ino : j \in Live' => j \in Live
      BY <1>1, <2>2 DEF OtherWrites, OthersLeaveAlone, Live
    <3> QED
      BY <3>1, <3>2, <3>3, <3>4, ChangeType DEF IInv, TypeOK
  <2>3. ASSUME NEW m \in GivenMode, OtherChmods(s, m)
        PROVE  /\ entry' \in [Slot -> Ino \cup {NoIno}]
               /\ node' \in [Ino -> Node \cup {NoNode}] /\ clock' \in Nat
               /\ \A j \in Ino : j \in Live' => node'[j] # NoNode
    <3>1. entry[s] \in Ino /\ node[entry[s]] \in Node
      BY <2>3, NamedNode DEF OtherChmods, IInv
    <3>2. [node[entry[s]] EXCEPT !.mode = m] \in Node
      BY <3>1, SwitchAssumption DEF Node
    <3>3. PICK t \in Now : Change(entry[s], [node[entry[s]] EXCEPT !.mode = m], t)
      BY <2>3 DEF OtherChmods
    <3>4. entry' = entry /\ \A j \in Ino : j \in Live' => j \in Live
      BY <1>1, <2>3 DEF OtherChmods, OthersLeaveAlone, Live
    <3> QED
      BY <3>1, <3>2, <3>3, <3>4, ChangeType DEF IInv, TypeOK
  <2>4. ASSUME NEW i \in Unused, NEW type \in PutType, NEW d \in Data,
               NEW m \in GivenMode \cup {LinkMode}, NEW o \in Owner,
               OtherPuts(s, i, type, d, m, o)
        PROVE  /\ entry' \in [Slot -> Ino \cup {NoIno}]
               /\ node' \in [Ino -> Node \cup {NoNode}] /\ clock' \in Nat
               /\ \A j \in Ino : j \in Live' => node'[j] # NoNode
    <3> DEFINE n(t) == [type |-> type, data |-> d, mode |-> m, owner |-> o, ctime |-> t]
               nd(t) == [node EXCEPT ![i] = n(t)]
    <3>1. PICK t \in Now : Settle(Touch(nd(t), {i, entry[s]}, t)) /\ clock' = t
      BY <2>4 DEF OtherPuts
    <3>2. t \in Nat
      BY NowType DEF IInv, TypeOK
    <3>3. n(t) \in Node
      BY <3>2, SwitchAssumption, ModeAssumption DEF Node
    <3>4. entry' = [entry EXCEPT ![s] = i] /\ i \in Ino
      BY <2>4 DEF OtherPuts, Unused
    <3>5. \A j \in Ino : j \in Live' => j \in Live \/ j = i
      BY <1>1, <3>4 DEF OthersLeaveAlone, IInv, TypeOK, Live
    <3> HIDE DEF n
    <3>6. /\ nd(t) \in [Ino -> Node \cup {NoNode}]
          /\ \A j \in Ino : j \in Live' => nd(t)[j] # NoNode
      BY <3>3, <3>4, <3>5, NodeAssumption DEF IInv, TypeOK
    <3> HIDE DEF nd
    <3>7. /\ Touch(nd(t), {i, entry[s]}, t) \in [Ino -> Node \cup {NoNode}]
          /\ \A j \in Ino : j \in Live' => Touch(nd(t), {i, entry[s]}, t)[j] # NoNode
      BY <3>2, <3>6, TouchType
    <3> QED
      BY <3>1, <3>2, <3>4, <3>7, SettleType DEF IInv, TypeOK
  <2> QED
    BY <1>3, <2>1, <2>2, <2>3, <2>4
<1>5. TypeOK'
  BY <1>1, <1>4 DEF IInv, TypeOK, OthersLeaveAlone, ctlVars, histVars
<1> QED
  BY <1>2, <1>5 DEF IInv

LEMMA InitInvariant ==
  ASSUME Init
  PROVE  IInv
<1>1. InitNode \subseteq Node
  BY SwitchAssumption, ModeAssumption DEF InitNode, Node
<1>2. NoCall \in Disposition
  BY BlankType DEF NoCall, Disposition, Kinds, Source, Slot
<1> DEFINE Named == {entry[s] : s \in Slot} \ {NoIno}
<1>3. PICK objects \in [Named -> InitNode] :
        node = [i \in Ino |-> IF i \in DOMAIN objects THEN objects[i] ELSE NoNode]
  BY DEF Init
<1>4. DOMAIN objects = Named /\ \A i \in Named : objects[i] \in Node
  BY <1>1, <1>3
<1> HIDE DEF Named
<1>5. node \in [Ino -> Node \cup {NoNode}]
  BY <1>3, <1>4
<1>6. \A i \in Ino : i \in Live => i \in Named
  BY InoAssumption DEF Init, Live, Closed, Side, Named
<1>7. \A i \in Ino : i \in Live => node[i] # NoNode
  BY <1>3, <1>4, <1>6, NodeAssumption
<1>8. TypeOK
  BY <1>2, <1>5, <1>7, BlankType, MissingType DEF Init, TypeOK, Closed, Label
<1>9. Control
  BY DEF Init, Control, Closed, NothingGot, Counting, MoreToRead, BothOpen, InstalledOpen,
         StagedOpen, Regular
<1> QED
  BY <1>8, <1>9 DEF IInv

LEMMA NextInvariant ==
  ASSUME IInv, [Next]_vars
  PROVE  IInv'
<1>1. ASSUME NEW c \in Client, ScanError(c) \/ CallError(c)
      PROVE  IInv'
  BY <1>1, AbortType, ThrowType DEF ScanError, CallError
<1>2. CASE UNCHANGED vars
  <2>1. UNCHANGED <<entry, node, clock, orphans, tmp, fd, pc, cand, got, call, result, seen, log>>
    BY <1>2 DEF vars, fsVars, ctlVars, histVars
  <2>2. TypeOK'
    BY <2>1 DEF IInv, TypeOK, Live
  <2>3. Control'
    BY <2>1 DEF IInv, Control
  <2> QED
    BY <2>2, <2>3 DEF IInv
<1> QED
  BY <1>1, <1>2, ScanType, ResolveType, CrashType, OthersType DEF Next

(* No name or descriptor ever refers to a released inode, and no           *)
(* descriptor outlives the call that opened it, in any interleaving of any *)
(* number of clients and other processes, with any failures and crashes.   *)
THEOREM TypeCorrect == Spec => []TypeOK
<1>1. Init => IInv
  BY InitInvariant
<1>2. IInv /\ [Next]_vars => IInv'
  BY NextInvariant
<1>3. IInv => TypeOK
  BY DEF IInv
<1> QED
  BY <1>1, <1>2, <1>3, PTL DEF Spec

------------------------------------------------------------------------------
(* Only a client's own steps move it.                                      *)
LEMMA OwnControl ==
  ASSUME TypeOK, NEW c \in Client, NEW d \in Client, c # d,
         Scan(d) \/ Resolve(d) \/ ScanError(d) \/ CallError(d) \/ Crash(d)
  PROVE  pc'[c] = pc[c]
<1> USE DEF Goto, Idle, AbortScan, Throw, Proceed, ScanReturns
<1>1. CASE Scan(d) \/ ScanError(d)
  BY <1>1 DEF TypeOK, Scan, ScanError, ScanObserveStaged, ScanOmitStructural,
         ScanObserveInstalled, InspectOpen, InspectReadInstalled, InspectReadStaged,
         InspectRecheck, LinkRead, LinkCheck, Forget
<1>2. CASE \/ \E x \in Calls : Begin(d, x)
           \/ ValidateInstalled(d) \/ ValidateStaged(d)
           \/ Chown(d) \/ Chmod(d)
           \/ RetireUnlinks(d) \/ RetireFindsNothing(d) \/ RetireFindsChildren(d)
           \/ Rename(d) \/ RenameCrossDevice(d)
  BY <1>2 DEF TypeOK, Begin, ValidateInstalled, ValidateStaged, Chown, Chmod, RetireUnlinks,
         RetireFindsNothing, RetireFindsChildren, Rename, RenameCrossDevice
<1>3. CASE \/ CopyOpen(d) \/ CopyBlock(d) \/ WriteMerged(d) \/ Seal(d) \/ Publish(d)
           \/ \E s \in Side : CompareOpen(d, s) \/ CompareRead(d, s) \/ CompareVerify(d, s)
  BY <1>3 DEF TypeOK, CopyOpen, CopyBlock, WriteMerged, Seal, Publish, CompareOpen, CompareRead,
         CompareVerify
<1>4. CASE CallError(d) \/ Crash(d)
  BY <1>4 DEF TypeOK, CallError, Crash
<1> QED
  BY <1>1, <1>2, <1>3, <1>4 DEF Resolve

(* Each label has its own actions.                                         *)
LEMMA MovesOfRelic ==
  ASSUME TypeOK, NEW c \in Client, Scan(c) \/ Resolve(c) \/ ScanError(c) \/ CallError(c) \/ Crash(c),
         pc[c] \in {"rename", "publish"}
  PROVE  Rename(c) \/ RenameCrossDevice(c) \/ Publish(c) \/ CallError(c) \/ Crash(c)
<1>1. ~ Scan(c)
  BY DEF Scan, ScanObserveStaged, ScanOmitStructural, ScanObserveInstalled, InspectOpen,
         InspectReadInstalled, InspectReadStaged, InspectRecheck, LinkRead, LinkCheck,
         LinkLabel, CheckLabel, Forget
<1>2. ~ ScanError(c)
  BY DEF ScanError, ScanLabel
<1>3. ASSUME NEW s \in Side
      PROVE  ~ (CompareOpen(c, s) \/ CompareRead(c, s) \/ CompareVerify(c, s))
  <2>1. {OpenAt[s], ReadAt[s], VerifyAt[s]} \cap {"rename", "publish"} = {}
    <3>1. CASE s = "installed"
      BY <3>1, LabelOf
    <3>2. CASE s = "staged"
      BY <3>2, LabelOf
    <3> QED
      BY <3>1, <3>2 DEF Side
  <2> QED
    BY <2>1 DEF CompareOpen, CompareRead, CompareVerify
<1>4. ~ \/ \E x \in Calls : Begin(c, x)
        \/ ValidateInstalled(c) \/ ValidateStaged(c) \/ Chown(c) \/ Chmod(c)
        \/ RetireUnlinks(c) \/ RetireFindsNothing(c) \/ RetireFindsChildren(c)
        \/ CopyOpen(c) \/ CopyBlock(c) \/ WriteMerged(c) \/ Seal(c)
  BY DEF Begin, ValidateInstalled, ValidateStaged, Chown, Chmod, RetireUnlinks,
         RetireFindsNothing, RetireFindsChildren, CopyOpen, CopyBlock, WriteMerged, Seal
<1> QED
  BY <1>1, <1>2, <1>3, <1>4 DEF Resolve

(* Whatever other clients and processes do, and on one filesystem or two,  *)
(* restore() and relocate_relic() never take a name from an object.        *)
THEOREM RelicsNeverReplace == Spec => RelicNeverReplaces
<1> DEFINE A(c) == /\ pc[c] \in {"rename", "publish"} /\ pc'[c] # pc[c]
                   /\ call[c].kind \in {"restore", "relocate_relic"}
                   /\ entry[call[c].dest] # NoIno
                   => entry'[call[c].dest] = entry[call[c].dest]
<1>1. ASSUME TypeOK, [Next]_vars
      PROVE  \A c \in Client : A(c)
  <2>1. SUFFICES ASSUME NEW c \in Client,
                        pc[c] \in {"rename", "publish"}, pc'[c] # pc[c],
                        call[c].kind \in {"restore", "relocate_relic"},
                        entry[call[c].dest] # NoIno
                 PROVE  entry'[call[c].dest] = entry[call[c].dest]
    OBVIOUS
  <2>2. ~ UNCHANGED vars
    BY <2>1 DEF vars
  <2>3. ~ Others
    <3>1. ~ OthersLeaveAlone
      BY <2>1 DEF OthersLeaveAlone
    <3> QED
      BY <3>1 DEF Others, OtherRemoves, OtherWrites, OtherChmods, OtherPuts
  <2>4. Scan(c) \/ Resolve(c) \/ ScanError(c) \/ CallError(c) \/ Crash(c)
    BY <1>1, <2>1, <2>2, <2>3, OwnControl DEF Next
  <2>5. Rename(c) \/ RenameCrossDevice(c) \/ Publish(c) \/ CallError(c) \/ Crash(c)
    BY <1>1, <2>1, <2>4, MovesOfRelic
  <2>6. \A i : Refuses(c, i)
    BY <2>1 DEF Refuses, Replaces
  <2>7. CASE Throw(c)
    BY <2>7 DEF Throw
  <2>8. CASE RenameCrossDevice(c) \/ Crash(c)
    BY <2>8 DEF RenameCrossDevice, Crash, Throw, fsVars
  <2> QED
    BY <2>5, <2>6, <2>7, <2>8 DEF Rename, Publish, CallError
<1>2. Spec => [][\A c \in Client : A(c)]_vars
  BY <1>1, TypeCorrect, PTL DEF Spec
<1> QED
  BY <1>2 DEF RelicNeverReplaces
==============================================================================
