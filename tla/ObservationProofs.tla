--------------------------- MODULE ObservationProofs ---------------------------
(***************************************************************************)
(* What a client observed of the two objects stays true of them while      *)
(* their timestamps stay what they were.  The hypothesis of every result   *)
(* about contents is that two changes never get the same timestamp.        *)
(***************************************************************************)
EXTENDS ReconcilerProofs

(* Where both files are being read by scan(), and both links.              *)
Inspecting == {"inspect", "read_installed", "read_staged", "recheck"}
Linking    == {"link_installed", "check_installed", "link_staged", "check_staged"}

(* Where the installed contents have been read and verified.               *)
InstalledRead == {"link_staged", "check_staged", "open_staged", "load_staged",
                  "verify_staged"}

(* The inode that client c observed on side s is in use and has not been   *)
(* changed since, as far as its timestamp tells.                           *)
Still(c, s) ==
  LET i == cand[c][s].inode
  IN node[i] # NoNode /\ node[i].ctime = seen[c][s].ctime

(* The fingerprint describes what was seen, and the timestamp tells the    *)
(* truth: it is the same only if nothing changed.                          *)
Faithful(c, s) ==
  IF seen[c][s] = NoNode THEN cand[c][s] = Missing
  ELSE /\ cand[c][s].inode \in Ino
       /\ cand[c][s].exists
       /\ cand[c][s].type = seen[c][s].type
       /\ cand[c][s].mode = seen[c][s].mode
       /\ cand[c][s].owner = seen[c][s].owner
       /\ cand[c][s].ctime = seen[c][s].ctime
       /\ seen[c][s].ctime <= clock
       /\ Still(c, s) => node[cand[c][s].inode] = seen[c][s]

(* The buffer holds the contents of the object seen, as far as it is read. *)
Whole(c, s) == got[c][s] = seen[c][s].data

Prefix(c, s, n) ==
  Still(c, s) => \A k \in 1 .. n : got[c][s][k] = seen[c][s].data[k]

(* How many blocks inspect_regular_file() has read of side s.              *)
Taken(c, s) ==
  IF pc[c] = "read_staged" /\ s = "installed" THEN got[c].blocks + 1 ELSE got[c].blocks

(* A finished candidate's flags are those of the two objects seen.         *)
Flags(c) ==
  IF /\ cand[c]["installed"].type = cand[c]["staged"].type
     /\ cand[c]["staged"].type \in {"regular", "symlink"}
  THEN LET i == seen[c]["installed"]
           s == seen[c]["staged"]
       IN /\ cand[c].equal <=> i.data = s.data
          /\ cand[c].text <=> /\ i.type = "regular"
                              /\ TextData(i.data) /\ TextData(s.data)
  ELSE ~cand[c].text

(* What a client may rely on at each of its system calls: what the kind of *)
(* the two objects is,                                                     *)
Sorted(c) ==
  /\ pc[c] # "idle" => seen[c]["staged"] # NoNode
  /\ pc[c] \in Inspecting => \A s \in Side : cand[c][s].type = "regular"
  /\ pc[c] \in Linking => \A s \in Side : cand[c][s].type = "symlink"

(* ... what inspect_regular_file() has read,                               *)
Inspected(c) ==
  /\ pc[c] \in BothOpen =>
       \A s \in Side : fd[c][s] = cand[c][s].inode /\ Prefix(c, s, Taken(c, s))
  /\ pc[c] = "recheck" => got[c].blocks = NBlocks

(* ... what read_stable_symlink() has read,                                *)
Linked(c) ==
  \A s \in Side :
    pc[c] = CheckLabel(s) /\ entry[s] = cand[c][s].inode /\ Still(c, s) => Whole(c, s)

(* ... what read_stable_regular() has read,                                *)
Compared(c) ==
  \A s \in Side :
    /\ pc[c] \in {ReadAt[s], VerifyAt[s]} =>
         fd[c][s] = cand[c][s].inode /\ Prefix(c, s, got[c].blocks)
    /\ pc[c] = VerifyAt[s] => got[c].blocks = NBlocks

(* ... and what is known for good.                                         *)
Settled(c) ==
  /\ pc[c] \in InstalledRead => Whole(c, "installed")
  /\ Holds(c) => Flags(c)

Progress(c) == Sorted(c) /\ Inspected(c) /\ Linked(c) /\ Compared(c) /\ Settled(c)

(* No object is younger than the clock.                                    *)
Past == \A i \in Ino : node[i] # NoNode => node[i].ctime <= clock

Informed(c) == Progress(c) /\ \A s \in Side : Faithful(c, s)

Truth == Past /\ \A c \in Client : Informed(c)

------------------------------------------------------------------------------
(* What a step may do to the files as far as timestamps tell: an inode     *)
(* that is not as it was is released or bears a new timestamp, and so does *)
(* an object that takes a name.                                            *)
Aging ==
  /\ clock' \in Nat /\ clock <= clock'
  /\ \A i \in Ino : node'[i] # NoNode =>
       node'[i] = node[i] \/ (clock < clock' /\ node'[i].ctime = clock')
  /\ \A s \in Slot : entry'[s] \notin {entry[s], NoIno} =>
       clock < clock' /\ node'[entry'[s]].ctime = clock'

LEMMA SharpNow ==
  ASSUME TypeOK, ~CoarseClock, NEW t \in Now
  PROVE  t = clock + 1 /\ t \in Nat /\ clock < t
BY DEF Now, TypeOK

LEMMA TouchAges ==
  ASSUME TypeOK, ~CoarseClock, NEW t \in Now, clock' = t,
         NEW touched, NEW nd \in [Ino -> Node \cup {NoNode}],
         \A i \in Ino : i \notin touched => nd[i] = node[i],
         Settle(Touch(nd, touched, t))
  PROVE  /\ clock' \in Nat /\ clock < clock'
         /\ \A i \in Ino : node'[i] # NoNode =>
              node'[i] = node[i] \/ (clock < clock' /\ node'[i].ctime = clock')
         /\ \A i \in Ino : i \in touched /\ node'[i] # NoNode => node'[i].ctime = clock'
<1>1. t \in Nat /\ clock < t
  BY SharpNow
<1>2. \A i \in Ino : node'[i] # NoNode => node'[i] = Touch(nd, touched, t)[i]
  BY DEF Settle
<1>3. \A i \in Ino : i \in touched /\ nd[i] # NoNode => Touch(nd, touched, t)[i].ctime = t
  BY DEF Touch, Node
<1>4. \A i \in Ino : i \in touched /\ nd[i] = NoNode => Touch(nd, touched, t)[i] = NoNode
  BY DEF Touch
<1>5. \A i \in Ino : i \notin touched => Touch(nd, touched, t)[i] = node[i]
  BY DEF Touch
<1> QED
  BY <1>1, <1>2, <1>3, <1>4, <1>5

LEMMA ChangeAges ==
  ASSUME TypeOK, ~CoarseClock, NEW i \in Ino, NEW n \in Node, NEW t \in Now,
         Change(i, n, t), entry' = entry
  PROVE  Aging
<1> DEFINE nd == [node EXCEPT ![i] = n]
<1>1. /\ nd \in [Ino -> Node \cup {NoNode}]
      /\ \A j \in Ino : j \notin {i} => nd[j] = node[j]
      /\ clock' = t /\ Settle(Touch(nd, {i}, t))
  BY DEF Change, TypeOK
<1> HIDE DEF nd
<1> QED
  BY <1>1, TouchAges DEF Aging, TypeOK

(* A rename, or the removal of a name.                                     *)
LEMMA RelinkAges ==
  ASSUME TypeOK, TypeOK', ~CoarseClock, NEW t \in Now, clock' = t, NEW touched,
         Settle(Touch(node, touched, t)),
         \A s \in Slot : entry'[s] \in {entry[s], NoIno} \cup touched
  PROVE  Aging
<1>1. /\ clock' \in Nat /\ clock < clock'
      /\ \A i \in Ino : node'[i] # NoNode =>
           node'[i] = node[i] \/ (clock < clock' /\ node'[i].ctime = clock')
      /\ \A i \in Ino : i \in touched /\ node'[i] # NoNode => node'[i].ctime = clock'
  BY TouchAges DEF TypeOK
<1>2. \A s \in Slot : entry'[s] # NoIno => entry'[s] \in Ino /\ node'[entry'[s]] # NoNode
  BY DEF TypeOK, Live
<1>3. clock <= clock'
  BY <1>1 DEF TypeOK
<1> QED
  BY <1>1, <1>2, <1>3 DEF Aging

LEMMA ReleaseAges ==
  ASSUME TypeOK, UNCHANGED <<entry, clock>>, Settle(node) \/ UNCHANGED node
  PROVE  Aging
BY DEF TypeOK, Settle, Aging

LEMMA CreateAges ==
  ASSUME TypeOK, ~CoarseClock, NEW c \in Client, NEW i \in Ino, NEW type \in NodeType,
         NEW data \in Data, CreateTemporary(c, i, type, data)
  PROVE  Aging
<1> DEFINE n(t) == [type |-> type, data |-> data, owner |-> ZeroOwner, ctime |-> t,
                    mode |-> IF type = "symlink" THEN LinkMode ELSE ZeroMode]
<1>1. PICK t \in Now : Change(i, n(t), t)
  BY DEF CreateTemporary
<1>2. n(t) \in Node
  BY SharpNow, OwnerAssumption, ModeAssumption DEF Node
<1> HIDE DEF n
<1>3. entry' = entry
  BY DEF CreateTemporary
<1> QED
  BY <1>1, <1>2, <1>3, ChangeAges

LEMMA MetadataAges ==
  ASSUME IInv, ~CoarseClock, NEW c \in Client, Chown(c) \/ Chmod(c)
  PROVE  Aging
<1>1. CASE Throw(c) \/ UNCHANGED <<entry, node, clock>>
  BY <1>1, ReleaseAges DEF IInv, Throw
<1>2. CASE ~ (Throw(c) \/ UNCHANGED <<entry, node, clock>>)
  <2>1. entry["installed"] # NoIno /\ entry' = entry
    BY <1>2 DEF Chown, Chmod
  <2>2. entry["installed"] \in Ino /\ node[entry["installed"]] \in Node
    BY <2>1, NamedNode DEF IInv, Slot
  <2>4. Selected(c).owner \in Owner /\ Selected(c).mode \in Mode
    BY SelectedType DEF IInv
  <2>5. /\ Chowned(node[entry["installed"]], Selected(c).owner) \in Node
        /\ [node[entry["installed"]] EXCEPT !.mode = Selected(c).mode] \in Node
    BY <2>2, <2>4, ModeAssumption DEF Chowned, Node
  <2>6. PICK t \in Now, n \in Node : Change(entry["installed"], n, t)
    BY <1>2, <2>1, <2>5 DEF Chown, Chmod
  <2> QED
    BY <2>1, <2>2, <2>6, ChangeAges DEF IInv
<1> QED
  BY <1>1, <1>2

LEMMA RetireAges ==
  ASSUME IInv, IInv', ~CoarseClock, NEW c \in Client,
         RetireUnlinks(c) \/ RetireFindsNothing(c) \/ RetireFindsChildren(c)
  PROVE  Aging
<1>1. CASE RetireUnlinks(c)
  <2>1. PICK t \in Now : Settle(Touch(node, {entry["staged"]}, t)) /\ clock' = t
    BY <1>1 DEF RetireUnlinks
  <2>2. \A s \in Slot : entry'[s] \in {entry[s], NoIno} \cup {entry["staged"]}
    BY <1>1 DEF RetireUnlinks, IInv, TypeOK
  <2> QED
    BY <2>1, <2>2, RelinkAges DEF IInv
<1>2. CASE RetireFindsNothing(c) \/ RetireFindsChildren(c)
  BY <1>2, ReleaseAges DEF IInv, RetireFindsNothing, RetireFindsChildren, Throw, fsVars
<1> QED
  BY <1>1, <1>2

LEMMA RenameAges ==
  ASSUME IInv, IInv', ~CoarseClock, NEW c \in Client, Rename(c) \/ RenameCrossDevice(c)
  PROVE  Aging
<1> DEFINE i == entry["staged"]
           dest == call[c].dest
<1>1. CASE Throw(c) \/ RenameCrossDevice(c)
  BY <1>1, ReleaseAges DEF IInv, RenameCrossDevice, Throw, fsVars
<1>2. CASE Rename(c) /\ ~Throw(c)
  <2>1. entry' = Renamed("staged", dest, i)
    BY <1>2 DEF Rename
  <2>2. CASE entry[dest] = i
    BY <1>2, <2>1, <2>2, ReleaseAges DEF IInv, Rename, Renamed
  <2>3. CASE entry[dest] # i
    <3>1. PICK t \in Now : Settle(Touch(node, {i, entry[dest]}, t)) /\ clock' = t
      BY <1>2, <2>3 DEF Rename
    <3>2. \A s \in Slot : entry'[s] \in {entry[s], NoIno} \cup {i, entry[dest]}
      BY <2>1 DEF Renamed, IInv, TypeOK
    <3> QED
      BY <3>1, <3>2, RelinkAges DEF IInv
  <2> QED
    BY <2>2, <2>3
<1> QED
  BY <1>1, <1>2

LEMMA CopyAges ==
  ASSUME IInv, ~CoarseClock, NEW c \in Client, CopyOpen(c) \/ CopyBlock(c) \/ WriteMerged(c)
  PROVE  Aging
<1>1. CASE CopyOpen(c)
  <2>1. CASE Throw(c)
    BY <2>1, ReleaseAges DEF IInv, Throw
  <2>2. CASE ~Throw(c)
    <3>1. PICK i \in Unused :
            \/ CreateTemporary(c, i, "regular", Blank)
            \/ CreateTemporary(c, i, "symlink", node[entry["staged"]].data)
      BY <1>1, <2>2 DEF CopyOpen
    <3>2. entry["staged"] # NoIno
      BY <1>1, <2>2 DEF CopyOpen
    <3>3. node[entry["staged"]].data \in Data /\ Blank \in Data
      BY <3>2, NamedNode, BlankType DEF IInv, Slot, Node
    <3> QED
      BY <3>1, <3>3, CreateAges DEF IInv, Unused, NodeType
  <2> QED
    BY <2>1, <2>2
<1>2. CASE CopyBlock(c)
  <2>1. fd[c]["staged"] # NoIno /\ tmp[c] # NoIno /\ got[c].blocks + 1 \in Block
    BY <1>2, BlockFacts DEF IInv, TypeOK, Control, CopyBlock, StagedOpen, MoreToRead, Block
  <2>2. node[fd[c]["staged"]].data \in Data /\ tmp[c] \in Ino /\ node[tmp[c]] \in Node
    BY <2>1, OpenNode, TemporaryNode DEF IInv, Side, Node
  <2> DEFINE d == [node[tmp[c]].data EXCEPT
                     ![got[c].blocks + 1] = node[fd[c].staged].data[got[c].blocks + 1]]
  <2>3. d \in Data
    BY <2>1, <2>2 DEF Node, Data
  <2> HIDE DEF d
  <2>4. [node[tmp[c]] EXCEPT !.data = d] \in Node
    BY <2>2, <2>3 DEF Node
  <2>5. /\ entry' = entry
        /\ \E t \in Now : Change(tmp[c], [node[tmp[c]] EXCEPT !.data = d], t)
    BY <1>2 DEF CopyBlock, d
  <2> QED
    BY <2>2, <2>4, <2>5, ChangeAges DEF IInv
<1>3. CASE WriteMerged(c)
  <2>1. call[c].bytes \in Data
    BY DEF IInv, TypeOK, Disposition
  <2> QED
    BY <1>3, <2>1, CreateAges DEF IInv, WriteMerged, Unused, NodeType
<1> QED
  BY <1>1, <1>2, <1>3

LEMMA SealAges ==
  ASSUME IInv, ~CoarseClock, NEW c \in Client, Seal(c)
  PROVE  Aging
<1> DEFINE m == IF call[c].kind = "install_merged" THEN Selected(c) ELSE cand[c].staged
<1>1. tmp[c] \in Ino /\ node[tmp[c]] \in Node
  BY TemporaryNode DEF IInv, Control, Seal
<1>2. cand[c].staged \in Fingerprint
  BY DEF IInv, TypeOK, CandidateRecord
<1>3. m.owner \in Owner /\ m.mode \in Mode
  BY <1>2, SelectedType DEF IInv, Fingerprint
<1>4. Dressed(node[tmp[c]], m.owner, m.mode) \in Node
  BY <1>1, <1>3, ModeAssumption DEF Dressed, Chowned, Node
<1>5. entry' = entry /\ \E t \in Now : Change(tmp[c], Dressed(node[tmp[c]], m.owner, m.mode), t)
  BY DEF Seal
<1> QED
  BY <1>1, <1>4, <1>5, ChangeAges DEF IInv

LEMMA PublishAges ==
  ASSUME IInv, IInv', ~CoarseClock, NEW c \in Client, Publish(c)
  PROVE  Aging
<1> DEFINE i == tmp[c]
           dest == call[c].dest
<1>1. CASE Throw(c)
  BY <1>1, ReleaseAges DEF IInv, Throw
<1>2. CASE ~Throw(c)
  <2>1. PICK t \in Now : Settle(Touch(node, {i, entry[dest]}, t)) /\ clock' = t
    BY <1>2 DEF Publish
  <2>2. entry' = [entry EXCEPT ![dest] = i]
    BY <1>2 DEF Publish
  <2>3. \A s \in Slot : entry'[s] \in {entry[s], NoIno} \cup {i, entry[dest]}
    BY <2>2 DEF IInv, TypeOK
  <2> QED
    BY <2>1, <2>3, RelinkAges DEF IInv
<1> QED
  BY <1>1, <1>2

LEMMA OthersAge ==
  ASSUME IInv, IInv', ~CoarseClock, Others
  PROVE  Aging
<1>1. PICK s \in Slot :
        \/ OtherRemoves(s)
        \/ \E d \in Data : OtherWrites(s, d)
        \/ \E m \in GivenMode : OtherChmods(s, m)
        \/ \E i \in Unused, type \in PutType, d \in Data, m \in GivenMode \cup {LinkMode}, o \in Owner :
             OtherPuts(s, i, type, d, m, o)
  BY DEF Others
<1>2. CASE OtherRemoves(s)
  <2>1. PICK t \in Now : Settle(Touch(node, {entry[s]}, t)) /\ clock' = t
    BY <1>2 DEF OtherRemoves
  <2>2. \A r \in Slot : entry'[r] \in {entry[r], NoIno} \cup {entry[s]}
    BY <1>2 DEF OtherRemoves, IInv, TypeOK
  <2> QED
    BY <2>1, <2>2, RelinkAges DEF IInv
<1>3. ASSUME NEW d \in Data, OtherWrites(s, d)
      PROVE  Aging
  <2>1. entry[s] \in Ino /\ node[entry[s]] \in Node /\ entry' = entry
    BY <1>3, NamedNode DEF OtherWrites, IInv
  <2>2. [node[entry[s]] EXCEPT !.data = d] \in Node
    BY <2>1 DEF Node
  <2>3. PICK t \in Now : Change(entry[s], [node[entry[s]] EXCEPT !.data = d], t)
    BY <1>3 DEF OtherWrites
  <2> QED
    BY <2>1, <2>2, <2>3, ChangeAges DEF IInv
<1>4. ASSUME NEW m \in GivenMode, OtherChmods(s, m)
      PROVE  Aging
  <2>1. entry[s] \in Ino /\ node[entry[s]] \in Node /\ entry' = entry
    BY <1>4, NamedNode DEF OtherChmods, IInv
  <2>2. [node[entry[s]] EXCEPT !.mode = m] \in Node
    BY <2>1, SwitchAssumption DEF Node
  <2>3. PICK t \in Now : Change(entry[s], [node[entry[s]] EXCEPT !.mode = m], t)
    BY <1>4 DEF OtherChmods
  <2> QED
    BY <2>1, <2>2, <2>3, ChangeAges DEF IInv
<1>5. ASSUME NEW i \in Unused, NEW type \in PutType, NEW d \in Data,
             NEW m \in GivenMode \cup {LinkMode}, NEW o \in Owner,
             OtherPuts(s, i, type, d, m, o)
      PROVE  Aging
  <2> DEFINE n(t) == [type |-> type, data |-> d, mode |-> m, owner |-> o, ctime |-> t]
             nd(t) == [node EXCEPT ![i] = n(t)]
  <2>1. PICK t \in Now : Settle(Touch(nd(t), {i, entry[s]}, t)) /\ clock' = t
    BY <1>5 DEF OtherPuts
  <2>2. n(t) \in Node
    BY SharpNow, SwitchAssumption, ModeAssumption DEF IInv, Node
  <2>3. entry' = [entry EXCEPT ![s] = i] /\ i \in Ino
    BY <1>5 DEF OtherPuts, Unused
  <2> HIDE DEF n
  <2>4. /\ nd(t) \in [Ino -> Node \cup {NoNode}]
        /\ \A j \in Ino : j \notin {i, entry[s]} => nd(t)[j] = node[j]
    BY <2>2, <2>3 DEF IInv, TypeOK
  <2> HIDE DEF nd
  <2>5. /\ clock' \in Nat /\ clock < clock'
        /\ \A j \in Ino : node'[j] # NoNode =>
             node'[j] = node[j] \/ (clock < clock' /\ node'[j].ctime = clock')
        /\ \A j \in Ino : j \in {i, entry[s]} /\ node'[j] # NoNode => node'[j].ctime = clock'
    BY <2>1, <2>4, TouchAges DEF IInv
  <2>6. i \in Live' /\ node'[i] # NoNode
    <3>1. entry'[s] = i
      BY <2>3 DEF IInv, TypeOK
    <3> QED
      BY <2>3, <3>1 DEF IInv, TypeOK, Live
  <2>7. \A r \in Slot : entry'[r] \in {entry[r], i}
    BY <2>3 DEF IInv, TypeOK
  <2>8. clock <= clock'
    BY <2>5 DEF IInv, TypeOK
  <2> QED
    BY <2>3, <2>5, <2>6, <2>7, <2>8 DEF Aging
<1> QED
  BY <1>1, <1>2, <1>3, <1>4, <1>5

LEMMA ScanAges ==
  ASSUME IInv, NEW c \in Client, Scan(c) \/ ScanError(c) \/ CallError(c) \/ Crash(c)
  PROVE  Aging
<1>1. UNCHANGED <<entry, clock>> /\ (Settle(node) \/ UNCHANGED node)
  BY DEF Scan, ScanError, CallError, Crash, ScanObserveStaged, ScanOmitStructural,
         ScanObserveInstalled, InspectOpen, InspectReadInstalled, InspectReadStaged,
         InspectRecheck, LinkRead, LinkCheck, Forget, AbortScan, ScanReturns, Throw, fsVars
<1> QED
  BY <1>1, ReleaseAges DEF IInv

LEMMA NextAges ==
  ASSUME IInv, IInv', ~CoarseClock, [Next]_vars
  PROVE  Aging
<1>1. ASSUME NEW c \in Client,
             \/ \E d \in Calls : Begin(c, d)
             \/ ValidateInstalled(c) \/ ValidateStaged(c)
             \/ \E s \in Side : CompareOpen(c, s) \/ CompareRead(c, s) \/ CompareVerify(c, s)
      PROVE  Aging
  <2>1. UNCHANGED <<entry, clock>> /\ (Settle(node) \/ UNCHANGED node)
    BY <1>1 DEF Begin, ValidateInstalled, ValidateStaged, CompareOpen, CompareRead,
           CompareVerify, Throw, fsVars
  <2> QED
    BY <2>1, ReleaseAges DEF IInv
<1>2. ASSUME NEW c \in Client, Resolve(c)
      PROVE  Aging
  BY <1>1, <1>2, MetadataAges, RetireAges, RenameAges, CopyAges, SealAges, PublishAges
  DEF Resolve
<1>3. CASE UNCHANGED vars
  BY <1>3, ReleaseAges DEF IInv, vars, fsVars
<1> QED
  BY <1>2, <1>3, ScanAges, OthersAge DEF Next

------------------------------------------------------------------------------
(* A timestamp that is old stays old only on an inode that stays as it is. *)
LEMMA PastKept ==
  ASSUME TypeOK, TypeOK', Past, Aging
  PROVE  Past'
<1>1. SUFFICES ASSUME NEW i \in Ino, node'[i] # NoNode
               PROVE  node'[i].ctime <= clock'
  BY DEF Past
<1>2. CASE node'[i] = node[i]
  <2>1. node[i] \in Node /\ node[i].ctime <= clock
    BY <1>1, <1>2 DEF TypeOK, Past
  <2>2. node[i].ctime \in Nat
    BY <2>1 DEF Node
  <2> QED
    BY <1>2, <2>1, <2>2 DEF Aging, TypeOK
<1>3. CASE clock < clock' /\ node'[i].ctime = clock'
  BY <1>3 DEF Aging
<1> QED
  BY <1>1, <1>2, <1>3 DEF Aging

LEMMA StillKept ==
  ASSUME TypeOK, Aging, NEW c \in Client, NEW s \in Side,
         seen[c][s] # NoNode, Faithful(c, s),
         cand'[c][s] = cand[c][s], seen'[c][s] = seen[c][s], Still(c, s)'
  PROVE  Still(c, s) /\ node'[cand[c][s].inode] = node[cand[c][s].inode]
<1> DEFINE i == cand[c][s].inode
<1>1. i \in Ino /\ seen[c][s].ctime <= clock
  BY DEF Faithful
<1>2. seen[c][s] \in Node
  BY DEF TypeOK
<1>3. seen[c][s].ctime \in Nat
  BY <1>2 DEF Node
<1>4. node'[i] # NoNode /\ node'[i].ctime = seen[c][s].ctime
  BY DEF Still
<1>5. ~ (clock < clock' /\ node'[i].ctime = clock')
  BY <1>1, <1>3, <1>4 DEF TypeOK, Aging
<1>6. node'[i] = node[i]
  BY <1>1, <1>4, <1>5 DEF Aging
<1> QED
  BY <1>4, <1>6 DEF Still

LEMMA FaithfulKept ==
  ASSUME TypeOK, Aging, NEW c \in Client, NEW s \in Side, Faithful(c, s),
         cand'[c][s] = cand[c][s], seen'[c][s] = seen[c][s]
  PROVE  Faithful(c, s)'
<1>1. CASE seen[c][s] = NoNode
  BY <1>1 DEF Faithful
<1>2. CASE seen[c][s] # NoNode
  <2>1. seen[c][s] \in Node
    BY <1>2 DEF TypeOK
  <2>2. seen[c][s].ctime <= clock'
    BY <1>2, <2>1 DEF Faithful, TypeOK, Aging, Node
  <2>3. Still(c, s)' => node'[cand[c][s].inode] = seen[c][s]
    BY <1>2, StillKept DEF Faithful
  <2> QED
    BY <1>2, <2>2, <2>3 DEF Faithful
<1> QED
  BY <1>1, <1>2

(* What has been read of an object stays what it is.                       *)
LEMMA PrefixKept ==
  ASSUME TypeOK, Aging, NEW c \in Client, NEW s \in Side,
         seen[c][s] # NoNode, Faithful(c, s), NEW n, Prefix(c, s, n),
         cand'[c][s] = cand[c][s], seen'[c][s] = seen[c][s], got'[c][s] = got[c][s]
  PROVE  /\ Still(c, s)' => \A k \in 1 .. n : got'[c][s][k] = seen'[c][s].data[k]
BY StillKept DEF Prefix

(* One more block, of the object that was seen.                            *)
LEMMA PrefixGrows ==
  ASSUME TypeOK, UNCHANGED node, NEW c \in Client, NEW s \in Side,
         seen[c][s] # NoNode, Faithful(c, s), NEW n \in Nat, Prefix(c, s, n),
         n + 1 \in Block, fd[c][s] = cand[c][s].inode,
         cand'[c] = cand[c], seen'[c] = seen[c],
         got'[c][s] = ReadBlock(c, s, n + 1)
  PROVE  Still(c, s)' => \A k \in 1 .. n + 1 : got'[c][s][k] = seen'[c][s].data[k]
<1>1. SUFFICES ASSUME Still(c, s)', NEW k \in 1 .. n + 1
               PROVE  got'[c][s][k] = seen[c][s].data[k]
  OBVIOUS
<1>2. Still(c, s) /\ node[fd[c][s]] = seen[c][s]
  BY <1>1 DEF Still, Faithful
<1>3. got[c][s] \in Data
  BY DEF TypeOK, Side
<1>4. CASE k = n + 1
  BY <1>2, <1>3, <1>4 DEF ReadBlock, Data
<1>5. CASE k \in 1 .. n
  <2>1. got'[c][s][k] = got[c][s][k]
    BY <1>3, <1>5 DEF ReadBlock, Data, Block
  <2> QED
    BY <1>2, <1>5, <2>1 DEF Prefix
<1> QED
  BY <1>4, <1>5

(* Everything is read.                                                     *)
LEMMA PrefixWhole ==
  ASSUME TypeOK, NEW c \in Client, NEW s \in Side, seen[c][s] # NoNode,
         Prefix(c, s, NBlocks), Still(c, s)
  PROVE  Whole(c, s)
<1>1. got[c][s] \in Data /\ seen[c][s].data \in Data
  BY DEF TypeOK, Side, Node
<1>2. \A k \in Block : got[c][s][k] = seen[c][s].data[k]
  BY DEF Prefix, Block
<1> QED
  BY <1>1, <1>2 DEF Whole, Data

------------------------------------------------------------------------------
(* The part of the state that belongs to client c is left alone.           *)
Bystander(c) ==
  /\ pc'[c] = pc[c] /\ cand'[c] = cand[c] /\ got'[c] = got[c]
  /\ fd'[c] = fd[c] /\ seen'[c] = seen[c]

LEMMA OthersWork ==
  ASSUME TypeOK, NEW c \in Client, NEW d \in Client, c # d,
         Scan(d) \/ Resolve(d) \/ ScanError(d) \/ CallError(d) \/ Crash(d)
  PROVE  Bystander(c)
<1> USE DEF Bystander, Goto, Idle, AbortScan, Throw, Proceed, ScanReturns, ctlVars, histVars, fsVars
<1>1. CASE Scan(d) \/ ScanError(d)
  BY <1>1 DEF TypeOK, Scan, ScanError, ScanObserveStaged, ScanOmitStructural,
         ScanObserveInstalled, InspectOpen, InspectReadInstalled, InspectReadStaged,
         InspectRecheck, LinkRead, LinkCheck, Forget
<1>2. CASE \/ \E x \in Calls : Begin(d, x)
           \/ ValidateInstalled(d) \/ ValidateStaged(d)
           \/ Chown(d) \/ Chmod(d)
           \/ RetireUnlinks(d) \/ RetireFindsNothing(d) \/ RetireFindsChildren(d)
           \/ Rename(d) \/ RenameCrossDevice(d)
  BY <1>2 DEF TypeOK, Begin, ValidateInstalled, ValidateStaged, Chown, Chmod, RetireUnlinks,
         RetireFindsNothing, RetireFindsChildren, Rename, RenameCrossDevice
<1>3. CASE CopyOpen(d) \/ CopyBlock(d) \/ WriteMerged(d) \/ Seal(d) \/ Publish(d)
  BY <1>3 DEF TypeOK, CopyOpen, CopyBlock, WriteMerged, Seal, Publish, CreateTemporary
<1>4. CASE \E s \in Side : CompareOpen(d, s) \/ CompareRead(d, s) \/ CompareVerify(d, s)
  BY <1>4 DEF TypeOK, CompareOpen, CompareRead, CompareVerify
<1>5. CASE CallError(d) \/ Crash(d)
  BY <1>5 DEF TypeOK, CallError, Crash
<1> QED
  BY <1>1, <1>2, <1>3, <1>4, <1>5 DEF Resolve

(* An object with an inode has been seen.                                  *)
LEMMA SeenObject ==
  ASSUME TypeOK, NEW c \in Client, NEW s \in Side, Faithful(c, s),
         cand[c][s].type # "missing" \/ cand[c][s].inode # NoIno
  PROVE  seen[c][s] # NoNode
BY DEF Faithful, Missing

LEMMA ReaderOpen ==
  ASSUME IInv, NEW c \in Client, NEW s \in Side
  PROVE  /\ pc[c] \in BothOpen => fd[c][s] # NoIno
         /\ pc[c] \in {ReadAt[s], VerifyAt[s]} => fd[c][s] # NoIno
<1>1. CASE s = "installed"
  BY <1>1, LabelOf DEF IInv, Control, BothOpen, InstalledOpen
<1>2. CASE s = "staged"
  BY <1>2, LabelOf DEF IInv, Control, BothOpen, StagedOpen
<1> QED
  BY <1>1, <1>2 DEF Side

(* Another client or process changes nothing a client relies on.           *)
LEMMA ProgressKept ==
  ASSUME IInv, Aging, NEW c \in Client, Bystander(c), Informed(c)
  PROVE  Informed(c)'
<1> USE DEF Informed
<1>1. \A s \in Side : Faithful(c, s)'
  BY FaithfulKept DEF IInv, Bystander
<1>2. Sorted(c)'
  BY DEF Progress, Sorted, Bystander
<1>3. Inspected(c)'
  <2>1. ASSUME NEW s \in Side, pc[c] \in BothOpen
        PROVE  fd[c][s] = cand[c][s].inode /\ Prefix(c, s, Taken(c, s))'
    <3>1. fd[c][s] = cand[c][s].inode /\ Prefix(c, s, Taken(c, s))
      BY <2>1 DEF Progress, Inspected
    <3>2. seen[c][s] # NoNode
      BY <2>1, <3>1, ReaderOpen, SeenObject DEF IInv
    <3>3. Taken(c, s)' = Taken(c, s)
      BY DEF Taken, Bystander
    <3> QED
      BY <3>1, <3>2, <3>3, PrefixKept DEF IInv, Bystander, Prefix
  <2> QED
    BY <2>1 DEF Progress, Inspected, Bystander
<1>4. Linked(c)'
  <2>1. SUFFICES ASSUME NEW s \in Side, pc[c] = CheckLabel(s),
                        entry'[s] = cand[c][s].inode, Still(c, s)'
                 PROVE  Whole(c, s)
    BY DEF Linked, Bystander, Whole
  <2>2. cand[c][s].type = "symlink"
    BY <2>1 DEF Progress, Sorted, Linking, CheckLabel
  <2>3. seen[c][s] # NoNode /\ cand[c][s].inode \in Ino
    BY <2>2, SeenObject DEF IInv, Faithful
  <2>4. Still(c, s) /\ node'[cand[c][s].inode] = node[cand[c][s].inode]
    BY <2>1, <2>3, StillKept DEF IInv, Bystander
  <2>5. node'[cand[c][s].inode].ctime <= clock /\ clock \in Nat
    BY <2>3, <2>4 DEF IInv, TypeOK, Faithful, Still
  <2>6. node'[cand[c][s].inode].ctime \in Nat
    BY <2>3, <2>4 DEF IInv, TypeOK, Still, Node
  <2>7. entry'[s] = entry[s]
    BY <2>1, <2>3, <2>5, <2>6, InoAssumption DEF Aging, Slot, Side
  <2> QED
    BY <2>1, <2>4, <2>7 DEF Progress, Linked
<1>5. Compared(c)'
  <2>1. ASSUME NEW s \in Side, pc[c] \in {ReadAt[s], VerifyAt[s]}
        PROVE  fd[c][s] = cand[c][s].inode /\ Prefix(c, s, got[c].blocks)'
    <3>1. fd[c][s] = cand[c][s].inode /\ Prefix(c, s, got[c].blocks)
      BY <2>1 DEF Progress, Compared
    <3>2. seen[c][s] # NoNode
      BY <2>1, <3>1, ReaderOpen, SeenObject DEF IInv
    <3> QED
      BY <3>1, <3>2, PrefixKept DEF IInv, Bystander, Prefix
  <2> QED
    BY <2>1 DEF Progress, Compared, Bystander, Prefix
<1>6. Settled(c)'
  BY DEF Progress, Settled, Holds, Flags, Whole, Bystander
<1> QED
  BY <1>1, <1>2, <1>3, <1>4, <1>5, <1>6 DEF Progress

------------------------------------------------------------------------------
(* The client's own steps: giving up,                                      *)
LEMMA IdleInformed ==
  ASSUME IInv, NEW c \in Client, Idle(c)
  PROVE  Informed(c)'
<1>1. pc'[c] = "idle" /\ cand'[c] = NoCandidate /\ \A s \in Side : seen'[c][s] = NoNode
  BY DEF IInv, TypeOK, Idle, Goto
<1>2. \A s \in Side : Faithful(c, s)'
  BY <1>1 DEF Faithful, NoCandidate, Side
<1>3. /\ Sorted(c)' /\ Inspected(c)' /\ Settled(c)'
  BY <1>1 DEF Sorted, Inspected, Settled, Holds, Inspecting, Linking, BothOpen,
         InstalledRead, CallLabel, OpenAt, ReadAt, VerifyAt, Side
<1>4. Linked(c)' /\ Compared(c)'
  <2>1. \A s \in Side : "idle" \notin {CheckLabel(s), ReadAt[s], VerifyAt[s]}
    BY DEF CheckLabel, ReadAt, VerifyAt, Side
  <2> QED
    BY <1>1, <2>1 DEF Linked, Compared
<1> QED
  BY <1>2, <1>3, <1>4 DEF Informed, Progress

(* ... a step of a disposition other than a read of compare_text(),        *)
Plain == {"ready", "validate_installed", "validate_staged", "chown", "chmod", "retire",
          "rename", "copy_open", "copy_block", "write_merged", "seal", "publish",
          "open_installed"}

LEMMA CallLabels ==
  CallLabel \cup {"ready"} = Plain \cup {"open_staged", "load_installed", "load_staged",
                                        "verify_installed", "verify_staged"}
<1>1. /\ {OpenAt[s] : s \in Side} = {"open_installed", "open_staged"}
      /\ {ReadAt[s] : s \in Side} = {"load_installed", "load_staged"}
      /\ {VerifyAt[s] : s \in Side} = {"verify_installed", "verify_staged"}
  BY LabelOf DEF Side
<1> QED
  BY <1>1 DEF CallLabel, Plain

LEMMA PlainInformed ==
  ASSUME IInv, Aging, NEW c \in Client, Informed(c), Holds(c), pc'[c] \in Plain,
         cand'[c] = cand[c], seen'[c] = seen[c]
  PROVE  Informed(c)'
<1>1. \A s \in Side : Faithful(c, s)'
  BY FaithfulKept DEF IInv, Informed
<1>2. seen[c]["staged"] # NoNode /\ Flags(c)
  BY CallLabels DEF Informed, Progress, Sorted, Settled, Holds, Plain
<1>3. Flags(c)'
  BY <1>2 DEF Flags
<1>4. Sorted(c)' /\ Inspected(c)' /\ Settled(c)'
  BY <1>2, <1>3 DEF Sorted, Inspected, Settled, Plain, Inspecting, Linking, BothOpen,
         InstalledRead
<1>5. Linked(c)' /\ Compared(c)'
  <2>1. \A s \in Side : {CheckLabel(s), ReadAt[s], VerifyAt[s]} \cap Plain = {}
    BY DEF CheckLabel, ReadAt, VerifyAt, Side, Plain
  <2> QED
    BY <2>1 DEF Linked, Compared
<1> QED
  BY <1>1, <1>4, <1>5 DEF Informed, Progress

(* ... an observation,                                                     *)
LEMMA FaithfulNew ==
  ASSUME IInv, Past, NEW c \in Client, NEW s \in Side, UNCHANGED <<node, clock>>,
         entry[s] # NoIno,
         cand'[c][s] = Sees(c, s), seen'[c][s] = node[entry[s]]
  PROVE  Faithful(c, s)'
<1>1. entry[s] \in Ino /\ node[entry[s]] \in Node
  BY NamedNode DEF IInv, Slot, Side
<1>2. seen'[c][s] # NoNode /\ node[entry[s]].ctime <= clock
  BY <1>1, NodeAssumption DEF Past
<1>3. Sees(c, s) = [exists |-> TRUE, inode |-> entry[s], type |-> node[entry[s]].type,
                    mode |-> node[entry[s]].mode, owner |-> node[entry[s]].owner,
                    ctime |-> node[entry[s]].ctime]
  BY DEF Sees, Observe
<1> QED
  BY <1>1, <1>2, <1>3 DEF Faithful

LEMMA ObserveStagedInformed ==
  ASSUME IInv, Past, NEW c \in Client, ScanObserveStaged(c)
  PROVE  Informed(c)'
<1>1. /\ pc'[c] = "observe_installed" /\ entry["staged"] # NoIno
      /\ cand'[c] = [NoCandidate EXCEPT !.staged = Sees(c, "staged")]
      /\ seen'[c] = [installed |-> NoNode, staged |-> node[entry["staged"]]]
      /\ UNCHANGED <<node, clock>>
  BY DEF IInv, TypeOK, ScanObserveStaged, Goto, fsVars
<1>2. Faithful(c, "staged")' /\ seen'[c]["staged"] # NoNode
  <2>1. node[entry["staged"]] \in Node
    BY <1>1, NamedNode DEF IInv, Slot
  <2> QED
    BY <1>1, <2>1, FaithfulNew, NodeAssumption DEF NoCandidate, Side
<1>3. Faithful(c, "installed")'
  BY <1>1 DEF Faithful, NoCandidate
<1>4. Sorted(c)' /\ Inspected(c)' /\ Settled(c)'
  BY <1>1, <1>2, CallLabels DEF Sorted, Inspected, Settled, Holds, Plain, Inspecting, Linking,
         BothOpen, InstalledRead
<1>5. Linked(c)' /\ Compared(c)'
  <2>1. \A s \in Side : "observe_installed" \notin {CheckLabel(s), ReadAt[s], VerifyAt[s]}
    BY DEF CheckLabel, ReadAt, VerifyAt, Side
  <2> QED
    BY <1>1, <2>1 DEF Linked, Compared
<1> QED
  BY <1>2, <1>3, <1>4, <1>5 DEF Informed, Progress, Side

LEMMA ObserveInstalledInformed ==
  ASSUME IInv, Past, NEW c \in Client, Informed(c), ScanObserveInstalled(c)
  PROVE  Informed(c)'
<1> DEFINE I == Sees(c, "installed")
           S == cand[c].staged
<1>1. /\ pc[c] = "observe_installed" /\ pc'[c] = ScanNext(I.type, S.type)
      /\ cand'[c] = [installed |-> I, staged |-> S, text |-> FALSE,
                     equal |-> I.type = "directory" /\ S.type = "directory"]
      /\ seen'[c] = [seen[c] EXCEPT !.installed =
                      IF I.exists THEN node[entry["installed"]] ELSE NoNode]
      /\ UNCHANGED <<entry, node, clock>>
  BY DEF IInv, TypeOK, ScanObserveInstalled, Goto, fsVars
<1>2. seen[c] \in [Side -> Node \cup {NoNode}]
  BY DEF IInv, TypeOK
<1>3. Faithful(c, "staged")'
  <2>1. cand'[c]["staged"] = cand[c]["staged"] /\ seen'[c]["staged"] = seen[c]["staged"]
    BY <1>1, <1>2 DEF Side
  <2>2. Aging
    BY <1>1, ReleaseAges DEF IInv
  <2> QED
    BY <2>1, <2>2, FaithfulKept DEF IInv, Informed, Side
<1>4. Faithful(c, "installed")'
  <2>1. CASE entry["installed"] = NoIno
    <3>1. I = Missing
      BY <2>1 DEF Sees, Observe
    <3>2. seen'[c]["installed"] = NoNode /\ cand'[c]["installed"] = Missing
      BY <1>1, <1>2, <3>1 DEF Missing, Side
    <3> QED
      BY <3>2 DEF Faithful
  <2>2. CASE entry["installed"] # NoIno
    <3>1. I.exists
      BY <2>2 DEF Sees, Observe
    <3>2. seen'[c]["installed"] = node[entry["installed"]] /\ cand'[c]["installed"] = I
      BY <1>1, <1>2, <3>1 DEF Side
    <3> QED
      BY <1>1, <2>2, <3>2, FaithfulNew DEF Side
  <2> QED
    BY <2>1, <2>2
<1>5. seen'[c]["staged"] # NoNode
  BY <1>1, <1>2 DEF Informed, Progress, Sorted, Side
<1>6. pc'[c] \in {"inspect", "link_installed", "ready"}
  BY <1>1 DEF ScanNext
<1>7. Sorted(c)' /\ Inspected(c)'
  BY <1>1, <1>5, <1>6 DEF Sorted, Inspected, Inspecting, Linking, BothOpen, ScanNext, Side
<1>8. Settled(c)'
  <2>1. /\ pc'[c] \in CallLabel \cup {"ready"} => pc'[c] = "ready"
        /\ pc'[c] \notin InstalledRead
    BY <1>6, CallLabels DEF Plain, InstalledRead
  <2>2. pc'[c] = "ready" => Flags(c)'
    BY <1>1 DEF Flags, ScanNext
  <2> QED
    BY <2>1, <2>2 DEF Settled, Holds
<1>9. Linked(c)' /\ Compared(c)'
  <2>1. \A s \in Side : {CheckLabel(s), ReadAt[s], VerifyAt[s]} \cap {"inspect", "link_installed", "ready"} = {}
    BY DEF CheckLabel, ReadAt, VerifyAt, Side
  <2> QED
    BY <1>6, <2>1 DEF Linked, Compared
<1> QED
  BY <1>3, <1>4, <1>7, <1>8, <1>9 DEF Informed, Progress, Side

(* ... reading two files to compare them,                                  *)
LEMMA RegularSeen ==
  ASSUME IInv, NEW c \in Client, Informed(c), pc[c] \in Inspecting, NEW s \in Side
  PROVE  seen[c][s] # NoNode /\ seen[c][s].type = "regular" /\ Faithful(c, s)
<1>1. cand[c][s].type = "regular" /\ Faithful(c, s)
  BY DEF Informed, Progress, Sorted
<1> QED
  BY <1>1, SeenObject DEF IInv, Faithful

LEMMA ReaderInformed ==
  ASSUME IInv, Aging, NEW c \in Client, Informed(c), pc[c] \in Inspecting,
         cand'[c] = cand[c], seen'[c] = seen[c], pc'[c] \in BothOpen, Inspected(c)'
  PROVE  Informed(c)'
<1>1. \A s \in Side : Faithful(c, s)'
  BY FaithfulKept DEF IInv, Informed
<1>2. pc'[c] \in Inspecting /\ pc[c] # "idle"
  BY DEF BothOpen, Inspecting
<1>3. Sorted(c)'
  BY <1>2 DEF Informed, Progress, Sorted, BothOpen, Linking
<1>4. Settled(c)'
  BY CallLabels DEF Settled, Holds, Plain, BothOpen, InstalledRead
<1>5. Linked(c)' /\ Compared(c)'
  <2>1. \A s \in Side : {CheckLabel(s), ReadAt[s], VerifyAt[s]} \cap BothOpen = {}
    BY DEF CheckLabel, ReadAt, VerifyAt, Side, BothOpen
  <2> QED
    BY <2>1 DEF Linked, Compared
<1> QED
  BY <1>1, <1>3, <1>4, <1>5 DEF Informed, Progress

LEMMA InspectOpenInformed ==
  ASSUME IInv, NEW c \in Client, Informed(c), InspectOpen(c)
  PROVE  Informed(c)'
<1>1. CASE AbortScan(c)
  BY <1>1, IdleInformed DEF AbortScan
<1>2. CASE ~AbortScan(c)
  <2>1. /\ \A s \in Side : SameFingerprint(Sees(c, s), cand[c][s])
        /\ pc[c] = "inspect" /\ pc'[c] = "read_installed"
        /\ fd'[c] = [s \in Side |-> entry[s]]
        /\ UNCHANGED <<entry, node, clock, got, cand, seen>>
    BY <1>2 DEF IInv, TypeOK, InspectOpen, Goto, ctlVars, histVars
  <2>2. pc[c] \in Inspecting /\ got[c].blocks = 0
    BY <2>1 DEF Inspecting, IInv, Control, Counting
  <2>3. \A s \in Side : fd'[c][s] = cand[c][s].inode
    <3>1. \A s \in Side : Sees(c, s).inode = entry[s]
      BY DEF Sees, Observe, Missing
    <3> QED
      BY <2>1, <3>1 DEF SameFingerprint
  <2>4. \A s \in Side : Taken(c, s)' = 0
    BY <2>1, <2>2 DEF Taken
  <2>5. \A s \in Side : Prefix(c, s, Taken(c, s))'
    BY <2>4 DEF Prefix
  <2>6. Inspected(c)'
    BY <2>1, <2>3, <2>5 DEF Inspected
  <2>7. Aging
    BY <2>1, ReleaseAges DEF IInv
  <2> QED
    BY <2>1, <2>2, <2>6, <2>7, ReaderInformed DEF BothOpen
<1> QED
  BY <1>1, <1>2

LEMMA InspectReadInformed ==
  ASSUME IInv, NEW c \in Client, Informed(c),
         InspectReadInstalled(c) \/ InspectReadStaged(c)
  PROVE  Informed(c)'
<1>0. PICK n \in Nat : n = got[c].blocks
  BY DEF IInv, TypeOK
<1>1. /\ pc[c] \in {"read_installed", "read_staged"} /\ pc[c] \in Inspecting
      /\ UNCHANGED <<entry, node, clock, fd, cand, seen>>
  BY DEF InspectReadInstalled, InspectReadStaged, Inspecting, fsVars, ctlVars, histVars
<1>2. n + 1 \in Block /\ Aging
  BY <1>0, <1>1, ReleaseAges, BlockFacts DEF IInv, TypeOK, Control, MoreToRead, Block
<1>3. \A s \in Side : /\ fd[c][s] = cand[c][s].inode /\ Prefix(c, s, Taken(c, s))
                     /\ seen[c][s] # NoNode /\ Faithful(c, s)
  BY <1>1, RegularSeen DEF Informed, Progress, Inspected, BothOpen
<1>4. got[c] \in [installed: Data, staged: Data, blocks: 0 .. NBlocks]
  BY BufferOf DEF IInv
<1>5. CASE InspectReadInstalled(c)
  <2>1. /\ pc[c] = "read_installed" /\ pc'[c] = "read_staged"
        /\ got'[c]["installed"] = ReadBlock(c, "installed", n + 1)
        /\ got'[c]["staged"] = got[c]["staged"] /\ got'[c].blocks = n
    BY <1>0, <1>4, <1>5 DEF IInv, TypeOK, InspectReadInstalled, Goto
  <2>2. Taken(c, "installed") = n /\ Taken(c, "staged") = n
    BY <1>0, <2>1 DEF Taken
  <2>3. Taken(c, "installed")' = n + 1 /\ Taken(c, "staged")' = n
    BY <2>1 DEF Taken
  <2>4. Prefix(c, "installed", n + 1)'
    BY <1>1, <1>2, <1>3, <2>1, <2>2, PrefixGrows DEF IInv, Side, Prefix
  <2>5. Prefix(c, "staged", n)'
    BY <1>1, <1>2, <1>3, <2>1, <2>2, PrefixKept DEF IInv, Side, Prefix
  <2>6. Inspected(c)'
    BY <1>1, <1>3, <2>1, <2>3, <2>4, <2>5 DEF Inspected, Side
  <2> QED
    BY <1>1, <1>2, <2>1, <2>6, ReaderInformed DEF BothOpen
<1>6. CASE InspectReadStaged(c)
  <2>1. /\ pc[c] = "read_staged"
        /\ pc'[c] = IF n + 1 = NBlocks THEN "recheck" ELSE "read_installed"
        /\ got'[c]["staged"] = ReadBlock(c, "staged", n + 1)
        /\ got'[c]["installed"] = got[c]["installed"] /\ got'[c].blocks = n + 1
    BY <1>0, <1>4, <1>6 DEF IInv, TypeOK, InspectReadStaged, Goto
  <2>2. Taken(c, "installed") = n + 1 /\ Taken(c, "staged") = n
    BY <1>0, <2>1 DEF Taken
  <2>3. Taken(c, "installed")' = n + 1 /\ Taken(c, "staged")' = n + 1
    BY <2>1 DEF Taken
  <2>4. Prefix(c, "staged", n + 1)'
    BY <1>1, <1>2, <1>3, <2>1, <2>2, PrefixGrows DEF IInv, Side, Prefix
  <2>5. Prefix(c, "installed", n + 1)'
    BY <1>1, <1>2, <1>3, <2>1, <2>2, PrefixKept DEF IInv, Side, Prefix
  <2>6. Inspected(c)'
    BY <1>1, <1>3, <2>1, <2>3, <2>4, <2>5 DEF Inspected, Side
  <2> QED
    BY <1>1, <1>2, <2>1, <2>6, ReaderInformed DEF BothOpen
<1> QED
  BY <1>5, <1>6

(* A descriptor whose fingerprint is the recorded one is still on the very *)
(* object that was seen.                                                   *)
LEMMA StillOpen ==
  ASSUME IInv, NEW c \in Client, NEW s \in Side, NEW i \in Ino, node[i] # NoNode,
         seen[c][s] # NoNode, Faithful(c, s), SameFingerprint(Observe(node, i), cand[c][s])
  PROVE  Still(c, s) /\ i = cand[c][s].inode
<1>1. Observe(node, i).inode = i /\ Observe(node, i).ctime = node[i].ctime
  BY InoAssumption DEF Observe
<1> QED
  BY <1>1 DEF SameFingerprint, Faithful, Still

LEMMA ScanReturnsInformed ==
  ASSUME IInv, NEW c \in Client, NEW text \in BOOLEAN, NEW equal \in BOOLEAN, Informed(c),
         pc[c] # "idle",
         ScanReturns(c, equal, text),
         LET i == seen[c]["installed"]
             t == seen[c]["staged"]
         IN /\ cand[c]["installed"].type = cand[c]["staged"].type
            /\ cand[c]["staged"].type \in {"regular", "symlink"}
            /\ equal <=> i.data = t.data
            /\ text <=> i.type = "regular" /\ TextData(i.data) /\ TextData(t.data)
  PROVE  Informed(c)'
<1>1. /\ pc'[c] = "ready" /\ seen' = seen /\ UNCHANGED <<entry, clock>> /\ Settle(node)
      /\ cand'[c] = [cand[c] EXCEPT !.equal = equal, !.text = text]
  BY DEF IInv, TypeOK, ScanReturns, Goto, histVars
<1>2. cand[c] \in CandidateRecord
  BY DEF IInv, TypeOK
<1>3. /\ \A s \in Side : cand'[c][s] = cand[c][s]
      /\ cand'[c].equal = equal /\ cand'[c].text = text
  BY <1>1, <1>2 DEF CandidateRecord, Side
<1>4. Aging
  BY <1>1, ReleaseAges DEF IInv
<1>5. \A s \in Side : Faithful(c, s)'
  BY <1>1, <1>3, <1>4, FaithfulKept DEF IInv, Informed
<1>6. Flags(c)'
  BY <1>1, <1>3 DEF Flags, Side
<1>7. seen'[c]["staged"] # NoNode
  BY <1>1 DEF Informed, Progress, Sorted
<1>8. Sorted(c)' /\ Inspected(c)' /\ Settled(c)'
  BY <1>1, <1>6, <1>7 DEF Sorted, Inspected, Settled, Inspecting, Linking, BothOpen,
         InstalledRead
<1>9. Linked(c)' /\ Compared(c)'
  <2>1. \A s \in Side : "ready" \notin {CheckLabel(s), ReadAt[s], VerifyAt[s]}
    BY DEF CheckLabel, ReadAt, VerifyAt, Side
  <2> QED
    BY <1>1, <2>1 DEF Linked, Compared
<1> QED
  BY <1>5, <1>8, <1>9 DEF Informed, Progress

LEMMA InspectRecheckInformed ==
  ASSUME IInv, NEW c \in Client, Informed(c), InspectRecheck(c)
  PROVE  Informed(c)'
<1>1. CASE AbortScan(c)
  BY <1>1, IdleInformed DEF AbortScan
<1>2. CASE ~AbortScan(c)
  <2> DEFINE equal == got[c].installed = got[c].staged
             text == TextData(got[c].installed) /\ TextData(got[c].staged)
  <2>1. /\ pc[c] = "recheck" /\ pc[c] \in Inspecting
        /\ \A s \in Side : SameFingerprint(Observe(node, fd[c][s]), cand[c][s])
        /\ ScanReturns(c, equal, text)
    BY <1>2 DEF InspectRecheck, Inspecting
  <2>2. \A s \in Side : got[c][s] = seen[c][s].data /\ seen[c][s].type = "regular"
    <3>1. TAKE s \in Side
    <3>2. seen[c][s] # NoNode /\ seen[c][s].type = "regular" /\ Faithful(c, s)
      BY <2>1, RegularSeen
    <3>3. fd[c][s] \in Ino /\ node[fd[c][s]] # NoNode
      BY <2>1, ReaderOpen, OpenNode, NodeAssumption DEF IInv, BothOpen
    <3>4. Still(c, s)
      BY <2>1, <3>2, <3>3, StillOpen
    <3>5. Prefix(c, s, Taken(c, s)) /\ Taken(c, s) = NBlocks
      BY <2>1 DEF Informed, Progress, Inspected, BothOpen, Taken
    <3> QED
      BY <3>2, <3>4, <3>5, PrefixWhole DEF IInv, Whole
  <2>3. \A s \in Side : cand[c][s].type = "regular"
    BY <2>1 DEF Informed, Progress, Sorted
  <2>4. /\ equal \in BOOLEAN /\ text \in BOOLEAN
        /\ equal <=> seen[c]["installed"].data = seen[c]["staged"].data
        /\ text <=> /\ seen[c]["installed"].type = "regular"
                    /\ TextData(seen[c]["installed"].data) /\ TextData(seen[c]["staged"].data)
    BY <2>2 DEF Side, TextData
  <2> HIDE DEF equal, text
  <2> QED
    BY <2>1, <2>3, <2>4, ScanReturnsInformed DEF Side
<1> QED
  BY <1>1, <1>2

(* ... reading two links to compare them,                                  *)
LEMMA LinkSeen ==
  ASSUME IInv, NEW c \in Client, Informed(c), pc[c] \in Linking, NEW s \in Side
  PROVE  /\ seen[c][s] # NoNode /\ seen[c][s].type = "symlink" /\ Faithful(c, s)
         /\ cand[c][s].type = "symlink"
<1>1. cand[c][s].type = "symlink" /\ Faithful(c, s)
  BY DEF Informed, Progress, Sorted
<1> QED
  BY <1>1, SeenObject DEF IInv, Faithful

LEMMA LinkerInformed ==
  ASSUME IInv, NEW c \in Client, Informed(c), pc[c] \in Linking, pc'[c] \in Linking,
         UNCHANGED <<entry, node, clock, cand, seen>>, Linked(c)',
         pc'[c] \in {"link_staged", "check_staged"} => Whole(c, "installed")'
  PROVE  Informed(c)'
<1>1. Aging
  BY ReleaseAges DEF IInv
<1>2. \A s \in Side : Faithful(c, s)'
  BY <1>1, FaithfulKept DEF IInv, Informed
<1>3. Sorted(c)' /\ Inspected(c)'
  BY DEF Informed, Progress, Sorted, Inspected, Linking, Inspecting, BothOpen
<1>4. Settled(c)'
  BY CallLabels DEF Settled, Holds, Plain, InstalledRead, Linking
<1>5. Compared(c)'
  <2>1. \A s \in Side : {ReadAt[s], VerifyAt[s]} \cap Linking = {}
    BY DEF ReadAt, VerifyAt, Side, Linking
  <2> QED
    BY <2>1 DEF Compared
<1> QED
  BY <1>2, <1>3, <1>4, <1>5 DEF Informed, Progress

LEMMA LinkReadInformed ==
  ASSUME IInv, NEW c \in Client, Informed(c), NEW s \in Side, LinkRead(c, s)
  PROVE  Informed(c)'
<1>1. CASE AbortScan(c)
  BY <1>1, IdleInformed DEF AbortScan
<1>2. CASE ~AbortScan(c)
  <2>1. /\ pc[c] = LinkLabel(s) /\ pc'[c] = CheckLabel(s)
        /\ got'[c] = [got[c] EXCEPT ![s] = node[entry[s]].data]
        /\ UNCHANGED <<entry, node, clock, cand, seen>>
    BY <1>2 DEF IInv, TypeOK, LinkRead, Goto, fsVars, ctlVars, histVars
  <2>2. pc[c] \in Linking /\ pc'[c] \in Linking
    BY <2>1 DEF LinkLabel, CheckLabel, Linking
  <2>3. /\ got'[c][s] = node[entry[s]].data
        /\ \A r \in Side \ {s} : got'[c][r] = got[c][r]
    BY <2>1, BufferOf DEF IInv, Side
  <2>4. Still(c, s)' /\ entry[s] = cand[c][s].inode => got'[c][s] = seen[c][s].data
    BY <2>1, <2>2, <2>3, LinkSeen DEF Still, Faithful
  <2>5. \A r \in Side : pc'[c] = CheckLabel(r) => r = s
    BY <2>1 DEF CheckLabel, Side
  <2>6. Linked(c)'
    BY <2>1, <2>4, <2>5 DEF Linked, Whole
  <2>7. pc'[c] \in {"link_staged", "check_staged"} => Whole(c, "installed")'
    <3>1. SUFFICES ASSUME pc'[c] \in {"link_staged", "check_staged"}
                   PROVE  got'[c]["installed"] = seen[c]["installed"].data
      BY <2>1 DEF Whole
    <3>2. s = "staged" /\ pc[c] \in InstalledRead
      BY <2>1, <3>1 DEF CheckLabel, LinkLabel, Side, InstalledRead
    <3> QED
      BY <2>3, <3>2 DEF Informed, Progress, Settled, Whole, Side
  <2> QED
    BY <2>1, <2>2, <2>6, <2>7, LinkerInformed
<1> QED
  BY <1>1, <1>2

LEMMA LinkCheckInformed ==
  ASSUME IInv, NEW c \in Client, Informed(c), NEW s \in Side, LinkCheck(c, s)
  PROVE  Informed(c)'
<1>1. CASE AbortScan(c)
  BY <1>1, IdleInformed DEF AbortScan
<1>2. CASE ~AbortScan(c)
  <2>1. pc[c] = CheckLabel(s) /\ SameFingerprint(Sees(c, s), cand[c][s])
    BY <1>2 DEF LinkCheck
  <2>2. pc[c] \in Linking
    BY <2>1 DEF CheckLabel, Linking
  <2>3. \A r \in Side : seen[c][r] # NoNode /\ seen[c][r].type = "symlink" /\ Faithful(c, r)
                       /\ cand[c][r].type = "symlink"
    BY <2>2, LinkSeen
  <2>4. Still(c, s) /\ entry[s] = cand[c][s].inode
    <3>1. entry[s] # NoIno
      BY <2>1, <2>3 DEF SameFingerprint, Sees, Observe, Missing
    <3>2. entry[s] \in Ino /\ node[entry[s]] # NoNode
      BY <3>1, NamedNode, NodeAssumption DEF IInv, Slot, Side
    <3> QED
      BY <2>1, <2>3, <3>2, StillOpen DEF Sees
  <2>5. Whole(c, s)
    BY <2>1, <2>4 DEF Informed, Progress, Linked
  <2>6. CASE s = "installed"
    <3>1. /\ pc'[c] = "link_staged"
          /\ UNCHANGED <<entry, node, clock, got, cand, seen>>
      BY <1>2, <2>6 DEF IInv, TypeOK, LinkCheck, LinkLabel, Goto, fsVars, ctlVars, histVars
    <3>2. Linked(c)'
      BY <3>1 DEF Linked, CheckLabel
    <3>3. Whole(c, "installed")'
      BY <2>5, <2>6, <3>1 DEF Whole
    <3> QED
      BY <2>2, <3>1, <3>2, <3>3, LinkerInformed DEF Linking
  <2>7. CASE s = "staged"
    <3> DEFINE equal == got[c].installed = got[c].staged
    <3>1. ScanReturns(c, equal, FALSE)
      BY <1>2, <2>7 DEF LinkCheck
    <3>2. Whole(c, "installed")
      BY <2>1, <2>7 DEF CheckLabel, Informed, Progress, Settled, InstalledRead
    <3>3. equal \in BOOLEAN /\ (equal <=> seen[c]["installed"].data = seen[c]["staged"].data)
      BY <2>5, <2>7, <3>2 DEF Whole
    <3>4. pc[c] # "idle"
      BY <2>2 DEF Linking
    <3> HIDE DEF equal
    <3> QED
      BY <2>3, <3>1, <3>3, <3>4, ScanReturnsInformed DEF Side
  <2> QED
    BY <2>6, <2>7 DEF Side
<1> QED
  BY <1>1, <1>2

(* ... reading one file after the other for compare_text(),                *)
LEMMA ThrowInformed ==
  ASSUME IInv, NEW c \in Client, Informed(c), Holds(c), Throw(c)
  PROVE  Informed(c)'
<1>1. /\ pc'[c] = "ready" /\ cand' = cand /\ seen' = seen
      /\ UNCHANGED <<entry, clock>> /\ Settle(node)
  BY DEF IInv, TypeOK, Throw, Goto, histVars
<1>2. Aging
  BY <1>1, ReleaseAges DEF IInv
<1> QED
  BY <1>1, <1>2, PlainInformed DEF Plain

LEMMA LabelsDiffer ==
  ASSUME NEW r \in Side, NEW s \in Side
  PROVE  /\ ReadAt[s] \in MoreToRead /\ OpenAt[s] \notin Counting
         /\ ReadAt[r] # VerifyAt[s]
         /\ ReadAt[r] = ReadAt[s] => r = s
         /\ VerifyAt[r] = VerifyAt[s] => r = s
<1>1. CASE r = "installed" /\ s = "installed"
  BY <1>1, LabelOf DEF MoreToRead, Counting
<1>2. CASE r = "installed" /\ s = "staged"
  BY <1>2, LabelOf DEF MoreToRead, Counting
<1>3. CASE r = "staged" /\ s = "installed"
  BY <1>3, LabelOf DEF MoreToRead, Counting
<1>4. CASE r = "staged" /\ s = "staged"
  BY <1>4, LabelOf DEF MoreToRead, Counting
<1> QED
  BY <1>1, <1>2, <1>3, <1>4 DEF Side

LEMMA CompareHolds ==
  ASSUME NEW c \in Client, NEW s \in Side, pc[c] \in {OpenAt[s], ReadAt[s], VerifyAt[s]}
  PROVE  Holds(c)
<1>1. CASE s = "installed"
  BY <1>1, LabelOf, CallLabels DEF Holds, Plain
<1>2. CASE s = "staged"
  BY <1>2, LabelOf, CallLabels DEF Holds, Plain
<1> QED
  BY <1>1, <1>2 DEF Side

LEMMA ComparerInformed ==
  ASSUME IInv, Aging, NEW c \in Client, Informed(c), NEW s \in Side,
         pc[c] \in {OpenAt[s], ReadAt[s], VerifyAt[s]},
         pc'[c] \in {ReadAt[s], VerifyAt[s], OpenAt["staged"]},
         cand'[c] = cand[c], seen'[c] = seen[c], Compared(c)',
         pc'[c] \in InstalledRead => Whole(c, "installed")'
  PROVE  Informed(c)'
<1>1. \A r \in Side : Faithful(c, r)'
  BY FaithfulKept DEF IInv, Informed
<1>2. Holds(c)
  BY CompareHolds
<1>3. Flags(c)' /\ seen'[c]["staged"] # NoNode
  <2>1. Flags(c) /\ seen[c]["staged"] # NoNode
    BY <1>2, CallLabels DEF Informed, Progress, Settled, Sorted, Holds, Plain
  <2> QED
    BY <2>1 DEF Flags
<1>4. pc'[c] \in {"open_staged", "load_installed", "load_staged", "verify_installed",
                 "verify_staged"}
  <2>1. CASE s = "installed"
    BY <2>1, LabelOf
  <2>2. CASE s = "staged"
    BY <2>2, LabelOf
  <2> QED
    BY <2>1, <2>2 DEF Side
<1>5. Sorted(c)' /\ Inspected(c)' /\ Linked(c)' /\ Settled(c)'
  BY <1>3, <1>4 DEF Sorted, Inspected, Linked, Settled, Inspecting, Linking, BothOpen,
         CheckLabel
<1> QED
  BY <1>1, <1>5 DEF Informed, Progress

LEMMA CompareOpenInformed ==
  ASSUME IInv, NEW c \in Client, Informed(c), NEW s \in Side, CompareOpen(c, s)
  PROVE  Informed(c)'
<1>1. CASE Throw(c)
  BY <1>1, ThrowInformed, CompareHolds DEF CompareOpen
<1>2. CASE ~Throw(c)
  <2>1. /\ pc[c] = OpenAt[s] /\ pc'[c] = ReadAt[s]
        /\ FingerprintMatches(cand[c][s], Sees(c, s))
        /\ fd'[c][s] = entry[s]
        /\ UNCHANGED <<entry, node, clock, got, cand, seen>>
    BY <1>2 DEF IInv, TypeOK, CompareOpen, Goto, ctlVars, histVars
  <2>2. got[c].blocks = 0
    <3>1. pc[c] \notin Counting
      BY <2>1, LabelsDiffer
    <3> QED
      BY <3>1 DEF IInv, Control
  <2>3. entry[s] = cand[c][s].inode
    BY <2>1 DEF FingerprintMatches, Sees, Observe, Missing
  <2>4. Prefix(c, s, got[c].blocks)'
    BY <2>1, <2>2 DEF Prefix
  <2>6. Compared(c)'
    <3>1. fd'[c][s] = cand'[c][s].inode
      BY <2>1, <2>3
    <3>2. \A r \in Side : pc'[c] # VerifyAt[r]
      BY <2>1, LabelsDiffer
    <3>3. \A r \in Side : pc'[c] = ReadAt[r] => r = s
      BY <2>1, LabelsDiffer
    <3> QED
      BY <2>4, <3>1, <3>2, <3>3 DEF Compared
  <2>7. pc'[c] \in InstalledRead => Whole(c, "installed")'
    <3>1. CASE s = "installed"
      BY <2>1, <3>1, LabelOf DEF InstalledRead
    <3>2. CASE s = "staged"
      BY <2>1, <3>2, LabelOf DEF InstalledRead, Informed, Progress, Settled, Whole
    <3> QED
      BY <3>1, <3>2 DEF Side
  <2>8. Aging
    BY <2>1, ReleaseAges DEF IInv
  <2> QED
    BY <2>1, <2>6, <2>7, <2>8, ComparerInformed
<1> QED
  BY <1>1, <1>2

LEMMA CompareSeen ==
  ASSUME IInv, NEW c \in Client, Informed(c), NEW s \in Side,
         pc[c] \in {ReadAt[s], VerifyAt[s]}
  PROVE  /\ fd[c][s] = cand[c][s].inode /\ Prefix(c, s, got[c].blocks)
         /\ seen[c][s] # NoNode /\ Faithful(c, s)
<1>1. fd[c][s] = cand[c][s].inode /\ Prefix(c, s, got[c].blocks) /\ Faithful(c, s)
  BY DEF Informed, Progress, Compared
<1> QED
  BY <1>1, ReaderOpen, SeenObject DEF IInv

LEMMA CompareReadInformed ==
  ASSUME IInv, NEW c \in Client, Informed(c), NEW s \in Side, CompareRead(c, s)
  PROVE  Informed(c)'
<1>0. PICK n \in Nat : n = got[c].blocks
  BY DEF IInv, TypeOK
<1>1. /\ pc[c] = ReadAt[s]
      /\ pc'[c] = IF n + 1 = NBlocks THEN VerifyAt[s] ELSE ReadAt[s]
      /\ got'[c] = [got[c] EXCEPT ![s] = ReadBlock(c, s, n + 1), !.blocks = n + 1]
      /\ UNCHANGED <<entry, node, clock, fd, cand, seen>>
  BY <1>0 DEF IInv, TypeOK, CompareRead, Goto, fsVars, ctlVars, histVars
<1>2. /\ got'[c][s] = ReadBlock(c, s, n + 1) /\ got'[c].blocks = n + 1
      /\ \A r \in Side \ {s} : got'[c][r] = got[c][r]
  BY <1>1, BufferOf DEF IInv, Side
<1>3. n + 1 \in Block /\ Aging
  <2>1. pc[c] \in MoreToRead
    BY <1>1, LabelsDiffer
  <2>2. n < NBlocks
    BY <1>0, <2>1 DEF IInv, Control
  <2>3. Aging
    BY <1>1, ReleaseAges DEF IInv
  <2> QED
    BY <2>2, <2>3, BlockFacts DEF Block
<1>4. /\ fd[c][s] = cand[c][s].inode /\ Prefix(c, s, n)
      /\ seen[c][s] # NoNode /\ Faithful(c, s)
  BY <1>0, <1>1, CompareSeen
<1>5. Prefix(c, s, n + 1)'
  BY <1>1, <1>2, <1>3, <1>4, PrefixGrows DEF IInv, Prefix
<1>6. \A r \in Side : pc'[c] \in {ReadAt[r], VerifyAt[r]} => r = s
  BY <1>1, LabelsDiffer
<1>7. \A r \in Side : pc'[c] = VerifyAt[r] => n + 1 = NBlocks
  BY <1>1, LabelsDiffer
<1>8. Compared(c)'
  BY <1>1, <1>2, <1>4, <1>5, <1>6, <1>7 DEF Compared
<1>9. pc'[c] \in InstalledRead => Whole(c, "installed")'
  <2>1. CASE s = "installed"
    BY <1>1, <2>1, LabelOf DEF InstalledRead
  <2>2. CASE s = "staged"
    <3>1. pc[c] \in InstalledRead
      BY <1>1, <2>2, LabelOf DEF InstalledRead
    <3> QED
      BY <1>1, <1>2, <2>2, <3>1 DEF Informed, Progress, Settled, Whole, Side
  <2> QED
    BY <2>1, <2>2 DEF Side
<1> QED
  BY <1>1, <1>3, <1>8, <1>9, ComparerInformed

(* What compare_text() is about to return is what was seen.                *)
LEMMA CompareVerified ==
  ASSUME IInv, NEW c \in Client, Informed(c), NEW s \in Side, pc[c] = VerifyAt[s],
         SameFingerprint(Observe(node, fd[c][s]), cand[c][s])
  PROVE  Whole(c, s)
<1>1. /\ fd[c][s] = cand[c][s].inode /\ Prefix(c, s, got[c].blocks)
      /\ seen[c][s] # NoNode /\ Faithful(c, s)
  BY CompareSeen
<1>2. fd[c][s] \in Ino /\ node[fd[c][s]] # NoNode
  BY ReaderOpen, OpenNode, NodeAssumption DEF IInv
<1>3. Still(c, s)
  BY <1>1, <1>2, StillOpen
<1>4. got[c].blocks = NBlocks
  BY DEF Informed, Progress, Compared
<1> QED
  BY <1>1, <1>3, <1>4, PrefixWhole DEF IInv

LEMMA CompareVerifyInformed ==
  ASSUME IInv, NEW c \in Client, Informed(c), NEW s \in Side, CompareVerify(c, s)
  PROVE  Informed(c)'
<1>1. CASE Throw(c)
  BY <1>1, ThrowInformed, CompareHolds DEF CompareVerify
<1>2. CASE ~Throw(c)
  <2>1. /\ pc[c] = VerifyAt[s] /\ SameFingerprint(Observe(node, fd[c][s]), cand[c][s])
        /\ pc'[c] = IF s = "installed" THEN "open_staged" ELSE "ready"
        /\ got'[c] = IF s = "installed" THEN [got[c] EXCEPT !.blocks = 0] ELSE NothingGot
        /\ UNCHANGED <<entry, clock, cand, seen>> /\ Settle(node)
    BY <1>2, LabelOf DEF IInv, TypeOK, CompareVerify, Proceed, Goto, histVars
  <2>2. Aging
    BY <2>1, ReleaseAges DEF IInv
  <2>3. Holds(c)
    BY <2>1, CompareHolds
  <2>4. CASE s = "staged"
    BY <2>1, <2>2, <2>3, <2>4, PlainInformed DEF Plain
  <2>5. CASE s = "installed"
    <3>1. Whole(c, "installed")'
      BY <2>1, <2>5, CompareVerified, BufferOf DEF IInv, Whole
    <3>2. Compared(c)'
      BY <2>1, <2>5 DEF Compared, ReadAt, VerifyAt, Side
    <3> QED
      BY <2>1, <2>2, <2>5, <3>1, <3>2, LabelOf, ComparerInformed
  <2> QED
    BY <2>4, <2>5 DEF Side
<1> QED
  BY <1>1, <1>2

------------------------------------------------------------------------------
(* All the steps together.                                                 *)
LEMMA ScanInformed ==
  ASSUME IInv, Past, NEW c \in Client, Informed(c), Scan(c) \/ ScanError(c)
  PROVE  Informed(c)'
<1>1. CASE ScanOmitStructural(c) \/ Forget(c) \/ ScanError(c)
  BY <1>1, IdleInformed DEF ScanOmitStructural, Forget, ScanError, AbortScan
<1> QED
  BY <1>1, ObserveStagedInformed, ObserveInstalledInformed, InspectOpenInformed,
     InspectReadInformed, InspectRecheckInformed, LinkReadInformed, LinkCheckInformed
  DEF Scan

LEMMA PlainMoves ==
  ASSUME IInv, NEW c \in Client,
         \/ \E d \in Calls : Begin(c, d)
         \/ ValidateInstalled(c) \/ ValidateStaged(c)
         \/ Chown(c) \/ Chmod(c)
         \/ RetireUnlinks(c) \/ RetireFindsNothing(c) \/ RetireFindsChildren(c)
         \/ Rename(c) \/ RenameCrossDevice(c)
         \/ CopyOpen(c) \/ CopyBlock(c) \/ WriteMerged(c) \/ Seal(c) \/ Publish(c)
         \/ CallError(c)
  PROVE  Holds(c) /\ pc'[c] \in Plain /\ cand'[c] = cand[c] /\ seen'[c] = seen[c]
<1>1. pc[c] \in Plain \/ pc[c] \in CallLabel => Holds(c)
  BY CallLabels DEF Holds
<1>2. CASE Throw(c) /\ pc[c] \in CallLabel \cup {"ready"}
  BY <1>2 DEF IInv, TypeOK, Throw, Goto, histVars, Plain, Holds
<1>3. CASE \/ \E d \in Calls : Begin(c, d)
           \/ ValidateInstalled(c) /\ ~Throw(c)
           \/ ValidateStaged(c) /\ ~Throw(c)
  BY <1>1, <1>3 DEF IInv, TypeOK, Begin, ValidateInstalled, ValidateStaged, FirstStep, OpenAt,
         Goto, ctlVars, histVars, Plain
<1>4. CASE \/ Chown(c) /\ ~Throw(c)
           \/ Chmod(c) /\ ~Throw(c)
           \/ RetireUnlinks(c)
           \/ RetireFindsNothing(c) /\ ~Throw(c)
           \/ RetireFindsChildren(c) /\ ~Throw(c)
  BY <1>1, <1>4 DEF IInv, TypeOK, Chown, Chmod, RetireUnlinks, RetireFindsNothing,
         RetireFindsChildren, Proceed, Goto, AfterMetadata, AfterRetire, ctlVars, histVars, Plain
<1>5. CASE (Rename(c) \/ RenameCrossDevice(c) \/ Publish(c)) /\ ~Throw(c)
  BY <1>1, <1>5 DEF IInv, TypeOK, Rename, RenameCrossDevice, Publish, Proceed, Goto, ctlVars,
         histVars, Plain
<1>6. CASE (CopyOpen(c) \/ CopyBlock(c) \/ WriteMerged(c) \/ Seal(c)) /\ ~Throw(c)
  BY <1>1, <1>6 DEF IInv, TypeOK, CopyOpen, CopyBlock, WriteMerged, Seal, CreateTemporary, Goto,
         ctlVars, histVars, Plain
<1>7. Throw(c) => pc[c] \in CallLabel \cup {"ready"}
  BY CallLabels DEF ValidateInstalled, ValidateStaged, Chown, Chmod, RetireUnlinks,
     RetireFindsNothing, RetireFindsChildren, Rename, RenameCrossDevice, Publish, CopyOpen,
     CopyBlock, WriteMerged, Seal, CallError, Begin, Plain
<1> QED
  BY <1>2, <1>3, <1>4, <1>5, <1>6, <1>7 DEF CallError

LEMMA ResolveInformed ==
  ASSUME IInv, Aging, NEW c \in Client, Informed(c), Resolve(c) \/ CallError(c)
  PROVE  Informed(c)'
BY PlainMoves, PlainInformed, CompareOpenInformed, CompareReadInformed, CompareVerifyInformed
DEF Resolve

LEMMA InitTruth ==
  ASSUME Init
  PROVE  Truth
<1>1. IInv
  BY InitInvariant
<1>2. Past
  <2>1. SUFFICES ASSUME NEW i \in Ino, node[i] # NoNode
                 PROVE  node[i].ctime = 0
    BY DEF Init, Past
  <2> QED
    BY <2>1 DEF Init, InitNode
<1>3. ASSUME NEW c \in Client
      PROVE  Informed(c)
  <2>1. pc[c] = "idle" /\ cand[c] = NoCandidate /\ \A s \in Side : seen[c][s] = NoNode
    BY DEF Init
  <2>2. \A s \in Side : Faithful(c, s)
    BY <2>1 DEF Faithful, NoCandidate, Side
  <2>3. Sorted(c) /\ Inspected(c) /\ Settled(c)
    BY <2>1, CallLabels DEF Sorted, Inspected, Settled, Holds, Plain, Inspecting, Linking,
           BothOpen, InstalledRead
  <2>4. Linked(c) /\ Compared(c)
    <3>1. \A s \in Side : "idle" \notin {CheckLabel(s), ReadAt[s], VerifyAt[s]}
      BY DEF CheckLabel, ReadAt, VerifyAt, Side
    <3> QED
      BY <2>1, <3>1 DEF Linked, Compared
  <2> QED
    BY <2>2, <2>3, <2>4 DEF Informed, Progress
<1> QED
  BY <1>2, <1>3 DEF Truth

LEMMA NextTruth ==
  ASSUME ~CoarseClock, IInv, Truth, [Next]_vars
  PROVE  Truth'
<1>1. IInv' /\ Aging
  BY NextInvariant, NextAges
<1>2. Past'
  BY <1>1, PastKept DEF IInv, Truth
<1>3. SUFFICES ASSUME NEW c \in Client
               PROVE  Informed(c)'
  BY <1>2 DEF Truth
<1>4. Informed(c) /\ Past
  BY DEF Truth
<1>5. CASE Bystander(c)
  BY <1>1, <1>4, <1>5, ProgressKept
<1>6. CASE UNCHANGED vars \/ Others
  <2>1. Bystander(c)
    BY <1>6 DEF vars, Others, OtherRemoves, OtherWrites, OtherChmods, OtherPuts,
           OthersLeaveAlone, fsVars, ctlVars, histVars, Bystander
  <2> QED
    BY <1>5, <2>1
<1>7. ASSUME NEW d \in Client,
             Scan(d) \/ Resolve(d) \/ ScanError(d) \/ CallError(d) \/ Crash(d)
      PROVE  Informed(c)'
  <2>1. CASE c # d
    BY <1>5, <1>7, <2>1, OthersWork DEF IInv
  <2>2. CASE c = d /\ Crash(d)
    BY <2>2, IdleInformed DEF Crash
  <2>3. CASE c = d /\ ~Crash(d)
    BY <1>1, <1>4, <1>7, <2>3, ScanInformed, ResolveInformed
  <2> QED
    BY <2>1, <2>2, <2>3
<1> QED
  BY <1>6, <1>7 DEF Next

(* No inode carries a time of the future, and what a client has observed,  *)
(* read and concluded so far is true of the objects as it first saw them:  *)
(* the invariant behind the four theorems that follow.                     *)
(* (scan, inspect_regular_file, read_stable_symlink, read_stable_regular)  *)
THEOREM Observations == ASSUME ~CoarseClock PROVE Spec => [](IInv /\ Truth)
<1>1. Init => IInv /\ Truth
  BY InitInvariant, InitTruth
<1>2. IInv /\ Truth /\ [Next]_vars => (IInv /\ Truth)'
  BY NextInvariant, NextTruth
<1> QED
  BY <1>1, <1>2, PTL DEF Spec

------------------------------------------------------------------------------
(* A name that validation accepts refers to the very object that was seen, *)
(* unless it is a directory.                                               *)
LEMMA FreshObject ==
  ASSUME IInv, Truth, NEW c \in Client, NEW s \in Side,
         FingerprintMatches(cand[c][s], Sees(c, s)), cand[c][s].type # "directory",
         entry[s] # NoIno
  PROVE  seen[c][s] # NoNode /\ node[entry[s]] = seen[c][s]
<1>1. entry[s] \in Ino /\ node[entry[s]] # NoNode
  BY NamedNode, NodeAssumption DEF IInv, Slot, Side
<1>2. /\ Sees(c, s).exists /\ Sees(c, s).inode = entry[s]
      /\ Sees(c, s).ctime = node[entry[s]].ctime
  BY DEF Sees, Observe
<1>3. cand[c][s].inode = entry[s] /\ cand[c][s].ctime = node[entry[s]].ctime
  BY <1>2 DEF FingerprintMatches
<1>4. Faithful(c, s)
  BY DEF Truth, Informed
<1>5. seen[c][s] # NoNode
  BY <1>3, <1>4, SeenObject DEF IInv
<1>6. Still(c, s)
  BY <1>1, <1>3, <1>4, <1>5 DEF Faithful, Still
<1> QED
  BY <1>3, <1>4, <1>5, <1>6 DEF Faithful

LEMMA HoldsPair ==
  ASSUME IInv, Truth, NEW c \in Client, Holds(c)
  PROVE  /\ Flags(c) /\ seen[c]["staged"] # NoNode
         /\ \A s \in Side : Faithful(c, s)
         /\ \A s \in Side : cand[c][s].exists <=> cand[c][s].type # "missing"
<1>1. /\ Flags(c) /\ seen[c]["staged"] # NoNode
      /\ \A s \in Side : Faithful(c, s)
  BY CallLabels DEF Truth, Informed, Progress, Settled, Sorted, Holds, Plain
<1>2. ASSUME NEW s \in Side
      PROVE  cand[c][s].exists <=> cand[c][s].type # "missing"
  <2>1. CASE seen[c][s] = NoNode
    BY <1>1, <2>1 DEF Faithful, Missing
  <2>2. CASE seen[c][s] # NoNode
    <3>1. seen[c][s] \in Node
      BY <2>2 DEF IInv, TypeOK
    <3> QED
      BY <1>1, <2>2, <3>1 DEF Faithful, Node, NodeType
  <2> QED
    BY <2>1, <2>2
<1> QED
  BY <1>1, <1>2

(* A reader that saw parts of two versions never produces a candidate:     *)
(* the flags of every candidate are true of the two objects its            *)
(* fingerprints were taken from.                                           *)
THEOREM FlagsCorrect == ASSUME ~CoarseClock PROVE Spec => []FlagsMatchFingerprints
<1>1. ASSUME IInv, Truth
      PROVE  FlagsMatchFingerprints
  <2>1. SUFFICES ASSUME NEW c \in Client, Holds(c),
                        \A s \in Side : seen[c][s] # NoNode,
                        seen[c]["installed"].type = seen[c]["staged"].type,
                        seen[c]["installed"].type \in {"regular", "symlink"}
                 PROVE  /\ cand[c].equal <=> seen[c]["installed"].data = seen[c]["staged"].data
                        /\ cand[c].text <=> /\ seen[c]["installed"].type = "regular"
                                            /\ TextData(seen[c]["installed"].data)
                                            /\ TextData(seen[c]["staged"].data)
    BY DEF FlagsMatchFingerprints
  <2>2. \A s \in Side : cand[c][s].type = seen[c][s].type
    BY <1>1, <2>1, HoldsPair DEF Faithful
  <2> QED
    BY <1>1, <2>1, <2>2, HoldsPair DEF Flags, Side
<1> QED
  BY <1>1, Observations, PTL

(* An edit of a file or link after the scan makes its candidate stale.     *)
THEOREM EditsDetected == ASSUME ~CoarseClock PROVE Spec => []EditMakesStale
<1>1. ASSUME IInv, Truth
      PROVE  EditMakesStale
  <2>1. SUFFICES ASSUME NEW c \in Client, Fresh(c), NEW s \in Side, entry[s] # NoIno,
                        cand[c][s].type \in {"regular", "symlink"}
                 PROVE  node[entry[s]].data = seen[c][s].data
    BY DEF EditMakesStale
  <2> QED
    BY <1>1, <2>1, FreshObject DEF Fresh
<1> QED
  BY <1>1, Observations, PTL

(* A candidate that validation accepts describes the two objects as they   *)
(* are.                                                                    *)
THEOREM CandidatesCorrect == ASSUME ~CoarseClock PROVE Spec => []CandidateTruthful
<1>1. ASSUME IInv, Truth
      PROVE  CandidateTruthful
  <2> DEFINE I(c) == Sees(c, "installed")
             S(c) == Sees(c, "staged")
             SameData == node[entry["installed"]].data = node[entry["staged"]].data
             BothText == \A s \in Side : TextData(node[entry[s]].data)
  <2>1. SUFFICES ASSUME NEW c \in Client, Holds(c), Fresh(c)
                 PROVE  /\ S(c).exists
                        /\ Relic(cand[c]) <=> ~I(c).exists
                        /\ I(c).type = S(c).type /\ I(c).type \in {"regular", "symlink"}
                             => (cand[c].equal <=> SameData)
                        /\ cand[c].text <=> /\ I(c).type = "regular" /\ S(c).type = "regular"
                                            /\ BothText
                        /\ MetadataEqual(cand[c]) <=> SameMetadata(I(c), S(c))
    BY DEF CandidateTruthful
  <2>2. /\ Flags(c) /\ seen[c]["staged"] # NoNode
        /\ \A s \in Side : Faithful(c, s)
        /\ \A s \in Side : cand[c][s].exists <=> cand[c][s].type # "missing"
    BY <1>1, <2>1, HoldsPair
  <2>3. \A s \in Side : /\ cand[c][s].exists = Sees(c, s).exists
                       /\ cand[c][s].type = Sees(c, s).type
                       /\ cand[c][s].mode = Sees(c, s).mode
                       /\ cand[c][s].owner = Sees(c, s).owner
    BY <2>1 DEF Fresh, FingerprintMatches
  <2>4. S(c).exists
    BY <2>2, <2>3 DEF Faithful, Side
  <2>5. Relic(cand[c]) <=> ~I(c).exists
    <3>1. Relic(cand[c]) <=> cand[c]["installed"].type = "missing"
      BY DEF Relic, State, ClassifyCandidate
    <3>2. cand[c]["installed"].exists \in BOOLEAN
      BY <1>1 DEF IInv, TypeOK, CandidateRecord, Fingerprint
    <3> QED
      BY <2>2, <2>3, <3>1, <3>2 DEF Side
  <2>6. ASSUME NEW s \in Side, Sees(c, s).type \in {"regular", "symlink"}
        PROVE  node[entry[s]] = seen[c][s]
    <3>1. entry[s] # NoIno
      BY <2>6 DEF Sees, Observe, Missing
    <3> QED
      BY <1>1, <2>1, <2>3, <2>6, <3>1, FreshObject DEF Fresh
  <2>7. ASSUME I(c).type = S(c).type, I(c).type \in {"regular", "symlink"}
        PROVE  /\ cand[c].equal <=> SameData
               /\ cand[c].text <=> I(c).type = "regular" /\ BothText
    <3>1. \A s \in Side : node[entry[s]] = seen[c][s]
      BY <2>6, <2>7 DEF Side
    <3>2. cand[c]["installed"].type = cand[c]["staged"].type
          /\ cand[c]["staged"].type \in {"regular", "symlink"}
      BY <2>3, <2>7 DEF Side
    <3>3. seen[c]["installed"].type = I(c).type
      <4>1. cand[c]["installed"].type # "missing"
        BY <3>2
      <4>2. seen[c]["installed"] # NoNode
        BY <1>1, <2>2, <4>1, SeenObject DEF IInv, Side
      <4> QED
        BY <2>2, <2>3, <4>2 DEF Faithful, Side
    <3> QED
      BY <2>2, <3>1, <3>2, <3>3 DEF Flags, Side
  <2>8. cand[c].text <=> I(c).type = "regular" /\ S(c).type = "regular" /\ BothText
    <3>1. CASE I(c).type = S(c).type /\ I(c).type \in {"regular", "symlink"}
      BY <2>7, <3>1
    <3>2. CASE ~ (I(c).type = S(c).type /\ I(c).type \in {"regular", "symlink"})
      BY <2>2, <2>3, <3>2 DEF Flags, Side
    <3> QED
      BY <3>1, <3>2
  <2>9. MetadataEqual(cand[c]) <=> SameMetadata(I(c), S(c))
    BY <2>3 DEF MetadataEqual, SameMetadata, Side
  <2> QED
    BY <2>4, <2>5, <2>7, <2>8, <2>9
<1> QED
  BY <1>1, Observations, PTL

(* compare_text() goes from one file to the next.                          *)
LEMMA VerifyMoves ==
  ASSUME TypeOK, NEW c \in Client, pc[c] = "verify_staged", pc'[c] = "ready",
         result'[c] = "ok", [Next]_vars
  PROVE  CompareVerify(c, "staged") /\ ~Throw(c)
<1>1. ~ Throw(c)
  BY DEF TypeOK, Throw
<1>2. Scan(c) \/ Resolve(c) \/ ScanError(c) \/ CallError(c) \/ Crash(c)
  <2>1. ~ (UNCHANGED vars \/ Others)
    BY DEF vars, Others, OtherRemoves, OtherWrites, OtherChmods, OtherPuts, OthersLeaveAlone
  <2> QED
    BY <2>1, OwnControl DEF Next
<1>3. ~ (Scan(c) \/ ScanError(c) \/ CallError(c) \/ Crash(c))
  <2>1. ~ (ScanError(c) \/ CallError(c) \/ Crash(c))
    BY <1>1 DEF TypeOK, ScanError, ScanLabel, CallError, Crash, Idle, Goto
  <2>2. ~ Scan(c)
    BY DEF Scan, ScanObserveStaged, ScanOmitStructural, ScanObserveInstalled, InspectOpen,
           InspectReadInstalled, InspectReadStaged, InspectRecheck, LinkRead, LinkCheck,
           LinkLabel, CheckLabel, Forget
  <2> QED
    BY <2>1, <2>2
<1>4. ~ \/ \E d \in Calls : Begin(c, d)
        \/ ValidateInstalled(c) \/ ValidateStaged(c) \/ Chown(c) \/ Chmod(c)
        \/ RetireUnlinks(c) \/ RetireFindsNothing(c) \/ RetireFindsChildren(c)
        \/ Rename(c) \/ RenameCrossDevice(c)
        \/ CopyOpen(c) \/ CopyBlock(c) \/ WriteMerged(c) \/ Seal(c) \/ Publish(c)
  BY DEF Begin, ValidateInstalled, ValidateStaged, Chown, Chmod, RetireUnlinks,
         RetireFindsNothing, RetireFindsChildren, Rename, RenameCrossDevice, CopyOpen,
         CopyBlock, WriteMerged, Seal, Publish
<1>5. ASSUME NEW s \in Side
      PROVE  /\ ~ CompareOpen(c, s) /\ ~ CompareRead(c, s)
             /\ CompareVerify(c, s) => s = "staged"
  <2>1. CASE s = "installed"
    BY <2>1, LabelOf DEF CompareOpen, CompareRead, CompareVerify
  <2>2. CASE s = "staged"
    BY <2>2, LabelOf DEF CompareOpen, CompareRead, CompareVerify
  <2> QED
    BY <2>1, <2>2 DEF Side
<1> QED
  BY <1>1, <1>2, <1>3, <1>4, <1>5 DEF Resolve

(* What compare_text() hands to liblinediff is the pair of contents that   *)
(* scan() classified, whole, whatever other processes do to the two files  *)
(* while it reads them.  (read_stable_regular)                             *)
THEOREM ComparisonsCorrect == ASSUME ~CoarseClock PROVE Spec => ComparedTruthful
<1> DEFINE A(c) == pc[c] = VerifyAt["staged"] /\ pc'[c] = "ready" /\ result'[c] = "ok"
                    => \A s \in Side : got[c][s] = seen[c][s].data
<1>1. ASSUME IInv, Truth, [Next]_vars
      PROVE  \A c \in Client : A(c)
  <2>1. SUFFICES ASSUME NEW c \in Client, pc[c] = "verify_staged", pc'[c] = "ready",
                        result'[c] = "ok"
                 PROVE  \A s \in Side : Whole(c, s)
    BY LabelOf DEF Whole
  <2>2. CompareVerify(c, "staged") /\ ~Throw(c)
    BY <1>1, <2>1, VerifyMoves DEF IInv
  <2>3. Informed(c)
    BY <1>1 DEF Truth
  <2>4. SameFingerprint(Observe(node, fd[c]["staged"]), cand[c]["staged"])
    BY <2>2 DEF CompareVerify
  <2>5. Whole(c, "staged")
    BY <1>1, <2>1, <2>3, <2>4, LabelOf, CompareVerified DEF Side
  <2>6. Whole(c, "installed")
    BY <2>1, <2>3 DEF Informed, Progress, Settled, InstalledRead
  <2> QED
    BY <2>5, <2>6 DEF Side
<1>2. Spec => [][\A c \in Client : A(c)]_vars
  BY <1>1, Observations, PTL DEF Spec
<1> QED
  BY <1>2 DEF ComparedTruthful
==============================================================================
