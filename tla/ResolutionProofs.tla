--------------------------- MODULE ResolutionProofs ---------------------------
(***************************************************************************)
(* How a disposition ends: it leaves no temporary file behind, a candidate *)
(* that was resolved is stale, and of several clients one wins.            *)
(***************************************************************************)
EXTENDS ObservationProofs

Moving    == {"install", "restore", "relocate_relic"}
Temporary == {"copy_block", "seal", "publish"}
Comparing == {"open_installed", "load_installed", "verify_installed",
              "open_staged", "load_staged", "verify_staged"}
Validating == {"validate_installed", "validate_staged"}

(* The system calls that each kind of disposition makes.                   *)
Order(c) ==
  /\ pc[c] \notin Temporary => tmp[c] = NoIno
  /\ pc[c] \in ScanLabel \cup CallLabel => result[c] = "none"
  /\ pc[c] \in CallLabel => call[c] \in Calls
  /\ pc[c] \in CallLabel \ Validating => Applicable(call[c].kind, cand[c])
  /\ pc[c] \in {"rename", "copy_open", "copy_block"} => call[c].kind \in Moving
  /\ pc[c] = "copy_open" => cand[c]["staged"].type \in {"regular", "symlink"}
  /\ pc[c] \in {"seal", "publish"} => call[c].kind \in Moving \cup {"install_merged"}
  /\ pc[c] \in {"rename", "copy_open", "copy_block", "seal", "publish"}
       /\ call[c].kind = "install" => ~OnDirectory(c)
  /\ pc[c] = "write_merged" => call[c].kind = "install_merged"
  /\ pc[c] \in {"chown", "chmod"} => call[c].kind \in {"keep", "install"}
  /\ pc[c] = "retire" => call[c].kind # "compare_text"
  /\ pc[c] \in Comparing => call[c].kind = "compare_text"

Orderly == \A c \in Client : Order(c)

------------------------------------------------------------------------------
LEMMA LabelSets ==
  /\ CallLabel = Validating \cup Comparing
        \cup {"chown", "chmod", "retire", "rename", "copy_open", "copy_block",
              "write_merged", "seal", "publish"}
  /\ CallLabel \cap ScanLabel = {} /\ {"idle", "ready"} \cap (CallLabel \cup ScanLabel) = {}
<1>1. /\ {OpenAt[s] : s \in Side} = {"open_installed", "open_staged"}
      /\ {ReadAt[s] : s \in Side} = {"load_installed", "load_staged"}
      /\ {VerifyAt[s] : s \in Side} = {"verify_installed", "verify_staged"}
  BY LabelOf DEF Side
<1>2. CallLabel = Validating \cup Comparing
        \cup {"chown", "chmod", "retire", "rename", "copy_open", "copy_block",
              "write_merged", "seal", "publish"}
  BY <1>1 DEF CallLabel, Validating, Comparing
<1> QED
  BY <1>2 DEF ScanLabel, Validating, Comparing

(* The rest of what belongs to a client.                                   *)
Spectator(c) ==
  Bystander(c) /\ tmp'[c] = tmp[c] /\ call'[c] = call[c] /\ result'[c] = result[c]

LEMMA OthersKeep ==
  ASSUME TypeOK, NEW c \in Client, NEW d \in Client, c # d,
         Scan(d) \/ Resolve(d) \/ ScanError(d) \/ CallError(d) \/ Crash(d)
  PROVE  Spectator(c)
<1> USE DEF Goto, Idle, AbortScan, Throw, Proceed, ScanReturns, ctlVars, histVars, fsVars
<1> SUFFICES tmp'[c] = tmp[c] /\ call'[c] = call[c] /\ result'[c] = result[c]
  BY OthersWork DEF Spectator
<1>1. CASE Scan(d) \/ ScanError(d)
  BY <1>1 DEF TypeOK, Scan, ScanError, ScanObserveStaged, ScanOmitStructural,
         ScanObserveInstalled, InspectOpen, InspectReadInstalled, InspectReadStaged,
         InspectRecheck, LinkRead, LinkCheck, Forget
<1>2. CASE \/ \E x \in Calls : Begin(d, x)
           \/ ValidateInstalled(d) \/ ValidateStaged(d)
           \/ Chown(d) \/ Chmod(d)
           \/ RetireUnlinks(d) \/ RetireFindsNothing(d) \/ RetireFindsChildren(d)
           \/ Rename(d) \/ RenameCrossDevice(d)
  BY <1>2 DEF TypeOK, Begin, ValidateInstalled, ValidateStaged, Chown, Chmod, RetireUnlinks,
         RetireFindsNothing, RetireFindsChildren, Rename, RenameCrossDevice
<1>3. CASE CopyOpen(d) \/ CopyBlock(d) \/ WriteMerged(d) \/ Seal(d) \/ Publish(d)
  BY <1>3 DEF TypeOK, CopyOpen, CopyBlock, WriteMerged, Seal, Publish, CreateTemporary
<1>4. CASE \E s \in Side : CompareOpen(d, s) \/ CompareRead(d, s) \/ CompareVerify(d, s)
  BY <1>4 DEF TypeOK, CompareOpen, CompareRead, CompareVerify
<1>5. CASE CallError(d) \/ Crash(d)
  BY <1>5 DEF TypeOK, CallError, Crash
<1> QED
  BY <1>1, <1>2, <1>3, <1>4, <1>5 DEF Resolve

LEMMA OrderKept ==
  ASSUME NEW c \in Client, Order(c), Spectator(c)
  PROVE  Order(c)'
BY DEF Order, Spectator, Bystander, OnDirectory

(* A client that is neither scanning nor in a call owes nothing.           *)
LEMMA OrderRest ==
  ASSUME NEW c \in Client, pc'[c] \in {"idle", "ready"}, tmp'[c] = NoIno
  PROVE  Order(c)'
BY LabelSets DEF Order, Temporary, Comparing

LEMMA OrderScan ==
  ASSUME IInv, NEW c \in Client, Order(c), Scan(c) \/ ScanError(c)
  PROVE  Order(c)'
<1>1. pc[c] \notin Temporary
  BY DEF Scan, ScanError, ScanLabel, Temporary, ScanObserveStaged, ScanOmitStructural,
         ScanObserveInstalled, InspectOpen, InspectReadInstalled, InspectReadStaged,
         InspectRecheck, LinkRead, LinkCheck, LinkLabel, CheckLabel, Forget
<1>2. tmp' = tmp /\ tmp'[c] = NoIno
  BY <1>1 DEF Order, Scan, ScanError, ScanObserveStaged, ScanOmitStructural,
         ScanObserveInstalled, InspectOpen, InspectReadInstalled, InspectReadStaged,
         InspectRecheck, LinkRead, LinkCheck, Forget, AbortScan, ScanReturns, fsVars
<1>3. /\ pc'[c] \in {"idle", "ready"} \cup ScanLabel
      /\ pc'[c] \in ScanLabel => result'[c] = "none"
  <2>1. CASE ScanObserveStaged(c) \/ AbortScan(c)
    BY <2>1 DEF IInv, TypeOK, ScanObserveStaged, AbortScan, Idle, Goto, ScanLabel
  <2>2. CASE /\ ~AbortScan(c)
             /\ \/ ScanObserveInstalled(c) \/ InspectOpen(c)
                \/ InspectReadInstalled(c) \/ InspectReadStaged(c)
    BY <2>2 DEF IInv, TypeOK, Order, ScanObserveInstalled, InspectOpen, InspectReadInstalled,
           InspectReadStaged, ScanNext, Goto, ScanLabel, ctlVars
  <2>3. CASE /\ ~AbortScan(c)
             /\ InspectRecheck(c) \/ \E s \in Side : LinkRead(c, s) \/ LinkCheck(c, s)
    BY <2>3 DEF IInv, TypeOK, Order, InspectRecheck, LinkRead, LinkCheck, LinkLabel, CheckLabel,
           ScanReturns, Goto, ScanLabel, ctlVars
  <2> QED
    BY <2>1, <2>2, <2>3 DEF Scan, ScanError, ScanOmitStructural, Forget
<1>4. CASE pc'[c] \in {"idle", "ready"}
  BY <1>2, <1>4, OrderRest
<1>5. CASE pc'[c] \in ScanLabel
  BY <1>2, <1>3, <1>5, LabelSets DEF Order, ScanLabel, Temporary, Comparing
<1> QED
  BY <1>3, <1>4, <1>5

LEMMA OrderThrow ==
  ASSUME IInv, NEW c \in Client, Throw(c) \/ Crash(c)
  PROVE  Order(c)'
<1>1. pc'[c] \in {"idle", "ready"} /\ tmp'[c] = NoIno
  BY DEF IInv, TypeOK, Throw, Crash, Idle, Goto
<1> QED
  BY <1>1, OrderRest

LEMMA OrderResolve ==
  ASSUME IInv, NEW c \in Client, Order(c), Resolve(c) \/ CallError(c) \/ Crash(c)
  PROVE  Order(c)'
<1> USE DEF Goto, Proceed, ctlVars, histVars, fsVars
<1> DEFINE Early == pc[c] \notin Temporary /\ tmp' = tmp
<1>1. CASE Throw(c) \/ Crash(c)
  BY <1>1, OrderThrow
<1>2. CASE \E d \in Calls : Begin(c, d)
  BY <1>2, LabelSets DEF IInv, TypeOK, Order, Begin, Temporary, Validating, Comparing
<1>3. CASE ValidateInstalled(c) /\ ~Throw(c)
  BY <1>3, LabelSets DEF IInv, TypeOK, Order, ValidateInstalled, Temporary, Validating, Comparing
<1>4. CASE ValidateStaged(c) /\ ~Throw(c)
  <2>1. /\ pc[c] = "validate_staged" /\ pc' = [pc EXCEPT ![c] = FirstStep(call[c], cand[c])]
        /\ Applicable(call[c].kind, cand[c])
        /\ UNCHANGED <<tmp, result, call, cand>>
    BY <1>4 DEF ValidateStaged
  <2>2. /\ tmp'[c] = NoIno /\ result'[c] = "none" /\ call[c] \in Calls
    BY <2>1, LabelSets DEF Order, Temporary, Validating
  <2>3. call[c].kind \in Kinds
    BY <2>2 DEF Calls, Disposition
  <2>4. pc'[c] = FirstStep(call[c], cand[c])
    BY <2>1 DEF IInv, TypeOK
  <2> QED
    BY <2>1, <2>2, <2>3, <2>4, LabelOf
    DEF Order, FirstStep, Kinds, Moving, Temporary, Validating, Comparing, OnDirectory
<1>5. CASE (Chown(c) \/ Chmod(c)) /\ ~Throw(c)
  BY <1>5, LabelSets, OrderRest
  DEF IInv, TypeOK, Order, Chown, Chmod, AfterMetadata, Temporary, Validating, Comparing
<1>6. CASE /\ ~Throw(c)
           /\ RetireUnlinks(c) \/ RetireFindsNothing(c) \/ RetireFindsChildren(c)
  BY <1>6, LabelSets, OrderRest
  DEF IInv, TypeOK, Order, RetireUnlinks, RetireFindsNothing, RetireFindsChildren, AfterRetire,
      Temporary, Validating, Comparing, OnDirectory
<1>7. CASE (Rename(c) \/ RenameCrossDevice(c)) /\ ~Throw(c)
  <2>1. /\ pc[c] = "rename" /\ UNCHANGED <<tmp, call, cand>>
        /\ \/ pc'[c] = "ready"
           \/ pc'[c] = "chown" /\ call[c].kind = "install" /\ result'[c] = result[c]
           \/ /\ pc'[c] = "copy_open" /\ result'[c] = result[c]
              /\ cand[c]["staged"].type \in {"regular", "symlink"}
    BY <1>7 DEF IInv, TypeOK, Rename, RenameCrossDevice
  <2>2. tmp'[c] = NoIno
    BY <2>1 DEF Order, Temporary
  <2>3. CASE pc'[c] = "ready"
    BY <2>2, <2>3, OrderRest
  <2>4. CASE pc'[c] # "ready"
    BY <2>1, <2>2, <2>4, LabelSets DEF Order, Temporary, Validating, Comparing, OnDirectory
  <2> QED
    BY <2>3, <2>4
<1>8. CASE (CopyOpen(c) \/ CopyBlock(c)) /\ ~Throw(c)
  BY <1>8, LabelSets
  DEF IInv, TypeOK, Order, CopyOpen, CopyBlock, CreateTemporary, Temporary, Validating,
      Comparing, OnDirectory
<1>9. CASE (WriteMerged(c) \/ Seal(c)) /\ ~Throw(c)
  BY <1>9, LabelSets
  DEF IInv, TypeOK, Order, WriteMerged, Seal, CreateTemporary, Temporary, Validating,
      Comparing, OnDirectory, Moving
<1>10. CASE Publish(c) /\ ~Throw(c)
  BY <1>10, LabelSets
  DEF IInv, TypeOK, Order, Publish, Temporary, Validating, Comparing, Moving
<1>11. ASSUME NEW s \in Side, ~Throw(c),
              CompareOpen(c, s) \/ CompareRead(c, s) \/ CompareVerify(c, s)
       PROVE  Order(c)'
  <2>1. {OpenAt[s], ReadAt[s], VerifyAt[s], OpenAt["staged"]} \subseteq Comparing
    BY LabelOf DEF Comparing, Side
  <2>2. pc[c] \in Comparing /\ pc'[c] \in Comparing \cup {"ready"}
    BY <1>11, <2>1 DEF IInv, TypeOK, CompareOpen, CompareRead, CompareVerify
  <2>3. UNCHANGED <<tmp, call, cand>>
    BY <1>11 DEF CompareOpen, CompareRead, CompareVerify
  <2>4. pc'[c] # "ready" => result'[c] = result[c]
    BY <1>11 DEF IInv, TypeOK, CompareOpen, CompareRead, CompareVerify
  <2>5. tmp'[c] = NoIno
    BY <2>2, <2>3 DEF Order, Comparing, Temporary
  <2>6. CASE pc'[c] = "ready"
    BY <2>5, <2>6, OrderRest
  <2>7. CASE pc'[c] \in Comparing
    BY <2>2, <2>3, <2>4, <2>5, <2>7, LabelSets DEF Order, Comparing, Temporary, Validating
  <2> QED
    BY <2>2, <2>6, <2>7
<1> QED
  BY <1>1, <1>2, <1>3, <1>4, <1>5, <1>6, <1>7, <1>8, <1>9, <1>10, <1>11 DEF Resolve, CallError

LEMMA NextOrder ==
  ASSUME IInv, Orderly, [Next]_vars
  PROVE  Orderly'
<1> SUFFICES ASSUME NEW c \in Client, Order(c)
             PROVE  Order(c)'
  BY DEF Orderly
<1>2. CASE UNCHANGED vars \/ Others
  <2>1. Spectator(c)
    BY <1>2 DEF vars, Others, OtherRemoves, OtherWrites, OtherChmods, OtherPuts,
           OthersLeaveAlone, fsVars, ctlVars, histVars, Bystander, Spectator
  <2> QED
    BY <2>1, OrderKept
<1>3. ASSUME NEW d \in Client,
             Scan(d) \/ Resolve(d) \/ ScanError(d) \/ CallError(d) \/ Crash(d)
      PROVE  Order(c)'
  <2>1. CASE c = d
    BY <1>3, <2>1, OrderScan, OrderResolve
  <2>2. CASE c # d
    BY <1>3, <2>2, OthersKeep, OrderKept DEF IInv
  <2> QED
    BY <2>1, <2>2
<1> QED
  BY <1>2, <1>3 DEF Next

LEMMA InitOrder ==
  ASSUME Init
  PROVE  Orderly
BY LabelSets DEF Init, Orderly, Order, Temporary, Comparing

(* Each disposition makes only its own system calls, in its own order, on a*)
(* candidate it applies to, and has a temporary file only between creating *)
(* and publishing it.  (keep, install, install_merged, restore,            *)
(* relocate_relic, remove_relic, compare_text, validate_current)           *)
THEOREM Ordered == Spec => [](IInv /\ Orderly)
<1>1. Init => IInv /\ Orderly
  BY InitInvariant, InitOrder
<1>2. IInv /\ Orderly /\ [Next]_vars => (IInv /\ Orderly)'
  BY NextInvariant, NextOrder
<1> QED
  BY <1>1, <1>2, PTL DEF Spec

------------------------------------------------------------------------------
(* Where catch blocks can unlink what they made, only the death of a client*)
(* in the middle of a call leaves its temporary file behind.               *)
LEMMA OrphanSteps ==
  ASSUME [Next]_vars, TypeOK, ~UnlinkFails
  PROVE  \/ orphans' = orphans
         \/ \E c \in Client : Crash(c)
<1>1. ASSUME NEW c \in Client, Scan(c) \/ ScanError(c) \/ CallError(c)
      PROVE  orphans' = orphans
  BY <1>1 DEF Scan, ScanError, CallError, ScanObserveStaged, ScanOmitStructural,
         ScanObserveInstalled, InspectOpen, InspectReadInstalled, InspectReadStaged,
         InspectRecheck, LinkRead, LinkCheck, Forget, AbortScan, ScanReturns, Throw, fsVars
<1>2. ASSUME NEW c \in Client, Resolve(c)
      PROVE  orphans' = orphans
  BY <1>2 DEF Resolve, Begin, ValidateInstalled, ValidateStaged, Chown, Chmod, RetireUnlinks,
         RetireFindsNothing, RetireFindsChildren, Rename, RenameCrossDevice, CopyOpen,
         CopyBlock, WriteMerged, Seal, Publish, CreateTemporary, CompareOpen, CompareRead,
         CompareVerify, Throw, fsVars
<1>3. UNCHANGED vars \/ Others => orphans' = orphans
  BY DEF vars, fsVars, Others, OtherRemoves, OtherWrites, OtherChmods, OtherPuts, OthersLeaveAlone
<1> QED
  BY <1>1, <1>2, <1>3 DEF Next

(* A disposition that returns or throws leaves no temporary file behind:   *)
(* only the death of a client in the middle of a call does, if a catch     *)
(* block can unlink what it made.                                          *)
(* (the catch blocks of copy_*_across_filesystems and write_merged_file)   *)
THEOREM TemporariesRemoved == ASSUME ~UnlinkFails PROVE Spec => NoTemporaryLeft
<1> DEFINE Ends == \E c \in Client : pc[c] \in CallLabel /\ pc'[c] = "idle"
           Tidy == \A c \in Client : pc[c] \in {"idle", "ready"} => tmp[c] = NoIno
<1>2. ASSUME IInv, Orderly, Orderly', [Next]_vars
      PROVE  ~ (Stray' \subseteq Stray) => Ends
  <2>1. Tidy /\ Tidy'
    BY <1>2 DEF Orderly, Order, Temporary
  <2>2. Stray \cup {NoIno} = orphans \cup {NoIno} /\ Stray' \cup {NoIno} = orphans' \cup {NoIno}
    BY <2>1 DEF Stray
  <2>3. CASE orphans' = orphans
    BY <2>2, <2>3 DEF Stray
  <2>4. ASSUME NEW c \in Client, Crash(c)
        PROVE  pc[c] \in CallLabel /\ pc'[c] = "idle"
    BY <1>2, <2>4 DEF IInv, TypeOK, Crash, Idle, Goto
  <2> QED
    BY <1>2, <2>3, <2>4, OrphanSteps DEF IInv
<1>3. Spec => [][~ (Stray' \subseteq Stray) => Ends]_vars
  BY <1>2, Ordered, PTL DEF Spec
<1> QED
  BY <1>3 DEF NoTemporaryLeft

------------------------------------------------------------------------------
(* An inode in use keeps its type; its contents change only when another   *)
(* process writes it or, before it has a name, when a copy is made.        *)
Kept(i) ==
  /\ node'[i].type = node[i].type
  /\ \/ node'[i].data = node[i].data
     \/ "write" \in Interference
     \/ \E c \in Client : tmp[c] = i /\ CopyBlock(c)

Keeping == \A i \in Ino : i \in Live /\ node'[i] # NoNode => Kept(i)

LEMMA TouchKeeps ==
  ASSUME TypeOK, NEW nd \in [Ino -> Node \cup {NoNode}], NEW touched, NEW t \in Now,
         Settle(Touch(nd, touched, t)),
         \A i \in Ino : i \in Live /\ nd[i] # node[i] =>
           /\ nd[i].type = node[i].type
           /\ \/ nd[i].data = node[i].data
              \/ "write" \in Interference
              \/ \E c \in Client : tmp[c] = i /\ CopyBlock(c)
  PROVE  Keeping
<1>1. SUFFICES ASSUME NEW i \in Ino, i \in Live, node'[i] # NoNode
               PROVE  Kept(i)
  BY DEF Keeping
<1>2. node'[i] = Touch(nd, touched, t)[i]
  BY <1>1 DEF Settle
<1>3. nd[i] # NoNode
  BY <1>1, <1>2 DEF Touch
<1>4. nd[i] \in Node
  BY <1>3
<1>5. node'[i].type = nd[i].type /\ node'[i].data = nd[i].data
  BY <1>2, <1>3, <1>4 DEF Touch, Node
<1> QED
  BY <1>1, <1>5 DEF Kept

LEMMA ChangeKeeps ==
  ASSUME TypeOK, NEW i \in Ino, NEW n \in Node, NEW t \in Now, Change(i, n, t),
         i \in Live =>
           /\ n.type = node[i].type
           /\ \/ n.data = node[i].data
              \/ "write" \in Interference
              \/ \E c \in Client : tmp[c] = i /\ CopyBlock(c)
  PROVE  Keeping
<1> DEFINE nd == [node EXCEPT ![i] = n]
<1>1. nd \in [Ino -> Node \cup {NoNode}] /\ nd[i] = n /\ \A j \in Ino \ {i} : nd[j] = node[j]
  BY DEF TypeOK
<1>2. Settle(Touch(nd, {i}, t))
  BY DEF Change
<1> HIDE DEF nd
<1> QED
  BY <1>1, <1>2, TouchKeeps

LEMMA RelinkKeeps ==
  ASSUME TypeOK, NEW touched, NEW t \in Now, Settle(Touch(node, touched, t))
  PROVE  Keeping
BY TouchKeeps DEF TypeOK

LEMMA ReleaseKeeps ==
  ASSUME Settle(node) \/ UNCHANGED node
  PROVE  Keeping
BY DEF Settle, Keeping, Kept

LEMMA CreateKeeps ==
  ASSUME TypeOK, NEW c \in Client, NEW i \in Unused, NEW type \in NodeType,
         NEW data \in Data, CreateTemporary(c, i, type, data)
  PROVE  Keeping
<1> DEFINE n(t) == [type |-> type, data |-> data, owner |-> ZeroOwner, ctime |-> t,
                    mode |-> IF type = "symlink" THEN LinkMode ELSE ZeroMode]
<1>1. PICK t \in Now : Change(i, n(t), t)
  BY DEF CreateTemporary
<1>2. n(t) \in Node
  BY NowType, OwnerAssumption, ModeAssumption DEF TypeOK, Node
<1> HIDE DEF n
<1> QED
  BY <1>1, <1>2, ChangeKeeps DEF Unused

LEMMA MetadataKeeps ==
  ASSUME IInv, NEW c \in Client, Chown(c) \/ Chmod(c)
  PROVE  Keeping
<1>1. CASE Throw(c) \/ UNCHANGED node
  BY <1>1, ReleaseKeeps DEF Throw
<1>2. CASE ~ (Throw(c) \/ UNCHANGED node)
  <2> DEFINE i == entry["installed"]
  <2>1. i # NoIno
    BY <1>2 DEF Chown, Chmod
  <2>2. i \in Ino /\ node[i] \in Node
    BY <2>1, NamedNode DEF IInv, Slot
  <2>3. Selected(c).owner \in Owner /\ Selected(c).mode \in Mode
    BY SelectedType DEF IInv
  <2>4. /\ Chowned(node[i], Selected(c).owner) \in Node
        /\ Chowned(node[i], Selected(c).owner).type = node[i].type
        /\ Chowned(node[i], Selected(c).owner).data = node[i].data
        /\ [node[i] EXCEPT !.mode = Selected(c).mode] \in Node
        /\ [node[i] EXCEPT !.mode = Selected(c).mode].type = node[i].type
        /\ [node[i] EXCEPT !.mode = Selected(c).mode].data = node[i].data
    BY <2>2, <2>3, ModeAssumption DEF Chowned, Node
  <2>5. \E t \in Now : \/ Change(i, Chowned(node[i], Selected(c).owner), t)
                      \/ Change(i, [node[i] EXCEPT !.mode = Selected(c).mode], t)
    BY <1>2, <2>1 DEF Chown, Chmod
  <2> QED
    BY <2>2, <2>4, <2>5, ChangeKeeps DEF IInv
<1> QED
  BY <1>1, <1>2

LEMMA CopyKeeps ==
  ASSUME IInv, NEW c \in Client, CopyOpen(c) \/ CopyBlock(c) \/ WriteMerged(c) \/ Seal(c)
  PROVE  Keeping
<1>1. CASE CopyOpen(c)
  <2>1. CASE Throw(c)
    BY <2>1, ReleaseKeeps DEF Throw
  <2>2. CASE ~Throw(c)
    <3>1. PICK i \in Unused :
            \/ CreateTemporary(c, i, "regular", Blank)
            \/ CreateTemporary(c, i, "symlink", node[entry["staged"]].data)
      BY <1>1, <2>2 DEF CopyOpen
    <3>2. entry["staged"] # NoIno
      BY <1>1, <2>2 DEF CopyOpen
    <3>3. node[entry["staged"]].data \in Data /\ Blank \in Data
      BY <3>2, NamedNode, BlankType DEF IInv, Slot, Node
    <3> QED
      BY <3>1, <3>3, CreateKeeps DEF IInv, NodeType
  <2> QED
    BY <2>1, <2>2
<1>2. CASE CopyBlock(c)
  <2>1. fd[c]["staged"] # NoIno /\ tmp[c] # NoIno /\ got[c].blocks + 1 \in Block
    BY <1>2, BlockFacts DEF IInv, TypeOK, Control, CopyBlock, StagedOpen, MoreToRead, Block
  <2>2. node[fd[c]["staged"]].data \in Data /\ tmp[c] \in Ino /\ node[tmp[c]] \in Node
    BY <2>1, OpenNode, TemporaryNode DEF IInv, Side, Node
  <2> DEFINE d == [node[tmp[c]].data EXCEPT
                     ![got[c].blocks + 1] = node[fd[c].staged].data[got[c].blocks + 1]]
  <2>3. d \in Data
    BY <2>1, <2>2 DEF Node, Data
  <2> HIDE DEF d
  <2>4. /\ [node[tmp[c]] EXCEPT !.data = d] \in Node
        /\ [node[tmp[c]] EXCEPT !.data = d].type = node[tmp[c]].type
    BY <2>2, <2>3 DEF Node
  <2>5. \E t \in Now : Change(tmp[c], [node[tmp[c]] EXCEPT !.data = d], t)
    BY <1>2 DEF CopyBlock, d
  <2> QED
    BY <1>2, <2>2, <2>4, <2>5, ChangeKeeps DEF IInv
<1>3. CASE WriteMerged(c)
  <2>1. call[c].bytes \in Data
    BY DEF IInv, TypeOK, Disposition
  <2> QED
    BY <1>3, <2>1, CreateKeeps DEF IInv, WriteMerged, NodeType
<1>4. CASE Seal(c)
  <2> DEFINE m == IF call[c].kind = "install_merged" THEN Selected(c) ELSE cand[c].staged
             n == Dressed(node[tmp[c]], m.owner, m.mode)
  <2>1. tmp[c] \in Ino /\ node[tmp[c]] \in Node
    BY <1>4, TemporaryNode DEF IInv, Control, Seal
  <2>2. cand[c].staged \in Fingerprint
    BY DEF IInv, TypeOK, CandidateRecord
  <2>3. m.owner \in Owner /\ m.mode \in Mode
    BY <2>2, SelectedType DEF IInv, Fingerprint
  <2>4. n \in Node /\ n.type = node[tmp[c]].type /\ n.data = node[tmp[c]].data
    BY <2>1, <2>3, ModeAssumption DEF Dressed, Chowned, Node
  <2>5. \E t \in Now : Change(tmp[c], n, t)
    BY <1>4 DEF Seal
  <2> HIDE DEF n
  <2> QED
    BY <2>1, <2>4, <2>5, ChangeKeeps DEF IInv
<1> QED
  BY <1>1, <1>2, <1>3, <1>4

LEMMA RenameKeeps ==
  ASSUME IInv, NEW c \in Client,
         \/ RetireUnlinks(c) \/ RetireFindsNothing(c) \/ RetireFindsChildren(c)
         \/ Rename(c) \/ RenameCrossDevice(c) \/ Publish(c)
  PROVE  Keeping
<1>1. \/ Settle(node) \/ UNCHANGED node
      \/ \E t \in Now, touched \in {{entry["staged"]}, {entry["staged"], entry[call[c].dest]},
                                  {tmp[c], entry[call[c].dest]}} :
            Settle(Touch(node, touched, t))
  BY DEF RetireUnlinks, RetireFindsNothing, RetireFindsChildren, Rename, RenameCrossDevice,
         Publish, Throw, fsVars
<1> QED
  BY <1>1, ReleaseKeeps, RelinkKeeps DEF IInv

LEMMA OthersKeepTypes ==
  ASSUME IInv, Others
  PROVE  Keeping
<1>1. PICK s \in Slot :
        \/ OtherRemoves(s)
        \/ \E d \in Data : OtherWrites(s, d)
        \/ \E m \in GivenMode : OtherChmods(s, m)
        \/ \E i \in Unused, type \in PutType, d \in Data, m \in GivenMode \cup {LinkMode}, o \in Owner :
             OtherPuts(s, i, type, d, m, o)
  BY DEF Others
<1>2. CASE OtherRemoves(s)
  BY <1>2, RelinkKeeps DEF IInv, OtherRemoves
<1>3. ASSUME NEW d \in Data, OtherWrites(s, d)
      PROVE  Keeping
  <2>1. entry[s] \in Ino /\ node[entry[s]] \in Node
    BY <1>3, NamedNode DEF OtherWrites, IInv
  <2>2. /\ [node[entry[s]] EXCEPT !.data = d] \in Node
        /\ [node[entry[s]] EXCEPT !.data = d].type = node[entry[s]].type
    BY <2>1 DEF Node
  <2>3. PICK t \in Now : Change(entry[s], [node[entry[s]] EXCEPT !.data = d], t)
    BY <1>3 DEF OtherWrites
  <2> QED
    BY <1>3, <2>1, <2>2, <2>3, ChangeKeeps DEF IInv, OtherWrites
<1>4. ASSUME NEW m \in GivenMode, OtherChmods(s, m)
      PROVE  Keeping
  <2>1. entry[s] \in Ino /\ node[entry[s]] \in Node
    BY <1>4, NamedNode DEF OtherChmods, IInv
  <2>2. /\ [node[entry[s]] EXCEPT !.mode = m] \in Node
        /\ [node[entry[s]] EXCEPT !.mode = m].type = node[entry[s]].type
        /\ [node[entry[s]] EXCEPT !.mode = m].data = node[entry[s]].data
    BY <2>1, SwitchAssumption DEF Node
  <2>3. PICK t \in Now : Change(entry[s], [node[entry[s]] EXCEPT !.mode = m], t)
    BY <1>4 DEF OtherChmods
  <2> QED
    BY <2>1, <2>2, <2>3, ChangeKeeps DEF IInv
<1>5. ASSUME NEW i \in Unused, NEW type \in PutType, NEW d \in Data,
             NEW m \in GivenMode \cup {LinkMode}, NEW o \in Owner,
             OtherPuts(s, i, type, d, m, o)
      PROVE  Keeping
  <2> DEFINE n(t) == [type |-> type, data |-> d, mode |-> m, owner |-> o, ctime |-> t]
             nd(t) == [node EXCEPT ![i] = n(t)]
  <2>1. PICK t \in Now : Settle(Touch(nd(t), {i, entry[s]}, t))
    BY <1>5 DEF OtherPuts
  <2>2. n(t) \in Node
    BY NowType, SwitchAssumption, ModeAssumption DEF IInv, TypeOK, Node
  <2> HIDE DEF n
  <2>3. /\ nd(t) \in [Ino -> Node \cup {NoNode}]
        /\ \A j \in Ino : j # i => nd(t)[j] = node[j]
    BY <2>2 DEF IInv, TypeOK, Unused
  <2> HIDE DEF nd
  <2> QED
    BY <2>1, <2>3, TouchKeeps DEF IInv, Unused
<1> QED
  BY <1>1, <1>2, <1>3, <1>4, <1>5

LEMMA NextKeeps ==
  ASSUME IInv, [Next]_vars
  PROVE  Keeping
<1>1. ASSUME NEW c \in Client,
             \/ Scan(c) \/ ScanError(c) \/ CallError(c) \/ Crash(c)
             \/ \E d \in Calls : Begin(c, d)
             \/ ValidateInstalled(c) \/ ValidateStaged(c)
             \/ \E s \in Side : CompareOpen(c, s) \/ CompareRead(c, s) \/ CompareVerify(c, s)
      PROVE  Keeping
  <2>1. Settle(node) \/ UNCHANGED node
    BY <1>1 DEF Scan, ScanError, CallError, Crash, ScanObserveStaged, ScanOmitStructural,
           ScanObserveInstalled, InspectOpen, InspectReadInstalled, InspectReadStaged,
           InspectRecheck, LinkRead, LinkCheck, Forget, AbortScan, ScanReturns, Throw, fsVars,
           Begin, ValidateInstalled, ValidateStaged, CompareOpen, CompareRead, CompareVerify
  <2> QED
    BY <2>1, ReleaseKeeps
<1>2. ASSUME NEW c \in Client, Resolve(c)
      PROVE  Keeping
  BY <1>1, <1>2, MetadataKeeps, CopyKeeps, RenameKeeps DEF Resolve
<1>3. CASE UNCHANGED vars
  BY <1>3, ReleaseKeeps DEF vars, fsVars
<1> QED
  BY <1>1, <1>2, <1>3, OthersKeepTypes DEF Next

------------------------------------------------------------------------------
(* What a step may do to the names and to the temporary files.             *)
Logs(c) == log' = log \cup ({call[c].kind} \cap GivesUpStaged)

Unlinks(c) ==
  /\ pc[c] = "retire" /\ entry["staged"] # NoIno
  /\ entry' = [entry EXCEPT !["staged"] = NoIno] /\ tmp' = tmp
  /\ Logs(c)

Moves(c) ==
  /\ pc[c] = "rename" /\ entry["staged"] # NoIno /\ ~Refuses(c, entry["staged"])
  /\ entry' = Renamed("staged", call[c].dest, entry["staged"]) /\ tmp' = tmp
  /\ log' = log

Publishes(c) ==
  /\ pc[c] = "publish" /\ ~Refuses(c, tmp[c])
  /\ entry' = [entry EXCEPT ![call[c].dest] = tmp[c]]
  /\ tmp' = [tmp EXCEPT ![c] = NoIno]
  /\ Logs(c)

Disturbs ==
  /\ tmp' = tmp /\ log' = log
  /\ \E s \in Slot :
       \/ "remove" \in Interference /\ entry' = [entry EXCEPT ![s] = NoIno]
       \/ "put" \in Interference /\ \E i \in Unused : entry' = [entry EXCEPT ![s] = i]

Naming ==
  \/ UNCHANGED <<entry, tmp, log>>
  \/ /\ UNCHANGED <<entry, log>>
     /\ \E c \in Client, i \in Unused \cup {NoIno} : tmp' = [tmp EXCEPT ![c] = i]
  \/ \E c \in Client : Unlinks(c) \/ Moves(c) \/ Publishes(c)
  \/ Disturbs

LEMMA NextNaming ==
  ASSUME TypeOK, [Next]_vars
  PROVE  Naming
<1> USE DEF ctlVars, histVars, fsVars
<1>1. ASSUME NEW c \in Client, Throw(c) \/ AbortScan(c) \/ Crash(c)
      PROVE  Naming
  BY <1>1 DEF Throw, AbortScan, Crash, Naming
<1>2. ASSUME NEW c \in Client, Scan(c), ~AbortScan(c)
      PROVE  UNCHANGED <<entry, tmp, log>>
  BY <1>2 DEF Scan, ScanObserveStaged, ScanOmitStructural, ScanObserveInstalled, InspectOpen,
         InspectReadInstalled, InspectReadStaged, InspectRecheck, LinkRead, LinkCheck, Forget,
         ScanReturns
<1>3. ASSUME NEW c \in Client, ~Throw(c),
             \/ \E d \in Calls : Begin(c, d)
             \/ ValidateInstalled(c) \/ ValidateStaged(c) \/ Chown(c) \/ Chmod(c)
             \/ RetireFindsNothing(c) \/ RetireFindsChildren(c) \/ RenameCrossDevice(c)
             \/ CopyBlock(c) \/ Seal(c)
             \/ \E s \in Side : CompareOpen(c, s) \/ CompareRead(c, s) \/ CompareVerify(c, s)
      PROVE  UNCHANGED <<entry, tmp, log>>
  BY <1>3 DEF Begin, ValidateInstalled, ValidateStaged, Chown, Chmod, RetireFindsNothing,
         RetireFindsChildren, RenameCrossDevice, CopyBlock, Seal, CompareOpen, CompareRead,
         CompareVerify
<1>4. ASSUME NEW c \in Client, ~Throw(c), CopyOpen(c) \/ WriteMerged(c)
      PROVE  UNCHANGED <<entry, log>> /\ \E i \in Unused : tmp' = [tmp EXCEPT ![c] = i]
  BY <1>4 DEF CopyOpen, WriteMerged, CreateTemporary
<1>5. ASSUME NEW c \in Client, ~Throw(c), RetireUnlinks(c) \/ Rename(c) \/ Publish(c)
      PROVE  Unlinks(c) \/ Moves(c) \/ Publishes(c)
  BY <1>5 DEF RetireUnlinks, Rename, Publish, Unlinks, Moves, Publishes, Logs
<1>6. Others => UNCHANGED <<entry, tmp, log>> \/ Disturbs
  BY DEF Others, OtherRemoves, OtherWrites, OtherChmods, OtherPuts, OthersLeaveAlone, Disturbs
<1>7. ASSUME NEW c \in Client, Resolve(c)
      PROVE  Naming
  BY <1>1, <1>3, <1>4, <1>5, <1>7 DEF Resolve, Naming
<1>8. UNCHANGED vars => Naming
  BY DEF vars, Naming
<1> QED
  BY <1>1, <1>2, <1>6, <1>7, <1>8 DEF Next, ScanError, CallError, Naming

(* A temporary file has no name and one owner.                             *)
Separate ==
  \A c \in Client : tmp[c] # NoIno =>
    /\ \A s \in Slot : entry[s] # tmp[c]
    /\ \A d \in Client \ {c} : tmp[d] # tmp[c]

(* Two names share an inode only if they did so from the start.            *)
Names ==
  \A s, r \in Slot : s # r /\ entry[s] = entry[r] /\ entry[s] # NoIno
                       => HardLinked /\ {s, r} = Side

Twins == entry["installed"] = entry["staged"] /\ entry["installed"] # NoIno

(* A disposition moves objects to another name.                            *)
LEMMA Destinations ==
  ASSUME IInv, Orderly, NEW c \in Client, pc[c] \in CallLabel
  PROVE  /\ call[c].dest \in Slot \ {"staged"}
         /\ call[c].kind # "relocate_relic" => call[c].dest = "installed"
BY DEF Orderly, Order, Calls, Disposition

LEMMA SeparateKept ==
  ASSUME IInv, Orderly, Separate, Naming
  PROVE  Separate'
<1> USE DEF Separate, IInv, TypeOK
<1>1. CASE UNCHANGED <<entry, tmp>>
  BY <1>1
<1>2. CASE /\ entry' = entry
           /\ \E c \in Client, i \in Unused \cup {NoIno} : tmp' = [tmp EXCEPT ![c] = i]
  BY <1>2 DEF Unused, Live
<1>3. ASSUME NEW c \in Client, Unlinks(c)
      PROVE  Separate'
  BY <1>3, InoAssumption DEF Unlinks
<1>4. ASSUME NEW c \in Client, Moves(c)
      PROVE  Separate'
  BY <1>4, InoAssumption DEF Moves, Renamed, Slot
<1>5. ASSUME NEW c \in Client, Publishes(c)
      PROVE  Separate'
  BY <1>5 DEF Publishes
<1>6. CASE Disturbs
  BY <1>6 DEF Disturbs, Unused, Live
<1> QED
  BY <1>1, <1>2, <1>3, <1>4, <1>5, <1>6 DEF Naming

LEMMA NamesKept ==
  ASSUME IInv, Orderly, Separate, Names, Naming,
         Twins => \A c \in Client : pc[c] = "rename" => call[c].dest = "installed"
  PROVE  /\ Names'
         /\ Twins' => Twins /\ entry'["staged"] = entry["staged"]
<1> USE DEF IInv, TypeOK
<1>1. CASE entry' = entry
  BY <1>1 DEF Names, Twins
<1>2. ASSUME NEW s \in Slot, entry' = [entry EXCEPT ![s] = NoIno]
      PROVE  /\ Names'
             /\ Twins' => Twins /\ entry'["staged"] = entry["staged"]
  BY <1>2 DEF Names, Twins, Slot
<1>3. ASSUME NEW s \in Slot, NEW i \in Ino, entry' = [entry EXCEPT ![s] = i],
             \A r \in Slot : entry[r] # i
      PROVE  /\ Names'
             /\ Twins' => Twins /\ entry'["staged"] = entry["staged"]
  <2>1. /\ entry'[s] = i
        /\ \A r \in Slot : r # s => entry'[r] = entry[r]
    BY <1>3
  <2>2. Names'
    BY <1>3, <2>1 DEF Names
  <2>3. Twins' => Twins /\ entry'["staged"] = entry["staged"]
    BY <1>3, <2>1 DEF Twins, Slot
  <2> QED
    BY <2>2, <2>3
<1>4. ASSUME NEW c \in Client, Moves(c), entry[call[c].dest] # entry["staged"]
      PROVE  /\ Names'
             /\ Twins' => Twins /\ entry'["staged"] = entry["staged"]
  <2>1. pc[c] \in CallLabel
    BY <1>4 DEF Moves, CallLabel
  <2>2. call[c].dest \in {"installed", "elsewhere"}
    BY <2>1, Destinations DEF Slot
  <2>3. entry' = [entry EXCEPT !["staged"] = NoIno, ![call[c].dest] = entry["staged"]]
    BY <1>4 DEF Moves, Renamed
  <2>4. /\ entry'["staged"] = NoIno
        /\ entry'[call[c].dest] = entry["staged"]
        /\ \A r \in Slot \ {"staged", call[c].dest} : entry'[r] = entry[r]
    BY <2>2, <2>3 DEF Slot
  <2>5. ASSUME NEW r \in Slot \ {"staged", call[c].dest}, entry[r] = entry["staged"],
               entry["staged"] # NoIno
        PROVE  FALSE
    <3>1. r = "installed"
      BY <2>5 DEF Names, Side, Slot
    <3>2. Twins
      BY <2>5, <3>1 DEF Twins
    <3> QED
      BY <1>4, <2>5, <3>1, <3>2 DEF Moves
  <2>6. ASSUME NEW s \in Slot, NEW r \in Slot, s # r,
               entry'[s] = entry'[r], entry'[s] # NoIno
        PROVE  HardLinked /\ {s, r} = Side
    <3>1. s # "staged" /\ r # "staged"
      BY <2>4, <2>6
    <3>2. entry["staged"] # NoIno
      BY <1>4 DEF Moves
    <3>3. s # call[c].dest /\ r # call[c].dest
      BY <2>4, <2>5, <2>6, <3>1, <3>2
    <3> QED
      BY <2>4, <2>6, <3>1, <3>3 DEF Names
  <2>7. Names'
    BY <2>6 DEF Names
  <2> QED
    BY <2>4, <2>7 DEF Twins
<1>5. ASSUME NEW c \in Client, Publishes(c)
      PROVE  /\ Names'
             /\ Twins' => Twins /\ entry'["staged"] = entry["staged"]
  <2>1. pc[c] \in CallLabel /\ tmp[c] # NoIno
    BY <1>5 DEF Publishes, CallLabel, Control
  <2>2. call[c].dest \in Slot /\ tmp[c] \in Ino
    BY <2>1, Destinations
  <2> QED
    BY <1>3, <1>5, <2>1, <2>2 DEF Publishes, Separate
<1>6. CASE Disturbs
  BY <1>2, <1>3, <1>6 DEF Disturbs, Unused, Live
<1>7. ASSUME NEW c \in Client, Unlinks(c) \/ Moves(c)
      PROVE  /\ Names'
             /\ Twins' => Twins /\ entry'["staged"] = entry["staged"]
  <2>1. Unlinks(c) => entry' = [entry EXCEPT !["staged"] = NoIno]
    BY DEF Unlinks
  <2>2. Moves(c) /\ entry[call[c].dest] = entry["staged"] => entry' = entry
    BY DEF Moves, Renamed
  <2> QED
    BY <1>1, <1>2, <1>4, <1>7, <2>1, <2>2 DEF Slot
<1> QED
  BY <1>1, <1>5, <1>6, <1>7 DEF Naming

------------------------------------------------------------------------------
(* What a step may do to the observation of client c.                      *)
Unobserved(c) ==
  /\ pc'[c] = "idle" /\ cand'[c] = NoCandidate
  /\ seen'[c] = [s \in Side |-> NoNode]

SameObservation(c) ==
  /\ seen'[c] = seen[c] /\ \A s \in Side : cand'[c][s] = cand[c][s]
  /\ \A l \in {"idle", "observe_installed"} : pc'[c] = l <=> pc[c] = l

LEMMA ScanObservation ==
  ASSUME TypeOK, NEW c \in Client, Scan(c) \/ ScanError(c)
  PROVE  ScanObserveStaged(c) \/ ScanObserveInstalled(c) \/ Unobserved(c) \/ SameObservation(c)
<1>1. CASE AbortScan(c)
  BY <1>1 DEF TypeOK, AbortScan, Idle, Goto, Unobserved
<1>2. CASE \/ InspectOpen(c) /\ ~AbortScan(c)
           \/ InspectReadInstalled(c) \/ InspectReadStaged(c)
  BY <1>2 DEF TypeOK, InspectOpen, InspectReadInstalled, InspectReadStaged, Goto, ctlVars,
         histVars, SameObservation
<1>3. ASSUME NEW equal, NEW text, ScanReturns(c, equal, text),
             pc[c] \notin {"idle", "observe_installed"}
      PROVE  SameObservation(c)
  BY <1>3 DEF TypeOK, ScanReturns, Goto, histVars, SameObservation, CandidateRecord, Side
<1>4. CASE InspectRecheck(c) /\ ~AbortScan(c)
  BY <1>3, <1>4 DEF InspectRecheck
<1>5. ASSUME NEW s \in Side, LinkRead(c, s) \/ LinkCheck(c, s), ~AbortScan(c)
      PROVE  SameObservation(c)
  <2>1. pc[c] \notin {"idle", "observe_installed"}
    BY <1>5 DEF LinkRead, LinkCheck, LinkLabel, CheckLabel
  <2>2. (LinkRead(c, s) \/ s = "installed") => SameObservation(c)
    BY <1>5, <2>1 DEF TypeOK, LinkRead, LinkCheck, LinkLabel, CheckLabel, Goto, ctlVars,
           histVars, SameObservation
  <2>3. LinkCheck(c, s) /\ s # "installed" => SameObservation(c)
    BY <1>3, <1>5, <2>1 DEF LinkCheck
  <2> QED
    BY <1>5, <2>2, <2>3
<1> QED
  BY <1>1, <1>2, <1>4, <1>5 DEF Scan, ScanError, ScanOmitStructural, Forget

LEMMA NextObservation ==
  ASSUME IInv, [Next]_vars, NEW c \in Client
  PROVE  ScanObserveStaged(c) \/ ScanObserveInstalled(c) \/ Unobserved(c) \/ SameObservation(c)
<1>1. CASE UNCHANGED vars \/ Others
  <2>1. UNCHANGED <<pc, cand, seen>>
    BY <1>1 DEF vars, Others, OtherRemoves, OtherWrites, OtherChmods, OtherPuts,
           OthersLeaveAlone, fsVars, ctlVars, histVars
  <2> QED
    BY <2>1 DEF SameObservation
<1>2. ASSUME NEW d \in Client, d # c,
             Scan(d) \/ Resolve(d) \/ ScanError(d) \/ CallError(d) \/ Crash(d)
      PROVE  SameObservation(c)
  <2>1. Bystander(c)
    BY <1>2, OthersWork DEF IInv
  <2> QED
    BY <2>1 DEF Bystander, SameObservation
<1>3. CASE Scan(c) \/ ScanError(c)
  BY <1>3, ScanObservation DEF IInv
<1>4. CASE Resolve(c) \/ CallError(c)
  <2>1. /\ Holds(c) /\ pc'[c] \in CallLabel \cup {"ready"}
        /\ cand'[c] = cand[c] /\ seen'[c] = seen[c]
    <3>1. ASSUME NEW s \in Side, CompareOpen(c, s) \/ CompareRead(c, s) \/ CompareVerify(c, s)
          PROVE  /\ Holds(c) /\ pc'[c] \in CallLabel \cup {"ready"}
                 /\ cand'[c] = cand[c] /\ seen'[c] = seen[c]
      <4>1. {OpenAt[s], ReadAt[s], VerifyAt[s], OpenAt["staged"]} \subseteq CallLabel
        BY DEF CallLabel, Side
      <4>2. pc[c] \in CallLabel /\ UNCHANGED <<cand, seen>>
        BY <3>1, <4>1 DEF CompareOpen, CompareRead, CompareVerify, Throw, ctlVars, histVars
      <4>3. pc'[c] \in {OpenAt[s], ReadAt[s], VerifyAt[s], OpenAt["staged"], "ready"}
        BY <3>1 DEF IInv, TypeOK, CompareOpen, CompareRead, CompareVerify, Throw, Proceed, Goto
      <4> QED
        BY <4>1, <4>2, <4>3 DEF Holds
    <3> QED
      BY <1>4, <3>1, PlainMoves, CallLabels DEF Resolve
  <2>2. {"idle", "observe_installed"} \cap (CallLabel \cup {"ready"}) = {}
    BY CallLabels DEF Plain
  <2> QED
    BY <2>1, <2>2 DEF SameObservation, Holds
<1>5. CASE Crash(c)
  BY <1>5 DEF IInv, TypeOK, Crash, Idle, Goto, Unobserved
<1> QED
  BY <1>1, <1>2, <1>3, <1>4, <1>5 DEF Next

(* Two links to one inode are both observed, and as that inode.            *)
SeenTwins ==
  Twins => \A c \in Client :
    /\ \A s \in Side : seen[c][s] # NoNode =>
         /\ cand[c][s].inode = entry["staged"]
         /\ cand[c][s].type = node[entry["staged"]].type
    /\ pc[c] \notin {"idle", "observe_installed"} => seen[c]["installed"] # NoNode

(* So a relic is moved only when the names differ.                         *)
LEMMA TwinsMove ==
  ASSUME IInv, Truth, Orderly, SeenTwins, Twins
  PROVE  \A c \in Client : pc[c] = "rename" => call[c].dest = "installed"
<1>1. SUFFICES ASSUME NEW c \in Client, pc[c] = "rename"
               PROVE  call[c].kind # "relocate_relic"
  BY Destinations DEF CallLabel
<1>2. Holds(c) /\ seen[c]["installed"] # NoNode
  BY <1>1 DEF SeenTwins, Holds, CallLabel
<1>3. cand[c]["installed"].type # "missing"
  <2>1. cand[c]["installed"].exists
    BY <1>2, HoldsPair DEF Faithful, Side
  <2> QED
    BY <1>2, <2>1, HoldsPair DEF Side
<1>4. ~Relic(cand[c])
  BY <1>3 DEF Relic, State, ClassifyCandidate
<1>5. Applicable(call[c].kind, cand[c])
  BY <1>1 DEF Orderly, Order, CallLabel, Validating
<1> QED
  BY <1>4, <1>5 DEF Applicable

LEMMA SeenTwinsKept ==
  ASSUME IInv, IInv', Keeping, [Next]_vars, SeenTwins,
         Twins' => Twins /\ entry'["staged"] = entry["staged"]
  PROVE  SeenTwins'
<1> DEFINE i == entry["staged"]
<1> SUFFICES ASSUME Twins', NEW c \in Client
             PROVE  /\ \A s \in Side : seen'[c][s] # NoNode =>
                         /\ cand'[c][s].inode = entry'["staged"]
                         /\ cand'[c][s].type = node'[entry'["staged"]].type
                    /\ pc'[c] \notin {"idle", "observe_installed"}
                         => seen'[c]["installed"] # NoNode
  BY DEF SeenTwins
<1>1. Twins /\ entry'["staged"] = i /\ entry["installed"] = i
  BY DEF Twins
<1>2. i \in Ino /\ i \in Live /\ node[i] \in Node /\ i \in Live' /\ node'[i] # NoNode
  <2>1. i \in Ino /\ i \in Live /\ node[i] \in Node
    BY <1>1, NamedNode DEF IInv, Twins, Slot, Live
  <2>2. i \in Live'
    BY <1>1 DEF Live, Slot
  <2> QED
    BY <2>1, <2>2 DEF IInv, TypeOK
<1>3. node'[i].type = node[i].type
  BY <1>2 DEF Keeping, Kept
<1>4. CASE ScanObserveStaged(c)
  <2>1. /\ pc'[c] = "observe_installed" /\ seen'[c]["installed"] = NoNode
        /\ cand'[c]["staged"] = Sees(c, "staged")
    BY <1>4 DEF IInv, TypeOK, ScanObserveStaged, Goto, NoCandidate
  <2>2. /\ Sees(c, "staged").inode = i /\ Sees(c, "staged").type = node[i].type
    BY <1>2, InoAssumption DEF Sees, Observe
  <2> QED
    BY <1>1, <1>3, <2>1, <2>2 DEF Side
<1>5. CASE ScanObserveInstalled(c)
  <2>1. /\ Sees(c, "installed").inode = i /\ Sees(c, "installed").type = node[i].type
        /\ Sees(c, "installed").exists
    BY <1>1, <1>2, InoAssumption DEF Sees, Observe
  <2>2. /\ cand'[c]["installed"] = Sees(c, "installed")
        /\ cand'[c]["staged"] = cand[c]["staged"]
        /\ seen'[c]["staged"] = seen[c]["staged"]
        /\ seen'[c]["installed"] = node[i]
    BY <1>1, <1>5, <2>1 DEF IInv, TypeOK, ScanObserveInstalled, CandidateRecord, Side
  <2>3. seen[c]["staged"] # NoNode =>
          cand[c]["staged"].inode = i /\ cand[c]["staged"].type = node[i].type
    BY <1>1 DEF SeenTwins, Side
  <2> QED
    BY <1>1, <1>2, <1>3, <2>1, <2>2, <2>3, NodeAssumption DEF Side
<1>6. CASE Unobserved(c)
  BY <1>6 DEF Unobserved, Side
<1>7. CASE SameObservation(c)
  <2>1. \A s \in Side : seen[c][s] # NoNode =>
          cand[c][s].inode = i /\ cand[c][s].type = node[i].type
    BY <1>1 DEF SeenTwins
  <2>2. pc[c] \notin {"idle", "observe_installed"} => seen[c]["installed"] # NoNode
    BY <1>1 DEF SeenTwins
  <2> QED
    BY <1>1, <1>3, <1>7, <2>1, <2>2 DEF SameObservation
<1> QED
  BY <1>4, <1>5, <1>6, <1>7, NextObservation

------------------------------------------------------------------------------
(* One of the two objects is no longer under its name as it was observed.  *)
Dead(c) ==
  \E s \in Side :
    /\ cand[c][s].exists /\ cand[c][s].type # "directory"
    /\ ~ (entry[s] = cand[c][s].inode /\ node[entry[s]].ctime = cand[c][s].ctime)

(* A disposition of anything but a directory has made its candidate stale  *)
(* by the time it returns; install() has when it turns to the metadata,    *)
(* or is about to by changing the inode both names refer to.               *)
Spent(c) ==
  ~OnDirectory(c) =>
    /\ Resolved(c) => Dead(c)
    /\ pc[c] = "chmod" /\ call[c].kind = "install" => Dead(c)
    /\ pc[c] = "chown" /\ call[c].kind = "install" =>
         Dead(c) \/ cand[c]["installed"].type \notin {"directory", "missing"}

Exhausted == \A c \in Client : Spent(c)

LEMMA DeadKept ==
  ASSUME IInv, IInv', Truth, Aging, NEW c \in Client, SameObservation(c), Dead(c)
  PROVE  Dead(c)'
<1>1. PICK s \in Side :
        /\ cand[c][s].exists /\ cand[c][s].type # "directory"
        /\ ~ (entry[s] = cand[c][s].inode /\ node[entry[s]].ctime = cand[c][s].ctime)
  BY DEF Dead
<1>2. cand'[c][s] = cand[c][s] /\ seen'[c][s] = seen[c][s]
  BY DEF SameObservation
<1>3. SUFFICES ASSUME entry'[s] = cand[c][s].inode, node'[entry'[s]].ctime = cand[c][s].ctime
               PROVE  FALSE
  BY <1>1, <1>2 DEF Dead
<1>4. Faithful(c, s) /\ seen[c][s] # NoNode
  BY <1>1 DEF Truth, Informed, Faithful, Missing
<1>5. /\ cand[c][s].inode \in Ino /\ seen[c][s].ctime \in Nat /\ seen[c][s].ctime <= clock
      /\ cand[c][s].ctime = seen[c][s].ctime
  BY <1>4 DEF Faithful, IInv, TypeOK, Node
<1>6. entry'[s] = entry[s]
  <2>1. entry'[s] # NoIno
    BY <1>3, <1>5, InoAssumption
  <2>2. entry'[s] \notin {entry[s], NoIno} => clock < clock' /\ node'[entry'[s]].ctime = clock'
    BY DEF Aging, Side, Slot
  <2> QED
    BY <1>3, <1>5, <2>1, <2>2 DEF Aging, IInv, TypeOK
<1>7. node'[cand[c][s].inode] # NoNode
  BY <1>3, <1>5, InoAssumption DEF IInv, TypeOK, Live, Side, Slot
<1>8. Still(c, s)'
  BY <1>2, <1>3, <1>5, <1>7 DEF Still
<1>9. node'[cand[c][s].inode] = node[cand[c][s].inode]
  BY <1>2, <1>4, <1>8, StillKept DEF IInv
<1> QED
  BY <1>1, <1>3, <1>6, <1>9

(* A name that is gone, or whose object changed, makes a candidate dead.   *)
LEMMA DeadNow ==
  ASSUME IInv, IInv', Truth, Aging, NEW c \in Client, NEW s \in Side, SameObservation(c),
         Holds(c), cand[c][s].type \notin {"directory", "missing"},
         entry'[s] = NoIno \/ (clock < clock' /\ node'[entry'[s]].ctime = clock')
  PROVE  Dead(c)'
<1>1. cand[c][s].exists /\ Faithful(c, s)
  BY HoldsPair
<1>2. /\ cand[c][s].inode \in Ino /\ seen[c][s].ctime \in Nat /\ seen[c][s].ctime <= clock
      /\ cand[c][s].ctime = seen[c][s].ctime
  BY <1>1 DEF Faithful, Missing, IInv, TypeOK, Node
<1>3. cand'[c][s] = cand[c][s]
  BY DEF SameObservation
<1>4. ~ (entry'[s] = cand[c][s].inode /\ node'[entry'[s]].ctime = cand[c][s].ctime)
  BY <1>2, InoAssumption DEF Aging, IInv, TypeOK
<1> QED
  BY <1>1, <1>3, <1>4 DEF Dead

LEMMA SpentKept ==
  ASSUME IInv, IInv', Truth, Aging, NEW c \in Client, Spent(c), Spectator(c)
  PROVE  Spent(c)'
<1>1. SameObservation(c)
  BY DEF Spectator, Bystander, SameObservation
<1>2. Dead(c) => Dead(c)'
  BY <1>1, DeadKept
<1>3. /\ cand'[c] = cand[c] /\ pc'[c] = pc[c] /\ call'[c] = call[c] /\ result'[c] = result[c]
  BY DEF Spectator, Bystander
<1>4. (OnDirectory(c)' <=> OnDirectory(c)) /\ (Resolved(c)' <=> Resolved(c))
  BY <1>3 DEF OnDirectory, Resolved
<1> QED
  BY <1>2, <1>3, <1>4 DEF Spent

(* The staged object as a disposition finds it.                            *)
LEMMA StagedHeld ==
  ASSUME IInv, Truth, NEW c \in Client, Holds(c)
  PROVE  cand[c]["staged"].exists /\ cand[c]["staged"].type # "missing"
<1>1. Faithful(c, "staged") /\ seen[c]["staged"] # NoNode
  BY HoldsPair DEF Side
<1> QED
  BY <1>1, HoldsPair DEF Faithful, Side

(* A disposition on a file that cannot remove the staged object throws.    *)
LEMMA FileRetires ==
  ASSUME NEW c \in Client, ~OnDirectory(c), ~Throw(c),
         RetireUnlinks(c) \/ RetireFindsNothing(c) \/ RetireFindsChildren(c)
  PROVE  RetireUnlinks(c)
BY DEF RetireFindsNothing, RetireFindsChildren

(* A scan, a failure and a death resolve nothing.                          *)
LEMMA NothingResolved ==
  ASSUME IInv, NEW c \in Client, Order(c), Scan(c) \/ ScanError(c) \/ Crash(c) \/ Throw(c)
  PROVE  ~Resolved(c)' /\ pc'[c] \notin {"chown", "chmod"}
<1> USE DEF Goto, Idle, ctlVars, histVars, fsVars
<1>1. CASE AbortScan(c) \/ Crash(c) \/ Throw(c)
  BY <1>1 DEF IInv, TypeOK, AbortScan, Crash, Throw, Resolved
<1>2. CASE Scan(c) /\ ~AbortScan(c)
  <2>1. ScanObserveStaged(c) => pc'[c] = "observe_installed"
    BY DEF IInv, TypeOK, ScanObserveStaged
  <2>2. ~ScanObserveStaged(c) => pc[c] \in ScanLabel /\ result'[c] = result[c]
    BY <1>2 DEF Scan, ScanOmitStructural, ScanObserveInstalled, InspectOpen,
           InspectReadInstalled, InspectReadStaged, InspectRecheck, LinkRead, LinkCheck,
           LinkLabel, CheckLabel, Forget, ScanReturns, ScanLabel, Side
  <2>3. pc'[c] \notin {"chown", "chmod"}
    BY <1>2 DEF IInv, TypeOK, Scan, ScanObserveStaged, ScanOmitStructural,
           ScanObserveInstalled, ScanNext, InspectOpen, InspectReadInstalled,
           InspectReadStaged, InspectRecheck, LinkRead, LinkCheck, LinkLabel, CheckLabel,
           Forget, ScanReturns
  <2>4. ~Resolved(c)'
    BY <2>1, <2>2 DEF Resolved, Order
  <2> QED
    BY <2>3, <2>4
<1> QED
  BY <1>1, <1>2 DEF ScanError

(* Nor do these steps of a disposition.                                    *)
LEMMA StillUnresolved ==
  ASSUME IInv, Orderly, NEW c \in Client,
         \/ \E d \in Calls : Begin(c, d)
         \/ ValidateInstalled(c) \/ ValidateStaged(c)
         \/ RenameCrossDevice(c) \/ CopyOpen(c) \/ CopyBlock(c)
         \/ WriteMerged(c) \/ Seal(c) \/ Publish(c)
         \/ \E s \in Side : CompareOpen(c, s) \/ CompareRead(c, s) \/ CompareVerify(c, s)
         \/ CallError(c)
  PROVE  /\ ~Resolved(c)' /\ pc'[c] # "chmod"
         /\ pc'[c] = "chown" /\ call'[c].kind = "install" => OnDirectory(c)'
<1> USE DEF Goto, Proceed, ctlVars, histVars, fsVars
<1>1. CASE Throw(c)
  BY <1>1, NothingResolved DEF Orderly
<1>2. CASE ~Throw(c) /\ ValidateStaged(c)
  <2>1. pc'[c] = FirstStep(call[c], cand[c]) /\ cand' = cand /\ call' = call
    BY <1>2 DEF ValidateStaged, IInv, TypeOK
  <2>2. pc'[c] \notin {"ready", "chmod"}
    BY <2>1, LabelOf DEF FirstStep
  <2>3. pc'[c] = "chown" /\ call[c].kind = "install" => OnDirectory(c)
    BY <2>1 DEF FirstStep, OnDirectory
  <2> QED
    BY <2>1, <2>2, <2>3 DEF Resolved, OnDirectory
<1>3. CASE /\ ~Throw(c)
           /\ \/ \E d \in Calls : Begin(c, d)
              \/ ValidateInstalled(c) \/ RenameCrossDevice(c) \/ CopyOpen(c) \/ CopyBlock(c)
              \/ WriteMerged(c) \/ Seal(c) \/ Publish(c)
  <2>1. pc'[c] \in {"validate_installed", "validate_staged", "copy_open", "copy_block", "seal",
                    "publish", "retire"}
    BY <1>3 DEF IInv, TypeOK, Begin, ValidateInstalled, RenameCrossDevice, CopyOpen, CopyBlock,
           WriteMerged, Seal, Publish
  <2> QED
    BY <2>1 DEF Resolved
<1>4. ASSUME NEW s \in Side, ~Throw(c),
             CompareOpen(c, s) \/ CompareRead(c, s) \/ CompareVerify(c, s)
      PROVE  ~Resolved(c)' /\ pc'[c] \notin {"chown", "chmod"}
  <2>1. {OpenAt[s], ReadAt[s], VerifyAt[s], OpenAt["staged"]} \subseteq Comparing
    BY LabelOf DEF Comparing, Side
  <2>2. /\ pc[c] \in Comparing /\ pc'[c] \in Comparing \cup {"ready"} /\ call' = call
    BY <1>4, <2>1 DEF IInv, TypeOK, CompareOpen, CompareRead, CompareVerify
  <2>3. call'[c].kind = "compare_text"
    BY <2>2 DEF Orderly, Order
  <2> QED
    BY <2>2, <2>3 DEF Resolved, Comparing
<1> QED
  BY <1>1, <1>2, <1>3, <1>4 DEF CallError

LEMMA SpentRetire ==
  ASSUME IInv, IInv', Truth, Aging, NEW c \in Client, ~Throw(c), SameObservation(c),
         RetireUnlinks(c) \/ RetireFindsNothing(c) \/ RetireFindsChildren(c)
  PROVE  Spent(c)'
<1>1. CASE OnDirectory(c)
  BY <1>1 DEF SameObservation, OnDirectory, Spent, Side
<1>2. CASE ~OnDirectory(c)
  <2>1. RetireUnlinks(c) /\ Holds(c)
    BY <1>2, FileRetires DEF RetireUnlinks, Holds, CallLabel
  <2>2. entry'["staged"] = NoIno
    BY <2>1 DEF RetireUnlinks, IInv, TypeOK, Slot
  <2>3. Dead(c)'
    BY <1>2, <2>1, <2>2, DeadNow, StagedHeld DEF OnDirectory, Side
  <2> QED
    BY <2>3 DEF Spent
<1> QED
  BY <1>1, <1>2

LEMMA SpentRename ==
  ASSUME IInv, IInv', Truth, Aging, Orderly, SeenTwins, NEW c \in Client, ~Throw(c),
         SameObservation(c), Rename(c)
  PROVE  Spent(c)'
<1> DEFINE i == entry["staged"]
           dest == call[c].dest
<1>1. /\ Holds(c) /\ pc[c] \in CallLabel /\ pc[c] = "rename" /\ i # NoIno
      /\ entry' = Renamed("staged", dest, i) /\ ~Refuses(c, i) /\ call' = call
  BY DEF Rename, Holds, CallLabel
<1>2. dest \in Slot \ {"staged"}
  BY <1>1, Destinations
<1>3. CASE OnDirectory(c)
  BY <1>3 DEF SameObservation, OnDirectory, Spent, Side
<1>4. CASE ~OnDirectory(c) /\ entry[dest] # i
  <2>1. entry'["staged"] = NoIno
    BY <1>1, <1>2, <1>4 DEF Renamed, IInv, TypeOK, Slot
  <2>2. Dead(c)'
    BY <1>1, <1>4, <2>1, DeadNow, StagedHeld DEF OnDirectory, Side
  <2> QED
    BY <2>2 DEF Spent
<1>5. CASE ~OnDirectory(c) /\ entry[dest] = i
  <2>1. call[c].kind = "install" /\ dest = "installed"
    <3>1. call[c].kind \in Moving /\ Replaces(call[c].kind)
      BY <1>1, <1>5 DEF Orderly, Order, Refuses
    <3> QED
      BY <1>1, <3>1, Destinations DEF Moving, Replaces
  <2>2. Twins
    BY <1>1, <1>5, <2>1 DEF Twins
  <2>3. /\ seen[c]["installed"] # NoNode /\ seen[c]["staged"] # NoNode
    BY <1>1, <2>2, HoldsPair DEF SeenTwins
  <2>4. cand[c]["installed"].type = cand[c]["staged"].type
    BY <2>2, <2>3 DEF SeenTwins, Side
  <2>5. cand[c]["installed"].type \notin {"directory", "missing"}
    BY <1>1, <1>5, <2>4, StagedHeld DEF OnDirectory
  <2>6. pc'[c] = "chown" /\ cand'[c]["installed"] = cand[c]["installed"]
    BY <1>1, <2>1 DEF Rename, Proceed, Goto, IInv, TypeOK, SameObservation, Side
  <2> QED
    BY <2>5, <2>6 DEF Spent, Resolved
<1> QED
  BY <1>3, <1>4, <1>5

LEMMA SpentMetadata ==
  ASSUME IInv, IInv', ~CoarseClock, Truth, Aging, Orderly, NEW c \in Client, ~Throw(c),
         SameObservation(c), Spent(c), Chown(c) \/ Chmod(c)
  PROVE  Spent(c)'
<1> DEFINE i == entry["installed"]
<1>1. /\ Holds(c) /\ i # NoIno /\ call' = call /\ entry' = entry
      /\ call[c].kind \in {"keep", "install"}
  BY DEF Chown, Chmod, Holds, CallLabel, Orderly, Order
<1>2. i \in Ino /\ node[i] \in Node /\ node'[i] # NoNode
  BY <1>1, NamedNode DEF IInv, TypeOK, Live, Slot
<1>3. CASE OnDirectory(c) \/ call[c].kind = "keep"
  <2>1. call[c].kind = "keep" => pc'[c] \in {"chmod", "retire"}
    BY DEF Chown, Chmod, Proceed, Goto, AfterMetadata, IInv, TypeOK
  <2> QED
    BY <1>1, <1>3, <2>1 DEF SameObservation, OnDirectory, Spent, Resolved, Side
<1>4. CASE ~OnDirectory(c) /\ call[c].kind = "install"
  <2>1. Dead(c) => Dead(c)'
    BY DeadKept
  <2>2. CASE Chmod(c)
    <3>1. Dead(c)
      BY <1>4, <2>2 DEF Chmod, Spent
    <3> QED
      BY <2>1, <3>1 DEF Spent
  <2>3. CASE Chown(c) /\ ~Dead(c)
    <3>1. cand[c]["installed"].type \notin {"directory", "missing"}
      BY <1>4, <2>3 DEF Chown, Spent
    <3>2. PICK t \in Now : Change(i, Chowned(node[i], Selected(c).owner), t)
      BY <1>1, <2>3 DEF Chown
    <3>3. clock' = t /\ clock < clock' /\ t \in Nat
      BY <3>2, SharpNow DEF Change, IInv
    <3> DEFINE nd == [node EXCEPT ![i] = Chowned(node[i], Selected(c).owner)]
    <3>4. nd[i] \in Node
      BY <1>2, SelectedType, ModeAssumption DEF IInv, TypeOK, Chowned, Node
    <3>5. node'[i] = Touch(nd, {i}, t)[i]
      BY <1>2, <3>2 DEF Change, Settle
    <3>6. node'[i].ctime = t
      BY <1>2, <3>4, <3>5, NodeAssumption DEF Touch, Node
    <3> QED
      BY <1>1, <3>1, <3>3, <3>6, DeadNow DEF Spent, Side
  <2> QED
    BY <2>1, <2>2, <2>3 DEF Spent
<1> QED
  BY <1>1, <1>3, <1>4

LEMMA SpentResolve ==
  ASSUME IInv, IInv', ~CoarseClock, Truth, Aging, Orderly, SeenTwins,
         NEW c \in Client, Spent(c), Resolve(c) \/ CallError(c)
  PROVE  Spent(c)'
<1>1. CASE Throw(c)
  BY <1>1, NothingResolved DEF Orderly, Spent
<1>2. CASE ~Throw(c) /\ (Chown(c) \/ Chmod(c) \/ Rename(c)
                          \/ RetireUnlinks(c) \/ RetireFindsNothing(c) \/ RetireFindsChildren(c))
  <2>1. Holds(c) /\ pc'[c] \in Plain /\ cand'[c] = cand[c] /\ seen'[c] = seen[c]
    BY <1>2, PlainMoves
  <2>2. SameObservation(c)
    BY <2>1, CallLabels DEF SameObservation, Holds, Plain
  <2> QED
    BY <1>2, <2>2, SpentMetadata, SpentRename, SpentRetire
<1> QED
  BY <1>1, <1>2, StillUnresolved DEF Resolve, CallError, Spent

LEMMA NextExhausted ==
  ASSUME IInv, IInv', ~CoarseClock, Truth, Orderly, SeenTwins, Exhausted, [Next]_vars
  PROVE  Exhausted'
<1>1. Aging
  BY NextAges
<1>2. SUFFICES ASSUME NEW c \in Client, Spent(c)
               PROVE  Spent(c)'
  BY DEF Exhausted
<1>3. CASE UNCHANGED vars \/ Others
  <2>1. Spectator(c)
    BY <1>3 DEF vars, Others, OtherRemoves, OtherWrites, OtherChmods, OtherPuts,
           OthersLeaveAlone, fsVars, ctlVars, histVars, Bystander, Spectator
  <2> QED
    BY <1>1, <1>2, <2>1, SpentKept
<1>4. ASSUME NEW d \in Client, d # c,
             Scan(d) \/ Resolve(d) \/ ScanError(d) \/ CallError(d) \/ Crash(d)
      PROVE  Spent(c)'
  BY <1>1, <1>2, <1>4, OthersKeep, SpentKept DEF IInv
<1>5. CASE Scan(c) \/ ScanError(c) \/ Crash(c)
  BY <1>5, NothingResolved DEF Orderly, Spent
<1>6. CASE Resolve(c) \/ CallError(c)
  BY <1>1, <1>2, <1>6, SpentResolve
<1> QED
  BY <1>3, <1>4, <1>5, <1>6 DEF Next

(* The invariant behind the staleness of what was resolved.                *)
Distinct == Separate /\ Names /\ SeenTwins

LEMMA InitDistinct ==
  ASSUME Init
  PROVE  Distinct /\ Exhausted
BY NodeAssumption
DEF Init, Distinct, Separate, Names, SeenTwins, Exhausted, Spent, Resolved

LEMMA NextDistinct ==
  ASSUME IInv, IInv', Truth, Orderly, Distinct, [Next]_vars
  PROVE  Distinct'
<1>1. Naming /\ Keeping
  BY NextNaming, NextKeeps DEF IInv
<1>2. Separate'
  BY <1>1, SeparateKept DEF Distinct
<1>3. Names' /\ (Twins' => Twins /\ entry'["staged"] = entry["staged"])
  BY <1>1, NamesKept, TwinsMove DEF Distinct
<1>4. SeenTwins'
  BY <1>1, <1>3, SeenTwinsKept DEF Distinct
<1> QED
  BY <1>2, <1>3, <1>4 DEF Distinct

(* Once a disposition has changed a name, the fingerprint that led to the  *)
(* change never matches again: the invariant behind the next theorem.      *)
(* (candidate_access::fingerprint_matches)                                 *)
THEOREM Staleness ==
  ASSUME ~CoarseClock
  PROVE  Spec => [](IInv /\ Truth /\ Orderly /\ Distinct /\ Exhausted)
<1>1. Init => Distinct /\ Exhausted
  BY InitDistinct
<1>2. ASSUME IInv, Truth, Orderly, Distinct, Exhausted, IInv', [Next]_vars
      PROVE  (Distinct /\ Exhausted)'
  <2>1. SeenTwins
    BY <1>2 DEF Distinct
  <2> QED
    BY <1>2, <2>1, NextDistinct, NextExhausted
<1>3. Spec => [](IInv /\ Truth)
  BY Observations
<1>4. Spec => [](IInv /\ Orderly)
  BY Ordered
<1> QED
  BY <1>1, <1>2, <1>3, <1>4, PTL DEF Spec

(* README.md: the checks reject replayed decisions.  A disposition of      *)
(* anything but a directory that returned leaves its candidate stale,      *)
(* whatever the other clients and processes do meanwhile.                  *)
(* (candidate_access::fingerprint_matches)                                 *)
THEOREM ResolvedStale ==
  ASSUME ~CoarseClock
  PROVE  Spec => []ResolvedFileIsStale
<1>1. ASSUME IInv, Truth, Exhausted
      PROVE  ResolvedFileIsStale
  <2>1. SUFFICES ASSUME NEW c \in Client, Resolved(c), ~OnDirectory(c), Fresh(c)
                 PROVE  FALSE
    BY DEF ResolvedFileIsStale
  <2>2. PICK s \in Side :
          /\ cand[c][s].exists /\ cand[c][s].type # "directory"
          /\ ~ (entry[s] = cand[c][s].inode /\ node[entry[s]].ctime = cand[c][s].ctime)
    BY <1>1, <2>1 DEF Exhausted, Spent, Dead
  <2>3. Sees(c, s).exists /\ cand[c][s].inode = Sees(c, s).inode
        /\ cand[c][s].ctime = Sees(c, s).ctime
    BY <2>1, <2>2, SeesType DEF Fresh, FingerprintMatches, IInv, TypeOK, CandidateRecord,
       Fingerprint, Side
  <2> QED
    BY <2>2, <2>3 DEF Sees, Observe, Missing
<1> QED
  BY <1>1, Staleness, PTL

------------------------------------------------------------------------------
(* Client c has taken the staged object: it was told so, or it is on the   *)
(* way to the metadata after the rename or the copy.                       *)
Consumed(c) ==
  /\ ~OnDirectory(c)
  /\ \/ Resolved(c)
     \/ pc[c] \in {"chown", "chmod"} /\ call[c].kind = "install"

(* The staged name is gone once it was taken, and one client took it.      *)
Winning ==
  \A c \in Client : Consumed(c) =>
    /\ entry["staged"] = NoIno
    /\ \A d \in Client \ {c} : ~Consumed(d)

(* No two names share an inode.                                            *)
NoLinks == \A s, r \in Slot : s # r /\ entry[s] = entry[r] => entry[s] = NoIno

LEMMA StagedNeverReturns ==
  ASSUME IInv, Orderly, Naming, "put" \notin Interference
  PROVE  entry'["staged"] \in {entry["staged"], NoIno}
<1>1. ASSUME NEW c \in Client, Moves(c) \/ Publishes(c)
      PROVE  entry'["staged"] \in {entry["staged"], NoIno}
  <2>1. call[c].dest \in Slot \ {"staged"}
    BY <1>1, Destinations DEF Moves, Publishes, CallLabel
  <2> QED
    BY <1>1, <2>1 DEF Moves, Publishes, Renamed, IInv, TypeOK, Slot
<1> QED
  BY <1>1 DEF Naming, Unlinks, Disturbs, IInv, TypeOK, Slot

LEMMA ConsumedKept ==
  ASSUME NEW c \in Client, Spectator(c)
  PROVE  Consumed(c)' <=> Consumed(c)
BY DEF Spectator, Bystander, Consumed, OnDirectory, Resolved

(* A client takes the staged object by removing its name.                  *)
LEMMA ConsumedNow ==
  ASSUME IInv, Orderly, NoLinks, NEW c \in Client,
         Scan(c) \/ Resolve(c) \/ ScanError(c) \/ CallError(c) \/ Crash(c),
         Consumed(c)', ~Consumed(c)
  PROVE  entry["staged"] # NoIno /\ entry'["staged"] = NoIno
<1> USE DEF Goto, Proceed
<1>1. ~ (Scan(c) \/ ScanError(c) \/ Crash(c) \/ Throw(c) \/ CallError(c))
  BY NothingResolved, StillUnresolved DEF Consumed, Orderly
<1>2. /\ ~Throw(c)
      /\ \/ Chown(c) \/ Chmod(c) \/ Rename(c)
         \/ RetireUnlinks(c) \/ RetireFindsNothing(c) \/ RetireFindsChildren(c)
  BY <1>1, StillUnresolved DEF Consumed, Resolve
<1>3. ~OnDirectory(c) /\ call' = call
  BY <1>2, PlainMoves DEF Consumed, OnDirectory, Chown, Chmod, Rename, RetireUnlinks,
     RetireFindsNothing, RetireFindsChildren, ctlVars
<1>4. ~Chown(c) /\ ~Chmod(c)
  <2>1. SUFFICES ASSUME Chown(c) \/ Chmod(c)
                 PROVE  FALSE
    OBVIOUS
  <2>2. call[c].kind = "keep"
    BY <1>3, <2>1 DEF Chown, Chmod, Consumed, Orderly, Order
  <2>3. pc'[c] \in {"chmod", "retire"}
    BY <1>2, <2>1, <2>2 DEF Chown, Chmod, AfterMetadata, IInv, TypeOK
  <2> QED
    BY <1>3, <2>2, <2>3 DEF Consumed, Resolved
<1>5. CASE Rename(c)
  <2>1. call[c].dest \in Slot \ {"staged"} /\ entry["staged"] # NoIno
    BY <1>2, <1>5, Destinations DEF Rename, CallLabel
  <2>2. entry[call[c].dest] # entry["staged"]
    BY <2>1 DEF NoLinks, Slot
  <2> QED
    BY <1>2, <1>5, <2>1, <2>2 DEF Rename, Renamed, IInv, TypeOK, Slot
<1>6. CASE ~Rename(c)
  <2>1. RetireUnlinks(c)
    BY <1>2, <1>3, <1>4, <1>6, FileRetires
  <2> QED
    BY <2>1 DEF RetireUnlinks, IInv, TypeOK, Slot
<1> QED
  BY <1>5, <1>6

LEMMA NextWinning ==
  ASSUME IInv, Orderly, NoLinks, Winning, "put" \notin Interference, [Next]_vars
  PROVE  Winning'
<1>1. entry["staged"] = NoIno => entry'["staged"] = NoIno
  BY NextNaming, StagedNeverReturns DEF IInv
<1>2. CASE UNCHANGED vars \/ Others
  <2>1. \A c \in Client : Spectator(c)
    BY <1>2 DEF vars, Others, OtherRemoves, OtherWrites, OtherChmods, OtherPuts,
           OthersLeaveAlone, fsVars, ctlVars, histVars, Bystander, Spectator
  <2>2. \A c \in Client : Consumed(c)' <=> Consumed(c)
    BY <2>1, ConsumedKept
  <2> QED
    BY <1>1, <2>2 DEF Winning
<1>3. ASSUME NEW c \in Client,
             Scan(c) \/ Resolve(c) \/ ScanError(c) \/ CallError(c) \/ Crash(c)
      PROVE  Winning'
  <2>1. \A d \in Client \ {c} : Consumed(d)' <=> Consumed(d)
    BY <1>3, OthersKeep, ConsumedKept DEF IInv
  <2>2. CASE Consumed(c)' /\ ~Consumed(c)
    <3>1. entry["staged"] # NoIno /\ entry'["staged"] = NoIno
      BY <1>3, <2>2, ConsumedNow
    <3>2. \A d \in Client : ~Consumed(d)
      BY <3>1 DEF Winning
    <3> QED
      BY <2>1, <3>1, <3>2 DEF Winning
  <2>3. CASE Consumed(c)' => Consumed(c)
    BY <1>1, <2>1, <2>3 DEF Winning
  <2> QED
    BY <2>2, <2>3
<1> QED
  BY <1>2, <1>3 DEF Next

LEMMA NextNoLinks ==
  ASSUME IInv, Orderly, Separate, NoLinks, [Next]_vars
  PROVE  (Separate /\ NoLinks)'
<1>1. Naming /\ Separate'
  BY NextNaming, SeparateKept DEF IInv
<1>2. Names /\ ~Twins
  BY DEF Names, NoLinks, Twins, Slot
<1>3. Names' /\ ~Twins'
  BY <1>1, <1>2, NamesKept
<1>4. NoLinks'
  BY <1>3 DEF Names, NoLinks, Twins, Side, Slot
<1> QED
  BY <1>1, <1>4

(* Of the clients that resolve the same staged file at the same time at    *)
(* most one is told that it did, whatever fails or dies, while nothing new *)
(* is staged under the name.  (remove_one: "path disappeared", rename)     *)
THEOREM OneWinner ==
  ASSUME "put" \notin Interference, ~HardLinked
  PROVE  Spec => []AtMostOneWinner
<1>1. Init => Separate /\ NoLinks /\ Winning
  BY DEF Init, Separate, NoLinks, Winning, Consumed, Resolved
<1>2. ASSUME IInv, Orderly, Separate, NoLinks, Winning, [Next]_vars
      PROVE  (Separate /\ NoLinks /\ Winning)'
  BY <1>2, NextNoLinks, NextWinning
<1>3. Spec => [](IInv /\ Orderly)
  BY Ordered
<1>4. Winning => AtMostOneWinner
  BY DEF Winning, AtMostOneWinner, Consumed
<1> QED
  BY <1>1, <1>2, <1>3, <1>4, PTL DEF Spec
==============================================================================
