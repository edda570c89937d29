--------------------------- MODULE RefinementProofs ---------------------------
(***************************************************************************)
(* The calls of a client that is left alone implement Disposition, step by *)
(* step.                                                                   *)
(***************************************************************************)
EXTENDS DeliveryProofs, ReconcilerRefinement

(* scan() leaves out a staged directory without a counterpart.             *)
Counterpart(c) ==
  pc[c] \notin {"idle", "observe_installed"} /\ OnDirectory(c) =>
    cand[c]["installed"].type # "missing"

(* Every symbolic link has the same mode.                                  *)
LinkModes == \A i \in Ino : node[i] # NoNode /\ node[i].type = "symlink" => node[i].mode = LinkMode

------------------------------------------------------------------------------
LEMMA CounterpartKept ==
  ASSUME IInv, [Next]_vars, NEW c \in Client, Counterpart(c)
  PROVE  Counterpart(c)'
<1>1. CASE ScanObserveStaged(c)
  BY <1>1 DEF ScanObserveStaged, Goto, IInv, TypeOK, Counterpart
<1>2. CASE ScanObserveInstalled(c)
  BY <1>2 DEF ScanObserveInstalled, IInv, TypeOK, Counterpart, OnDirectory
<1>3. CASE Unobserved(c)
  BY <1>3 DEF Unobserved, Counterpart
<1>4. CASE SameObservation(c)
  BY <1>4 DEF SameObservation, Counterpart, OnDirectory, Side
<1> QED
  BY <1>1, <1>2, <1>3, <1>4, NextObservation

LEMMA RelinkModes ==
  ASSUME TypeOK, LinkModes,
         \/ UNCHANGED node \/ Settle(node)
         \/ \E t \in Now, touched \in SUBSET (Ino \cup {NoIno}) : Settle(Touch(node, touched, t))
  PROVE  LinkModes'
<1>1. SUFFICES ASSUME NEW i \in Ino, node'[i] # NoNode, node'[i].type = "symlink"
               PROVE  node'[i].mode = LinkMode
  BY DEF LinkModes
<1>2. Alike(i)
  BY <1>1, RelinkAlike DEF TypeOK
<1>3. node[i] # NoNode
  BY <1>1 DEF Settle, Touch
<1> QED
  BY <1>1, <1>2, <1>3 DEF Alike, LinkModes

LEMMA ChangeModes ==
  ASSUME TypeOK, LinkModes, NEW i \in Ino, NEW n \in Node, NEW t, Change(i, n, t),
         n.type = "symlink" => n.mode = LinkMode
  PROVE  LinkModes'
<1>1. SUFFICES ASSUME NEW j \in Ino, node'[j] # NoNode, node'[j].type = "symlink"
               PROVE  node'[j].mode = LinkMode
  BY DEF LinkModes
<1>2. node \in [Ino -> Node \cup {NoNode}]
  BY DEF TypeOK
<1>3. CASE j = i
  <2>1. node'[i] = [n EXCEPT !.ctime = t]
    BY <1>1, <1>2, <1>3, ChangeResult
  <2> QED
    BY <1>1, <1>3, <2>1 DEF Node
<1>4. CASE j # i
  BY <1>1, <1>2, <1>4, ChangeElsewhere DEF LinkModes
<1> QED
  BY <1>3, <1>4

(* Steps that look and do not touch.                                       *)
LEMMA QuietSteps ==
  ASSUME NEW c \in Client,
         \/ Scan(c) \/ ScanError(c) \/ CallError(c) \/ Crash(c) \/ Throw(c)
         \/ \E d \in Calls : Begin(c, d)
         \/ ValidateInstalled(c) \/ ValidateStaged(c) \/ RenameCrossDevice(c)
         \/ \E s \in Side : CompareOpen(c, s) \/ CompareRead(c, s) \/ CompareVerify(c, s)
  PROVE  entry' = entry /\ (Settle(node) \/ UNCHANGED node)
BY DEF Scan, ScanError, CallError, Crash, ScanObserveStaged, ScanOmitStructural,
   ScanObserveInstalled, InspectOpen, InspectReadInstalled, InspectReadStaged,
   InspectRecheck, LinkRead, LinkCheck, Forget, AbortScan, ScanReturns, Throw, fsVars, Idle,
   Begin, ValidateInstalled, ValidateStaged, RenameCrossDevice, CompareOpen, CompareRead,
   CompareVerify

LEMMA CreateModes ==
  ASSUME TypeOK, LinkModes, NEW c \in Client, NEW i \in Unused, NEW type \in NodeType,
         NEW data \in Data, CreateTemporary(c, i, type, data)
  PROVE  LinkModes'
<1> DEFINE n(t) == [type |-> type, data |-> data, owner |-> ZeroOwner, ctime |-> t,
                    mode |-> IF type = "symlink" THEN LinkMode ELSE ZeroMode]
<1>1. PICK t \in Now : Change(i, n(t), t)
  BY DEF CreateTemporary
<1>2. n(t) \in Node /\ (n(t).type = "symlink" => n(t).mode = LinkMode)
  BY NowType, OwnerAssumption, ModeAssumption DEF TypeOK, Node
<1> HIDE DEF n
<1> QED
  BY <1>1, <1>2, ChangeModes DEF Unused

LEMMA MetadataModes ==
  ASSUME IInv, LinkModes, NEW c \in Client, ~Throw(c), Chown(c) \/ Chmod(c)
  PROVE  LinkModes'
<1> DEFINE i == entry["installed"]
<1>1. i \in Ino /\ node[i] \in Node /\ node[i] # NoNode
  BY NamedNode, NodeAssumption DEF Chown, Chmod, IInv, Slot
<1>2. Selected(c).owner \in Owner /\ Selected(c).mode \in Mode
  BY SelectedType DEF IInv
<1>3. CASE Chown(c)
  <2> DEFINE n == Chowned(node[i], Selected(c).owner)
  <2>1. PICK t \in Now : Change(i, n, t)
    BY <1>3 DEF Chown
  <2>2. n \in Node /\ (n.type = "symlink" => n.mode = LinkMode)
    BY <1>1, <1>2, ModeAssumption DEF Chowned, Node, LinkModes
  <2> HIDE DEF n
  <2> QED
    BY <1>1, <2>1, <2>2, ChangeModes DEF IInv
<1>4. CASE Chmod(c) /\ node[i].type # "symlink"
  <2> DEFINE n == [node[i] EXCEPT !.mode = Selected(c).mode]
  <2>1. PICK t \in Now : Change(i, n, t)
    BY <1>4 DEF Chmod
  <2>2. n \in Node /\ n.type # "symlink"
    BY <1>1, <1>2, <1>4 DEF Node
  <2> HIDE DEF n
  <2> QED
    BY <1>1, <2>1, <2>2, ChangeModes DEF IInv
<1>5. CASE Chmod(c) /\ node[i].type = "symlink"
  <2>1. UNCHANGED node
    BY <1>5 DEF Chmod
  <2> QED
    BY <2>1, RelinkModes DEF IInv
<1> QED
  BY <1>3, <1>4, <1>5

LEMMA CopyModes ==
  ASSUME IInv, LinkModes, NEW c \in Client, ~Throw(c),
         CopyOpen(c) \/ CopyBlock(c) \/ WriteMerged(c) \/ Seal(c)
  PROVE  LinkModes'
<1>1. CASE CopyOpen(c)
  <2>1. PICK i \in Unused :
          \/ CreateTemporary(c, i, "regular", Blank)
          \/ CreateTemporary(c, i, "symlink", node[entry["staged"]].data)
    BY <1>1 DEF CopyOpen
  <2>2. entry["staged"] # NoIno
    BY <1>1 DEF CopyOpen
  <2>3. node[entry["staged"]].data \in Data /\ Blank \in Data
    BY <2>2, NamedNode, BlankType DEF IInv, Slot, Node
  <2> QED
    BY <2>1, <2>3, CreateModes DEF IInv, NodeType
<1>2. CASE WriteMerged(c)
  <2>1. call[c].bytes \in Data
    BY DEF IInv, TypeOK, Disposition
  <2> QED
    BY <1>2, <2>1, CreateModes DEF IInv, WriteMerged, NodeType
<1>3. CASE CopyBlock(c)
  <2>1. fd[c]["staged"] # NoIno /\ tmp[c] # NoIno /\ got[c].blocks + 1 \in Block
    BY <1>3, BlockFacts DEF IInv, TypeOK, Control, CopyBlock, StagedOpen, MoreToRead, Block
  <2>2. /\ node[fd[c]["staged"]].data \in Data
        /\ tmp[c] \in Ino /\ node[tmp[c]] \in Node /\ node[tmp[c]] # NoNode
    BY <2>1, OpenNode, TemporaryNode, NodeAssumption DEF IInv, Side, Node
  <2> DEFINE d == [node[tmp[c]].data EXCEPT
                     ![got[c].blocks + 1] = node[fd[c].staged].data[got[c].blocks + 1]]
             n == [node[tmp[c]] EXCEPT !.data = d]
  <2>3. d \in Data
    BY <2>1, <2>2 DEF Node, Data
  <2>4. PICK t \in Now : Change(tmp[c], n, t)
    BY <1>3 DEF CopyBlock
  <2> HIDE DEF d
  <2>5. n \in Node /\ (n.type = "symlink" => n.mode = LinkMode)
    BY <2>2, <2>3 DEF Node, LinkModes
  <2> HIDE DEF n
  <2> QED
    BY <2>2, <2>4, <2>5, ChangeModes DEF IInv
<1>4. CASE Seal(c)
  <2> DEFINE m == IF call[c].kind = "install_merged" THEN Selected(c) ELSE cand[c].staged
             n == Dressed(node[tmp[c]], m.owner, m.mode)
  <2>1. tmp[c] \in Ino /\ node[tmp[c]] \in Node /\ node[tmp[c]] # NoNode
    BY <1>4, TemporaryNode, NodeAssumption DEF IInv, Control, Seal
  <2>2. cand[c].staged \in Fingerprint
    BY DEF IInv, TypeOK, CandidateRecord
  <2>3. m.owner \in Owner /\ m.mode \in Mode
    BY <2>2, SelectedType DEF IInv, Fingerprint
  <2>4. n \in Node /\ (n.type = "symlink" => n.mode = LinkMode)
    BY <2>1, <2>3, ModeAssumption DEF Dressed, Chowned, Node, LinkModes
  <2>5. PICK t \in Now : Change(tmp[c], n, t)
    BY <1>4 DEF Seal
  <2> HIDE DEF n
  <2> QED
    BY <2>1, <2>4, <2>5, ChangeModes DEF IInv
<1> QED
  BY <1>1, <1>2, <1>3, <1>4

LEMMA NextModes ==
  ASSUME Alone, Client # {}, IInv, Orderly, LinkModes, [Next]_vars
  PROVE  LinkModes'
<1>1. PICK c \in Client : UNCHANGED vars \/ Scan(c) \/ Resolve(c) \/ ScanError(c) \/ CallError(c) \/ Crash(c)
  BY AloneSteps
<1>2. CASE UNCHANGED vars
  BY <1>2, RelinkModes DEF vars, fsVars, IInv
<1>3. CASE Scan(c) \/ ScanError(c) \/ CallError(c) \/ Crash(c) \/ Throw(c)
  BY <1>3, QuietSteps, RelinkModes DEF IInv
<1>4. CASE /\ ~Throw(c)
           /\ \/ RetireUnlinks(c) \/ RetireFindsNothing(c) \/ RetireFindsChildren(c)
              \/ Rename(c) \/ Publish(c)
  <2>1. entry["staged"] \in Ino \cup {NoIno} /\ tmp[c] \in Ino \cup {NoIno}
    BY DEF IInv, TypeOK, Slot
  <2>2. pc[c] \in {"rename", "publish"} => entry[call[c].dest] \in Ino \cup {NoIno}
    BY Destinations, LabelSets DEF IInv, TypeOK
  <2>3. \/ UNCHANGED node
        \/ \E t \in Now, touched \in {{entry["staged"]}, {entry["staged"], entry[call[c].dest]},
                                    {tmp[c], entry[call[c].dest]}} :
             touched \subseteq Ino \cup {NoIno} /\ Settle(Touch(node, touched, t))
    BY <1>4, <2>1, <2>2 DEF RetireUnlinks, RetireFindsNothing, RetireFindsChildren, Rename, Publish,
       fsVars
  <2> QED
    BY <2>3, RelinkModes DEF IInv
<1>5. CASE Resolve(c) /\ ~Throw(c)
  BY <1>4, <1>5, QuietSteps, RelinkModes, MetadataModes, CopyModes DEF Resolve, IInv
<1> QED
  BY <1>1, <1>2, <1>3, <1>5

LEMMA InitModes ==
  ASSUME Init
  PROVE  LinkModes
<1>1. PICK objects \in [{entry[s] : s \in Slot} \ {NoIno} -> InitNode] :
        node = [i \in Ino |-> IF i \in DOMAIN objects THEN objects[i] ELSE NoNode]
  BY DEF Init
<1>2. \A i \in Ino : node[i] # NoNode => node[i] \in InitNode
  BY <1>1
<1> QED
  BY <1>2 DEF LinkModes, InitNode

------------------------------------------------------------------------------
(* What Disposition sees of a state.                                       *)

LEMMA CallerAlone ==
  ASSUME Alone, Client # {}
  PROVE  Caller \in Client /\ \A c \in Client : c = Caller
BY DEF Caller, Alone

LEMMA Meanings ==
  ASSUME IInv, NEW c \in Client, c = Caller
  PROVE  /\ Meaning = "install" <=> call[c].kind = "install" /\ ~OnDirectory(c)
         /\ Meaning = "keep" <=> call[c].kind = "keep" \/ (call[c].kind = "install" /\ OnDirectory(c))
         /\ Meaning = "merge" <=> call[c].kind = "install_merged"
         /\ Meaning = "move" <=> call[c].kind \in {"restore", "relocate_relic"}
         /\ Meaning = "remove" <=> call[c].kind = "remove_relic"
         /\ Meaning = "compare" <=> call[c].kind = "compare_text"
         /\ Meaning # "none"
<1>1. /\ MeaningOf["keep"] = "keep" /\ MeaningOf["install"] = "install"
      /\ MeaningOf["install_merged"] = "merge"
      /\ MeaningOf["restore"] = "move" /\ MeaningOf["relocate_relic"] = "move"
      /\ MeaningOf["remove_relic"] = "remove" /\ MeaningOf["compare_text"] = "compare"
  BY DEF MeaningOf
<1>2. call[c].kind \in Kinds
  BY DEF IInv, TypeOK, Disposition
<1> QED
  BY <1>1, <1>2 DEF Meaning, Kinds

LEMMA InCall ==
  ASSUME IInv, NEW c \in Client, c = Caller, pc[c] \in CallLabel
  PROVE  /\ Duty = [kind |-> Meaning, dest |-> call[c].dest, bytes |-> call[c].bytes,
                    owner |-> Selected(c).owner, mode |-> Selected(c).mode]
         /\ Duty # D!NoDuty
         /\ Carried = (Meaning \in {"install", "merge", "move"} /\ pc[c] \in {"retire", "chown", "chmod"})
BY Meanings DEF Duty, Calling, Carried, D!NoDuty

LEMMA OffCall ==
  ASSUME NEW c \in Client, c = Caller, pc[c] \notin CallLabel
  PROVE  Duty = D!NoDuty /\ Carried = FALSE
BY DEF Duty, Calling, Carried, D!NoDuty

LEMMA OffCallNext ==
  ASSUME NEW c \in Client, c = Caller, pc'[c] \notin CallLabel
  PROVE  Duty' = D!NoDuty /\ Carried' = FALSE
BY DEF Duty, Calling, Carried, D!NoDuty

LEMMA InCallNext ==
  ASSUME IInv', NEW c \in Client, c = Caller, pc'[c] \in CallLabel \ {"retire", "chown", "chmod"}
  PROVE  Duty' # D!NoDuty /\ Carried' = FALSE
<1>1. Meaning' # "none"
  <2>1. call'[c].kind \in Kinds
    BY DEF IInv, TypeOK, Disposition
  <2> QED
    BY <2>1 DEF Meaning, MeaningOf, Kinds
<1> QED
  BY <1>1 DEF Duty, Calling, Carried, D!NoDuty

(* The decision stays the same while the call goes on.                     *)
LEMMA SameDuty ==
  ASSUME NEW c \in Client, c = Caller, pc[c] \in CallLabel, pc'[c] \in CallLabel,
         call'[c] = call[c], cand'[c] = cand[c]
  PROVE  /\ Duty' = Duty /\ Meaning' = Meaning
         /\ Carried' = (Meaning \in {"install", "merge", "move"} /\ pc'[c] \in {"retire", "chown", "chmod"})
<1>1. Meaning' = Meaning
  BY DEF Meaning, OnDirectory
<1> QED
  BY <1>1 DEF Duty, Calling, Carried, Selected

LEMMA SameObject ==
  ASSUME NEW s \in Slot, entry'[s] = entry[s], entry[s] # NoIno => Alike(entry[s])
  PROVE  Holdings'[s] = Holdings[s]
BY DEF Holdings, Object, Alike

LEMMA SameHoldings ==
  ASSUME \A s \in Slot : entry'[s] = entry[s] /\ (entry[s] # NoIno => Alike(entry[s]))
  PROVE  Holdings' = Holdings
BY SameObject DEF Holdings

(* The object at a name.                                                   *)
LEMMA Held ==
  ASSUME IInv, NEW s \in Slot
  PROVE  /\ Holdings[s] = Absent <=> entry[s] = NoIno
         /\ entry[s] # NoIno => /\ Holdings[s].type = At(s).type /\ Holdings[s].data = At(s).data
                                /\ Holdings[s].owner = At(s).owner /\ Holdings[s].mode = At(s).mode
<1>1. entry[s] # NoIno => At(s) \in Node
  BY NamedNode DEF IInv, At
<1> QED
  BY <1>1 DEF Holdings, Object, Absent, At, Node, NodeType

LEMMA HeldNext ==
  ASSUME IInv', NEW s \in Slot
  PROVE  /\ Holdings'[s] = Absent <=> entry'[s] = NoIno
         /\ entry'[s] # NoIno =>
              /\ Holdings'[s].type = At(s)'.type /\ Holdings'[s].data = At(s)'.data
              /\ Holdings'[s].owner = At(s)'.owner /\ Holdings'[s].mode = At(s)'.mode
<1>1. entry'[s] # NoIno => At(s)' \in Node
  BY DEF IInv, TypeOK, At, Live
<1> QED
  BY <1>1 DEF Holdings, Object, Absent, At, Node, NodeType

------------------------------------------------------------------------------
(* What the steps owe to Disposition.                                      *)

(* A staged directory stays until the metadata is in place.                *)
LEMMA DirectoryCalls ==
  ASSUME Orderly, NEW c \in Client, Counterpart(c), OnDirectory(c), pc[c] \in CallLabel \ Validating
  PROVE  call[c].kind \in {"keep", "install"}
<1>1. cand[c]["installed"].type # "missing" /\ Applicable(call[c].kind, cand[c])
      /\ cand[c]["staged"].type = "directory" /\ call[c].kind \in Kinds
  <2>1. pc[c] \notin {"idle", "observe_installed"}
    BY LabelSets DEF ScanLabel
  <2> QED
    BY <2>1 DEF Counterpart, OnDirectory, Orderly, Order, Calls, Disposition
<1> QED
  BY <1>1 DEF Applicable, Relic, State, ClassifyCandidate, Kinds

LEMMA GoesOn ==
  ASSUME NEW c \in Client, c = Caller, pc[c] \in CallLabel, pc'[c] \in CallLabel,
         call'[c] = call[c], cand'[c] = cand[c], result'[c] = result[c], NEW brought \in BOOLEAN,
         brought <=> Meaning \in {"install", "merge", "move"} /\ pc'[c] \in {"retire", "chown", "chmod"}
  PROVE  D!Continue(brought)
<1>1. Duty' = Duty /\ Carried' = brought
  BY SameDuty
<1>2. result'[Caller] = result[Caller]
  OBVIOUS
<1> QED
  BY <1>1, <1>2 DEF D!Continue

LEMMA Succeeds ==
  ASSUME IInv, IInv', NEW c \in Client, c = Caller, pc[c] \in CallLabel, pc'[c] = "ready",
         call'[c] = call[c], cand'[c] = cand[c], result'[c] = "ok", NEW brought \in BOOLEAN,
         Meaning \in {"install", "merge", "move"} => brought,
         Delivered(c)',
         OnDirectory(c) => /\ call[c].kind \in {"keep", "install"}
                           /\ entry'["staged"] # NoIno => At("staged")'.type = "directory"
  PROVE  D!Continue(brought)
<1> DEFINE h == Holdings'
<1>1. /\ Duty' = D!NoDuty /\ Carried' = FALSE /\ result'[Caller] = "ok"
  BY OffCallNext, LabelSets
<1>2. Duty.kind = Meaning /\ Duty.owner = Selected(c).owner /\ Duty.mode = Selected(c).mode
  BY InCall
<1>3. /\ h["staged"] = Absent <=> entry'["staged"] = NoIno
      /\ entry'["staged"] # NoIno => h["staged"].type = At("staged")'.type
      /\ h["installed"] = Absent <=> entry'["installed"] = NoIno
      /\ entry'["installed"] # NoIno => /\ h["installed"].type = At("installed")'.type
                                        /\ h["installed"].owner = At("installed")'.owner
                                        /\ h["installed"].mode = At("installed")'.mode
  BY HeldNext DEF Slot
<1>4. Selected(c)' = Selected(c) /\ OnDirectory(c)' = OnDirectory(c)
  BY DEF Selected, OnDirectory
<1> HIDE DEF h
<1>5. \/ h["staged"] = Absent
      \/ Meaning = "compare"
      \/ Meaning = "keep" /\ h["staged"].type = "directory"
  BY <1>3, <1>4, Meanings DEF Delivered
<1>6. Meaning \in {"keep", "install", "merge"} => D!Wears(h["installed"])
  BY <1>2, <1>3, <1>4, Meanings DEF Delivered, HasMetadata, D!Wears
<1>7. D!Kept(h, brought)
  BY <1>2, <1>5, <1>6 DEF D!Kept, D!Carries
<1> QED
  BY <1>1, <1>7 DEF h, D!Continue

------------------------------------------------------------------------------
(* One step of the client after the other.                                 *)

(* A step that only looks leaves the two trees alone.                      *)
LEMMA LookedAt ==
  ASSUME IInv, IInv', entry' = entry, UNCHANGED node \/ Settle(node)
  PROVE  Holdings' = Holdings
<1>1. SUFFICES ASSUME NEW s \in Slot, entry[s] # NoIno
               PROVE  Alike(entry[s])
  BY SameHoldings
<1>2. entry[s] \in Ino /\ node'[entry[s]] # NoNode /\ node \in [Ino -> Node \cup {NoNode}]
  BY <1>1 DEF IInv, TypeOK, Live
<1> QED
  BY <1>2, RelinkAlike

LEMMA StepScan ==
  ASSUME IInv, IInv', NEW c \in Client, c = Caller, pc[c] \notin CallLabel, Scan(c) \/ ScanError(c)
  PROVE  [D!Next]_(D!vars)
<1>1. Holdings' = Holdings
  BY QuietSteps, LookedAt
<1>2. pc'[c] \notin CallLabel /\ result'[c] \in {"none", result[c]}
  <2>1. CASE AbortScan(c)
    BY <2>1, LabelSets DEF AbortScan, Idle, Goto, IInv, TypeOK
  <2>2. CASE Scan(c)
    <3>1. pc'[c] \notin CallLabel
      BY <2>2, ScanStays, LabelSets
    <3>2. result'[c] \in {"none", result[c]}
      BY <2>2 DEF IInv, TypeOK, Scan, ScanObserveStaged, ScanOmitStructural, ScanObserveInstalled,
         InspectOpen, InspectReadInstalled, InspectReadStaged, InspectRecheck, LinkRead,
         LinkCheck, Forget, ScanReturns, AbortScan, ctlVars
    <3> QED
      BY <3>1, <3>2
  <2> QED
    BY <2>1, <2>2 DEF ScanError
<1>3. /\ Duty = D!NoDuty /\ Carried = FALSE /\ Duty' = D!NoDuty /\ Carried' = FALSE
      /\ result'[Caller] \in {"none", result[Caller]}
  BY <1>2, OffCall, OffCallNext
<1> QED
  BY <1>1, <1>3 DEF D!Next, D!LookAgain, D!vars

LEMMA StepGivesUp ==
  ASSUME IInv, IInv', NEW c \in Client, c = Caller, pc[c] \in CallLabel,
         Throw(c) \/ CallError(c) \/ Crash(c)
  PROVE  [D!Next]_(D!vars)
<1>1. Holdings' = Holdings
  BY QuietSteps, LookedAt
<1>2. pc'[c] \notin CallLabel /\ result'[c] \in {"failed", "none"}
  BY LabelSets DEF Throw, CallError, Crash, Idle, Goto, IInv, TypeOK
<1>3. /\ Duty # D!NoDuty /\ Duty' = D!NoDuty /\ Carried' = FALSE
      /\ result'[Caller] \in {"failed", "none"}
  BY <1>2, InCall, OffCallNext
<1> QED
  BY <1>1, <1>3 DEF D!Next, D!GiveUp

LEMMA StepBegins ==
  ASSUME IInv, IInv', NEW c \in Client, c = Caller, NEW d \in Calls, Begin(c, d)
  PROVE  [D!Next]_(D!vars)
<1>1. Holdings' = Holdings
  BY QuietSteps, LookedAt
<1>2. pc[c] \notin CallLabel /\ pc'[c] = "validate_installed" /\ pc'[c] \in CallLabel /\ result'[c] = "none"
  BY LabelSets DEF Begin, Goto, IInv, TypeOK, Validating
<1>3. Duty = D!NoDuty /\ Carried = FALSE
  BY <1>2, OffCall
<1>4. Duty' # D!NoDuty /\ Carried' = FALSE
  BY <1>2, InCallNext
<1>5. result'[Caller] = "none"
  BY <1>2
<1> QED
  BY <1>1, <1>3, <1>4, <1>5 DEF D!Next, D!Decide

(* The steps before anything changes at the two names.                     *)
LEMMA StepPrepares ==
  ASSUME IInv, IInv', NEW c \in Client, c = Caller, pc[c] \in CallLabel, pc'[c] \in CallLabel,
         Holdings' = Holdings, UNCHANGED <<call, cand, result>>,
         pc[c] \notin {"retire", "chown", "chmod"},
         pc'[c] \in {"retire", "chown", "chmod"} => Meaning \in {"keep", "remove"}
  PROVE  [D!Next]_(D!vars)
<1>1. Duty' = Duty /\ Carried' = FALSE
  BY SameDuty
<1>2. Carried = FALSE
  BY InCall
<1> QED
  BY <1>1, <1>2 DEF D!vars

LEMMA StepValidates ==
  ASSUME IInv, IInv', Orderly, NEW c \in Client, c = Caller, ~Throw(c),
         \/ ValidateInstalled(c) \/ ValidateStaged(c) \/ RenameCrossDevice(c)
         \/ CopyOpen(c) \/ CopyBlock(c) \/ WriteMerged(c) \/ Seal(c),
         Separate
  PROVE  [D!Next]_(D!vars)
<1>1. Holdings' = Holdings
  <2>1. CASE ValidateInstalled(c) \/ ValidateStaged(c) \/ RenameCrossDevice(c)
    BY <2>1, QuietSteps, LookedAt
  <2>2. CASE CopyOpen(c) \/ CopyBlock(c) \/ WriteMerged(c) \/ Seal(c)
    <3>1. entry' = entry /\ \A s \in Slot : entry[s] # NoIno => node'[entry[s]] = node[entry[s]]
      BY <2>2, CopyEffect
    <3> QED
      BY <3>1, SameHoldings DEF Alike
  <2> QED
    BY <2>1, <2>2
<1>2. UNCHANGED <<call, cand, result>>
  BY DEF ValidateInstalled, ValidateStaged, RenameCrossDevice, CopyOpen, CopyBlock, WriteMerged, Seal,
     CreateTemporary, ctlVars
<1>3. pc[c] \in CallLabel /\ pc[c] \notin {"retire", "chown", "chmod"}
  BY LabelSets DEF ValidateInstalled, ValidateStaged, RenameCrossDevice, CopyOpen, CopyBlock,
     WriteMerged, Seal, Validating
<1>4. CASE ValidateStaged(c)
  <2>1. /\ pc'[c] = FirstStep(call[c], cand[c]) /\ call[c].kind \in Kinds
    BY <1>4 DEF ValidateStaged, Goto, IInv, TypeOK, Disposition
  <2>2. /\ pc'[c] \in {"chown", "retire", "rename", "write_merged", "open_installed"}
        /\ pc'[c] \in {"retire", "chown"} =>
             call[c].kind \in {"keep", "remove_relic"} \/ (call[c].kind = "install" /\ OnDirectory(c))
    BY <2>1, LabelOf DEF FirstStep, OnDirectory, Kinds
  <2>3. pc'[c] \in CallLabel
    BY <2>2, LabelSets DEF Comparing
  <2> QED
    BY <1>1, <1>2, <1>3, <2>2, <2>3, Meanings, StepPrepares
<1>5. CASE ~ValidateStaged(c)
  <2>1. pc'[c] \in {"validate_staged", "copy_open", "copy_block", "seal", "publish"}
    BY <1>5 DEF ValidateInstalled, RenameCrossDevice, CopyOpen, CopyBlock, WriteMerged, Seal, Goto,
       IInv, TypeOK
  <2>2. pc'[c] \in CallLabel
    BY <2>1, LabelSets DEF Validating
  <2> QED
    BY <1>1, <1>2, <1>3, <2>1, <2>2, StepPrepares
<1> QED
  BY <1>4, <1>5

LEMMA StepCompares ==
  ASSUME IInv, IInv', Orderly, NEW c \in Client, c = Caller, ~Throw(c), Journey(c)', Counterpart(c),
         NEW s \in Side, CompareOpen(c, s) \/ CompareRead(c, s) \/ CompareVerify(c, s)
  PROVE  [D!Next]_(D!vars)
<1>1. Holdings' = Holdings
  BY QuietSteps, LookedAt
<1>2. {OpenAt[s], ReadAt[s], VerifyAt[s], OpenAt["staged"]} \subseteq Comparing
  BY LabelOf DEF Comparing, Side
<1>3. /\ pc[c] \in Comparing /\ pc'[c] \in Comparing \cup {"ready"}
      /\ UNCHANGED <<call, cand>>
      /\ result' = IF pc'[c] = "ready" THEN [result EXCEPT ![c] = "ok"] ELSE result
  BY <1>2, LabelSets DEF IInv, TypeOK, CompareOpen, CompareRead, CompareVerify, Goto, Proceed, ctlVars,
     Comparing
<1>4. pc[c] \in CallLabel \ Validating /\ pc[c] \notin {"retire", "chown", "chmod"}
  BY <1>3, LabelSets DEF Comparing, Validating
<1>5. call[c].kind = "compare_text" /\ Meaning = "compare"
  BY <1>3, Meanings DEF Orderly, Order
<1>6. CASE pc'[c] # "ready"
  <2>1. pc'[c] \in CallLabel /\ pc'[c] \notin {"retire", "chown", "chmod"} /\ result' = result
    BY <1>3, <1>6, LabelSets DEF Comparing
  <2> QED
    BY <1>1, <1>3, <1>4, <2>1, StepPrepares
<1>7. CASE pc'[c] = "ready"
  <2>1. result'[c] = "ok"
    BY <1>3, <1>7 DEF IInv, TypeOK
  <2>2. Delivered(c)'
    BY <1>7, <2>1 DEF Journey
  <2>3. ~OnDirectory(c)
    BY <1>4, <1>5, DirectoryCalls
  <2>4. Duty # D!NoDuty /\ Carried = FALSE
    BY <1>4, <1>5, InCall
  <2>5. D!Continue(FALSE)
    BY <1>3, <1>4, <1>5, <1>7, <2>1, <2>2, <2>3, Succeeds
  <2> QED
    BY <1>1, <2>4, <2>5 DEF D!Next, D!Conclude
<1> QED
  BY <1>6, <1>7

(* apply_metadata() touches the installed name only.                       *)
LEMMA MetadataHoldings ==
  ASSUME IInv, IInv', NoLinks, NEW c \in Client, ~Throw(c), Chown(c) \/ Chmod(c),
         Chmod(c) => At("installed").owner = Selected(c).owner /\ At("installed").type # "symlink"
  PROVE  \E m \in Mode : Holdings' =
           [Holdings EXCEPT !["installed"] =
              [type |-> Holdings["installed"].type, data |-> Holdings["installed"].data,
               owner |-> Selected(c).owner, mode |-> m]]
<1> DEFINE i == entry["installed"]
           m == node'[i].mode
<1>1. /\ entry' = entry /\ i # NoIno /\ i \in Ino /\ node[i] \in Node /\ node'[i] \in Node
      /\ node \in [Ino -> Node \cup {NoNode}]
  <2>1. entry' = entry /\ i # NoIno
    BY MetadataEffect
  <2> QED
    BY <2>1, NamedNode DEF IInv, TypeOK, Live, Slot
<1>2. node'[i].type = node[i].type /\ node'[i].data = node[i].data /\ node'[i].owner = Selected(c).owner
  BY <1>1, MetadataEffect DEF At
<1>3. m \in Mode
  BY <1>1 DEF Node
<1>4. ASSUME NEW s \in Slot \ {"installed"}
      PROVE  Holdings'[s] = Holdings[s]
  <2>1. CASE entry[s] = NoIno
    BY <1>1, <2>1, SameObject
  <2>2. CASE entry[s] # NoIno
    <3>1. entry[s] \in Ino /\ entry[s] # i /\ node'[entry[s]] # NoNode
      BY <1>1, <1>4, <2>2 DEF NoLinks, IInv, TypeOK, Live, Slot
    <3>2. UNCHANGED node \/ \E n, t : Change(i, n, t)
      BY DEF Chown, Chmod
    <3>3. node'[entry[s]] = node[entry[s]]
      BY <1>1, <3>1, <3>2, ChangeElsewhere
    <3> QED
      BY <1>1, <3>3, SameObject DEF Alike
  <2> QED
    BY <2>1, <2>2
<1>5. Holdings'["installed"] =
        [type |-> Holdings["installed"].type, data |-> Holdings["installed"].data,
         owner |-> Selected(c).owner, mode |-> m]
  BY <1>1, <1>2 DEF Holdings, Object, Slot
<1>6. Holdings' =
        [Holdings EXCEPT !["installed"] =
           [type |-> Holdings["installed"].type, data |-> Holdings["installed"].data,
            owner |-> Selected(c).owner, mode |-> m]]
  <2> HIDE DEF m
  <2>1. Holdings = [s \in Slot |-> Holdings[s]] /\ Holdings' = [s \in Slot |-> Holdings'[s]]
    BY DEF Holdings
  <2> QED
    BY <1>4, <1>5, <2>1 DEF Slot
<1> QED
  BY <1>3, <1>6

LEMMA StepDresses ==
  ASSUME IInv, IInv', NoLinks, Orderly, NEW c \in Client, c = Caller, ~Throw(c), Chown(c) \/ Chmod(c),
         Journey(c), Journey(c)'
  PROVE  [D!Next]_(D!vars)
<1>1. /\ pc[c] \in {"chown", "chmod"} /\ pc[c] \in CallLabel \ Validating
      /\ UNCHANGED <<entry, call, cand>> /\ entry["installed"] # NoIno
      /\ call[c].kind \in {"keep", "install"}
      /\ Adjusts(c) <=> entry["staged"] # NoIno
  BY MetadataEffect, LabelSets DEF Chown, Chmod, Orderly, Order, Journey, Validating
<1>2. Chmod(c) => At("installed").owner = Selected(c).owner /\ At("installed").type # "symlink"
  BY DEF Journey, Chmod
<1>3. /\ Duty.kind = Meaning /\ Duty.owner = Selected(c).owner /\ Duty # D!NoDuty
      /\ Carried = (Meaning = "install")
      /\ Meaning = IF Adjusts(c) THEN "keep" ELSE "install"
  BY <1>1, InCall, Meanings DEF Adjusts
<1>4. PICK m \in Mode : Holdings' = [Holdings EXCEPT !["installed"] =
                                       [type |-> Holdings["installed"].type,
                                        data |-> Holdings["installed"].data,
                                        owner |-> Selected(c).owner, mode |-> m]]
  BY <1>2, MetadataHoldings
<1>5. Holdings["installed"] # Absent /\ (Meaning = "keep" => Holdings["staged"] # Absent)
  BY <1>1, <1>3, Held DEF Slot
<1>6. pc'[c] \in {"chmod", "retire", "ready"} /\ (pc'[c] = "ready" => ~Adjusts(c))
  BY DEF Chown, Chmod, Proceed, Goto, AfterMetadata, Adjusts, IInv, TypeOK
<1>7. D!Continue(Carried)
  <2>1. CASE pc'[c] = "ready"
    <3>1. result'[c] = "ok"
      BY <2>1 DEF Chown, Chmod, Proceed, Goto, IInv, TypeOK
    <3>2. Delivered(c)' /\ ~OnDirectory(c)
      BY <1>6, <2>1, <3>1 DEF Journey, Adjusts
    <3>3. Carried = TRUE
      BY <1>3, <1>6, <2>1
    <3> QED
      BY <1>1, <2>1, <3>1, <3>2, <3>3, Succeeds
  <2>2. CASE pc'[c] # "ready"
    <3>1. pc'[c] \in {"chmod", "retire"} /\ pc'[c] \in CallLabel
      BY <1>6, <2>2, LabelSets
    <3>2. result'[c] = result[c]
      BY <3>1 DEF Chown, Chmod, Proceed, Goto, IInv, TypeOK
    <3>3. Carried \in BOOLEAN
      BY <1>3
    <3> QED
      BY <1>1, <1>3, <3>1, <3>2, <3>3, GoesOn
  <2> QED
    BY <2>1, <2>2
<1>8. D!Dress
  BY <1>3, <1>4, <1>5, <1>7 DEF D!Dress, D!Dressed, D!Installed, D!Staged
<1> QED
  BY <1>8 DEF D!Next

LEMMA StepDiscards ==
  ASSUME IInv, IInv', Orderly, NEW c \in Client, c = Caller, ~Throw(c),
         RetireUnlinks(c) \/ RetireFindsNothing(c) \/ RetireFindsChildren(c),
         Journey(c), Journey(c)', Counterpart(c)
  PROVE  [D!Next]_(D!vars)
<1>1. /\ pc[c] = "retire" /\ pc[c] \in CallLabel \ Validating
      /\ UNCHANGED <<call, cand>> /\ pc'[c] = AfterRetire(c)
      /\ OnDirectory(c) \/ entry'["staged"] = NoIno
      /\ call[c].kind # "compare_text" /\ Placed(c)
  BY RetireEffect, LabelSets DEF Orderly, Order, Journey, Validating
<1>2. OnDirectory(c) => call[c].kind \in {"keep", "install"}
  BY <1>1, DirectoryCalls
<1>3. /\ Duty.kind = Meaning /\ Duty.owner = Selected(c).owner /\ Duty.mode = Selected(c).mode
      /\ Duty # D!NoDuty /\ Carried = (Meaning \in {"install", "merge", "move"})
  BY <1>1, InCall
<1>4. result'[c] = IF pc'[c] = "ready" THEN "ok" ELSE result[c]
  BY DEF RetireUnlinks, RetireFindsNothing, RetireFindsChildren, Proceed, Goto, IInv, TypeOK
<1>5. CASE RetireUnlinks(c)
  <2>1. /\ entry' = [entry EXCEPT !["staged"] = NoIno]
        /\ \A s \in Slot \ {"staged"} : Holdings'[s] = Holdings[s]
    BY <1>5, RetireEffect, SameObject DEF RetireUnlinks
  <2>2. Holdings' = [Holdings EXCEPT !["staged"] = Absent]
    <3>1. Holdings'["staged"] = Absent
      BY <2>1 DEF Holdings, Object, IInv, TypeOK, Slot
    <3>2. Holdings = [s \in Slot |-> Holdings[s]] /\ Holdings' = [s \in Slot |-> Holdings'[s]]
      BY DEF Holdings
    <3> QED
      BY <2>1, <3>1, <3>2 DEF Slot
  <2>3. D!Continue(Carried)
    <3>1. Carried \in BOOLEAN
      BY <1>3
    <3>2. CASE pc'[c] = "ready"
      <4>1. Delivered(c)' /\ result'[c] = "ok"
        BY <1>4, <3>2 DEF Journey
      <4>2. entry'["staged"] = NoIno
        BY <2>1 DEF IInv, TypeOK, Slot
      <4> QED
        BY <1>1, <1>2, <1>3, <3>1, <3>2, <4>1, <4>2, Succeeds
    <3>3. CASE pc'[c] # "ready"
      <4>1. pc'[c] = "chown" /\ pc'[c] \in CallLabel
        BY <1>1, <3>3, LabelSets DEF AfterRetire
      <4> QED
        BY <1>1, <1>3, <1>4, <3>1, <3>3, <4>1, GoesOn
    <3> QED
      BY <3>2, <3>3
  <2>4. \/ Meaning \in {"install", "merge", "move"} /\ Carried
        \/ Meaning = "remove"
        \/ Meaning = "keep" /\ D!Wears(Holdings["installed"])
    <3>1. CASE Meaning = "keep"
      <4>1. entry["installed"] # NoIno /\ HasMetadata(At("installed"), Selected(c))
        BY <1>1, <3>1, Meanings DEF Placed
      <4> QED
        BY <1>3, <3>1, <4>1, Held DEF D!Wears, HasMetadata, Slot
    <3>2. CASE Meaning # "keep"
      <4>1. call[c].kind \in Kinds
        BY DEF IInv, TypeOK, Disposition
      <4> QED
        BY <1>1, <1>3, <3>2, <4>1, Meanings DEF Kinds
    <3> QED
      BY <3>1, <3>2
  <2>5. D!Discard
    BY <1>3, <2>2, <2>3, <2>4 DEF D!Discard, D!Carries, D!Installed
  <2> QED
    BY <2>5 DEF D!Next
<1>6. CASE RetireFindsNothing(c) \/ RetireFindsChildren(c)
  <2>1. OnDirectory(c) /\ UNCHANGED <<entry, node>>
    BY <1>6 DEF RetireFindsNothing, RetireFindsChildren, fsVars
  <2>2. Holdings' = Holdings
    BY <2>1, LookedAt
  <2>3. pc'[c] = "ready" /\ Delivered(c)' /\ result'[c] = "ok"
    BY <1>1, <1>4, <2>1 DEF AfterRetire, Journey
  <2>4. entry'["staged"] # NoIno => At("staged")'.type = "directory"
    BY <1>6, <2>1 DEF RetireFindsNothing, RetireFindsChildren, Directory, At
  <2>5. Meaning = "keep"
    BY <1>2, <2>1, Meanings DEF OnDirectory
  <2>6. Carried = FALSE
    <3>1. (Meaning \in {"install", "merge", "move"}) = FALSE
      BY <2>5
    <3> QED
      BY <1>3, <3>1
  <2>7. D!Continue(FALSE)
    BY <1>1, <1>2, <2>3, <2>4, <2>5, Succeeds
  <2>8. D!Conclude
    BY <1>3, <2>2, <2>6, <2>7 DEF D!Conclude
  <2> QED
    BY <2>8 DEF D!Next
<1> QED
  BY <1>5, <1>6

(* An object may be carried to its destination.                            *)
LEMMA MayBeCarried ==
  ASSUME IInv, Orderly, Truth, Preserved, NEW c \in Client, c = Caller, Journey(c),
         pc[c] \in {"rename", "publish"}, ~Refuses(c, entry["staged"]) \/ ~Refuses(c, tmp[c])
  PROVE  /\ D!MayCarry /\ Duty # D!NoDuty
         /\ entry["staged"] # NoIno /\ At("staged").type = cand[c]["staged"].type
         /\ At("staged").owner = cand[c]["staged"].owner /\ At("staged").mode = cand[c]["staged"].mode
         /\ HasContent(At("staged"), seen[c]["staged"])
         /\ Duty.kind = Meaning /\ Duty.dest = call[c].dest /\ Duty.bytes = call[c].bytes
         /\ Duty.owner = Selected(c).owner /\ Duty.mode = Selected(c).mode
         /\ Meaning = CASE call[c].kind = "install_merged" -> "merge"
                        [] call[c].kind = "install" -> "install"
                        [] call[c].kind \in {"restore", "relocate_relic"} -> "move"
<1>1. pc[c] \in CallLabel /\ Holds(c)
  BY LabelSets DEF Holds
<1>2. cand[c]["staged"].type # "missing"
  BY <1>1, HoldsPair DEF Faithful, Side
<1>3. /\ entry["staged"] # NoIno /\ At("staged").type = cand[c]["staged"].type
      /\ At("staged").owner = cand[c]["staged"].owner /\ At("staged").mode = cand[c]["staged"].mode
      /\ HasContent(At("staged"), seen[c]["staged"])
  BY <1>1, <1>2, Accepted DEF Journey, Untouched, Side
<1>4. /\ call[c].kind \in Moving \cup {"install_merged"}
      /\ (call[c].kind = "install" => ~OnDirectory(c))
  BY DEF Orderly, Order
<1>5. Meaning = CASE call[c].kind = "install_merged" -> "merge"
                  [] call[c].kind = "install" -> "install"
                  [] call[c].kind \in {"restore", "relocate_relic"} -> "move"
  BY <1>4, Meanings DEF Moving
<1>6. /\ Duty.kind = Meaning /\ Duty.dest = call[c].dest /\ Duty.bytes = call[c].bytes
      /\ Duty.owner = Selected(c).owner /\ Duty.mode = Selected(c).mode
      /\ Duty # D!NoDuty
  BY <1>1, InCall
<1>7. Carried = FALSE
  BY <1>1, InCall
<1>8. Meaning \in {"install", "merge", "move"}
  BY <1>4, Meanings DEF Moving
<1>9. Holdings["staged"] # Absent
  BY <1>3, Held DEF Slot
<1>10. Meaning = "move" => Holdings[call[c].dest] = Absent
  <2>1. call[c].dest \in Slot
    BY <1>1, Destinations
  <2>2. Meaning = "move" => entry[call[c].dest] = NoIno
    BY Meanings DEF Refuses, Replaces
  <2> QED
    BY <2>1, <2>2, Held
<1>11. D!MayCarry
  BY <1>6, <1>7, <1>8, <1>9, <1>10 DEF D!MayCarry, D!Carries, D!Staged
<1> QED
  BY <1>3, <1>5, <1>6, <1>11

LEMMA StepMoves ==
  ASSUME IInv, IInv', Orderly, Truth, Preserved, NoLinks, NEW c \in Client, c = Caller, ~Throw(c),
         Rename(c), Journey(c), Journey(c)', Counterpart(c)
  PROVE  [D!Next]_(D!vars)
<1> DEFINE i == entry["staged"]
<1>1. /\ pc[c] = "rename" /\ pc[c] \in CallLabel \ Validating /\ ~Refuses(c, i) /\ i # NoIno
      /\ entry' = Renamed("staged", call[c].dest, i) /\ UNCHANGED <<call, cand>>
  BY LabelSets DEF Rename, Validating
<1>2. /\ call[c].kind \in Moving /\ (call[c].kind = "install" => ~OnDirectory(c))
      /\ (OnDirectory(c) => call[c].kind \in {"keep", "install"})
  BY <1>1, DirectoryCalls DEF Orderly, Order
<1>3. PICK q \in Slot \ {"staged"} : q = call[c].dest
  BY <1>1, Destinations
<1>4. entry' = [entry EXCEPT !["staged"] = NoIno, ![q] = i]
  <2>1. entry[q] # i
    BY <1>1, <1>3 DEF NoLinks, Slot
  <2> QED
    BY <1>1, <1>3, <2>1 DEF Renamed
<1>5. entry'["staged"] = NoIno /\ entry'[q] = i /\ \A s \in Slot \ {q, "staged"} : entry'[s] = entry[s]
  BY <1>3, <1>4 DEF IInv, TypeOK, Slot
<1>6. ASSUME NEW s \in Slot \ {q}, entry[s] # NoIno
      PROVE  Alike(entry[s])
  <2>1. {i, entry[q]} \in SUBSET (Ino \cup {NoIno})
    BY <1>3 DEF IInv, TypeOK, Slot
  <2>2. UNCHANGED node
        \/ \E t \in Now, touched \in SUBSET (Ino \cup {NoIno}) : Settle(Touch(node, touched, t))
    BY <1>3, <2>1 DEF Rename
  <2>3. \E r \in Slot : entry'[r] = entry[s]
    BY <1>3, <1>5, <1>6
  <2>4. entry[s] \in Ino /\ node'[entry[s]] # NoNode /\ node \in [Ino -> Node \cup {NoNode}]
    BY <1>6, <2>3 DEF IInv, TypeOK, Live
  <2> QED
    BY <2>2, <2>4, RelinkAlike
<1>7. Holdings' = [Holdings EXCEPT ![q] = Holdings["staged"], !["staged"] = Absent]
  <2>1. Holdings'["staged"] = Absent /\ Holdings'[q] = Holdings["staged"]
    <3>1. Alike(i)
      BY <1>1, <1>3, <1>6 DEF Slot
    <3> QED
      BY <1>1, <1>5, <3>1 DEF Holdings, Object, Alike, Slot
  <2>2. \A s \in Slot \ {q, "staged"} : Holdings'[s] = Holdings[s]
    BY <1>5, <1>6, SameObject
  <2>3. Holdings = [s \in Slot |-> Holdings[s]] /\ Holdings' = [s \in Slot |-> Holdings'[s]]
    BY DEF Holdings
  <2> QED
    BY <1>3, <2>1, <2>2, <2>3
<1>8. D!MayCarry /\ Duty # D!NoDuty /\ Duty.kind # "merge" /\ Duty.dest = q
  BY <1>1, <1>2, <1>3, MayBeCarried, Meanings DEF Moving
<1>9. /\ pc'[c] = IF call[c].kind = "install" THEN "chown" ELSE "ready"
      /\ result'[c] = IF pc'[c] = "ready" THEN "ok" ELSE result[c]
  BY DEF Rename, Proceed, Goto, IInv, TypeOK
<1>10. D!Continue(TRUE)
  <2>1. CASE call[c].kind = "install"
    <3>1. pc'[c] = "chown" /\ pc'[c] \in CallLabel /\ Meaning = "install" /\ result'[c] = result[c]
      BY <1>2, <1>9, <2>1, LabelSets, Meanings
    <3> QED
      BY <1>1, <3>1, GoesOn
  <2>2. CASE call[c].kind # "install"
    <3>1. pc'[c] = "ready" /\ result'[c] = "ok" /\ Delivered(c)'
      BY <1>9, <2>2 DEF Journey
    <3>2. OnDirectory(c) => call[c].kind \in {"keep", "install"} /\ entry'["staged"] = NoIno
      BY <1>2, <1>5
    <3> QED
      BY <1>1, <3>1, <3>2, Succeeds
  <2> QED
    BY <2>1, <2>2
<1>11. D!CarryAway
  BY <1>7, <1>8, <1>10 DEF D!CarryAway, D!Staged
<1> QED
  BY <1>11 DEF D!Next

(* What the temporary file holds when it takes its name.                   *)
LEMMA Carrying ==
  ASSUME IInv, Orderly, Truth, Preserved, LinkModes, NEW c \in Client, c = Caller, Journey(c),
         pc[c] = "publish", ~Refuses(c, tmp[c])
  PROVE  [type |-> node[tmp[c]].type, data |-> node[tmp[c]].data,
          owner |-> node[tmp[c]].owner, mode |-> node[tmp[c]].mode] = D!Payload
<1> DEFINE i == tmp[c]
           n == seen[c]["staged"]
<1>1. pc[c] \in CallLabel /\ i # NoIno /\ i \in Ino /\ node[i] \in Node /\ node[i] # NoNode
  <2>1. i # NoIno
    BY DEF IInv, Control
  <2> QED
    BY <2>1, LabelSets, TemporaryNode, NodeAssumption DEF IInv
<1>2. /\ entry["staged"] # NoIno /\ At("staged").type = cand[c]["staged"].type
      /\ At("staged").owner = cand[c]["staged"].owner /\ At("staged").mode = cand[c]["staged"].mode
      /\ HasContent(At("staged"), n)
      /\ Duty.kind = Meaning /\ Duty.bytes = call[c].bytes
      /\ Duty.owner = Selected(c).owner /\ Duty.mode = Selected(c).mode
  BY MayBeCarried
<1>3. /\ call[c].kind \in Moving \cup {"install_merged"}
      /\ Applicable(call[c].kind, cand[c])
  BY <1>1 DEF Orderly, Order, Validating
<1>4. CASE call[c].kind = "install_merged"
  <2>1. node[i].data = call[c].bytes /\ HasMetadata(node[i], Selected(c))
    BY <1>4 DEF Journey
  <2>2. node[i].type = "regular"
    BY <1>1, <1>4 DEF Preserved, Copying
  <2>3. Duty.kind = "merge"
    BY <1>2, <1>4, Meanings
  <2> QED
    BY <1>2, <2>1, <2>2, <2>3 DEF HasMetadata, D!Payload
<1>5. CASE call[c].kind \in Moving
  <2>1. HasContent(node[i], n) /\ HasMetadata(node[i], cand[c]["staged"])
    BY <1>5 DEF Journey, Preserved, Copying, Moving
  <2>2. Duty.kind # "merge"
    BY <1>2, <1>5, Meanings DEF Moving
  <2>3. entry["staged"] \in Ino /\ At("staged") \in Node /\ At("staged") # NoNode
    BY <1>2, NamedNode, NodeAssumption DEF IInv, At, Slot
  <2>4. /\ node[i].type = At("staged").type /\ node[i].data = At("staged").data
        /\ node[i].owner = At("staged").owner
    BY <1>2, <2>1 DEF HasContent, HasMetadata
  <2>5. node[i].mode = At("staged").mode
    BY <1>1, <1>2, <2>1, <2>3, <2>4 DEF HasMetadata, LinkModes, At
  <2>6. Holdings["staged"] = [type |-> At("staged").type, data |-> At("staged").data,
                              owner |-> At("staged").owner, mode |-> At("staged").mode]
    BY <1>2 DEF Holdings, Object, At, Slot
  <2> QED
    BY <2>2, <2>4, <2>5, <2>6 DEF D!Payload, D!Staged
<1> QED
  BY <1>3, <1>4, <1>5

LEMMA StepPublishes ==
  ASSUME IInv, IInv', Orderly, Truth, Preserved, LinkModes, NEW c \in Client, c = Caller, ~Throw(c),
         Publish(c), Journey(c)
  PROVE  [D!Next]_(D!vars)
<1> DEFINE i == tmp[c]
<1>1. pc[c] = "publish" /\ pc[c] \in CallLabel /\ ~Refuses(c, i)
  BY LabelSets DEF Publish
<1>2. PICK q \in Slot \ {"staged"} : q = call[c].dest
  BY <1>1, Destinations
<1>3. /\ pc'[c] = "retire" /\ pc'[c] \in CallLabel /\ UNCHANGED <<call, cand>>
      /\ entry' = [entry EXCEPT ![q] = i] /\ entry'[q] = i /\ i # NoIno /\ Alike(i)
  BY <1>2, PublishEffect, LabelSets
<1>4. \A s \in Slot \ {q} : Holdings'[s] = Holdings[s]
  <2>1. SUFFICES ASSUME NEW s \in Slot \ {q}
                 PROVE  Holdings'[s] = Holdings[s]
    OBVIOUS
  <2>2. entry'[s] = entry[s]
    BY <1>2, <1>3 DEF IInv, TypeOK
  <2>3. CASE entry[s] # NoIno
    <3>1. {i, entry[q]} \in SUBSET (Ino \cup {NoIno})
      BY DEF IInv, TypeOK
    <3>2. \E t \in Now, touched \in SUBSET (Ino \cup {NoIno}) : Settle(Touch(node, touched, t))
      BY <1>2, <3>1 DEF Publish
    <3>3. entry[s] \in Ino /\ node'[entry[s]] # NoNode /\ node \in [Ino -> Node \cup {NoNode}]
      BY <2>2, <2>3 DEF IInv, TypeOK, Live
    <3>4. Alike(entry[s])
      BY <3>2, <3>3, RelinkAlike
    <3> QED
      BY <2>2, <3>4, SameObject
  <2> QED
    BY <2>2, <2>3, SameObject
<1>5. Holdings'[q] = D!Payload
  BY <1>1, <1>2, <1>3, Carrying DEF Holdings, Object, Alike
<1>6. Holdings' = [Holdings EXCEPT ![q] = D!Payload]
  <2>1. Holdings = [s \in Slot |-> Holdings[s]] /\ Holdings' = [s \in Slot |-> Holdings'[s]]
    BY DEF Holdings
  <2> QED
    BY <1>2, <1>4, <1>5, <2>1
<1>7. D!MayCarry /\ Duty.dest = q
  BY <1>1, <1>2, MayBeCarried
<1>8. D!Continue(TRUE)
  <2>1. Meaning \in {"install", "merge", "move"}
    <3>1. call[c].kind \in Moving \cup {"install_merged"} /\ (call[c].kind = "install" => ~OnDirectory(c))
      BY <1>1 DEF Orderly, Order
    <3> QED
      BY <3>1, Meanings DEF Moving
  <2>2. result' = result
    BY DEF Publish, ctlVars
  <2> QED
    BY <1>1, <1>3, <2>1, <2>2, GoesOn
<1>9. D!Carry
  BY <1>6, <1>7, <1>8 DEF D!Carry
<1> QED
  BY <1>9 DEF D!Next

------------------------------------------------------------------------------
LEMMA NextRefines ==
  ASSUME Alone, Client # {}, [Next]_vars, IInv, IInv', Truth, Orderly, Separate, NoLinks, Preserved,
         LinkModes, \A c \in Client : Journey(c) /\ Journey(c)' /\ Counterpart(c)
  PROVE  [D!Next]_(D!vars)
<1>1. PICK c \in Client : c = Caller
  BY CallerAlone
<1>2. CASE UNCHANGED vars
  BY <1>2 DEF vars, fsVars, ctlVars, Holdings, Object, Duty, Carried, Calling, Meaning, Selected,
     OnDirectory, D!vars
<1>3. CASE Throw(c) /\ pc[c] \in CallLabel
  BY <1>1, <1>3, StepGivesUp
<1>4. CASE Resolve(c) /\ ~ (Throw(c) /\ pc[c] \in CallLabel)
  <2>1. CASE \E d \in Calls : Begin(c, d)
    BY <1>1, <2>1, StepBegins
  <2>2. CASE ~ \E d \in Calls : Begin(c, d)
    <3>1. ~Throw(c)
      BY <1>4, <2>2, LabelSets, LabelOf DEF Resolve, ValidateInstalled, ValidateStaged, Chown, Chmod,
         RetireUnlinks, RetireFindsNothing, RetireFindsChildren, Rename, RenameCrossDevice, CopyOpen,
         CopyBlock, WriteMerged, Seal, Publish, CompareOpen, CompareRead, CompareVerify, Validating,
         Comparing, Side
    <3> QED
      BY <1>1, <1>4, <2>2, <3>1, StepValidates, StepDresses, StepDiscards, StepMoves, StepPublishes,
         StepCompares DEF Resolve
  <2> QED
    BY <2>1, <2>2
<1>5. CASE Scan(c) \/ ScanError(c)
  <2>1. pc[c] \notin CallLabel
    BY <1>5, LabelSets DEF Scan, ScanError, ScanObserveStaged, ScanOmitStructural,
       ScanObserveInstalled, InspectOpen, InspectReadInstalled, InspectReadStaged, InspectRecheck,
       LinkRead, LinkCheck, LinkLabel, CheckLabel, Forget, ScanLabel, Side
  <2> QED
    BY <1>1, <1>5, <2>1, StepScan
<1>6. CASE CallError(c) \/ Crash(c)
  <2>1. pc[c] \in CallLabel
    BY <1>6 DEF CallError, Crash
  <2> QED
    BY <1>1, <1>6, <2>1, StepGivesUp
<1> QED
  BY <1>2, <1>3, <1>4, <1>5, <1>6, AloneSteps

LEMMA InitRefines ==
  ASSUME Alone, Client # {}, Init
  PROVE  D!Init
<1>1. Caller \in Client
  BY CallerAlone
<1>2. pc[Caller] = "idle" /\ result[Caller] = "none"
  BY <1>1 DEF Init
<1>3. Duty = D!NoDuty /\ Carried = FALSE
  BY <1>1, <1>2, OffCall, LabelSets
<1> QED
  BY <1>2, <1>3 DEF D!Init

(* Every step of scan() and of the six dispositions, with its failures and *)
(* the death of the client, is a step of Disposition or changes nothing    *)
(* that Disposition speaks of: each name changes as a whole and towards    *)
(* the decision, and the staged object goes last.                          *)
(* (keep, install, install_merged, restore, relocate_relic, remove_relic)  *)
THEOREM Refinement ==
  ASSUME Alone, Client # {}
  PROVE  Spec => Implements
<1>1. Spec => [](IInv /\ Truth /\ Orderly /\ NoLinks /\ Preserved /\ \A c \in Client : Journey(c))
  BY Journeys
<1>2. Spec => [](IInv /\ Orderly /\ Separate /\ Preserved)
  BY Preservation DEF Alone
<1> DEFINE Inv == LinkModes /\ \A c \in Client : Counterpart(c)
           Way == \A c \in Client : Journey(c)
<1>3. Init => Inv /\ D!Init
  BY InitModes, InitRefines DEF Init, Counterpart
<1>4. ASSUME IInv, Orderly, Inv, [Next]_vars
      PROVE  Inv'
  BY <1>4, NextModes, CounterpartKept
<1>5. ASSUME IInv, IInv', Truth, Orderly, Separate, NoLinks, Preserved, Inv, Way, Way', [Next]_vars
      PROVE  [D!Next]_(D!vars)
  BY <1>5, NextRefines
<1> HIDE DEF Inv
<1> QED
  BY <1>1, <1>2, <1>3, <1>4, <1>5, PTL DEF Spec, Implements, D!Spec
==============================================================================
