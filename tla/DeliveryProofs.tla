---------------------------- MODULE DeliveryProofs ----------------------------
(***************************************************************************)
(* What a disposition promises when it returns, for a client that is left  *)
(* alone: the journey of the two objects from the validation to the end of *)
(* the call, whatever fails on the way.                                    *)
(***************************************************************************)
EXTENDS SurvivalProofs

(* One client, no other process, separate files and timestamps that tell   *)
(* changes apart.                                                          *)
Alone ==
  /\ \A c, d \in Client : c = d
  /\ Interference = {} /\ ~HardLinked /\ ~CoarseClock

Matching(c, s) == FingerprintMatches(cand[c][s], Sees(c, s))

(* The call changes metadata only and then removes the staged name.        *)
Adjusts(c) == call[c].kind = "keep" \/ OnDirectory(c)

(* What belongs under the installed name when the metadata is applied.     *)
Content(c) == IF Adjusts(c) THEN seen[c]["installed"] ELSE seen[c]["staged"]

(* What is in place when the staged name is about to be removed.           *)
Placed(c) ==
  LET kind == call[c].kind
      dest == call[c].dest
  IN /\ kind \in {"keep", "install", "install_merged"} => entry["installed"] # NoIno
     /\ kind \in {"keep", "install"} => HasContent(At("installed"), Content(c))
     /\ kind = "install_merged" => At("installed").data = call[c].bytes
     /\ kind \in {"keep", "install_merged"} \/ (kind = "install" /\ OnDirectory(c)) =>
          HasMetadata(At("installed"), Selected(c))
     /\ kind \in {"restore", "relocate_relic"} =>
          /\ entry[dest] # NoIno /\ HasContent(At(dest), seen[c]["staged"])
          /\ HasMetadata(At(dest), cand[c].staged)
     /\ kind = "remove_relic" => entry["installed"] = NoIno

Untouched == {"rename", "copy_open", "copy_block", "write_merged", "seal", "publish"}

Journey(c) ==
  /\ pc[c] = "validate_staged" => Matching(c, "installed")
  /\ pc[c] \in Untouched => Matching(c, "installed") /\ Matching(c, "staged")
  /\ pc[c] \in {"chown", "chmod"} =>
       /\ HoldsContent("installed", Content(c))
       /\ Adjusts(c) <=> entry["staged"] # NoIno
  /\ pc[c] = "chmod" => At("installed").owner = Selected(c).owner /\ At("installed").type # "symlink"
  /\ pc[c] \in {"seal", "publish"} /\ call[c].kind = "install_merged" =>
       node[tmp[c]].data = call[c].bytes
  /\ pc[c] = "publish" =>
       HasMetadata(node[tmp[c]], IF call[c].kind = "install_merged" THEN Selected(c) ELSE cand[c].staged)
  /\ pc[c] = "retire" => Placed(c)
  /\ pc[c] = "ready" /\ result[c] = "ok" => Delivered(c)

------------------------------------------------------------------------------
LEMMA AloneSteps ==
  ASSUME Alone, [Next]_vars, NEW c \in Client
  PROVE  UNCHANGED vars \/ Scan(c) \/ Resolve(c) \/ ScanError(c) \/ CallError(c) \/ Crash(c)
<1>1. ~Others
  BY DEF Alone, Others, OtherRemoves, OtherWrites, OtherChmods, OtherPuts
<1>2. \A d \in Client : d = c
  BY DEF Alone
<1> QED
  BY <1>1, <1>2 DEF Next

(* What a step leaves of an inode.                                         *)
Alike(i) ==
  /\ node'[i].type = node[i].type /\ node'[i].data = node[i].data
  /\ node'[i].owner = node[i].owner /\ node'[i].mode = node[i].mode

LEMMA RelinkAlike ==
  ASSUME node \in [Ino -> Node \cup {NoNode}], NEW i \in Ino, node'[i] # NoNode,
         \/ UNCHANGED node \/ Settle(node)
         \/ \E t \in Now, touched \in SUBSET (Ino \cup {NoIno}) : Settle(Touch(node, touched, t))
  PROVE  Alike(i)
<1>1. CASE UNCHANGED node \/ Settle(node)
  BY <1>1 DEF Settle, Alike
<1>2. ASSUME NEW t \in Now, NEW touched \in SUBSET (Ino \cup {NoIno}), Settle(Touch(node, touched, t))
      PROVE  Alike(i)
  <2>1. node'[i] = Touch(node, touched, t)[i]
    BY <1>2 DEF Settle
  <2>2. node'[i] = node[i] \/ (node[i] # NoNode /\ node'[i] = [node[i] EXCEPT !.ctime = t])
    BY <2>1 DEF Touch
  <2>3. node[i] # NoNode => node[i] \in Node
    OBVIOUS
  <2> QED
    BY <2>2, <2>3 DEF Alike, Node
<1> QED
  BY <1>1, <1>2

LEMMA ChangeElsewhere ==
  ASSUME node \in [Ino -> Node \cup {NoNode}], NEW i \in Ino, NEW n, NEW t, Change(i, n, t),
         NEW j \in Ino, j # i, node'[j] # NoNode
  PROVE  node'[j] = node[j]
<1> DEFINE nd == [node EXCEPT ![i] = n]
<1>1. nd[j] = node[j]
  OBVIOUS
<1>2. Settle(Touch(nd, {i}, t))
  BY DEF Change
<1> HIDE DEF nd
<1>3. node'[j] = Touch(nd, {i}, t)[j]
  BY <1>2 DEF Settle
<1> QED
  BY <1>1, <1>3 DEF Touch

LEMMA MatchingKept ==
  ASSUME NEW c \in Client, NEW s \in Side, Matching(c, s), cand'[c] = cand[c],
         entry'[s] = entry[s], entry[s] = NoIno \/ node'[entry[s]] = node[entry[s]]
  PROVE  Matching(c, s)'
BY DEF Matching, Sees, Observe, Missing

(* What validation accepts is what was seen.                               *)
LEMMA Accepted ==
  ASSUME IInv, Truth, Preserved, NEW c \in Client, Holds(c), NEW s \in Side, Matching(c, s)
  PROVE  /\ cand[c][s].type = "missing" => entry[s] = NoIno
         /\ cand[c][s].type # "missing" =>
              /\ entry[s] # NoIno /\ HasContent(At(s), seen[c][s])
              /\ At(s).type = cand[c][s].type
              /\ At(s).owner = cand[c][s].owner /\ At(s).mode = cand[c][s].mode
              /\ cand[c][s].type # "directory" => At(s) = seen[c][s]
<1>1. cand[c][s].type = Sees(c, s).type /\ cand[c][s].owner = Sees(c, s).owner
      /\ cand[c][s].mode = Sees(c, s).mode
  BY DEF Matching, FingerprintMatches
<1>2. entry[s] # NoIno => At(s) \in Node
  BY NamedNode DEF At, IInv, Side, Slot
<1>3. cand[c][s].type = "missing" <=> entry[s] = NoIno
  BY <1>1, <1>2 DEF Sees, Observe, Missing, At, Node, NodeType
<1>4. ASSUME entry[s] # NoIno
      PROVE  /\ At(s).type = cand[c][s].type
             /\ At(s).owner = cand[c][s].owner /\ At(s).mode = cand[c][s].mode
  BY <1>1, <1>4 DEF Sees, Observe, At
<1>5. ASSUME entry[s] # NoIno, cand[c][s].type # "directory"
      PROVE  At(s) = seen[c][s]
  BY <1>5, FreshObject DEF Matching, At
<1>6. ASSUME entry[s] # NoIno, cand[c][s].type = "directory"
      PROVE  HasContent(At(s), seen[c][s])
  <2>1. At(s).data = Blank
    BY <1>4, <1>6 DEF Preserved, Dataless, Side, Slot
  <2>2. seen[c][s] # NoNode /\ seen[c][s].type = "directory" /\ seen[c][s].data = Blank
    BY <1>6 DEF Preserved, Typed
  <2> QED
    BY <1>4, <1>6, <2>1, <2>2 DEF HasContent
<1> QED
  BY <1>3, <1>4, <1>5, <1>6 DEF HasContent

------------------------------------------------------------------------------
(* Elsewhere there is nothing to show.                                     *)
LEMMA JourneyRest ==
  ASSUME NEW c \in Client,
         pc'[c] \notin Untouched \cup {"validate_staged", "chown", "chmod", "retire"},
         ~Resolved(c)'
  PROVE  Journey(c)'
BY DEF Journey, Untouched, Resolved, Delivered

LEMMA JourneyValidates ==
  ASSUME IInv, Truth, Preserved, NEW c \in Client, Journey(c), ~Throw(c),
         ValidateInstalled(c) \/ ValidateStaged(c)
  PROVE  Journey(c)'
<1> USE DEF Goto, IInv, TypeOK
<1>1. CASE ValidateInstalled(c)
  <2>1. /\ pc'[c] = "validate_staged" /\ Matching(c, "installed")
        /\ UNCHANGED <<entry, node, cand>>
    BY <1>1 DEF ValidateInstalled, Matching, fsVars, ctlVars
  <2>2. Matching(c, "installed")'
    BY <2>1, MatchingKept DEF Side
  <2> QED
    BY <2>1, <2>2 DEF Journey, Untouched
<1>2. CASE ValidateStaged(c)
  <2>1. /\ pc[c] = "validate_staged" /\ pc'[c] = FirstStep(call[c], cand[c])
        /\ Matching(c, "installed") /\ Matching(c, "staged")
        /\ Applicable(call[c].kind, cand[c])
        /\ UNCHANGED <<entry, node, tmp, call, cand, seen>>
    BY <1>2 DEF ValidateStaged, Matching, Journey, fsVars, ctlVars, histVars
  <2>2. Matching(c, "installed")' /\ Matching(c, "staged")'
    BY <2>1, MatchingKept DEF Side
  <2>3. Holds(c)
    BY <2>1 DEF Holds, CallLabel
  <2>4. call[c].kind \in {"keep", "install"} => cand[c]["installed"].type # "missing"
    BY <2>1 DEF Applicable, Relic, State, ClassifyCandidate
  <2>5. call[c].kind \in {"keep", "install"} =>
          /\ HoldsContent("installed", seen[c]["installed"])
          /\ At("installed").type = cand[c]["installed"].type
          /\ At("installed").owner = cand[c]["installed"].owner
          /\ At("installed").mode = cand[c]["installed"].mode
    BY <2>1, <2>3, <2>4, Accepted DEF HoldsContent, Side
  <2>6. CASE pc'[c] = "chown"
    <3>1. Adjusts(c) /\ call[c].kind \in {"keep", "install"}
      BY <2>1, <2>6, LabelOf DEF FirstStep, Adjusts, OnDirectory
    <3>2. cand[c]["staged"].type # "missing"
      BY <2>3, HoldsPair DEF Faithful, Side
    <3>3. entry["staged"] # NoIno
      BY <2>1, <2>3, <3>2, Accepted DEF Side
    <3> QED
      BY <2>1, <2>5, <2>6, <3>1, <3>3
      DEF Journey, Untouched, HoldsContent, Content, Adjusts, OnDirectory, At
  <2>7. CASE pc'[c] = "retire" /\ call[c].kind = "keep"
    <3>1. call[c].source = "installed" \/ MetadataEqual(cand[c])
      BY <2>1, <2>7 DEF FirstStep, Disposition, Source
    <3>2. HasMetadata(At("installed"), Selected(c))
      BY <2>5, <2>7, <3>1
      DEF HasMetadata, Selected, MetadataEqual, SameMetadata, Disposition, Source
    <3> QED
      BY <2>1, <2>5, <2>7, <3>2
      DEF Journey, Untouched, Placed, HoldsContent, Content, Adjusts, At, Selected
  <2>8. CASE pc'[c] = "retire" /\ call[c].kind # "keep"
    <3>1. call[c].kind = "remove_relic"
      BY <2>1, <2>8, LabelOf DEF FirstStep
    <3>2. cand[c]["installed"].type = "missing"
      BY <2>1, <3>1 DEF Applicable, Relic, State, ClassifyCandidate
    <3>3. entry["installed"] = NoIno
      BY <2>1, <2>3, <3>2, Accepted DEF Side
    <3> QED
      BY <2>1, <2>8, <3>1, <3>3 DEF Journey, Untouched, Placed
  <2>9. CASE pc'[c] \in {"rename", "write_merged", "open_installed"}
    BY <2>2, <2>9 DEF Journey, Untouched
  <2> QED
    BY <2>1, <2>6, <2>7, <2>8, <2>9, LabelOf DEF FirstStep
<1> QED
  BY <1>1, <1>2

(* Metadata.                                                               *)
LEMMA MetadataEffect ==
  ASSUME IInv, IInv', NoLinks, NEW c \in Client, ~Throw(c), Chown(c) \/ Chmod(c)
  PROVE  /\ UNCHANGED <<entry, call, cand, seen, tmp>>
         /\ entry["installed"] # NoIno
         /\ At("installed")'.type = At("installed").type
         /\ At("installed")'.data = At("installed").data
         /\ Chown(c) => At("installed")'.owner = Selected(c).owner
         /\ Chmod(c) => At("installed")'.owner = At("installed").owner
         /\ Chmod(c) /\ At("installed").type # "symlink" =>
              At("installed")'.mode = Selected(c).mode
<1> DEFINE i == entry["installed"]
<1>1. i # NoIno /\ UNCHANGED <<entry, call, cand, seen, tmp>>
  BY DEF Chown, Chmod, histVars
<1>2. i \in Ino /\ node[i] \in Node /\ node'[i] # NoNode
  <2>1. i \in Ino /\ node[i] \in Node
    BY <1>1, NamedNode DEF IInv, Slot
  <2> QED
    BY <1>1, <2>1 DEF IInv, TypeOK, Live, Slot
<1>3. Selected(c).owner \in Owner /\ Selected(c).mode \in Mode
  BY SelectedType DEF IInv
<1>4. node \in [Ino -> Node \cup {NoNode}]
  BY DEF IInv, TypeOK
<1>5. CASE Chown(c)
  <2> DEFINE n == Chowned(node[i], Selected(c).owner)
  <2>1. PICK t \in Now : Change(i, n, t)
    BY <1>1, <1>5 DEF Chown
  <2>2. /\ n \in Node /\ n.type = node[i].type /\ n.data = node[i].data
        /\ n.owner = Selected(c).owner
    BY <1>2, <1>3, ModeAssumption DEF Chowned, Node
  <2> HIDE DEF n
  <2>3. node'[i] = [n EXCEPT !.ctime = t]
    BY <1>2, <1>4, <2>1, <2>2, ChangeResult
  <2> QED
    BY <1>1, <1>5, <2>2, <2>3 DEF At, Node, Chown, Chmod
<1>6. CASE Chmod(c) /\ node[i].type # "symlink"
  <2> DEFINE n == [node[i] EXCEPT !.mode = Selected(c).mode]
  <2>1. PICK t \in Now : Change(i, n, t)
    BY <1>1, <1>6 DEF Chmod
  <2>2. /\ n \in Node /\ n.type = node[i].type /\ n.data = node[i].data
        /\ n.owner = node[i].owner /\ n.mode = Selected(c).mode
    BY <1>2, <1>3 DEF Node
  <2> HIDE DEF n
  <2>3. node'[i] = [n EXCEPT !.ctime = t]
    BY <1>2, <1>4, <2>1, <2>2, ChangeResult
  <2> QED
    BY <1>1, <1>6, <2>2, <2>3 DEF At, Node, Chown, Chmod
<1>7. CASE Chmod(c) /\ node[i].type = "symlink"
  BY <1>1, <1>7 DEF At, Chmod, Chown
<1> QED
  BY <1>5, <1>6, <1>7

LEMMA JourneyMetadata ==
  ASSUME IInv, IInv', NoLinks, NEW c \in Client, Order(c), Journey(c), ~Throw(c),
         Chown(c) \/ Chmod(c)
  PROVE  Journey(c)'
<1>1. /\ UNCHANGED <<entry, call, cand, seen>>
      /\ entry["installed"] # NoIno
      /\ HoldsContent("installed", Content(c)) /\ (Adjusts(c) <=> entry["staged"] # NoIno)
      /\ call[c].kind \in {"keep", "install"}
  BY MetadataEffect DEF Chown, Chmod, Journey, Order
<1>2. HoldsContent("installed", Content(c))'
  BY <1>1, MetadataEffect
  DEF HoldsContent, HasContent, Content, Adjusts, OnDirectory
<1>3. CASE Chown(c) /\ At("installed").type # "symlink"
  <2>1. pc'[c] = "chmod"
    BY <1>1, <1>3 DEF Chown, Proceed, Goto, IInv, TypeOK, At
  <2>2. At("installed")'.owner = Selected(c)'.owner /\ At("installed")'.type # "symlink"
    BY <1>1, <1>3, MetadataEffect DEF Selected
  <2> QED
    BY <1>1, <1>2, <2>1, <2>2 DEF Journey, Untouched, Adjusts, OnDirectory
<1>4. CASE Chmod(c) \/ At("installed").type = "symlink"
  <2>1. pc'[c] = AfterMetadata(c)
    BY <1>1, <1>4 DEF Chown, Chmod, Proceed, Goto, IInv, TypeOK, At
  <2>2. HasMetadata(At("installed"), Selected(c))'
    <3>1. CASE Chmod(c)
      <4>1. At("installed").owner = Selected(c).owner /\ At("installed").type # "symlink"
        BY <3>1 DEF Chmod, Journey
      <4> QED
        BY <1>1, <3>1, <4>1, MetadataEffect DEF HasMetadata, Selected
    <3>2. CASE Chown(c) /\ At("installed").type = "symlink"
      BY <1>1, <3>2, MetadataEffect DEF HasMetadata, Selected
    <3> QED
      BY <1>4, <3>1, <3>2
  <2>3. CASE Adjusts(c)
    <3>1. pc'[c] = "retire" /\ Adjusts(c)'
      BY <1>1, <2>1, <2>3 DEF AfterMetadata, Adjusts, OnDirectory
    <3> QED
      BY <1>1, <1>2, <2>2, <3>1 DEF Journey, Untouched, Placed, HoldsContent
  <2>4. CASE ~Adjusts(c)
    <3>1. /\ pc'[c] = "ready" /\ call'[c].kind = "install" /\ ~OnDirectory(c)'
          /\ entry'["staged"] = NoIno /\ entry'["installed"] # NoIno /\ ~Adjusts(c)'
      BY <1>1, <2>1, <2>4 DEF AfterMetadata, Adjusts, OnDirectory
    <3>2. Delivered(c)'
      BY <1>2, <2>2, <3>1 DEF Delivered, Content, HoldsContent
    <3> QED
      BY <3>1, <3>2 DEF Journey, Untouched
  <2> QED
    BY <2>3, <2>4
<1> QED
  BY <1>3, <1>4

(* The staged name goes.                                                   *)
LEMMA RetireEffect ==
  ASSUME IInv, IInv', NEW c \in Client, ~Throw(c),
         RetireUnlinks(c) \/ RetireFindsNothing(c) \/ RetireFindsChildren(c)
  PROVE  /\ pc[c] = "retire" /\ pc'[c] = AfterRetire(c) /\ UNCHANGED <<call, cand, seen>>
         /\ \A s \in Slot \ {"staged"} :
              entry'[s] = entry[s] /\ (entry[s] # NoIno => Alike(entry[s]))
         /\ OnDirectory(c) \/ entry'["staged"] = NoIno
<1>1. pc[c] = "retire" /\ pc'[c] = AfterRetire(c) /\ UNCHANGED <<call, cand, seen>>
  BY DEF RetireUnlinks, RetireFindsNothing, RetireFindsChildren, Proceed, Goto, IInv, TypeOK,
         histVars
<1>2. \A s \in Slot \ {"staged"} : entry'[s] = entry[s]
  BY DEF RetireUnlinks, RetireFindsNothing, RetireFindsChildren, fsVars, IInv, TypeOK
<1>3. \/ UNCHANGED node
      \/ \E t \in Now, touched \in SUBSET (Ino \cup {NoIno}) : Settle(Touch(node, touched, t))
  <2>1. {entry["staged"]} \in SUBSET (Ino \cup {NoIno})
    BY DEF IInv, TypeOK, Slot
  <2> QED
    BY <2>1 DEF RetireUnlinks, RetireFindsNothing, RetireFindsChildren, fsVars
<1>4. ASSUME NEW s \in Slot \ {"staged"}, entry[s] # NoIno
      PROVE  Alike(entry[s])
  <2>1. entry[s] \in Ino /\ node'[entry[s]] # NoNode /\ node \in [Ino -> Node \cup {NoNode}]
    BY <1>2, <1>4 DEF IInv, TypeOK, Live
  <2> QED
    BY <1>3, <2>1, RelinkAlike
<1>5. OnDirectory(c) \/ entry'["staged"] = NoIno
  BY FileRetires DEF RetireUnlinks, IInv, TypeOK, Slot
<1> QED
  BY <1>1, <1>2, <1>4, <1>5

LEMMA PlacedKept ==
  ASSUME NEW c \in Client, Placed(c), UNCHANGED <<call, cand, seen>>,
         call[c].dest \in Slot \ {"staged"},
         \A s \in Slot \ {"staged"} :
           entry'[s] = entry[s] /\ (entry[s] # NoIno => Alike(entry[s]))
  PROVE  Placed(c)'
<1>1. \A s \in Slot \ {"staged"} : entry[s] # NoIno =>
        /\ node'[entry'[s]].type = node[entry[s]].type /\ node'[entry'[s]].data = node[entry[s]].data
        /\ node'[entry'[s]].owner = node[entry[s]].owner /\ node'[entry'[s]].mode = node[entry[s]].mode
  BY DEF Alike
<1> QED
  BY <1>1 DEF Placed, Content, Adjusts, OnDirectory, Selected, HasContent, HasMetadata, At, Slot

LEMMA JourneyRetire ==
  ASSUME IInv, IInv', Orderly, NEW c \in Client, Journey(c), ~Throw(c),
         RetireUnlinks(c) \/ RetireFindsNothing(c) \/ RetireFindsChildren(c)
  PROVE  Journey(c)'
<1>1. /\ pc[c] = "retire" /\ pc'[c] = AfterRetire(c) /\ UNCHANGED <<call, cand, seen>>
      /\ OnDirectory(c) \/ entry'["staged"] = NoIno
  BY RetireEffect
<1>2. Placed(c)'
  <2>1. call[c].dest \in Slot \ {"staged"} /\ Placed(c)
    BY <1>1, Destinations, LabelSets DEF Journey
  <2> QED
    BY <1>1, <2>1, RetireEffect, PlacedKept
<1>3. CASE call[c].kind = "install" /\ ~OnDirectory(c)
  <2>1. pc'[c] = "chown" /\ entry'["staged"] = NoIno /\ ~Adjusts(c)'
    BY <1>1, <1>3 DEF AfterRetire, Adjusts, OnDirectory
  <2>2. HoldsContent("installed", Content(c))'
    BY <1>1, <1>2, <1>3 DEF Placed, HoldsContent
  <2> QED
    BY <2>1, <2>2 DEF Journey, Untouched
<1>4. CASE ~ (call[c].kind = "install" /\ ~OnDirectory(c))
  <2>1. /\ pc'[c] = "ready" /\ ~ (call'[c].kind = "install" /\ ~OnDirectory(c)')
        /\ OnDirectory(c)' \/ entry'["staged"] = NoIno
    BY <1>1, <1>4 DEF AfterRetire, OnDirectory
  <2>2. call'[c].kind # "compare_text"
    BY <1>1 DEF Orderly, Order
  <2>3. Delivered(c)'
    BY <1>2, <2>1, <2>2 DEF Placed, Delivered, Content, Adjusts
  <2> QED
    BY <2>1, <2>3 DEF Journey, Untouched
<1> QED
  BY <1>3, <1>4

(* The staged object moves.                                                *)
LEMMA JourneyRename ==
  ASSUME IInv, IInv', Truth, Preserved, Orderly, NoLinks, NEW c \in Client, Journey(c),
         ~Throw(c), Rename(c)
  PROVE  Journey(c)'
<1> DEFINE i == entry["staged"]
           n == seen[c]["staged"]
<1>1. /\ pc[c] = "rename" /\ i # NoIno /\ entry' = Renamed("staged", call[c].dest, i)
      /\ pc'[c] = IF call[c].kind = "install" THEN "chown" ELSE "ready"
      /\ UNCHANGED <<call, cand, seen>>
  BY DEF Rename, Proceed, Goto, IInv, TypeOK, histVars
<1>2. /\ call[c].kind \in Moving /\ (call[c].kind = "install" => ~OnDirectory(c))
  BY <1>1 DEF Orderly, Order
<1>3. PICK q \in Slot \ {"staged"} : q = call[c].dest
  BY <1>1, Destinations, LabelSets
<1>4. call[c].kind # "relocate_relic" => q = "installed"
  BY <1>1, <1>3, Destinations, LabelSets
<1>5. entry'["staged"] = NoIno /\ entry'[q] = i
  <2>1. entry[q] # i
    BY <1>1, <1>3 DEF NoLinks, Slot
  <2> QED
    BY <1>1, <1>3, <2>1 DEF Renamed, IInv, TypeOK, Slot
<1>6. /\ HasContent(node[i], n) /\ node[i].owner = cand[c]["staged"].owner
      /\ node[i].mode = cand[c]["staged"].mode
  <2>1. Holds(c) /\ Matching(c, "staged")
    BY <1>1, LabelSets DEF Holds, Journey, Untouched
  <2> QED
    BY <1>1, <2>1, Accepted DEF At, Side
<1>7. Alike(i)
  <2>1. {i, entry[call[c].dest]} \in SUBSET (Ino \cup {NoIno})
    BY <1>3 DEF IInv, TypeOK, Slot
  <2>2. \/ UNCHANGED node
        \/ \E t \in Now, touched \in SUBSET (Ino \cup {NoIno}) : Settle(Touch(node, touched, t))
    BY <2>1 DEF Rename
  <2>3. i \in Ino /\ node'[i] # NoNode /\ node \in [Ino -> Node \cup {NoNode}]
    BY <1>1, <1>5 DEF IInv, TypeOK, Live, Slot
  <2> QED
    BY <2>2, <2>3, RelinkAlike
<1>8. /\ HasContent(At(q)', n) /\ At(q)'.owner = cand[c]["staged"].owner
      /\ At(q)'.mode = cand[c]["staged"].mode /\ entry'[q] # NoIno
  BY <1>1, <1>5, <1>6, <1>7 DEF At, Alike, HasContent
<1>9. CASE call[c].kind = "install"
  <2>1. ~Adjusts(c)' /\ pc'[c] = "chown"
    BY <1>1, <1>2, <1>9 DEF Adjusts, OnDirectory
  <2>2. HoldsContent("installed", Content(c))'
    BY <1>1, <1>4, <1>8, <1>9, <2>1 DEF HoldsContent, Content
  <2> QED
    BY <1>5, <2>1, <2>2 DEF Journey, Untouched
<1>10. CASE call[c].kind \in {"restore", "relocate_relic"}
  <2>1. Delivered(c)'
    BY <1>1, <1>3, <1>5, <1>8, <1>10 DEF Delivered, HasMetadata
  <2>2. pc'[c] = "ready"
    BY <1>1, <1>10
  <2> QED
    BY <2>1, <2>2 DEF Journey, Untouched
<1> QED
  BY <1>2, <1>9, <1>10 DEF Moving

(* A temporary file is made and filled: the two names stay as they are.    *)
LEMMA CopyEffect ==
  ASSUME IInv, IInv', Separate, NEW c \in Client, ~Throw(c),
         CopyOpen(c) \/ CopyBlock(c) \/ WriteMerged(c) \/ Seal(c)
  PROVE  /\ UNCHANGED <<entry, call, cand, seen>>
         /\ \A s \in Slot : entry[s] # NoIno => node'[entry[s]] = node[entry[s]]
<1>1. UNCHANGED <<entry, call, cand, seen>>
  BY DEF CopyOpen, CopyBlock, WriteMerged, Seal, CreateTemporary, ctlVars, histVars
<1>2. PICK i \in Ino : /\ i \in Unused \/ i = tmp[c]
                       /\ \E n, t : Change(i, n, t)
  <2>1. CASE CopyOpen(c) \/ WriteMerged(c)
    <3>1. PICK i \in Unused : \E type, data : CreateTemporary(c, i, type, data)
      BY <2>1 DEF CopyOpen, WriteMerged, NodeType
    <3>2. i \in Ino /\ \E n, t : Change(i, n, t)
      BY <3>1 DEF CreateTemporary, Unused
    <3> QED
      BY <3>1, <3>2
  <2>2. CASE CopyBlock(c) \/ Seal(c)
    <3>1. tmp[c] # NoIno
      BY <2>2 DEF CopyBlock, Seal, IInv, Control
    <3>2. tmp[c] \in Ino
      BY <3>1, TemporaryNode DEF IInv
    <3>3. \E n, t : Change(tmp[c], n, t)
      BY <2>2 DEF CopyBlock, Seal
    <3> QED
      BY <3>2, <3>3
  <2> QED
    BY <2>1, <2>2
<1>3. ASSUME NEW s \in Slot, entry[s] # NoIno
      PROVE  node'[entry[s]] = node[entry[s]]
  <2>1. entry[s] \in Ino /\ node'[entry[s]] # NoNode /\ node \in [Ino -> Node \cup {NoNode}]
    BY <1>1, <1>3 DEF IInv, TypeOK, Live
  <2>2. entry[s] # i
    BY <1>2, <1>3 DEF Unused, Live, Separate
  <2> QED
    BY <1>2, <2>1, <2>2, ChangeElsewhere
<1> QED
  BY <1>1, <1>3

LEMMA JourneyCopies ==
  ASSUME IInv, IInv', Separate, Orderly, NEW c \in Client, Journey(c), ~Throw(c),
         RenameCrossDevice(c) \/ CopyOpen(c) \/ CopyBlock(c) \/ WriteMerged(c)
  PROVE  Journey(c)'
<1>1. /\ pc[c] \in Untouched /\ pc'[c] \in {"copy_open", "copy_block", "seal"}
      /\ UNCHANGED <<call, cand>>
  BY DEF Untouched, RenameCrossDevice, CopyOpen, CopyBlock, WriteMerged, CreateTemporary, Goto,
         IInv, TypeOK, ctlVars
<1>2. /\ entry' = entry
      /\ \A s \in Slot : entry[s] # NoIno => node'[entry[s]] = node[entry[s]]
  <2>1. CASE RenameCrossDevice(c)
    BY <2>1 DEF RenameCrossDevice, fsVars
  <2> QED
    BY <2>1, CopyEffect
<1>3. Matching(c, "installed")' /\ Matching(c, "staged")'
  <2>1. Matching(c, "installed") /\ Matching(c, "staged")
    BY <1>1 DEF Journey
  <2> QED
    BY <1>1, <1>2, <2>1, MatchingKept DEF Side, Slot
<1>4. pc'[c] = "seal" /\ call'[c].kind = "install_merged" => node'[tmp'[c]].data = call'[c].bytes
  <2>1. CASE WriteMerged(c)
    <3>1. PICK i \in Unused : CreateTemporary(c, i, "regular", call[c].bytes)
      BY <2>1 DEF WriteMerged
    <3>2. call[c].bytes \in Data
      BY DEF IInv, TypeOK, Disposition
    <3> QED
      BY <1>1, <3>1, <3>2, TemporaryContent DEF NodeType
  <2>2. CASE ~WriteMerged(c)
    <3>1. pc[c] \in {"rename", "copy_open", "copy_block"}
      BY <2>2 DEF RenameCrossDevice, CopyOpen, CopyBlock
    <3> QED
      BY <1>1, <3>1 DEF Orderly, Order, Moving
  <2> QED
    BY <2>1, <2>2
<1> QED
  BY <1>1, <1>3, <1>4 DEF Journey, Untouched

LEMMA JourneySeal ==
  ASSUME IInv, IInv', Separate, NEW c \in Client, Journey(c), ~Throw(c), Seal(c)
  PROVE  Journey(c)'
<1> DEFINE i == tmp[c]
           m == IF call[c].kind = "install_merged" THEN Selected(c) ELSE cand[c].staged
           n == Dressed(node[i], m.owner, m.mode)
<1>1. /\ pc[c] = "seal" /\ pc'[c] = "publish" /\ UNCHANGED <<call, cand, tmp>>
      /\ \E t \in Now : Change(i, n, t)
  BY DEF Seal, Goto, IInv, TypeOK, ctlVars
<1>2. Matching(c, "installed")' /\ Matching(c, "staged")'
  <2>1. Matching(c, "installed") /\ Matching(c, "staged")
    BY <1>1 DEF Journey, Untouched
  <2> QED
    BY <2>1, CopyEffect, MatchingKept DEF Side, Slot
<1>3. i \in Ino /\ node[i] \in Node /\ node'[i] # NoNode /\ node \in [Ino -> Node \cup {NoNode}]
  <2>1. i # NoIno
    BY <1>1 DEF IInv, Control
  <2> QED
    BY <1>1, <2>1, TemporaryNode DEF IInv, TypeOK, Live
<1>4. m.owner \in Owner /\ m.mode \in Mode
  BY SelectedType DEF IInv, TypeOK, CandidateRecord, Fingerprint
<1> HIDE DEF m
<1>5. n \in Node /\ n.data = node[i].data /\ HasMetadata(n, m)
  BY <1>3, <1>4, ModeAssumption DEF Dressed, Chowned, Node, HasMetadata
<1> HIDE DEF n
<1>6. PICK t \in Now : Change(i, n, t)
  BY <1>1
<1>7. node'[i] = [n EXCEPT !.ctime = t]
  BY <1>3, <1>5, <1>6, ChangeResult
<1>8. node'[i].data = node[i].data /\ HasMetadata(node'[i], m)
  BY <1>5, <1>7 DEF Node, HasMetadata
<1>9. call[c].kind = "install_merged" => node[i].data = call[c].bytes
  BY <1>1 DEF Journey
<1>10. m = IF call'[c].kind = "install_merged" THEN Selected(c)' ELSE cand'[c].staged
  BY <1>1 DEF m, Selected
<1> QED
  BY <1>1, <1>2, <1>8, <1>9, <1>10 DEF Journey, Untouched

(* The temporary file takes its name.                                      *)
LEMMA PublishEffect ==
  ASSUME IInv, IInv', Orderly, NEW c \in Client, ~Throw(c), Publish(c),
         NEW q \in Slot, q = call[c].dest
  PROVE  /\ pc[c] = "publish" /\ pc'[c] = "retire" /\ UNCHANGED <<call, cand, seen>>
         /\ entry' = [entry EXCEPT ![q] = tmp[c]] /\ entry'[q] = tmp[c] /\ tmp[c] # NoIno
         /\ Alike(tmp[c])
<1>1. /\ pc[c] = "publish" /\ pc'[c] = "retire" /\ UNCHANGED <<call, cand, seen>>
      /\ entry' = [entry EXCEPT ![q] = tmp[c]] /\ entry'[q] = tmp[c]
      /\ \E t \in Now : Settle(Touch(node, {tmp[c], entry[q]}, t))
  BY DEF Publish, Goto, IInv, TypeOK, ctlVars
<1>2. tmp[c] # NoIno
  BY <1>1 DEF IInv, Control
<1>3. {tmp[c], entry[q]} \in SUBSET (Ino \cup {NoIno})
  BY DEF IInv, TypeOK
<1>4. tmp[c] \in Ino /\ node'[tmp[c]] # NoNode /\ node \in [Ino -> Node \cup {NoNode}]
  BY <1>1, <1>2, TemporaryNode DEF IInv, TypeOK, Live
<1> QED
  BY <1>1, <1>2, <1>3, <1>4, RelinkAlike

LEMMA JourneyPublish ==
  ASSUME IInv, IInv', Preserved, Orderly, NEW c \in Client, Journey(c), ~Throw(c), Publish(c)
  PROVE  Journey(c)'
<1> DEFINE i == tmp[c]
           n == seen[c]["staged"]
<1>1. pc[c] = "publish" /\ pc[c] \in CallLabel
  BY LabelSets DEF Publish
<1>2. PICK q \in Slot \ {"staged"} : q = call[c].dest
  BY <1>1, Destinations
<1>3. call[c].kind # "relocate_relic" => q = "installed"
  BY <1>1, <1>2, Destinations
<1>4. /\ pc'[c] = "retire" /\ UNCHANGED <<call, cand, seen>>
      /\ entry'[q] = i /\ entry'[q] # NoIno /\ Alike(i)
  BY <1>2, PublishEffect
<1>5. /\ call[c].kind \in Moving \cup {"install_merged"}
      /\ (call[c].kind = "install" => ~OnDirectory(c))
  BY <1>1 DEF Orderly, Order
<1>6. CASE call[c].kind = "install_merged"
  <2>1. node[i].data = call[c].bytes /\ HasMetadata(node[i], Selected(c))
    BY <1>1, <1>6 DEF Journey
  <2>2. At(q)'.data = call[c].bytes /\ HasMetadata(At(q)', Selected(c))
    BY <1>4, <2>1 DEF At, Alike, HasMetadata
  <2>3. Placed(c)'
    BY <1>3, <1>4, <1>6, <2>2 DEF Placed, Selected
  <2> QED
    BY <1>4, <2>3 DEF Journey, Untouched
<1>7. CASE call[c].kind \in Moving
  <2>1. HasContent(node[i], n) /\ HasMetadata(node[i], cand[c]["staged"])
    BY <1>1, <1>7 DEF Journey, Preserved, Copying, Moving
  <2>2. HasContent(At(q)', n) /\ HasMetadata(At(q)', cand[c]["staged"])
    BY <1>4, <2>1 DEF At, Alike, HasContent, HasMetadata
  <2>3. Placed(c)'
    BY <1>2, <1>3, <1>4, <1>5, <1>7, <2>2 DEF Placed, Content, Adjusts, OnDirectory, Moving
  <2> QED
    BY <1>4, <2>3 DEF Journey, Untouched
<1> QED
  BY <1>5, <1>6, <1>7

------------------------------------------------------------------------------
LEMMA ScanStays ==
  ASSUME IInv, NEW c \in Client, Scan(c)
  PROVE  pc'[c] \in {"idle", "ready"} \cup ScanLabel
BY DEF IInv, TypeOK, Scan, ScanObserveStaged, ScanOmitStructural, ScanObserveInstalled,
   ScanNext, InspectOpen, InspectReadInstalled, InspectReadStaged, InspectRecheck, LinkRead,
   LinkCheck, LinkLabel, CheckLabel, Forget, ScanReturns, AbortScan, Idle, Goto, ScanLabel

(* The steps without consequence for the journey.                          *)
LEMMA JourneyElsewhere ==
  ASSUME IInv, Orderly, NEW c \in Client,
         \/ Scan(c) \/ ScanError(c) \/ CallError(c) \/ Crash(c) \/ Throw(c)
         \/ \E d \in Calls : Begin(c, d)
         \/ \E s \in Side : CompareOpen(c, s) \/ CompareRead(c, s) \/ CompareVerify(c, s)
  PROVE  Journey(c)'
<1> DEFINE Away == pc'[c] \notin Untouched \cup {"validate_staged", "chown", "chmod", "retire"}
<1> USE DEF Untouched
<1>1. CASE Scan(c)
  BY <1>1, ScanStays, NothingResolved, JourneyRest DEF Orderly, ScanLabel
<1>2. CASE ScanError(c) \/ CallError(c) \/ Crash(c) \/ Throw(c)
  <2>1. Throw(c) \/ AbortScan(c) \/ Crash(c)
    BY <1>2 DEF ScanError, CallError
  <2>2. Away
    BY <2>1 DEF Throw, AbortScan, Crash, Idle, Goto, IInv, TypeOK
  <2>3. ~Resolved(c)'
    BY <1>2, NothingResolved DEF Orderly, CallError
  <2> QED
    BY <2>2, <2>3, JourneyRest
<1>3. CASE \E d \in Calls : Begin(c, d)
  <2>1. pc'[c] = "validate_installed"
    BY <1>3 DEF Begin, Goto, IInv, TypeOK
  <2> QED
    BY <2>1, JourneyRest DEF Resolved
<1>4. ASSUME NEW s \in Side, ~Throw(c),
             CompareOpen(c, s) \/ CompareRead(c, s) \/ CompareVerify(c, s)
      PROVE  Journey(c)'
  <2>1. {OpenAt[s], ReadAt[s], VerifyAt[s], OpenAt["staged"]} \subseteq Comparing
    BY LabelOf DEF Comparing, Side
  <2>2. pc[c] \in Comparing /\ pc'[c] \in Comparing \cup {"ready"} /\ call' = call
    BY <1>4, <2>1 DEF IInv, TypeOK, CompareOpen, CompareRead, CompareVerify, Goto, Proceed,
           ctlVars
  <2>3. ~Resolved(c)'
    BY <2>2 DEF Resolved, Orderly, Order
  <2>4. Away
    BY <2>2 DEF Comparing
  <2> QED
    BY <2>3, <2>4, JourneyRest
<1> QED
  BY <1>1, <1>2, <1>3, <1>4

LEMMA NextJourney ==
  ASSUME Alone, IInv, IInv', Truth, Orderly, Separate, NoLinks, Preserved, [Next]_vars,
         NEW c \in Client, Journey(c)
  PROVE  Journey(c)'
<1>1. CASE UNCHANGED vars
  BY <1>1 DEF vars, fsVars, ctlVars, histVars, Journey, Matching, Sees, HoldsContent, HasContent,
     Content, Adjusts, OnDirectory, At, Selected, Placed, Delivered, HasMetadata
<1>2. CASE Throw(c)
  BY <1>2, JourneyElsewhere
<1>3. CASE Resolve(c) /\ ~Throw(c)
  BY <1>3, JourneyElsewhere, JourneyValidates, JourneyMetadata, JourneyRetire, JourneyRename,
     JourneyCopies, JourneySeal, JourneyPublish
  DEF Resolve, Orderly
<1>4. CASE Scan(c) \/ ScanError(c) \/ CallError(c) \/ Crash(c)
  BY <1>4, JourneyElsewhere
<1> QED
  BY <1>1, <1>2, <1>3, <1>4, AloneSteps

LEMMA InitJourney ==
  ASSUME Init, ~HardLinked
  PROVE  NoLinks /\ \A c \in Client : Journey(c)
BY DEF Init, NoLinks, Journey, Untouched

(* From the validation to the end of a call that nobody disturbs, the two  *)
(* objects are what the candidate says they are or on their way to what    *)
(* the disposition promises.                                               *)
(* (validate_current, apply_metadata, move_*, copy_*_across_filesystems)   *)
THEOREM Journeys ==
  ASSUME Alone
  PROVE  Spec => [](IInv /\ Truth /\ Orderly /\ NoLinks /\ Preserved /\ \A c \in Client : Journey(c))
<1> USE DEF Alone
<1>1. Spec => [](IInv /\ Truth)
  BY Observations
<1>2. Spec => [](IInv /\ Orderly /\ Separate /\ Preserved)
  BY Preservation
<1> DEFINE Inv == NoLinks /\ \A c \in Client : Journey(c)
<1>3. Init => Inv
  BY InitJourney
<1>4. ASSUME IInv, IInv', Truth, Orderly, Separate, Preserved, Inv, [Next]_vars
      PROVE  Inv'
  <2>1. NoLinks'
    BY <1>4, NextNoLinks
  <2>2. ASSUME NEW c \in Client
        PROVE  Journey(c)'
    BY <1>4, <2>2, NextJourney
  <2> QED
    BY <2>1, <2>2
<1> QED
  BY <1>1, <1>2, <1>3, <1>4, PTL DEF Spec

(* A disposition that returns has done what it promises: the installed     *)
(* name has the chosen contents under the chosen metadata, set-id bits     *)
(* included, and the staged name is gone.  (keep, install, install_merged, *)
(* restore, relocate_relic, remove_relic)                                  *)
THEOREM SuccessIsDelivery ==
  ASSUME Alone
  PROVE  Spec => []SuccessDelivers
<1>1. (\A c \in Client : Journey(c)) => SuccessDelivers
  BY DEF Journey, SuccessDelivers
<1>2. Spec => [](IInv /\ Truth /\ Orderly /\ NoLinks /\ Preserved /\ \A c \in Client : Journey(c))
  BY Journeys
<1> QED
  BY <1>1, <1>2, PTL

(* Until write_merged_file() renames, the installed file is the one that   *)
(* was scanned, under its old metadata; afterwards it has the merged bytes *)
(* under the selected metadata, however the call goes on.                  *)
THEOREM MergedAtomically ==
  ASSUME Alone
  PROVE  Spec => []MergedIsAtomic
<1>1. ASSUME IInv, Truth, Orderly, Preserved, \A c \in Client : Journey(c)
      PROVE  MergedIsAtomic
  <2>1. SUFFICES ASSUME NEW c \in Client, call[c].kind = "install_merged",
                        pc[c] \in {"write_merged", "seal", "publish", "retire"}
                 PROVE  IF pc[c] = "retire"
                        THEN At("installed").data = call[c].bytes
                             /\ HasMetadata(At("installed"), Selected(c))
                        ELSE At("installed") = seen[c]["installed"]
    BY DEF MergedIsAtomic
  <2>2. CASE pc[c] = "retire"
    BY <1>1, <2>1, <2>2 DEF Journey, Placed
  <2>3. CASE pc[c] # "retire"
    <3>1. Matching(c, "installed") /\ Holds(c)
      BY <1>1, <2>1, <2>3, LabelSets DEF Journey, Untouched, Holds
    <3>2. cand[c]["installed"].type = "regular"
      BY <1>1, <2>1, LabelSets DEF Orderly, Order, Applicable, Validating
    <3> QED
      BY <1>1, <2>3, <3>1, <3>2, Accepted DEF Side
  <2> QED
    BY <2>2, <2>3
<1>2. Spec => [](IInv /\ Truth /\ Orderly /\ NoLinks /\ Preserved /\ \A c \in Client : Journey(c))
  BY Journeys
<1> QED
  BY <1>1, <1>2, PTL
==============================================================================
