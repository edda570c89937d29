---------------------------- MODULE SurvivalProofs ----------------------------
(***************************************************************************)
(* The contents of the staged object stay under some name until a          *)
(* disposition that means to discard them has run: whatever the clients    *)
(* do at the same time, whatever fails and whoever dies.  No hypothesis    *)
(* about timestamps is needed, only that no other process writes, removes  *)
(* or puts anything.                                                       *)
(***************************************************************************)
EXTENDS ResolutionProofs

HoldsContent(s, n) == entry[s] # NoIno /\ HasContent(At(s), n)

(* The types of a candidate are those of the objects seen, and a directory *)
(* has no contents.                                                        *)
Typed(c) ==
  /\ pc[c] # "idle" => seen[c]["staged"] # NoNode
  /\ \A s \in Side :
       /\ cand[c][s].type = IF seen[c][s] = NoNode THEN "missing" ELSE seen[c][s].type
       /\ seen[c][s] # NoNode /\ seen[c][s].type = "directory" => seen[c][s].data = Blank

Dataless == \A s \in Slot : entry[s] # NoIno /\ At(s).type = "directory" => At(s).data = Blank

(* All clients saw the same contents at the staged name, and they are      *)
(* there still if anything is.                                             *)
Agreed(c) ==
  seen[c]["staged"] # NoNode =>
    /\ entry["staged"] # NoIno => HasContent(At("staged"), seen[c]["staged"])
    /\ \A d \in Client : seen[d]["staged"] # NoNode => HasContent(seen[d]["staged"], seen[c]["staged"])

(* A copy across filesystems, as far as it has come.                       *)
Copying(c) ==
  /\ pc[c] = "copy_block" =>
       /\ HasContent(node[fd[c]["staged"]], seen[c]["staged"])
       /\ node[tmp[c]].type = seen[c]["staged"].type
       /\ \A k \in 1 .. got[c].blocks : node[tmp[c]].data[k] = seen[c]["staged"].data[k]
  /\ pc[c] \in {"seal", "publish"} =>
       IF call[c].kind = "install_merged" THEN node[tmp[c]].type = "regular"
       ELSE HasContent(node[tmp[c]], seen[c]["staged"])

(* No temporary file is open for reading.                                  *)
Opened == \A c, d \in Client, s \in Side : tmp[d] # NoIno => fd[c][s] # tmp[d]

(* The contents are under some name, and under another one than the staged *)
(* one before a disposition that brings them elsewhere removes that.       *)
Surviving(c) ==
  log = {} /\ seen[c]["staged"] # NoNode =>
    /\ \E s \in Slot : HoldsContent(s, seen[c]["staged"])
    /\ pc[c] = "retire" /\ call[c].kind \in Moving =>
         \E s \in Slot \ {"staged"} : HoldsContent(s, seen[c]["staged"])

(* A directory that stands for a staged one stays where it is.             *)
Paired(c) ==
  /\ seen[c]["staged"] # NoNode /\ seen[c]["staged"].type = "directory"
  /\ seen[c]["installed"] # NoNode /\ seen[c]["installed"].type = "directory"
  => HoldsContent("installed", seen[c]["staged"])

Preserved ==
  /\ Opened /\ Dataless
  /\ \A c \in Client : Typed(c) /\ Agreed(c) /\ Copying(c) /\ Paired(c) /\ Surviving(c)

------------------------------------------------------------------------------
(* What a step leaves alone.                                               *)
LEMMA ContentsKept ==
  ASSUME Keeping, "write" \notin Interference, NEW i \in Ino, i \in Live, node'[i] # NoNode,
         \A c \in Client : tmp[c] = i => ~CopyBlock(c)
  PROVE  HasContent(node'[i], node[i])
BY DEF Keeping, Kept, HasContent

(* Every name refers to what some name referred to, or to a temporary file *)
(* that was just published.                                                *)
LEMMA NamedFrom ==
  ASSUME IInv, Orderly, Naming, Interference \subseteq {"chmod"}, NEW s \in Slot,
         entry'[s] # NoIno
  PROVE  \/ \E r \in Slot : entry[r] = entry'[s]
         \/ \E c \in Client : Publishes(c) /\ s = call[c].dest /\ entry'[s] = tmp[c]
<1>1. ~Disturbs
  BY DEF Disturbs
<1>2. ASSUME NEW c \in Client, Unlinks(c)
      PROVE  \E r \in Slot : entry[r] = entry'[s]
  BY <1>2 DEF Unlinks, IInv, TypeOK
<1>3. ASSUME NEW c \in Client, Moves(c)
      PROVE  \E r \in Slot : entry[r] = entry'[s]
  <2>1. "staged" \in Slot
    BY DEF Slot
  <2> QED
    BY <1>3, <2>1 DEF Moves, Renamed, IInv, TypeOK
<1>4. ASSUME NEW c \in Client, Publishes(c), s # call[c].dest
      PROVE  entry'[s] = entry[s]
  BY <1>4 DEF Publishes, IInv, TypeOK
<1>5. ASSUME NEW c \in Client, Publishes(c), s = call[c].dest
      PROVE  entry'[s] = tmp[c]
  BY <1>5 DEF Publishes, IInv, TypeOK
<1> QED
  BY <1>1, <1>2, <1>3, <1>4, <1>5 DEF Naming

(* A copy is being written only before it is published.                    *)
LEMMA NotCopied ==
  ASSUME IInv, Separate, NEW i \in Ino,
         (\E s \in Slot : entry[s] = i) \/ (\E c \in Client : pc[c] = "publish" /\ tmp[c] = i)
  PROVE  \A d \in Client : tmp[d] = i => ~CopyBlock(d)
BY InoAssumption DEF Separate, CopyBlock, IInv, TypeOK

(* So a name that stays keeps its contents, and a new one has those of the *)
(* staged object or of a temporary file.                                   *)
LEMMA NamedContent ==
  ASSUME IInv, IInv', Keeping, Separate, "write" \notin Interference, NEW s \in Slot, NEW r \in Slot,
         entry'[s] # NoIno, entry'[s] = entry[r]
  PROVE  HasContent(At(s)', At(r))
<1> DEFINE i == entry[r]
<1>1. i \in Ino /\ i \in Live
  BY NamedNode DEF IInv, Live
<1>2. node'[entry'[s]] # NoNode
  BY <1>1 DEF IInv, TypeOK, Live
<1>3. \A d \in Client : tmp[d] = i => ~CopyBlock(d)
  BY <1>1, NotCopied
<1>4. HasContent(node'[i], node[i])
  BY <1>1, <1>2, <1>3, ContentsKept
<1> QED
  BY <1>4 DEF At, HasContent

LEMMA PublishedContent ==
  ASSUME IInv, IInv', Keeping, Separate, "write" \notin Interference, NEW c \in Client, NEW s \in Slot,
         pc[c] = "publish", entry'[s] = tmp[c]
  PROVE  entry'[s] # NoIno /\ HasContent(At(s)', node[tmp[c]])
<1>1. tmp[c] \in Ino /\ tmp[c] \in Live
  BY TemporaryNode DEF IInv, Control, Live
<1>2. node'[tmp[c]] # NoNode
  BY <1>1 DEF IInv, TypeOK, Live
<1>3. \A d \in Client : tmp[d] = tmp[c] => ~CopyBlock(d)
  BY <1>1, NotCopied
<1>4. HasContent(node'[tmp[c]], node[tmp[c]])
  BY <1>1, <1>2, <1>3, ContentsKept
<1> QED
  BY <1>1, <1>4, InoAssumption DEF At, HasContent

(* What a step may make of what was seen of the staged object.             *)
LEMMA SeenStaged ==
  ASSUME IInv, [Next]_vars, NEW c \in Client
  PROVE  \/ seen'[c]["staged"] \in {seen[c]["staged"], NoNode}
         \/ /\ seen'[c]["staged"] = At("staged") /\ entry["staged"] # NoIno
            /\ UNCHANGED <<entry, node, tmp, log>> /\ pc'[c] = "observe_installed"
<1>1. CASE ScanObserveStaged(c)
  BY <1>1 DEF IInv, TypeOK, ScanObserveStaged, At, Goto, fsVars
<1>2. CASE ScanObserveInstalled(c)
  BY <1>2 DEF IInv, TypeOK, ScanObserveInstalled
<1>3. CASE Unobserved(c) \/ SameObservation(c)
  BY <1>3 DEF Unobserved, SameObservation, Side
<1> QED
  BY <1>1, <1>2, <1>3, NextObservation

LEMMA TypedKept ==
  ASSUME IInv, [Next]_vars, Dataless, NEW c \in Client, Typed(c)
  PROVE  Typed(c)'
<1>1. CASE ScanObserveStaged(c)
  <2>1. entry["staged"] # NoIno /\ At("staged") \in Node
    BY <1>1, NamedNode DEF ScanObserveStaged, At, Slot, IInv
  <2>2. /\ seen'[c]["staged"] = At("staged") /\ seen'[c]["installed"] = NoNode
        /\ cand'[c]["staged"].type = At("staged").type /\ cand'[c]["installed"].type = "missing"
    BY <1>1, <2>1 DEF IInv, TypeOK, ScanObserveStaged, NoCandidate, Missing, Sees, Observe, At
  <2> QED
    BY <2>1, <2>2, NodeAssumption DEF Typed, Side, Slot, Dataless
<1>2. CASE ScanObserveInstalled(c)
  <2>1. entry["installed"] # NoIno => At("installed") \in Node
    BY NamedNode DEF At, Slot, IInv
  <2>2. /\ seen'[c]["staged"] = seen[c]["staged"] /\ cand'[c]["staged"] = cand[c]["staged"]
        /\ seen'[c]["installed"] = IF entry["installed"] = NoIno THEN NoNode ELSE At("installed")
        /\ cand'[c]["installed"].type
             = IF entry["installed"] = NoIno THEN "missing" ELSE At("installed").type
    BY <1>2 DEF IInv, TypeOK, ScanObserveInstalled, Missing, Sees, Observe, At
  <2>3. pc[c] # "idle"
    BY <1>2 DEF ScanObserveInstalled
  <2> QED
    BY <2>1, <2>2, <2>3, NodeAssumption DEF Typed, Side, Slot, Dataless
<1>3. CASE Unobserved(c)
  BY <1>3 DEF Unobserved, Typed, NoCandidate, Missing, Side
<1>4. CASE SameObservation(c)
  BY <1>4 DEF SameObservation, Typed
<1> QED
  BY <1>1, <1>2, <1>3, <1>4, NextObservation

LEMMA AgreedKept ==
  ASSUME IInv, IInv', [Next]_vars, Keeping, Naming, Separate, Orderly,
         Interference \subseteq {"chmod"}, \A c \in Client : Agreed(c), NEW c \in Client
  PROVE  Agreed(c)'
<1> DEFINE X(d) == seen'[d]["staged"]
<1>1. entry'["staged"] # NoIno =>
        entry["staged"] # NoIno /\ HasContent(At("staged")', At("staged"))
  BY StagedNeverReturns, NamedContent DEF Slot
<1>2. \A d \in Client :
        \/ X(d) \in {seen[d]["staged"], NoNode}
        \/ X(d) = At("staged") /\ entry["staged"] # NoIno
  BY SeenStaged
<1>3. \A d \in Client : X(d) # NoNode /\ entry["staged"] # NoIno => HasContent(At("staged"), X(d))
  BY <1>2 DEF Agreed, HasContent
<1>4. \A d \in Client : X(d) # NoNode /\ X(c) # NoNode => HasContent(X(d), X(c))
  BY <1>2, <1>3 DEF Agreed, HasContent
<1> QED
  BY <1>1, <1>3, <1>4 DEF Agreed, HasContent

------------------------------------------------------------------------------
(* Descriptors are opened by name.                                         *)
Opens(d) ==
  \/ fd' = fd
  \/ fd' = [fd EXCEPT ![d] = Closed]
  \/ fd' = [fd EXCEPT ![d] = [s \in Side |-> entry[s]]]
  \/ \E s \in Side : fd' = [fd EXCEPT ![d][s] = entry[s]] \/ fd' = [fd EXCEPT ![d][s] = NoIno]

LEMMA NextOpens ==
  ASSUME [Next]_vars
  PROVE  fd' = fd \/ \E d \in Client : Opens(d)
<1>1. ASSUME NEW d \in Client, Throw(d) \/ AbortScan(d) \/ Crash(d)
      PROVE  Opens(d)
  BY <1>1 DEF Throw, AbortScan, Crash, Idle, Opens
<1>2. ASSUME NEW d \in Client, Scan(d), ~AbortScan(d)
      PROVE  Opens(d)
  BY <1>2 DEF Scan, ScanObserveStaged, ScanOmitStructural, ScanObserveInstalled, InspectOpen,
         InspectReadInstalled, InspectReadStaged, InspectRecheck, LinkRead, LinkCheck, Forget,
         ScanReturns, fsVars, Opens
<1>3. ASSUME NEW d \in Client, ~Throw(d),
             \/ \E x \in Calls : Begin(d, x)
             \/ ValidateInstalled(d) \/ ValidateStaged(d) \/ Chown(d) \/ Chmod(d)
             \/ RetireUnlinks(d) \/ RetireFindsNothing(d) \/ RetireFindsChildren(d)
             \/ Rename(d) \/ RenameCrossDevice(d)
             \/ CopyBlock(d) \/ WriteMerged(d) \/ Publish(d)
      PROVE  fd' = fd
  BY <1>3 DEF Begin, ValidateInstalled, ValidateStaged, Chown, Chmod, RetireUnlinks,
         RetireFindsNothing, RetireFindsChildren, Rename, RenameCrossDevice, CopyBlock,
         WriteMerged, Publish, fsVars
<1>4. ASSUME NEW d \in Client, ~Throw(d), CopyOpen(d) \/ Seal(d)
      PROVE  Opens(d)
  BY <1>4 DEF CopyOpen, Seal, Opens, Side
<1>5. ASSUME NEW d \in Client, ~Throw(d), NEW r \in Side,
             CompareOpen(d, r) \/ CompareRead(d, r) \/ CompareVerify(d, r)
      PROVE  Opens(d)
  BY <1>5 DEF CompareOpen, CompareRead, CompareVerify, fsVars, Opens
<1>6. Others => fd' = fd
  BY DEF Others, OtherRemoves, OtherWrites, OtherChmods, OtherPuts, OthersLeaveAlone
<1>7. UNCHANGED vars => fd' = fd
  BY DEF vars, fsVars
<1>8. ASSUME NEW d \in Client, Resolve(d)
      PROVE  Opens(d)
  BY <1>1, <1>3, <1>4, <1>5, <1>8 DEF Resolve, Opens
<1> QED
  BY <1>1, <1>2, <1>6, <1>7, <1>8 DEF Next, ScanError, CallError

LEMMA Opening ==
  ASSUME TypeOK, [Next]_vars, NEW c \in Client, NEW s \in Side
  PROVE  fd'[c][s] \in {fd[c][s], entry[s], NoIno}
<1>1. fd \in [Client -> [Side -> Ino \cup {NoIno}]]
  BY DEF TypeOK
<1>2. ASSUME NEW d \in Client, Opens(d)
      PROVE  fd'[c][s] \in {fd[c][s], entry[s], NoIno}
  BY <1>1, <1>2 DEF Opens, Closed
<1> QED
  BY <1>1, <1>2, NextOpens

LEMMA OpenedKept ==
  ASSUME IInv, [Next]_vars, Naming, Separate, Opened
  PROVE  Opened'
<1>1. SUFFICES ASSUME NEW c \in Client, NEW d \in Client, NEW s \in Side,
                      tmp'[d] # NoIno, fd'[c][s] = tmp'[d]
               PROVE  FALSE
  BY DEF Opened
<1>2. fd'[c][s] \in {fd[c][s], entry[s]}
  BY <1>1, Opening DEF IInv
<1>3. fd'[c][s] \in Live
  BY <1>2 DEF Live, Side, Slot
<1>4. tmp'[d] \in {tmp[d], NoIno} \cup Unused
  BY DEF Naming, Unlinks, Moves, Publishes, Disturbs, IInv, TypeOK
<1>5. tmp'[d] = tmp[d]
  BY <1>1, <1>3, <1>4 DEF Unused
<1> QED
  BY <1>1, <1>2, <1>5 DEF Opened, Separate, Side, Slot

(* What a change leaves of the inode that it changes.                      *)
LEMMA ChangeResult ==
  ASSUME NEW i \in Ino, NEW n \in Node, NEW t, Change(i, n, t), node \in [Ino -> Node \cup {NoNode}],
         node'[i] # NoNode
  PROVE  node'[i] = [n EXCEPT !.ctime = t]
<1> DEFINE nd == [node EXCEPT ![i] = n]
<1>1. nd[i] = n
  OBVIOUS
<1>2. Settle(Touch(nd, {i}, t))
  BY DEF Change
<1> HIDE DEF nd
<1>3. node'[i] = Touch(nd, {i}, t)[i]
  BY <1>2 DEF Settle
<1> QED
  BY <1>1, <1>3, NodeAssumption DEF Touch

LEMMA TemporaryContent ==
  ASSUME IInv, IInv', NEW c \in Client, NEW i \in Unused, NEW type \in NodeType, NEW data \in Data,
         CreateTemporary(c, i, type, data)
  PROVE  /\ tmp'[c] = i
         /\ node'[i].type = type /\ node'[i].data = data
<1> DEFINE n(t) == [type |-> type, data |-> data, owner |-> ZeroOwner, ctime |-> t,
                    mode |-> IF type = "symlink" THEN LinkMode ELSE ZeroMode]
<1>1. PICK t \in Now : Change(i, n(t), t)
  BY DEF CreateTemporary
<1>2. n(t) \in Node /\ n(t).type = type /\ n(t).data = data
  BY NowType, OwnerAssumption, ModeAssumption DEF IInv, TypeOK, Node
<1> HIDE DEF n
<1>3. tmp'[c] = i /\ i \in Ino
  BY DEF CreateTemporary, IInv, TypeOK, Unused
<1>4. node'[i] # NoNode
  BY <1>3, InoAssumption, TemporaryNode, NodeAssumption DEF IInv, TypeOK, Live
<1>5. node'[i] = [n(t) EXCEPT !.ctime = t]
  BY <1>1, <1>2, <1>3, <1>4, ChangeResult DEF IInv, TypeOK
<1> QED
  BY <1>2, <1>3, <1>5 DEF Node

LEMMA Extensional ==
  ASSUME NEW x \in Data, NEW y \in Data, \A b \in Block : x[b] = y[b]
  PROVE  x = y
BY DEF Data

(* The steps that lead to or along a copy.                                 *)
LEMMA TemporarySteps ==
  ASSUME IInv, NEW c \in Client, pc'[c] \in Temporary,
         Scan(c) \/ Resolve(c) \/ ScanError(c) \/ CallError(c) \/ Crash(c)
  PROVE  ~Throw(c) /\ (CopyOpen(c) \/ CopyBlock(c) \/ WriteMerged(c) \/ Seal(c))
<1> USE DEF IInv, TypeOK, Goto, Proceed, Temporary, Idle
<1>1. ~Throw(c) /\ ~AbortScan(c) /\ ~Crash(c)
  BY DEF Throw, AbortScan, Crash
<1>2. ~Scan(c)
  BY <1>1 DEF Scan, ScanObserveStaged, ScanOmitStructural, ScanObserveInstalled, ScanNext,
         InspectOpen, InspectReadInstalled, InspectReadStaged, InspectRecheck, LinkRead,
         LinkCheck, LinkLabel, CheckLabel, Forget, ScanReturns
<1>3. ~ \/ \E d \in Calls : Begin(c, d)
        \/ ValidateInstalled(c) \/ Chown(c) \/ Chmod(c)
        \/ RetireUnlinks(c) \/ RetireFindsNothing(c) \/ RetireFindsChildren(c)
        \/ Rename(c) \/ RenameCrossDevice(c) \/ Publish(c)
  BY <1>1 DEF Begin, ValidateInstalled, Chown, Chmod, AfterMetadata, RetireUnlinks,
         RetireFindsNothing, RetireFindsChildren, AfterRetire, Rename, RenameCrossDevice, Publish
<1>4. ~ValidateStaged(c)
  BY <1>1, LabelOf DEF ValidateStaged, FirstStep
<1>5. ASSUME NEW s \in Side
      PROVE  ~ (CompareOpen(c, s) \/ CompareRead(c, s) \/ CompareVerify(c, s))
  <2>1. {OpenAt[s], ReadAt[s], VerifyAt[s], OpenAt["staged"]} \subseteq Comparing
    BY LabelOf DEF Comparing, Side
  <2> QED
    BY <1>1, <2>1 DEF CompareOpen, CompareRead, CompareVerify, Comparing
<1> QED
  BY <1>1, <1>2, <1>3, <1>4, <1>5 DEF Resolve, ScanError, CallError

LEMMA DatalessKept ==
  ASSUME IInv, IInv', Keeping, Naming, Separate, Orderly, Interference \subseteq {"chmod"},
         Dataless, \A c \in Client : Typed(c) /\ Copying(c)
  PROVE  Dataless'
<1>1. SUFFICES ASSUME NEW s \in Slot, entry'[s] # NoIno, At(s)'.type = "directory"
               PROVE  At(s)'.data = Blank
  BY DEF Dataless
<1>2. ASSUME NEW r \in Slot, entry[r] = entry'[s]
      PROVE  At(s)'.data = Blank
  <2>1. HasContent(At(s)', At(r)) /\ entry[r] # NoIno
    BY <1>1, <1>2, NamedContent
  <2> QED
    BY <1>1, <2>1 DEF HasContent, Dataless
<1>3. ASSUME NEW c \in Client, Publishes(c), entry'[s] = tmp[c]
      PROVE  At(s)'.data = Blank
  <2>1. HasContent(At(s)', node[tmp[c]])
    BY <1>3, PublishedContent DEF Publishes
  <2>2. node[tmp[c]].type = "directory"
    BY <1>1, <2>1 DEF HasContent
  <2>3. HasContent(node[tmp[c]], seen[c]["staged"])
    BY <1>3, <2>2 DEF Copying, Publishes
  <2>4. seen[c]["staged"] # NoNode
    BY <1>3 DEF Typed, Publishes
  <2> QED
    BY <2>1, <2>2, <2>3, <2>4 DEF HasContent, Typed, Side
<1> QED
  BY <1>1, <1>2, <1>3, NamedFrom

(* What another client does leaves a copy alone.                           *)
LEMMA CopyingRests ==
  ASSUME IInv, IInv', Keeping, Separate, Opened, "write" \notin Interference,
         NEW c \in Client, Copying(c), Spectator(c)
  PROVE  Copying(c)'
<1>1. /\ pc'[c] = pc[c] /\ seen'[c] = seen[c] /\ fd'[c] = fd[c] /\ got'[c] = got[c]
      /\ call'[c] = call[c] /\ tmp'[c] = tmp[c]
  BY DEF Spectator, Bystander
<1>2. ~CopyBlock(c)
  BY <1>1 DEF CopyBlock, IInv, TypeOK
<1>3. ASSUME pc[c] \in Temporary
      PROVE  HasContent(node'[tmp[c]], node[tmp[c]])
  <2>1. tmp[c] # NoIno
    BY <1>3 DEF IInv, Control, Temporary
  <2>2. tmp[c] \in Ino /\ tmp[c] \in Live /\ node'[tmp[c]] # NoNode
    BY <1>1, <2>1, TemporaryNode DEF IInv, TypeOK, Live
  <2>3. \A d \in Client : tmp[d] = tmp[c] => ~CopyBlock(d)
    BY <1>2, <2>1 DEF Separate
  <2> QED
    BY <2>2, <2>3, ContentsKept
<1>4. ASSUME pc[c] = "copy_block"
      PROVE  HasContent(node'[fd[c]["staged"]], node[fd[c]["staged"]])
  <2> DEFINE i == fd[c]["staged"]
  <2>1. i # NoIno
    BY <1>4 DEF IInv, Control, StagedOpen
  <2>2. i \in Ino /\ i \in Live
    BY <2>1, OpenNode DEF IInv, Live, Side
  <2>3. i \in Live'
    BY <1>1 DEF Live, Side
  <2>4. node'[i] # NoNode
    BY <2>2, <2>3 DEF IInv, TypeOK
  <2>5. \A d \in Client : tmp[d] = i => ~CopyBlock(d)
    BY <2>1 DEF Opened, Side
  <2> QED
    BY <2>2, <2>4, <2>5, ContentsKept
<1>5. CASE pc[c] = "copy_block"
  BY <1>1, <1>3, <1>4, <1>5 DEF Copying, HasContent, Temporary
<1>6. CASE pc[c] \in {"seal", "publish"}
  BY <1>1, <1>3, <1>6 DEF Copying, HasContent, Temporary
<1>7. CASE pc[c] \notin {"copy_block", "seal", "publish"}
  BY <1>1, <1>7 DEF Copying
<1> QED
  BY <1>5, <1>6, <1>7

LEMMA CopyingStarts ==
  ASSUME IInv, IInv', Keeping, Separate, Orderly, "write" \notin Interference,
         NEW c \in Client, Typed(c), Agreed(c), CopyOpen(c), ~Throw(c)
  PROVE  Copying(c)'
<1> DEFINE source == entry["staged"]
           n == seen[c]["staged"]
<1>1. /\ pc[c] = "copy_open" /\ source # NoIno
      /\ Sees(c, "staged").type = cand[c]["staged"].type
      /\ cand' = cand /\ seen' = seen /\ got' = got /\ call' = call /\ entry' = entry
  BY DEF CopyOpen, CreateTemporary, ctlVars, histVars
<1>2. n # NoNode /\ HasContent(node[source], n) /\ cand[c]["staged"].type = n.type
  BY <1>1 DEF Typed, Agreed, At, Side
<1>3. source \in Ino /\ source \in Live /\ source \in Live' /\ node[source] \in Node
  BY <1>1, NamedNode DEF IInv, Slot, Live
<1>4. node'[source] # NoNode
  BY <1>3 DEF IInv, TypeOK
<1>5. HasContent(node'[source], n)
  <2>1. \A d \in Client : tmp[d] = source => ~CopyBlock(d)
    BY <1>3, NotCopied DEF Slot
  <2> QED
    BY <1>2, <1>3, <1>4, <2>1, ContentsKept DEF HasContent
<1>6. CASE n.type = "regular"
  <2>1. PICK i \in Unused : CreateTemporary(c, i, "regular", Blank)
    BY <1>1, <1>2, <1>6 DEF CopyOpen
  <2>2. /\ pc'[c] = "copy_block" /\ fd'[c]["staged"] = source
    BY <1>1, <1>2, <1>6 DEF CopyOpen, Goto, IInv, TypeOK, Side
  <2>3. node'[tmp'[c]].type = n.type
    BY <1>6, <2>1, BlankType, TemporaryContent DEF NodeType
  <2>4. got'[c].blocks = 0
    BY <1>1 DEF IInv, Control, Counting
  <2>5. \A k \in 1 .. got'[c].blocks : FALSE
    BY <2>4
  <2> QED
    BY <1>1, <1>5, <2>2, <2>3, <2>5 DEF Copying
<1>7. CASE n.type # "regular"
  <2>1. PICK i \in Unused : CreateTemporary(c, i, "symlink", node[source].data)
    BY <1>1, <1>2, <1>7 DEF CopyOpen
  <2>2. pc'[c] = "seal" /\ n.type = "symlink"
    BY <1>1, <1>2, <1>7 DEF CopyOpen, Goto, IInv, TypeOK, Orderly, Order
  <2>3. node[source].data \in Data
    BY <1>3 DEF Node
  <2>4. HasContent(node'[tmp'[c]], n)
    BY <1>2, <2>1, <2>2, <2>3, TemporaryContent DEF HasContent, NodeType
  <2>5. call'[c].kind # "install_merged"
    BY <1>1 DEF Orderly, Order, Moving
  <2> QED
    BY <1>1, <2>2, <2>4, <2>5 DEF Copying
<1> QED
  BY <1>6, <1>7

LEMMA CopyingGoesOn ==
  ASSUME IInv, IInv', Keeping, Separate, Orderly, Opened, "write" \notin Interference,
         NEW c \in Client, Typed(c), Copying(c), CopyBlock(c)
  PROVE  Copying(c)'
<1> DEFINE k == got[c].blocks + 1
           i == tmp[c]
           j == fd[c]["staged"]
           n == seen[c]["staged"]
           new == [node[i] EXCEPT !.data = [@ EXCEPT ![k] = node[j].data[k]]]
<1>1. /\ pc[c] = "copy_block" /\ pc'[c] = IF k = NBlocks THEN "seal" ELSE "copy_block"
      /\ got'[c].blocks = k
      /\ tmp' = tmp /\ fd' = fd /\ seen' = seen /\ call' = call
      /\ \E t \in Now : Change(i, new, t)
  BY DEF CopyBlock, IInv, TypeOK, Goto, ctlVars, histVars
<1>2. i # NoIno /\ j # NoIno
  BY <1>1 DEF IInv, Control, StagedOpen
<1>3. i \in Ino /\ node[i] \in Node /\ j \in Ino /\ node[j] \in Node
  BY <1>2, TemporaryNode, OpenNode DEF IInv, Side
<1>4. i \in Live' /\ j \in Live' /\ j \in Live
  BY <1>1 DEF Live, Side
<1>5. node'[i] # NoNode /\ node'[j] # NoNode
  BY <1>3, <1>4 DEF IInv, TypeOK
<1>6. k \in Block /\ got[c].blocks \in Nat /\ k \in Nat
  BY <1>1, BlockFacts DEF IInv, TypeOK, Control, MoreToRead, Block
<1>7. n \in Node /\ HasContent(node[j], n) /\ node[i].type = n.type
  BY <1>1 DEF Typed, Copying, IInv, TypeOK, Side
<1>8. new \in Node /\ new.type = n.type
      /\ new.data = [node[i].data EXCEPT ![k] = n.data[k]]
  BY <1>3, <1>6, <1>7 DEF HasContent, Node, Data
<1> HIDE DEF new
<1>9. node'[i].type = n.type /\ node'[i].data = [node[i].data EXCEPT ![k] = n.data[k]]
  <2>1. PICK t \in Now : Change(i, new, t)
    BY <1>1
  <2>2. node'[i] = [new EXCEPT !.ctime = t]
    BY <1>3, <1>5, <1>8, <2>1, ChangeResult DEF IInv, TypeOK
  <2> QED
    BY <1>8, <2>2 DEF Node
<1>10. HasContent(node'[j], n)
  <2>1. \A d \in Client : tmp[d] = j => ~CopyBlock(d)
    BY <1>2 DEF Opened, Side
  <2> QED
    BY <1>3, <1>4, <1>5, <1>7, <2>1, ContentsKept DEF HasContent
<1>11. \A b \in 1 .. k : node'[i].data[b] = n.data[b]
  <2>1. \A b \in 1 .. got[c].blocks : node[i].data[b] = n.data[b]
    BY <1>1 DEF Copying
  <2>2. DOMAIN node[i].data = Block
    BY <1>3 DEF Node, Data
  <2>3. ASSUME NEW b \in 1 .. k, b # k
        PROVE  b \in 1 .. got[c].blocks
    BY <1>6, <2>3
  <2> QED
    BY <1>6, <1>9, <2>1, <2>2, <2>3
<1>12. CASE k # NBlocks
  BY <1>1, <1>9, <1>10, <1>11, <1>12 DEF Copying
<1>13. CASE k = NBlocks
  <2>1. node'[i].data \in Data /\ n.data \in Data
    BY <1>3, <1>5, <1>7 DEF IInv, TypeOK, Node
  <2>2. node'[i].data = n.data
    <3>1. \A b \in Block : node'[i].data[b] = n.data[b]
      BY <1>11, <1>13 DEF Block
    <3> QED
      BY <2>1, <3>1, Extensional
  <2>3. call'[c].kind # "install_merged"
    BY <1>1 DEF Orderly, Order, Moving
  <2> QED
    BY <1>1, <1>9, <1>13, <2>2, <2>3 DEF Copying, HasContent
<1> QED
  BY <1>12, <1>13

LEMMA CopyingEnds ==
  ASSUME IInv, IInv', Orderly, NEW c \in Client, Copying(c), WriteMerged(c) \/ Seal(c)
  PROVE  Copying(c)'
<1>1. CASE WriteMerged(c)
  <2>1. PICK i \in Unused : CreateTemporary(c, i, "regular", call[c].bytes)
    BY <1>1 DEF WriteMerged
  <2>2. call[c].bytes \in Data
    BY DEF IInv, TypeOK, Disposition
  <2>3. node'[tmp'[c]].type = "regular"
    BY <2>1, <2>2, TemporaryContent DEF NodeType
  <2>4. pc'[c] = "seal" /\ call' = call /\ call[c].kind = "install_merged"
    BY <1>1, <2>1 DEF WriteMerged, CreateTemporary, Goto, IInv, TypeOK, ctlVars, Orderly, Order
  <2> QED
    BY <2>3, <2>4 DEF Copying
<1>2. CASE Seal(c)
  <2> DEFINE i == tmp[c]
             m == IF call[c].kind = "install_merged" THEN Selected(c) ELSE cand[c].staged
             new == Dressed(node[i], m.owner, m.mode)
  <2>1. /\ pc[c] = "seal" /\ pc'[c] = "publish" /\ tmp' = tmp /\ seen' = seen /\ call' = call
        /\ \E t \in Now : Change(i, new, t)
    BY <1>2 DEF Seal, IInv, TypeOK, Goto, ctlVars, histVars
  <2>2. i # NoIno
    BY <2>1 DEF IInv, Control
  <2>3. i \in Ino /\ node[i] \in Node /\ node'[i] # NoNode
    BY <2>1, <2>2, TemporaryNode DEF IInv, TypeOK, Live
  <2>4. m.owner \in Owner /\ m.mode \in Mode
    BY SelectedType DEF IInv, TypeOK, CandidateRecord, Fingerprint
  <2> HIDE DEF m
  <2>5. new \in Node /\ new.type = node[i].type /\ new.data = node[i].data
    BY <2>3, <2>4, ModeAssumption DEF Dressed, Chowned, Node
  <2> HIDE DEF new
  <2>6. node'[i].type = node[i].type /\ node'[i].data = node[i].data
    <3>1. PICK t \in Now : Change(i, new, t)
      BY <2>1
    <3>2. node'[i] = [new EXCEPT !.ctime = t]
      BY <2>3, <2>5, <3>1, ChangeResult DEF IInv, TypeOK
    <3> QED
      BY <2>5, <3>2 DEF Node
  <2> QED
    BY <2>1, <2>6 DEF Copying, HasContent
<1> QED
  BY <1>1, <1>2

LEMMA CopyingKept ==
  ASSUME IInv, IInv', [Next]_vars, Keeping, Separate, Orderly, Opened,
         "write" \notin Interference, NEW c \in Client, Typed(c), Agreed(c), Copying(c)
  PROVE  Copying(c)'
<1>1. CASE UNCHANGED vars \/ Others
  <2>1. Spectator(c)
    BY <1>1 DEF vars, Others, OtherRemoves, OtherWrites, OtherChmods, OtherPuts,
           OthersLeaveAlone, fsVars, ctlVars, histVars, Bystander, Spectator
  <2> QED
    BY <2>1, CopyingRests
<1>2. ASSUME NEW d \in Client,
             Scan(d) \/ Resolve(d) \/ ScanError(d) \/ CallError(d) \/ Crash(d)
      PROVE  Copying(c)'
  <2>1. CASE c # d
    BY <1>2, <2>1, OthersKeep, CopyingRests DEF IInv
  <2>2. CASE c = d /\ pc'[c] \in Temporary
    BY <1>2, <2>2, TemporarySteps, CopyingStarts, CopyingGoesOn, CopyingEnds
  <2>3. CASE pc'[c] \notin Temporary
    BY <2>3 DEF Copying, Temporary
  <2> QED
    BY <2>1, <2>2, <2>3
<1> QED
  BY <1>1, <1>2 DEF Next

------------------------------------------------------------------------------
(* Nothing takes the name of a directory that a client has paired with a   *)
(* staged directory.                                                       *)
LEMMA DirectoryStays ==
  ASSUME IInv, Orderly, Naming, Interference \subseteq {"chmod"},
         \A d \in Client : Typed(d) /\ Agreed(d),
         NEW c \in Client, seen[c]["staged"] # NoNode, seen[c]["staged"].type = "directory",
         HoldsContent("installed", seen[c]["staged"])
  PROVE  entry'["installed"] = entry["installed"]
<1> DEFINE n == seen[c]["staged"]
<1>1. ASSUME NEW d \in Client, pc[d] \in CallLabel
      PROVE  OnDirectory(d)
  <2>1. seen[d]["staged"] # NoNode
    BY <1>1, LabelSets DEF Typed
  <2>2. seen[d]["staged"].type = n.type
    BY <2>1 DEF Agreed, HasContent
  <2> QED
    BY <2>1, <2>2 DEF Typed, OnDirectory, Side
<1>2. ASSUME NEW d \in Client, Moves(d) \/ Publishes(d), call[d].dest = "installed"
      PROVE  FALSE
  <2>1. pc[d] \in CallLabel \ Validating
    BY <1>2, LabelSets DEF Moves, Publishes, Validating
  <2>2. call[d].kind \in Moving \cup {"install_merged"} /\ call[d].kind # "install"
    BY <1>1, <1>2, <2>1 DEF Moves, Publishes, Orderly, Order
  <2>3. call[d].kind # "install_merged"
    BY <1>1, <2>1 DEF Orderly, Order, Applicable, OnDirectory
  <2>4. ~Replaces(call[d].kind)
    BY <2>2, <2>3 DEF Moving, Replaces
  <2> QED
    BY <1>2, <2>4 DEF Moves, Publishes, Refuses, HoldsContent
<1>3. ASSUME NEW d \in Client, Moves(d) \/ Publishes(d), call[d].dest # "installed"
      PROVE  entry'["installed"] = entry["installed"]
  BY <1>3 DEF Moves, Publishes, Renamed, IInv, TypeOK, Slot
<1> QED
  BY <1>2, <1>3 DEF Naming, Unlinks, Disturbs, IInv, TypeOK, Slot

LEMMA PairedKept ==
  ASSUME IInv, IInv', [Next]_vars, Keeping, Naming, Separate, Orderly, Dataless,
         Interference \subseteq {"chmod"}, \A d \in Client : Typed(d) /\ Agreed(d),
         NEW c \in Client, Paired(c)
  PROVE  Paired(c)'
<1>1. CASE ScanObserveStaged(c)
  BY <1>1 DEF ScanObserveStaged, Paired, IInv, TypeOK
<1>2. CASE ScanObserveInstalled(c)
  <2>1. /\ seen'[c]["staged"] = seen[c]["staged"] /\ entry' = entry /\ node' = node
        /\ seen'[c]["installed"] = IF entry["installed"] = NoIno THEN NoNode ELSE At("installed")
    BY <1>2 DEF ScanObserveInstalled, IInv, TypeOK, At, Sees, Observe, Missing, fsVars
  <2> QED
    BY <2>1 DEF Paired, HoldsContent, HasContent, At, Dataless, Typed, Side, Slot
<1>3. CASE Unobserved(c)
  BY <1>3 DEF Unobserved, Paired, Side
<1>4. CASE SameObservation(c)
  <2>1. SUFFICES ASSUME seen[c]["staged"] # NoNode, seen[c]["staged"].type = "directory",
                        HoldsContent("installed", seen[c]["staged"])
                 PROVE  HoldsContent("installed", seen[c]["staged"])'
    BY <1>4 DEF SameObservation, Paired
  <2>2. entry'["installed"] = entry["installed"]
    BY <2>1, DirectoryStays
  <2>3. HasContent(At("installed")', At("installed"))
    BY <2>1, <2>2, NamedContent DEF Slot, HoldsContent
  <2> QED
    BY <1>4, <2>1, <2>2, <2>3 DEF SameObservation, HoldsContent, HasContent
<1> QED
  BY <1>1, <1>2, <1>3, <1>4, NextObservation

(* While no disposition has discarded them, contents that are under a name *)
(* stay under one, and leave a name other than the staged one for none but *)
(* such another.                                                           *)
LEMMA StaysNamed ==
  ASSUME IInv, IInv', Keeping, Naming, Separate, Orderly, Interference \subseteq {"chmod"},
         \A d \in Client : Typed(d) /\ Agreed(d) /\ Copying(d) /\ Surviving(d),
         log' = {}, NEW c \in Client, seen[c]["staged"] # NoNode,
         NEW s \in Slot, HoldsContent(s, seen[c]["staged"])
  PROVE  /\ \E r \in Slot : entry'[r] # NoIno /\ HasContent(At(r)', seen[c]["staged"])
         /\ s # "staged" => \E r \in Slot \ {"staged"} :
                               entry'[r] # NoIno /\ HasContent(At(r)', seen[c]["staged"])
<1> DEFINE n == seen[c]["staged"]
           Has(r) == entry'[r] # NoIno /\ HasContent(At(r)', n)
<1>1. ASSUME NEW r \in Slot, HoldsContent(r, n), entry'[r] = entry[r]
      PROVE  Has(r)
  BY <1>1, NamedContent DEF HoldsContent, HasContent
<1>2. ASSUME NEW d \in Client, pc[d] \in CallLabel
      PROVE  HasContent(seen[d]["staged"], n) /\ seen[d]["staged"] # NoNode
  BY <1>2, LabelSets DEF Typed, Agreed
<1>3. ASSUME NEW d \in Client, Moves(d)
      PROVE  \E r \in Slot \ {"staged"} : Has(r)
  <2>1. PICK q \in Slot \ {"staged"} : q = call[d].dest
    BY <1>3, Destinations, LabelSets DEF Moves
  <2>2. entry'[q] = entry["staged"] /\ entry["staged"] # NoIno
    BY <1>3, <2>1 DEF Moves, Renamed, IInv, TypeOK
  <2>3. HasContent(At(q)', At("staged"))
    BY <2>2, NamedContent DEF Slot
  <2>4. Has(q)
    BY <2>2, <2>3 DEF Agreed, HasContent
  <2> QED
    BY <2>4
<1>4. ASSUME NEW d \in Client, Publishes(d)
      PROVE  \E r \in Slot \ {"staged"} : Has(r)
  <2>1. pc[d] = "publish" /\ pc[d] \in CallLabel
    BY <1>4, LabelSets DEF Publishes
  <2>2. PICK q \in Slot \ {"staged"} : q = call[d].dest
    BY <2>1, Destinations
  <2>3. call[d].kind # "install_merged"
    BY <1>4 DEF Publishes, Logs, GivesUpStaged
  <2>4. HasContent(node[tmp[d]], n)
    BY <1>2, <2>1, <2>3 DEF Copying, HasContent
  <2>5. entry'[q] = tmp[d]
    BY <1>4, <2>2 DEF Publishes, IInv, TypeOK
  <2>6. entry'[q] # NoIno /\ HasContent(At(q)', node[tmp[d]])
    BY <2>1, <2>5, PublishedContent
  <2>7. Has(q)
    BY <2>4, <2>6 DEF HasContent
  <2> QED
    BY <2>7
<1>5. ASSUME NEW d \in Client, Unlinks(d)
      PROVE  \E r \in Slot \ {"staged"} : Has(r)
  <2>1. pc[d] = "retire" /\ pc[d] \in CallLabel
    BY <1>5, LabelSets DEF Unlinks
  <2>2. call[d].kind \notin GivesUpStaged /\ log = {}
    BY <1>5 DEF Unlinks, Logs
  <2>3. call[d].kind \in Moving
    BY <2>1, <2>2 DEF Orderly, Order, Calls, Disposition, Kinds, GivesUpStaged, Moving
  <2>4. PICK r \in Slot \ {"staged"} : HoldsContent(r, seen[d]["staged"])
    BY <1>2, <2>1, <2>2, <2>3 DEF Surviving
  <2>5. HoldsContent(r, n)
    BY <1>2, <2>1, <2>4 DEF HoldsContent, HasContent
  <2>6. entry'[r] = entry[r]
    BY <1>5 DEF Unlinks, IInv, TypeOK
  <2> QED
    BY <1>1, <2>5, <2>6
<1>6. CASE entry' = entry
  BY <1>1, <1>6
<1>7. CASE \E d \in Client : Unlinks(d) \/ Moves(d) \/ Publishes(d)
  BY <1>3, <1>4, <1>5, <1>7
<1> QED
  BY <1>6, <1>7 DEF Naming, Disturbs

(* Only these steps lead a client to the removal of the staged name.       *)
LEMMA RetireBegins ==
  ASSUME IInv, NEW c \in Client, pc'[c] = "retire",
         Scan(c) \/ Resolve(c) \/ ScanError(c) \/ CallError(c) \/ Crash(c)
  PROVE  /\ ~Throw(c)
         /\ ValidateStaged(c) \/ Chown(c) \/ Chmod(c) \/ Publish(c)
<1> USE DEF IInv, TypeOK, Goto, Proceed, Idle
<1>1. ~Throw(c) /\ ~AbortScan(c) /\ ~Crash(c)
  BY DEF Throw, AbortScan, Crash
<1>2. ~Scan(c)
  BY <1>1 DEF Scan, ScanObserveStaged, ScanOmitStructural, ScanObserveInstalled, ScanNext,
         InspectOpen, InspectReadInstalled, InspectReadStaged, InspectRecheck, LinkRead,
         LinkCheck, LinkLabel, CheckLabel, Forget, ScanReturns
<1>3. ~ \/ \E d \in Calls : Begin(c, d)
        \/ ValidateInstalled(c)
        \/ RetireUnlinks(c) \/ RetireFindsNothing(c) \/ RetireFindsChildren(c)
        \/ Rename(c) \/ RenameCrossDevice(c)
        \/ CopyOpen(c) \/ CopyBlock(c) \/ WriteMerged(c) \/ Seal(c)
  BY <1>1 DEF Begin, ValidateInstalled, RetireUnlinks, RetireFindsNothing,
         RetireFindsChildren, AfterRetire, Rename, RenameCrossDevice, CopyOpen, CopyBlock,
         WriteMerged, Seal
<1>4. ASSUME NEW s \in Side
      PROVE  ~ (CompareOpen(c, s) \/ CompareRead(c, s) \/ CompareVerify(c, s))
  <2>1. {OpenAt[s], ReadAt[s], VerifyAt[s], OpenAt["staged"]} \subseteq Comparing
    BY LabelOf DEF Comparing, Side
  <2> QED
    BY <1>1, <2>1 DEF CompareOpen, CompareRead, CompareVerify, Comparing
<1> QED
  BY <1>1, <1>2, <1>3, <1>4 DEF Resolve, ScanError, CallError

(* And before it removes that name, a disposition that does not mean to    *)
(* discard the contents has them under another.                            *)
LEMMA ElsewhereFirst ==
  ASSUME IInv, IInv', Keeping, Separate, Orderly, "write" \notin Interference,
         NEW c \in Client, Typed(c), Copying(c), Paired(c), log' = {},
         pc'[c] = "retire", call'[c].kind \in Moving,
         Scan(c) \/ Resolve(c) \/ ScanError(c) \/ CallError(c) \/ Crash(c)
  PROVE  \E r \in Slot \ {"staged"} :
           entry'[r] # NoIno /\ HasContent(At(r)', seen[c]["staged"])
<1> DEFINE n == seen[c]["staged"]
           Has(r) == entry'[r] # NoIno /\ HasContent(At(r)', n)
<1>1. /\ ~Throw(c)
      /\ ValidateStaged(c) \/ Chown(c) \/ Chmod(c) \/ Publish(c)
  BY RetireBegins
<1>2. call' = call
  BY <1>1 DEF ValidateStaged, Chown, Chmod, Publish, ctlVars
<1>3. ~ValidateStaged(c)
  BY <1>1, <1>2, LabelOf DEF ValidateStaged, FirstStep, Goto, IInv, TypeOK, Moving
<1>4. CASE Chown(c) \/ Chmod(c)
  <2>1. pc[c] \in {"chown", "chmod"} /\ entry' = entry
        /\ (call[c].kind = "keep" \/ OnDirectory(c))
    BY <1>1, <1>4 DEF Chown, Chmod, Proceed, Goto, AfterMetadata, IInv, TypeOK
  <2>2. call[c].kind = "install" /\ OnDirectory(c) /\ Applicable("install", cand[c])
    BY <1>2, <2>1, LabelSets DEF Orderly, Order, Moving, Validating
  <2>3. cand[c]["staged"].type = "directory" /\ cand[c]["installed"].type = "directory"
    BY <2>2 DEF OnDirectory, Applicable
  <2>4. HoldsContent("installed", n)
    BY <2>3 DEF Typed, Paired, Side
  <2>5. HasContent(At("installed")', At("installed"))
    BY <2>1, <2>4, NamedContent DEF HoldsContent, Slot
  <2>6. Has("installed")
    BY <2>1, <2>4, <2>5 DEF HoldsContent, HasContent
  <2> QED
    BY <2>6 DEF Slot
<1>5. CASE Publish(c)
  <2>1. pc[c] = "publish" /\ entry' = [entry EXCEPT ![call[c].dest] = tmp[c]]
    BY <1>1, <1>5 DEF Publish
  <2>2. PICK q \in Slot \ {"staged"} : q = call[c].dest
    BY <2>1, Destinations, LabelSets
  <2>3. HasContent(node[tmp[c]], n)
    BY <1>2, <2>1 DEF Copying, Moving
  <2>4. entry'[q] = tmp[c]
    BY <2>1, <2>2 DEF IInv, TypeOK
  <2>5. entry'[q] # NoIno /\ HasContent(At(q)', node[tmp[c]])
    BY <2>1, <2>4, PublishedContent
  <2>6. Has(q)
    BY <2>3, <2>5 DEF HasContent
  <2> QED
    BY <2>6
<1> QED
  BY <1>1, <1>3, <1>4, <1>5

LEMMA SurvivingKept ==
  ASSUME IInv, IInv', [Next]_vars, Keeping, Naming, Separate, Orderly,
         Interference \subseteq {"chmod"},
         \A d \in Client : Typed(d) /\ Agreed(d) /\ Copying(d) /\ Paired(d) /\ Surviving(d),
         NEW c \in Client
  PROVE  Surviving(c)'
<1> DEFINE n == seen[c]["staged"]
<1>1. SUFFICES ASSUME log' = {}, seen'[c]["staged"] # NoNode
               PROVE  Surviving(c)'
  BY DEF Surviving
<1>2. log = {}
  BY <1>1 DEF Naming, Unlinks, Moves, Publishes, Logs, Disturbs
<1>3. CASE /\ seen'[c]["staged"] = At("staged") /\ entry["staged"] # NoIno
           /\ UNCHANGED <<entry, node, tmp, log>> /\ pc'[c] = "observe_installed"
  BY <1>3 DEF Surviving, HoldsContent, HasContent, At, Slot
<1>4. CASE seen'[c]["staged"] = n
  <2>1. PICK s \in Slot : HoldsContent(s, n)
    BY <1>1, <1>2, <1>4 DEF Surviving
  <2>2. \E r \in Slot : HoldsContent(r, n)'
    BY <1>1, <1>4, <2>1, StaysNamed DEF HoldsContent, HasContent
  <2>3. ASSUME pc'[c] = "retire", call'[c].kind \in Moving
        PROVE  \E r \in Slot \ {"staged"} : entry'[r] # NoIno /\ HasContent(At(r)', n)
    <3>1. ASSUME NEW d \in Client, d = c,
                 Scan(d) \/ Resolve(d) \/ ScanError(d) \/ CallError(d) \/ Crash(d)
          PROVE  \E r \in Slot \ {"staged"} : entry'[r] # NoIno /\ HasContent(At(r)', n)
      BY <1>1, <2>3, <3>1, ElsewhereFirst
    <3>2. ASSUME Spectator(c)
          PROVE  \E r \in Slot \ {"staged"} : entry'[r] # NoIno /\ HasContent(At(r)', n)
      <4>1. pc[c] = "retire" /\ call[c].kind \in Moving
        BY <2>3, <3>2 DEF Spectator, Bystander
      <4>2. PICK q \in Slot \ {"staged"} : HoldsContent(q, n)
        BY <1>1, <1>2, <1>4, <4>1 DEF Surviving
      <4> QED
        BY <1>1, <1>4, <4>2, StaysNamed
    <3>3. ASSUME NEW d \in Client, d # c,
                 Scan(d) \/ Resolve(d) \/ ScanError(d) \/ CallError(d) \/ Crash(d)
          PROVE  Spectator(c)
      BY <3>3, OthersKeep DEF IInv
    <3>4. UNCHANGED vars \/ Others => Spectator(c)
      BY DEF vars, Others, OtherRemoves, OtherWrites, OtherChmods, OtherPuts,
             OthersLeaveAlone, fsVars, ctlVars, histVars, Bystander, Spectator
    <3> QED
      BY <3>1, <3>2, <3>3, <3>4 DEF Next
  <2> QED
    BY <1>4, <2>2, <2>3 DEF Surviving, HoldsContent, HasContent
<1> QED
  BY <1>1, <1>3, <1>4, SeenStaged

LEMMA InitPreserved ==
  ASSUME Init
  PROVE  Separate /\ Preserved
<1>1. Separate /\ Opened
  BY DEF Init, Separate, Opened
<1>2. \A c \in Client : Typed(c) /\ Agreed(c) /\ Copying(c) /\ Paired(c) /\ Surviving(c)
  BY DEF Init, Typed, Agreed, Copying, Paired, Surviving, NoCandidate, Missing, Side
<1>3. Dataless
  <2>1. PICK objects \in [{entry[s] : s \in Slot} \ {NoIno} -> InitNode] :
          node = [i \in Ino |-> IF i \in DOMAIN objects THEN objects[i] ELSE NoNode]
    BY DEF Init
  <2>2. ASSUME NEW s \in Slot, entry[s] # NoIno
        PROVE  At(s) \in InitNode
    <3>1. entry[s] \in Ino
      BY <2>2 DEF Init
    <3> QED
      BY <2>1, <2>2, <3>1 DEF At
  <2> QED
    BY <2>2 DEF Dataless, InitNode
<1> QED
  BY <1>1, <1>2, <1>3 DEF Preserved

LEMMA NextPreserved ==
  ASSUME IInv, IInv', Orderly, Separate, Preserved, [Next]_vars,
         Interference \subseteq {"chmod"}
  PROVE  (Separate /\ Preserved)'
<1>1. Keeping /\ Naming /\ Separate'
  BY NextKeeps, NextNaming, SeparateKept DEF IInv
<1>2. Opened' /\ Dataless'
  BY <1>1, OpenedKept, DatalessKept DEF Preserved
<1>3. ASSUME NEW c \in Client
      PROVE  (Typed(c) /\ Agreed(c) /\ Copying(c) /\ Paired(c) /\ Surviving(c))'
  <2>1. Typed(c)' /\ Agreed(c)'
    BY <1>1, TypedKept, AgreedKept DEF Preserved
  <2>2. Copying(c)'
    BY <1>1, CopyingKept DEF Preserved
  <2>3. Paired(c)' /\ Surviving(c)'
    BY <1>1, PairedKept, SurvivingKept DEF Preserved
  <2> QED
    BY <2>1, <2>2, <2>3
<1> QED
  BY <1>1, <1>2, <1>3 DEF Preserved

(* A copy is published before the staged name is removed, and nothing but  *)
(* the dispositions gives up a name: the invariant behind the survival of  *)
(* the contents.  (copy_*_across_filesystems, install_temporary)           *)
THEOREM Preservation ==
  ASSUME Interference \subseteq {"chmod"}
  PROVE  Spec => [](IInv /\ Orderly /\ Separate /\ Preserved)
<1>1. Init => Separate /\ Preserved
  BY InitPreserved
<1>2. ASSUME IInv, IInv', Orderly, Separate, Preserved, [Next]_vars
      PROVE  (Separate /\ Preserved)'
  BY <1>2, NextPreserved
<1>3. Spec => [](IInv /\ Orderly)
  BY Ordered
<1> QED
  BY <1>1, <1>2, <1>3, PTL DEF Spec

(* Whatever the clients do at the same time, whatever fails and whoever    *)
(* dies, the contents of the staged object are under one of the names      *)
(* until a disposition that discards them has removed it.                  *)
(* (copy_*_across_filesystems, install_temporary, remove_one)              *)
THEOREM ContentsSurvive ==
  ASSUME Interference \subseteq {"chmod"}
  PROVE  Spec => []StagedSurvives
<1>1. Preserved => StagedSurvives
  BY LabelSets DEF Preserved, StagedSurvives, Surviving, Typed, HoldsContent, Holds
<1>2. Spec => [](IInv /\ Orderly /\ Separate /\ Preserved)
  BY Preservation
<1> QED
  BY <1>1, <1>2, PTL
==============================================================================
