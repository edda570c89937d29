------------------------------ MODULE Reconciler ------------------------------
(***************************************************************************)
(* filesystem_reconciler at the granularity of system calls, for one       *)
(* logical path: its name in the installed tree, its name in the staging   *)
(* tree, and one other name below the root to which a relic may be         *)
(* relocated.  Clients call scan() and then any disposition, as often as   *)
(* they like and with the same candidate; other processes may change the   *)
(* two trees between any two system calls; a call may fail and a client    *)
(* may die at any point.                                                   *)
(***************************************************************************)
EXTENDS Candidate, FiniteSets

CONSTANTS
  Client,        \* processes that use the library
  Kind,          \* the dispositions the clients call
  CrossDevice,   \* whether a move may, may not, cross filesystems (mount points)
  CoarseClock,   \* two changes may get the same timestamp
  Faults,        \* any system call may fail
  UnlinkFails,   \* so may the unlink of a temporary file in a catch block
  Crashes,       \* a client may die between two system calls
  Interference,  \* what other processes do: "write", "put", "remove", "chmod"
  InitType,      \* types of the objects that exist at the start
  PutType,       \* types of the objects other processes create
  GivenMode,     \* modes objects have at the start or get from other processes
  HardLinked,    \* the two names may start as links to one inode
  MaxClock       \* bound: nothing new is begun once this many changes happened

Slot == {"installed", "staged", "elsewhere"}
Side == {"installed", "staged"}

Kinds == {"keep", "install", "install_merged", "restore", "relocate_relic",
          "remove_relic", "compare_text"}

ASSUME KindAssumption == Kind \subseteq Kinds
ASSUME SwitchAssumption ==
  /\ {CoarseClock, Faults, UnlinkFails, Crashes, HardLinked} \subseteq BOOLEAN
  /\ CrossDevice \subseteq BOOLEAN
  /\ Interference \subseteq {"write", "put", "remove", "chmod"}
  /\ InitType \subseteq NodeType /\ PutType \subseteq NodeType
  /\ GivenMode \subseteq Mode
ASSUME MaxClockAssumption == MaxClock \in Nat

VARIABLES
  entry,    \* directory entries: the inode each name refers to
  node,     \* the inode table
  clock,    \* the time of the last change
  orphans,  \* inodes of temporary files left behind
  tmp,      \* the inode of each client's temporary file
  fd,       \* the inodes each client holds open, per side
  pc,       \* the next system call of each client
  cand,     \* the observation each client is making or holds
  got,      \* what each client has read, and how many blocks of it
  call,     \* the arguments of each client's disposition
  result,   \* how each client's last disposition ended
  seen,     \* history: the two objects as they were when observed
  log       \* history: which kinds of disposition gave up the staged object

fsVars   == <<entry, node, clock, orphans, tmp, fd>>
ctlVars  == <<cand, call, result>>
histVars == <<seen, log>>
vars     == <<fsVars, pc, got, ctlVars, histVars>>

Source == {"installed", "staged"}

Disposition ==
  [kind: Kinds, source: Source, dest: Slot, bytes: Data]

ScanLabel == {"observe_installed", "inspect", "read_installed", "read_staged",
              "recheck", "link_installed", "check_installed", "link_staged",
              "check_staged"}
OpenAt    == [installed |-> "open_installed", staged |-> "open_staged"]
ReadAt    == [installed |-> "load_installed", staged |-> "load_staged"]
VerifyAt  == [installed |-> "verify_installed", staged |-> "verify_staged"]
CallLabel == {"validate_installed", "validate_staged", "chown", "chmod",
              "retire", "rename", "copy_open", "copy_block", "write_merged",
              "seal", "publish"}
               \cup {OpenAt[s] : s \in Side} \cup {ReadAt[s] : s \in Side}
               \cup {VerifyAt[s] : s \in Side}
Label == {"idle", "ready"} \cup ScanLabel \cup CallLabel

Blank     == [k \in Block |-> Nul]   \* a file just created reads as NULs
NothingGot == [installed |-> Blank, staged |-> Blank, blocks |-> 0]
Closed    == [s \in Side |-> NoIno]
NoCandidate == [installed |-> Missing, staged |-> Missing,
                equal |-> FALSE, text |-> FALSE]
NoCall == [kind |-> "keep", source |-> "installed", dest |-> "installed",
           bytes |-> Blank]

------------------------------------------------------------------------------
(* The kernel's side, modelled from how the library uses it.               *)

(* Inodes some name or open descriptor still refers to.                    *)
Live ==
  {entry[s] : s \in Slot} \cup {tmp[c] : c \in Client}
    \cup {fd[c][s] : c \in Client, s \in Side} \cup orphans

Unused == Ino \ Live

(* The timestamps the kernel may give to a change.                         *)
Now == IF CoarseClock THEN {clock, clock + 1} ELSE {clock + 1}

(* The table nd after a change at time t to the inodes in `touched`.       *)
Touch(nd, touched, t) ==
  [i \in Ino |-> IF i \in touched /\ nd[i] # NoNode
                 THEN [nd[i] EXCEPT !.ctime = t] ELSE nd[i]]

(* The new inode table is nd, less the inodes nothing refers to any more.  *)
Settle(nd) == node' = [i \in Ino |-> IF i \in Live' THEN nd[i] ELSE NoNode]

(* rename(2) of an inode onto a name, and unlink(2) of a name.             *)
Directory(i) == i # NoIno /\ node[i].type = "directory"

MayReplace(i, j) == \/ j = NoIno
                    \/ Directory(i) <=> Directory(j)

(* chown(2) by root; it drops the set-id bits of anything but a directory  *)
(* or a symbolic link.                                                     *)
Chowned(n, owner) ==
  [n EXCEPT !.owner = owner,
            !.mode = IF n.type \in {"directory", "symlink"} THEN @ ELSE Stripped[@]]

(* chmod then chown: the set-id bits chmod asked for                       *)
(* are dropped by the chown that follows it.                               *)
DressedChmodFirst(n, owner, mode) ==
  IF n.type = "symlink" THEN Chowned(n, owner)
  ELSE Chowned([n EXCEPT !.mode = mode], owner)

(* chown then chmod, the order in which the code sets ownership and mode.  *)
Dressed(n, owner, mode) ==
  IF n.type = "symlink" THEN Chowned(n, owner)
  ELSE [Chowned(n, owner) EXCEPT !.mode = mode]

------------------------------------------------------------------------------
(* Control shared by the calls.                                            *)

Goto(c, label) == pc' = [pc EXCEPT ![c] = label]

(* Continue at a label; reaching "ready" is a successful return.           *)
Proceed(c, label) ==
  /\ Goto(c, label)
  /\ result' = IF label = "ready" THEN [result EXCEPT ![c] = "ok"] ELSE result

(* scan() throws or leaves the pair out, or the caller drops the candidate.*)
Idle(c) ==
  /\ Goto(c, "idle")
  /\ cand' = [cand EXCEPT ![c] = NoCandidate]
  /\ seen' = [seen EXCEPT ![c] = [s \in Side |-> NoNode]]
  /\ got' = [got EXCEPT ![c] = NothingGot]
  /\ fd' = [fd EXCEPT ![c] = Closed]

AbortScan(c) ==
  /\ Idle(c)
  /\ UNCHANGED <<entry, clock, orphans, tmp, call, result, log>>
  /\ Settle(node)

(* The exception path that forgets to unlink the temporary file.           *)
ThrowKeepingTemporary(c) ==
  /\ Goto(c, "ready")
  /\ result' = [result EXCEPT ![c] = "failed"]
  /\ tmp' = [tmp EXCEPT ![c] = NoIno]
  /\ orphans' = orphans \cup ({tmp[c]} \ {NoIno})
  /\ fd' = [fd EXCEPT ![c] = Closed]
  /\ got' = [got EXCEPT ![c] = NothingGot]
  /\ UNCHANGED <<entry, clock, cand, call, histVars>>
  /\ Settle(node)

(* A disposition throws: descriptors are closed, and the catch block has   *)
(* tried to unlink the temporary file and ignored an error.  The caller    *)
(* still holds the candidate.                                              *)
Throw(c) ==
  /\ Goto(c, "ready")
  /\ result' = [result EXCEPT ![c] = "failed"]
  /\ tmp' = [tmp EXCEPT ![c] = NoIno]
  /\ fd' = [fd EXCEPT ![c] = Closed]
  /\ got' = [got EXCEPT ![c] = NothingGot]
  /\ \/ UNCHANGED orphans
     \/ UnlinkFails /\ orphans' = orphans \cup ({tmp[c]} \ {NoIno})
  /\ UNCHANGED <<entry, clock, cand, call, histVars>>
  /\ Settle(node)

------------------------------------------------------------------------------
(* scan(), for this pair of names.                                         *)

Sees(c, s) == Observe(node, entry[s])

ScanObserveStaged(c) ==
  /\ pc[c] = "idle"
  /\ entry["staged"] # NoIno
  /\ cand' = [cand EXCEPT ![c] = [NoCandidate EXCEPT !.staged = Sees(c, "staged")]]
  /\ seen' = [seen EXCEPT ![c] = [installed |-> NoNode,
                                  staged |-> node[entry["staged"]]]]
  /\ result' = [result EXCEPT ![c] = "none"]
  /\ call' = [call EXCEPT ![c] = NoCall]
  /\ Goto(c, "observe_installed")
  /\ UNCHANGED <<fsVars, got, log>>

(* Where the scan goes once both objects are observed.                     *)
ScanNext(installed, staged) ==
  IF installed = "regular" /\ staged = "regular" THEN "inspect"
  ELSE IF installed = "symlink" /\ staged = "symlink" THEN "link_installed"
  ELSE "ready"

(* A staged directory without a counterpart is structural and is left out. *)
ScanOmitStructural(c) ==
  /\ pc[c] = "observe_installed"
  /\ cand[c].staged.type = "directory" /\ entry["installed"] = NoIno
  /\ AbortScan(c)

ScanObserveInstalled(c) ==
  LET installed == Sees(c, "installed")
      staged == cand[c].staged
  IN /\ pc[c] = "observe_installed"
     /\ ~(staged.type = "directory" /\ installed.type = "missing")
     /\ cand' = [cand EXCEPT ![c] =
          [installed |-> installed, staged |-> staged, text |-> FALSE,
           equal |-> installed.type = "directory" /\ staged.type = "directory"]]
     /\ seen' = [seen EXCEPT ![c].installed =
          IF installed.exists THEN node[entry["installed"]] ELSE NoNode]
     /\ Goto(c, ScanNext(installed.type, staged.type))
     /\ UNCHANGED <<fsVars, got, call, result, log>>

(* inspect_regular_file(): open both files, compare the descriptors with   *)
(* what the scan saw at the names.                                         *)
InspectOpen(c) ==
  /\ pc[c] = "inspect"
  /\ IF \A s \in Side : SameFingerprint(Sees(c, s), cand[c][s])
     THEN /\ fd' = [fd EXCEPT ![c] = [s \in Side |-> entry[s]]]
          /\ Goto(c, "read_installed")
          /\ UNCHANGED <<entry, node, clock, orphans, tmp, got, ctlVars, histVars>>
     ELSE AbortScan(c)

(* One block of one side, read through its descriptor.                     *)
ReadBlock(c, s, k) == [got[c][s] EXCEPT ![k] = node[fd[c][s]].data[k]]

InspectReadInstalled(c) ==
  LET k == got[c].blocks + 1
  IN /\ pc[c] = "read_installed"
     /\ got' = [got EXCEPT ![c] = [@ EXCEPT !.installed = ReadBlock(c, "installed", k)]]
     /\ Goto(c, "read_staged")
     /\ UNCHANGED <<fsVars, ctlVars, histVars>>

InspectReadStaged(c) ==
  LET k == got[c].blocks + 1
  IN /\ pc[c] = "read_staged"
     /\ got' = [got EXCEPT ![c] = [@ EXCEPT !.staged = ReadBlock(c, "staged", k),
                                            !.blocks = k]]
     /\ Goto(c, IF k = NBlocks THEN "recheck" ELSE "read_installed")
     /\ UNCHANGED <<fsVars, ctlVars, histVars>>

(* The same, leaking the two descriptors.                                  *)
ScanReturnsLeaking(c, equal, text) ==
  /\ cand' = [cand EXCEPT ![c] = [@ EXCEPT !.equal = equal, !.text = text]]
  /\ got' = [got EXCEPT ![c] = NothingGot]
  /\ Goto(c, "ready")
  /\ UNCHANGED <<fsVars, call, result, histVars>>

(* The candidate is complete: its flags come from what was read.           *)
ScanReturns(c, equal, text) ==
  /\ cand' = [cand EXCEPT ![c] = [@ EXCEPT !.equal = equal, !.text = text]]
  /\ got' = [got EXCEPT ![c] = NothingGot]
  /\ fd' = [fd EXCEPT ![c] = Closed]
  /\ Goto(c, "ready")
  /\ UNCHANGED <<entry, clock, orphans, tmp, call, result, histVars>>
  /\ Settle(node)

(* The end of inspect_regular_file() without its second fstat.             *)
InspectNoRecheck(c) ==
  /\ pc[c] = "recheck"
  /\ ScanReturns(c, got[c].installed = got[c].staged,
                 TextData(got[c].installed) /\ TextData(got[c].staged))

(* The end of inspect_regular_file(): a file that changed under the reader *)
(* makes the whole scan fail.                                              *)
InspectRecheck(c) ==
  /\ pc[c] = "recheck"
  /\ IF \A s \in Side : SameFingerprint(Observe(node, fd[c][s]), cand[c][s])
     THEN ScanReturns(c, got[c].installed = got[c].staged,
                      TextData(got[c].installed) /\ TextData(got[c].staged))
     ELSE AbortScan(c)

(* read_stable_symlink(): read the target by name ...                      *)
LinkLabel(s)  == IF s = "installed" THEN "link_installed" ELSE "link_staged"
CheckLabel(s) == IF s = "installed" THEN "check_installed" ELSE "check_staged"

LinkRead(c, s) ==
  /\ pc[c] = LinkLabel(s)
  /\ IF Sees(c, s).type = "symlink"
     THEN /\ got' = [got EXCEPT ![c] = [@ EXCEPT ![s] = node[entry[s]].data]]
          /\ Goto(c, CheckLabel(s))
          /\ UNCHANGED <<fsVars, ctlVars, histVars>>
     ELSE AbortScan(c)

(* ... and take the target for that of the link first observed.            *)
LinkUnchecked(c, s) ==
  /\ pc[c] = CheckLabel(s)
  /\ IF s = "installed"
     THEN /\ Goto(c, LinkLabel("staged"))
          /\ UNCHANGED <<fsVars, got, ctlVars, histVars>>
     ELSE ScanReturns(c, got[c].installed = got[c].staged, FALSE)

(* ... then look whether the name still refers to the link first observed. *)
LinkCheck(c, s) ==
  /\ pc[c] = CheckLabel(s)
  /\ IF ~SameFingerprint(Sees(c, s), cand[c][s])
     THEN AbortScan(c)
     ELSE IF s = "installed"
     THEN /\ Goto(c, LinkLabel("staged"))
          /\ UNCHANGED <<fsVars, got, ctlVars, histVars>>
     ELSE ScanReturns(c, got[c].installed = got[c].staged, FALSE)

Forget(c) == pc[c] = "ready" /\ AbortScan(c)

Scan(c) ==
  \/ ScanObserveStaged(c) \/ ScanOmitStructural(c) \/ ScanObserveInstalled(c)
  \/ InspectOpen(c) \/ InspectReadInstalled(c) \/ InspectReadStaged(c)
  \/ InspectRecheck(c)
  \/ \E s \in Side : LinkRead(c, s) \/ LinkCheck(c, s)
  \/ Forget(c)

------------------------------------------------------------------------------
(* The dispositions.                                                       *)

Calls ==
  {d \in Disposition :
     /\ d.kind \in Kind
     /\ d.kind # "install_merged" => d.bytes = Blank
     /\ d.kind \notin {"keep", "install", "install_merged"} => d.source = "installed"
     /\ d.kind = "relocate_relic" => d.dest # "staged"
     /\ d.kind # "relocate_relic" => d.dest = "installed"}

Begin(c, d) ==
  /\ pc[c] = "ready"
  /\ clock < MaxClock
  /\ call' = [call EXCEPT ![c] = d]
  /\ result' = [result EXCEPT ![c] = "none"]
  /\ Goto(c, "validate_installed")
  /\ UNCHANGED <<fsVars, cand, got, histVars>>

(* choose_metadata(): the side whose ownership and mode were selected.     *)
Selected(c) == cand[c][call[c].source]

(* validate_paired(), validate_relic() and the type checks of each call.   *)
Applicable(kind, cd) ==
  CASE kind = "keep"           -> ~Relic(cd)
    [] kind = "install"        -> /\ ~Relic(cd)
                                  /\ cd.staged.type = "directory"
                                       => cd.installed.type = "directory"
    [] kind = "install_merged" -> cd.installed.type = "regular" /\ cd.staged.type = "regular"
    [] kind = "compare_text"   -> /\ cd.installed.type = "regular"
                                  /\ cd.staged.type = "regular" /\ cd.text
    [] OTHER                   -> Relic(cd)

(* What each call does first once everything is validated.                 *)
FirstStep(d, cd) ==
  CASE d.kind = "keep" -> IF d.source = "staged" /\ ~MetadataEqual(cd)
                          THEN "chown" ELSE "retire"
    [] d.kind = "install" -> IF cd.staged.type = "directory" THEN "chown" ELSE "rename"
    [] d.kind = "install_merged" -> "write_merged"
    [] d.kind = "remove_relic"   -> "retire"
    [] d.kind = "compare_text"   -> OpenAt["installed"]
    [] OTHER                     -> "rename"

(* validate_current(): two lstats, one name after the other.               *)
ValidateInstalled(c) ==
  /\ pc[c] = "validate_installed"
  /\ IF FingerprintMatches(cand[c].installed, Sees(c, "installed"))
     THEN Goto(c, "validate_staged") /\ UNCHANGED <<fsVars, got, ctlVars, histVars>>
     ELSE Throw(c)

ValidateStaged(c) ==
  /\ pc[c] = "validate_staged"
  /\ IF FingerprintMatches(cand[c].staged, Sees(c, "staged"))
        /\ Applicable(call[c].kind, cand[c])
     THEN Goto(c, FirstStep(call[c], cand[c])) /\ UNCHANGED <<fsVars, got, ctlVars, histVars>>
     ELSE Throw(c)

(* A call on a directory only adjusts metadata and removes the staged      *)
(* directory if it is empty.                                               *)
OnDirectory(c) == cand[c].staged.type = "directory"

(* After apply_metadata(): keep and the directory case of install still    *)
(* have the staged object to remove.                                       *)
AfterMetadata(c) ==
  IF call[c].kind = "keep" \/ OnDirectory(c) THEN "retire" ELSE "ready"

(* A change at time t that turns inode i of the table into n.              *)
Change(i, n, t) == Settle(Touch([node EXCEPT ![i] = n], {i}, t)) /\ clock' = t

(* apply_metadata(): lstat and lchown of the installed name ...            *)
Chown(c) ==
  LET i == entry["installed"]
  IN /\ pc[c] = "chown"
     /\ IF i = NoIno THEN Throw(c)
        ELSE /\ Proceed(c, IF node[i].type = "symlink" THEN AfterMetadata(c) ELSE "chmod")
             /\ UNCHANGED <<entry, orphans, tmp, fd, got, cand, call, histVars>>
             /\ \E t \in Now : Change(i, Chowned(node[i], Selected(c).owner), t)

(* ... and chmod, which follows a link that has taken the name meanwhile   *)
(* to an object outside this model.                                        *)
Chmod(c) ==
  LET i == entry["installed"]
  IN /\ pc[c] = "chmod"
     /\ IF i = NoIno THEN Throw(c)
        ELSE /\ Proceed(c, AfterMetadata(c))
             /\ UNCHANGED <<entry, orphans, tmp, fd, got, cand, call, histVars>>
             /\ IF node[i].type = "symlink"
                THEN UNCHANGED <<node, clock>>
                ELSE \E t \in Now : Change(i, [node[i] EXCEPT !.mode = Selected(c).mode], t)

(* install() without its last step, when the contents had to be copied.    *)
AfterRetireReady(c) == "ready"

(* Removing the staged name: remove_one(), or remove_directory_if_empty()  *)
(* when the candidate is a directory.  After a copy, install() goes on to  *)
(* the metadata.                                                           *)
AfterRetire(c) ==
  IF call[c].kind = "install" /\ ~OnDirectory(c) THEN "chown" ELSE "ready"

GivesUpStaged == {"keep", "install_merged", "remove_relic"}

RetireUnlinks(c) ==
  LET i == entry["staged"]
  IN /\ pc[c] = "retire"
     /\ i # NoIno
     /\ entry' = [entry EXCEPT !["staged"] = NoIno]
     /\ log' = log \cup ({call[c].kind} \cap GivesUpStaged)
     /\ Proceed(c, AfterRetire(c))
     /\ UNCHANGED <<orphans, tmp, fd, got, cand, call, seen>>
     /\ \E t \in Now : Settle(Touch(node, {i}, t)) /\ clock' = t

(* fs::remove() returning false is not an error code: taken for success.   *)
RetireFindsNothingOk(c) ==
  /\ pc[c] = "retire"
  /\ entry["staged"] = NoIno
  /\ Proceed(c, AfterRetire(c))
  /\ UNCHANGED <<fsVars, got, cand, call, histVars>>

RetireFindsNothing(c) ==
  /\ pc[c] = "retire"
  /\ entry["staged"] = NoIno
  /\ IF OnDirectory(c)
     THEN Proceed(c, AfterRetire(c)) /\ UNCHANGED <<fsVars, got, cand, call, histVars>>
     ELSE Throw(c)

RetireFindsChildren(c) ==
  /\ pc[c] = "retire"
  /\ Directory(entry["staged"])
  /\ IF OnDirectory(c)
     THEN Proceed(c, AfterRetire(c)) /\ UNCHANGED <<fsVars, got, cand, call, histVars>>
     ELSE Throw(c)

(* install_temporary() and move_noreplace() without RENAME_NOREPLACE.      *)
ReplacesAlways(kind) == TRUE

(* Whether the destination of this call may already exist.                 *)
Replaces(kind) == kind \in {"install", "install_merged"}

(* The destination refuses a non-directory named by inode i.               *)
Refuses(c, i) ==
  LET j == entry[call[c].dest]
  IN IF Replaces(call[c].kind) THEN ~MayReplace(i, j) ELSE j # NoIno

(* The directory entries after a rename of inode i from one name to        *)
(* another; two links to one inode are left alone.                         *)
Renamed(from, to, i) ==
  IF entry[to] = i THEN entry ELSE [entry EXCEPT ![from] = NoIno, ![to] = i]

(* An occupied destination is taken for an earlier success: only the       *)
(* staged name is left to be removed.                                      *)
RenameDroppingSource(c) ==
  LET i == entry["staged"]
      dest == call[c].dest
  IN /\ pc[c] = "rename" /\ FALSE \in CrossDevice
     /\ IF i = NoIno \/ Refuses(c, i)
        THEN Goto(c, "retire") /\ UNCHANGED <<fsVars, got, ctlVars, histVars>>
        ELSE /\ entry' = Renamed("staged", dest, i)
             /\ Proceed(c, IF call[c].kind = "install" THEN "chown" ELSE "ready")
             /\ UNCHANGED <<orphans, tmp, fd, got, cand, call, histVars>>
             /\ IF entry[dest] = i THEN UNCHANGED <<node, clock>>
                ELSE \E t \in Now : Settle(Touch(node, {i, entry[dest]}, t)) /\ clock' = t

(* move_replace() and move_noreplace() on one filesystem.                  *)
Rename(c) ==
  LET i == entry["staged"]
      dest == call[c].dest
  IN /\ pc[c] = "rename" /\ FALSE \in CrossDevice
     /\ IF i = NoIno \/ Refuses(c, i) THEN Throw(c)
        ELSE /\ entry' = Renamed("staged", dest, i)
             /\ Proceed(c, IF call[c].kind = "install" THEN "chown" ELSE "ready")
             /\ UNCHANGED <<orphans, tmp, fd, got, cand, call, histVars>>
             /\ IF entry[dest] = i THEN UNCHANGED <<node, clock>>
                ELSE \E t \in Now : Settle(Touch(node, {i, entry[dest]}, t)) /\ clock' = t

(* The same across filesystems: EXDEV, and a copy of what can be copied.   *)
RenameCrossDevice(c) ==
  /\ pc[c] = "rename" /\ TRUE \in CrossDevice
  /\ IF cand[c].staged.type \in {"regular", "symlink"}
     THEN Goto(c, "copy_open") /\ UNCHANGED <<fsVars, got, ctlVars, histVars>>
     ELSE Throw(c)

(* A temporary file next to the destination, on an unused inode i.         *)
CreateTemporary(c, i, type, data) ==
  /\ tmp' = [tmp EXCEPT ![c] = i]
  /\ UNCHANGED <<entry, orphans, got, ctlVars, histVars>>
  /\ \E t \in Now :
       Change(i, [type |-> type, data |-> data, owner |-> ZeroOwner, ctime |-> t,
                  mode |-> IF type = "symlink" THEN LinkMode ELSE ZeroMode], t)

(* copy_regular_across_filesystems(): mkstemp, then open the source; or    *)
(* copy_symlink_across_filesystems(): read the link and recreate it.       *)
CopyOpen(c) ==
  LET source == entry["staged"]
      type == cand[c].staged.type
  IN /\ pc[c] = "copy_open"
     /\ IF source = NoIno \/ Sees(c, "staged").type # type THEN Throw(c)
        ELSE \E i \in Unused :
               IF type = "regular"
               THEN /\ fd' = [fd EXCEPT ![c].staged = source]
                    /\ Goto(c, "copy_block")
                    /\ CreateTemporary(c, i, "regular", Blank)
               ELSE /\ Goto(c, "seal")
                    /\ UNCHANGED fd
                    /\ CreateTemporary(c, i, "symlink", node[source].data)

CopyBlock(c) ==
  LET k == got[c].blocks + 1
      i == tmp[c]
      read == node[fd[c].staged].data[k]
  IN /\ pc[c] = "copy_block"
     /\ got' = [got EXCEPT ![c] = [@ EXCEPT !.blocks = k]]
     /\ Goto(c, IF k = NBlocks THEN "seal" ELSE "copy_block")
     /\ UNCHANGED <<entry, orphans, tmp, fd, ctlVars, histVars>>
     /\ \E t \in Now :
          Change(i, [node[i] EXCEPT !.data = [@ EXCEPT ![k] = read]], t)

(* The merged bytes written over the installed file itself.                *)
WriteMergedInPlace(c) ==
  LET i == entry["installed"]
  IN /\ pc[c] = "write_merged"
     /\ Goto(c, "retire")
     /\ UNCHANGED <<entry, orphans, tmp, fd, got, ctlVars, histVars>>
     /\ \E t \in Now : Change(i, [node[i] EXCEPT !.data = call[c].bytes], t)

(* write_merged_file(): the caller's bytes into a temporary file.          *)
WriteMerged(c) ==
  /\ pc[c] = "write_merged"
  /\ Goto(c, "seal")
  /\ UNCHANGED fd
  /\ \E i \in Unused : CreateTemporary(c, i, "regular", call[c].bytes)

(* Ownership, mode, fsync and close, before the file gets its name.  A     *)
(* copy gets the staged metadata, merged bytes the selected metadata.      *)
Seal(c) ==
  LET m == IF call[c].kind = "install_merged" THEN Selected(c) ELSE cand[c].staged
      i == tmp[c]
  IN /\ pc[c] = "seal"
     /\ Goto(c, "publish")
     /\ fd' = [fd EXCEPT ![c] = Closed]
     /\ got' = [got EXCEPT ![c] = NothingGot]
     /\ UNCHANGED <<entry, orphans, tmp, ctlVars, histVars>>
     /\ \E t \in Now : Change(i, Dressed(node[i], m.owner, m.mode), t)

(* The outcome of the rename is not looked at.                             *)
PublishUnverified(c) ==
  LET dest == call[c].dest
      i == tmp[c]
  IN /\ pc[c] = "publish"
     /\ entry' = IF Refuses(c, i) THEN entry ELSE [entry EXCEPT ![dest] = i]
     /\ tmp' = [tmp EXCEPT ![c] = NoIno]
     /\ Goto(c, "retire")
     /\ UNCHANGED <<orphans, fd, got, ctlVars, histVars>>
     /\ \E t \in Now : Settle(Touch(node, {i, entry[dest]}, t)) /\ clock' = t

(* install_temporary(), or the rename that ends write_merged_file().       *)
Publish(c) ==
  LET dest == call[c].dest
      i == tmp[c]
  IN /\ pc[c] = "publish"
     /\ IF Refuses(c, i) THEN Throw(c)
        ELSE /\ entry' = [entry EXCEPT ![dest] = i]
             /\ tmp' = [tmp EXCEPT ![c] = NoIno]
             /\ Goto(c, "retire")
             /\ log' = log \cup ({call[c].kind} \cap GivesUpStaged)
             /\ UNCHANGED <<orphans, fd, got, ctlVars, seen>>
             /\ \E t \in Now : Settle(Touch(node, {i, entry[dest]}, t)) /\ clock' = t

------------------------------------------------------------------------------
(* compare_text(): read_stable_regular() of the installed file, then of    *)
(* the staged one; exceeding a limit is one of the failures below.         *)
CompareOpen(c, s) ==
  /\ pc[c] = OpenAt[s]
  /\ IF FingerprintMatches(cand[c][s], Sees(c, s))
     THEN /\ fd' = [fd EXCEPT ![c][s] = entry[s]]
          /\ Goto(c, ReadAt[s])
          /\ UNCHANGED <<entry, node, clock, orphans, tmp, got, ctlVars, histVars>>
     ELSE Throw(c)

CompareRead(c, s) ==
  LET k == got[c].blocks + 1
  IN /\ pc[c] = ReadAt[s]
     /\ got' = [got EXCEPT ![c] = [@ EXCEPT ![s] = ReadBlock(c, s, k), !.blocks = k]]
     /\ Goto(c, IF k = NBlocks THEN VerifyAt[s] ELSE ReadAt[s])
     /\ UNCHANGED <<fsVars, ctlVars, histVars>>

(* What was read is returned without a second fstat.                       *)
CompareUnverified(c, s) ==
  /\ pc[c] = VerifyAt[s]
  /\ fd' = [fd EXCEPT ![c][s] = NoIno]
  /\ Proceed(c, IF s = "installed" THEN OpenAt["staged"] ELSE "ready")
  /\ got' = [got EXCEPT ![c] =
               IF s = "installed" THEN [@ EXCEPT !.blocks = 0] ELSE NothingGot]
  /\ UNCHANGED <<entry, clock, orphans, tmp, cand, call, histVars>>
  /\ Settle(node)

CompareVerify(c, s) ==
  /\ pc[c] = VerifyAt[s]
  /\ IF SameFingerprint(Observe(node, fd[c][s]), cand[c][s])
     THEN /\ fd' = [fd EXCEPT ![c][s] = NoIno]
          /\ Proceed(c, IF s = "installed" THEN OpenAt["staged"] ELSE "ready")
          /\ got' = [got EXCEPT ![c] =
                       IF s = "installed" THEN [@ EXCEPT !.blocks = 0] ELSE NothingGot]
          /\ UNCHANGED <<entry, clock, orphans, tmp, cand, call, histVars>>
          /\ Settle(node)
     ELSE Throw(c)

Resolve(c) ==
  \/ \E d \in Calls : Begin(c, d)
  \/ ValidateInstalled(c) \/ ValidateStaged(c)
  \/ Chown(c) \/ Chmod(c)
  \/ RetireUnlinks(c) \/ RetireFindsNothing(c) \/ RetireFindsChildren(c)
  \/ Rename(c) \/ RenameCrossDevice(c)
  \/ CopyOpen(c) \/ CopyBlock(c) \/ WriteMerged(c) \/ Seal(c) \/ Publish(c)
  \/ \E s \in Side : CompareOpen(c, s) \/ CompareRead(c, s) \/ CompareVerify(c, s)

------------------------------------------------------------------------------
(* Failures.                                                               *)

(* A system call of the client fails for a reason of its own.              *)
ScanError(c) == Faults /\ pc[c] \in ScanLabel /\ AbortScan(c)
CallError(c) == Faults /\ pc[c] \in CallLabel /\ Throw(c)

(* The client dies; its temporary file stays behind.                       *)
Crash(c) ==
  /\ Crashes /\ pc[c] \in CallLabel
  /\ Idle(c)
  /\ tmp' = [tmp EXCEPT ![c] = NoIno]
  /\ orphans' = orphans \cup ({tmp[c]} \ {NoIno})
  /\ call' = [call EXCEPT ![c] = NoCall]
  /\ result' = [result EXCEPT ![c] = "none"]
  /\ UNCHANGED <<entry, clock, log>>
  /\ Settle(node)

(* Other processes.                                                        *)
OthersLeaveAlone == UNCHANGED <<orphans, tmp, fd, pc, got, ctlVars, histVars>>

(* ... overwrite a file in place,                                          *)
OtherWrites(s, d) ==
  /\ "write" \in Interference /\ clock < MaxClock
  /\ entry[s] # NoIno /\ node[entry[s]].type = "regular" /\ node[entry[s]].data # d
  /\ OthersLeaveAlone /\ UNCHANGED entry
  /\ \E t \in Now : Change(entry[s], [node[entry[s]] EXCEPT !.data = d], t)

(* ... change its mode,                                                    *)
OtherChmods(s, m) ==
  /\ "chmod" \in Interference /\ clock < MaxClock
  /\ entry[s] # NoIno /\ node[entry[s]].type # "symlink" /\ node[entry[s]].mode # m
  /\ OthersLeaveAlone /\ UNCHANGED entry
  /\ \E t \in Now : Change(entry[s], [node[entry[s]] EXCEPT !.mode = m], t)

(* ... put a new object under the name, replacing what was there,          *)
OtherPuts(s, i, type, d, m, o) ==
  /\ "put" \in Interference /\ clock < MaxClock
  /\ type \in PutType /\ i \in Unused
  /\ type = "symlink" <=> m = LinkMode
  /\ type \notin {"regular", "symlink"} => d = Blank
  /\ entry' = [entry EXCEPT ![s] = i]
  /\ OthersLeaveAlone
  /\ \E t \in Now :
       /\ Settle(Touch([node EXCEPT ![i] = [type |-> type, data |-> d, mode |-> m,
                                            owner |-> o, ctime |-> t]],
                       {i, entry[s]}, t))
       /\ clock' = t

(* ... or remove the name.                                                 *)
OtherRemoves(s) ==
  /\ "remove" \in Interference /\ clock < MaxClock
  /\ entry[s] # NoIno
  /\ entry' = [entry EXCEPT ![s] = NoIno]
  /\ OthersLeaveAlone
  /\ \E t \in Now : Settle(Touch(node, {entry[s]}, t)) /\ clock' = t

Others ==
  \E s \in Slot :
    \/ OtherRemoves(s)
    \/ \E d \in Data : OtherWrites(s, d)
    \/ \E m \in GivenMode : OtherChmods(s, m)
    \/ \E i \in Unused, type \in PutType, d \in Data, m \in GivenMode \cup {LinkMode}, o \in Owner :
         OtherPuts(s, i, type, d, m, o)

------------------------------------------------------------------------------
(* The staged object exists, as does something or nothing at the other two *)
(* names; the third name matters to relics only.                           *)
InitNode ==
  {n \in [type: InitType, data: Data, mode: GivenMode \cup {LinkMode}, owner: Owner, ctime: {0}] :
     /\ n.type = "symlink" <=> n.mode = LinkMode
     /\ n.type \notin {"regular", "symlink"} => n.data = Blank}

Init ==
  /\ entry \in [Slot -> Ino \cup {NoIno}]
  /\ entry["staged"] # NoIno
  /\ \A s, r \in Slot : s # r /\ entry[s] = entry[r] /\ entry[s] # NoIno
                          => HardLinked /\ {s, r} = Side
  /\ entry["elsewhere"] # NoIno => entry["installed"] = NoIno
  /\ \E objects \in [{entry[s] : s \in Slot} \ {NoIno} -> InitNode] :
       node = [i \in Ino |-> IF i \in DOMAIN objects THEN objects[i] ELSE NoNode]
  /\ clock = 0
  /\ orphans = {}
  /\ tmp = [c \in Client |-> NoIno]
  /\ fd = [c \in Client |-> Closed]
  /\ pc = [c \in Client |-> "idle"]
  /\ cand = [c \in Client |-> NoCandidate]
  /\ got = [c \in Client |-> NothingGot]
  /\ call = [c \in Client |-> NoCall]
  /\ result = [c \in Client |-> "none"]
  /\ seen = [c \in Client |-> [s \in Side |-> NoNode]]
  /\ log = {}

Next ==
  \/ \E c \in Client : Scan(c) \/ Resolve(c) \/ ScanError(c) \/ CallError(c) \/ Crash(c)
  \/ Others

Spec == Init /\ [][Next]_vars

------------------------------------------------------------------------------
(* Every variable has its type, no name or descriptor refers to a released *)
(* inode, and no descriptor outlives the call that opened it.              *)
(* (class file_descriptor)                                                 *)
TypeOK ==
  /\ entry \in [Slot -> Ino \cup {NoIno}]
  /\ node \in [Ino -> Node \cup {NoNode}]
  /\ clock \in Nat
  /\ orphans \subseteq Ino
  /\ tmp \in [Client -> Ino \cup {NoIno}]
  /\ fd \in [Client -> [Side -> Ino \cup {NoIno}]]
  /\ pc \in [Client -> Label]
  /\ cand \in [Client -> CandidateRecord]
  /\ got \in [Client -> [installed: Data, staged: Data, blocks: 0 .. NBlocks]]
  /\ call \in [Client -> Disposition]
  /\ result \in [Client -> {"none", "ok", "failed"}]
  /\ seen \in [Client -> [Side -> Node \cup {NoNode}]]
  /\ log \subseteq Kinds
  /\ \A i \in Ino : i \in Live => node[i] # NoNode
  /\ \A c \in Client : pc[c] \in {"idle", "ready"} => fd[c] = Closed

(* A client that holds a candidate, and whether validate_current() would   *)
(* accept it in this state.                                                *)
Holds(c) == pc[c] \in {"ready"} \cup CallLabel

Fresh(c) == \A s \in Side : FingerprintMatches(cand[c][s], Sees(c, s))

(* A candidate that validation accepts describes the two objects as they   *)
(* are at that moment, whatever other processes did while scan() was       *)
(* looking: same state, same equality of contents, same text flag.         *)
(* (scan, inspect_regular_file, read_stable_symlink, fingerprint_matches)  *)
CandidateTruthful ==
  \A c \in Client : Holds(c) /\ Fresh(c) =>
    LET I == Sees(c, "installed")
        S == Sees(c, "staged")
        SameData == node[entry["installed"]].data = node[entry["staged"]].data
        BothText == \A s \in Side : TextData(node[entry[s]].data)
    IN /\ S.exists
       /\ Relic(cand[c]) <=> ~I.exists
       /\ I.type = S.type /\ I.type \in {"regular", "symlink"} => (cand[c].equal <=> SameData)
       /\ cand[c].text <=> I.type = "regular" /\ S.type = "regular" /\ BothText
       /\ MetadataEqual(cand[c]) <=> SameMetadata(I, S)

(* The flags of a candidate are true of the two objects its fingerprints   *)
(* were taken from, even if it is stale by the time scan() returns: a      *)
(* reader that saw parts of two versions never produces a candidate.       *)
(* (inspect_regular_file's second fstat, read_stable_symlink)              *)
FlagsMatchFingerprints ==
  \A c \in Client : Holds(c) /\ {seen[c][s] : s \in Side} \cap {NoNode} = {} =>
    LET i == seen[c]["installed"]
        s == seen[c]["staged"]
    IN i.type = s.type /\ i.type \in {"regular", "symlink"}
         => /\ cand[c].equal <=> i.data = s.data
            /\ cand[c].text <=> i.type = "regular" /\ TextData(i.data) /\ TextData(s.data)

(* An edit made after the scan makes the candidate stale.                  *)
(* man/libpkgreconcile.3: mutation fails with stale_candidate_error if the *)
(* candidate no longer matches live state.                                 *)
EditMakesStale ==
  \A c \in Client : Holds(c) /\ Fresh(c) =>
    \A s \in Side : entry[s] # NoIno /\ cand[c][s].type \in {"regular", "symlink"}
                      => node[entry[s]].data = seen[c][s].data

(* What compare_text() hands to liblinediff is the pair of contents that   *)
(* scan() classified, whole, not parts of two versions and not a newer     *)
(* version.  (read_stable_regular)                                         *)
ComparedTruthful ==
  [][\A c \in Client :
       pc[c] = VerifyAt["staged"] /\ pc'[c] = "ready" /\ result'[c] = "ok"
         => \A s \in Side : got[c][s] = seen[c][s].data]_vars

(* Restoring or relocating a relic never takes a name away from an object, *)
(* however late that object appeared, on one filesystem or across two.     *)
(* (move_noreplace, install_temporary)                                     *)
RelicNeverReplaces ==
  [][\A c \in Client :
       /\ pc[c] \in {"rename", "publish"} /\ pc'[c] # pc[c]
       /\ call[c].kind \in {"restore", "relocate_relic"}
       /\ entry[call[c].dest] # NoIno
       => entry'[call[c].dest] = entry[call[c].dest]]_vars

------------------------------------------------------------------------------
(* With no other process at work:                                          *)

(* node n holds the content of m and the ownership and mode of metadata d. *)
HasContent(n, m)  == n.type = m.type /\ n.data = m.data
HasMetadata(n, d) == n.owner = d.owner /\ (n.type = "symlink" \/ n.mode = d.mode)

At(s) == node[entry[s]]

(* What each disposition promises when it returns: the installed name has  *)
(* the chosen contents under the chosen metadata, set-id bits included,    *)
(* and the staged name is gone (a staged directory may stay if it is not   *)
(* empty).  (keep, install, install_merged, restore, relocate_relic,       *)
(* remove_relic, apply_metadata, copy_*_across_filesystems)                *)
Delivered(c) ==
  LET kind == call[c].kind
      old == seen[c]["installed"]
      new == seen[c]["staged"]
  IN /\ OnDirectory(c) \/ kind = "compare_text" \/ entry["staged"] = NoIno
     /\ kind = "keep" =>
          /\ entry["installed"] # NoIno /\ HasContent(At("installed"), old)
          /\ HasMetadata(At("installed"), Selected(c))
     /\ kind = "install" =>
          /\ entry["installed"] # NoIno
          /\ HasContent(At("installed"), IF OnDirectory(c) THEN old ELSE new)
          /\ HasMetadata(At("installed"), Selected(c))
     /\ kind = "install_merged" =>
          /\ entry["installed"] # NoIno /\ At("installed").data = call[c].bytes
          /\ HasMetadata(At("installed"), Selected(c))
     /\ kind \in {"restore", "relocate_relic"} =>
          /\ entry[call[c].dest] # NoIno /\ HasContent(At(call[c].dest), new)
          /\ HasMetadata(At(call[c].dest), cand[c].staged)
     /\ kind = "remove_relic" => entry["installed"] = NoIno

SuccessDelivers ==
  \A c \in Client : pc[c] = "ready" /\ result[c] = "ok" => Delivered(c)

(* Until a disposition that means to discard the staged object has removed *)
(* it, its contents are under one of the names: no failure, crash or race  *)
(* of two clients leaves them only in a temporary file or nowhere.         *)
(* (order of publish and remove in copy_*_across_filesystems)              *)
StagedSurvives ==
  \A c \in Client : Holds(c) /\ log = {} =>
    \E s \in Slot : entry[s] # NoIno /\ HasContent(At(s), seen[c]["staged"])

(* Readers of the installed name see the old file under its old metadata   *)
(* or the merged bytes under the selected metadata, and nothing between.   *)
(* (write_merged_file: fchown and fchmod before the rename)                *)
MergedIsAtomic ==
  \A c \in Client :
    call[c].kind = "install_merged"
      /\ pc[c] \in {"write_merged", "seal", "publish", "retire"} =>
        IF pc[c] = "retire"
        THEN At("installed").data = call[c].bytes /\ HasMetadata(At("installed"), Selected(c))
        ELSE At("installed") = seen[c]["installed"]

(* A disposition that returns or throws leaves no temporary file behind:   *)
(* only the death of a client in the middle of a call does, if a catch     *)
(* block can unlink what it made.                                          *)
(* (the catch blocks of copy_*_across_filesystems and write_merged_file)   *)
Stray == (orphans \cup {tmp[c] : c \in {d \in Client : pc[d] \in {"idle", "ready"}}}) \ {NoIno}

NoTemporaryLeft ==
  [][~ (Stray' \subseteq Stray) => \E c \in Client : pc[c] \in CallLabel /\ pc'[c] = "idle"]_vars

(* Client c was told that it resolved the pair.                            *)
Resolved(c) == pc[c] = "ready" /\ result[c] = "ok" /\ call[c].kind # "compare_text"

(* Of two clients that resolve the same staged object at the same time, at *)
(* most one is told that it did.  (remove_one: "path disappeared", rename) *)
AtMostOneWinner ==
  \A c, d \in Client :
    c # d /\ Resolved(c) /\ Resolved(d) => OnDirectory(c) \/ OnDirectory(d)

(* README.md: the checks reject replayed decisions.  A disposition that    *)
(* returned leaves its candidate stale.                                    *)
ResolvedIsStale ==
  \A c \in Client : Resolved(c) => ~Fresh(c)

(* The same for everything but directories, whose timestamps the check     *)
(* ignores: without it, a second keep() could remove what was put at the   *)
(* staged name since.  (candidate_access::fingerprint_matches)             *)
ResolvedFileIsStale ==
  \A c \in Client : Resolved(c) /\ ~OnDirectory(c) => ~Fresh(c)

(* tests/test_actions.cpp: after install() the staged name is gone.        *)
InstallConsumesStaged ==
  \A c \in Client :
    pc[c] = "ready" /\ result[c] = "ok" /\ call[c].kind = "install" /\ ~OnDirectory(c)
      => entry["staged"] = NoIno

(* man/libpkgreconcile.3: mutation fails if the candidate no longer        *)
(* matches live state.  What keep() and remove_relic() remove is what was  *)
(* scanned.                                                                *)
OnlyObservedIsRemoved ==
  [][\A c \in Client :
       /\ pc[c] = "retire" /\ pc'[c] # pc[c]
       /\ call[c].kind \in {"keep", "remove_relic"}
       /\ entry["staged"] # NoIno /\ entry'["staged"] = NoIno
       => FingerprintMatches(cand[c].staged, Sees(c, "staged"))]_vars
==============================================================================
