------------------------------- MODULE Session -------------------------------
(***************************************************************************)
(* run_terminal() of rejmerge over the two trees: the scan of the whole    *)
(* staging tree, one dialogue per candidate, and the removal of empty      *)
(* staging directories.  A library call validates its candidate in one     *)
(* step and then changes names and objects in further ones, each of which  *)
(* may fail.  Other processes act between any two steps.  A behaviour is   *)
(* one session, from any two trees an earlier one may have left.           *)
(*                                                                         *)
(* No object is a symbolic link: a link takes the dialogue of a special    *)
(* file, and one that stands for a directory on the way to another name    *)
(* leads out of the modelled names.                                        *)
(***************************************************************************)
EXTENDS Candidate, Sequences, FiniteSets

CONSTANTS
  Path,      \* logical paths, the same in both trees
  Above,     \* the directories on the way to each path, all members of Path
  Rank,      \* the order of the paths as strings
  Original,  \* inode of the object at each name of each tree at the start
  InitNode,  \* the objects there may be at the start
  Linked,    \* pairs of names that may be links to one inode at the start
  Conflicts, \* the contents of every two-way conflict copy
  Faults,    \* system calls, the pager and the editor may fail, input may close
  Interference, \* what other processes do: "write", "reject", "replace"
  MaxEdits   \* bound: how often they do it in all

Tree == {"installed", "staged"}

ASSUME PathAssumption ==
  /\ IsFiniteSet(Path)
  /\ Above \in [Path -> SUBSET Path]
  /\ Rank \in [Path -> Nat] /\ \A p, q \in Path : Rank[p] = Rank[q] => p = q
  /\ \A p \in Path : p \notin Above[p] /\ \A q \in Above[p] : Above[q] \subseteq Above[p]
(* An inode is free whenever one is needed: every name may have its own.   *)
ASSUME InodeAssumption ==
  IsFiniteSet(Ino) /\ Cardinality(Ino) > Cardinality(Tree \X Path)
ASSUME OriginalAssumption ==
  /\ Original \in [Tree -> [Path -> Ino]]
  /\ \A t, u \in Tree : \A p, q \in Path : Original[t][p] = Original[u][q] => t = u /\ p = q
  /\ InitNode \subseteq {n \in Node : n.type # "symlink" /\ n.ctime = 0}
  /\ Linked \subseteq (Tree \X Path) \X (Tree \X Path)
  /\ Conflicts \in Data /\ Faults \in BOOLEAN
  /\ Interference \subseteq {"write", "reject", "replace"} /\ MaxEdits \in Nat

VARIABLES
  name,     \* the directory entries of the two trees
  node,     \* the inode table
  dry_run,  \* run_options::dry_run
  pc,       \* where the program is: a prompt or the next library call
  todo,     \* the candidates not yet dealt with, the current one first
  sweep,    \* cleanup: the directories not yet tried
  source,   \* the metadata chosen for the current candidate
  copy,     \* what the temporary conflict copy holds
  call,     \* the disposition under way once it has validated its candidate
  summary,  \* run_summary
  edits,    \* how much other processes have done
  found,    \* history: how many candidates the scan returned
  skipped,  \* history: candidates skipped in this session
  arrived   \* history: staged names others have put a file at since the scan

fsVars  == <<name, node>>
uiVars  == <<sweep, source, copy, call, dry_run>>
history == <<found, skipped, arrived>>
vars    == <<fsVars, pc, todo, uiVars, summary, edits, history>>

NoSummary == [inspected |-> 0, resolved |-> 0, skipped |-> 0]
NoCopy == <<>>
NoCall == [op |-> "none"]
Call == [op: {"keep", "install", "install_merged", "move", "remove_relic"},
         to: Path, since: 0 .. MaxEdits]
Menu == {"metadata", "relic", "regular", "simple", "merge"}
Acting == {"dress", "retire", "rename", "publish", "move"}

------------------------------------------------------------------------------
(* The trees.                                                              *)

Present(t, p)   == name[t][p] # NoIno
At(t, p)        == node[name[t][p]]
IsDirectory(t, p) == Present(t, p) /\ At(t, p).type = "directory"
Below(t, p)     == {q \in Path : p \in Above[q] /\ Present(t, q)}
Unused          == Ino \ {name[t][p] : t \in Tree, p \in Path}

(* lstat(2) fails with ENOTDIR: a component on the way is no directory.    *)
Unreachable(t, p) == \E q \in Above[p] : Present(t, q) /\ ~IsDirectory(t, q)

Sees(t, p) == Observe(node, name[t][p])

Stamped(n, time) == IF n = NoNode THEN NoNode ELSE [n EXCEPT !.ctime = time]

Parent(p) == {q \in Above[p] : Above[p] = Above[q] \cup {q}}

(* The names and the inode table nd after a change to the inodes in        *)
(* `touched` and to the directories whose entries change.  Inodes without  *)
(* a name are released.  Timestamps are only ever compared with those the  *)
(* last scan read, so ctime tells whether an inode changed since then.     *)
Commit(names, nd, touched) ==
  LET parents == {i \in Ino : \E t \in Tree, p \in Path : \E q \in Parent(p) :
                    names[t][p] # name[t][p] /\ names[t][q] = i}
  IN /\ name' = names
     /\ node' = [i \in Ino |->
          IF \A t \in Tree, p \in Path : names[t][p] # i THEN NoNode
          ELSE IF i \in touched \cup parents THEN Stamped(nd[i], 1) ELSE nd[i]]

(* apply_metadata() to something that is not a symbolic link.              *)
Wearing(n, metadata) == [n EXCEPT !.owner = metadata.owner, !.mode = metadata.mode]

------------------------------------------------------------------------------
(* scan()                                                                  *)

(* std::sort(): the elements of S in the order `before`.                   *)
Sorted(S, before(_, _)) ==
  CHOOSE s \in [1 .. Cardinality(S) -> S] :
    \A k, l \in DOMAIN s : k < l => before(s[k], s[l])

(* The order of the candidates by their paths alone.                       *)
BeforeByPath(v, w) == Rank[v.path] < Rank[w.path]

(* Non-directories by path, then directories deepest first.                *)
Before(v, w) ==
  LET dir(x) == x.cd.staged.type = "directory"
      depth(x) == Cardinality(Above[x.path])
  IN IF dir(v) # dir(w) THEN dir(w)
     ELSE IF dir(v) /\ depth(v) # depth(w) THEN depth(v) > depth(w)
     ELSE Rank[v.path] < Rank[w.path]

Scanned(p) ==
  LET Seen(t) == [Sees(t, p) EXCEPT !.ctime = 0]
      i == Seen("installed")
      s == Seen("staged")
      regular == i.type = "regular" /\ s.type = "regular"
  IN [path |-> p,
      cd |-> [installed |-> i, staged |-> s,
              equal |-> \/ regular /\ At("installed", p).data = At("staged", p).data
                        \/ i.type = "directory" /\ s.type = "directory",
              text |-> regular /\ \A t \in Tree : TextData(At(t, p).data)],
      was |-> [t \in Tree |-> IF Present(t, p) THEN Stamped(At(t, p), 0) ELSE NoNode],
      alone |-> \A t, u \in Tree : \A q \in Path :
                  name[t][p] = name[u][q] => <<t, p>> = <<u, q>> \/ ~Present(t, p)]

(* A staged directory without a counterpart is structural.                 *)
Structural(p) == IsDirectory("staged", p) /\ ~Present("installed", p)

(* The exception leaves run_terminal() and takes its locals with it.       *)
Leave ==
  /\ todo' = <<>> /\ sweep' = <<>> /\ source' = "installed" /\ call' = NoCall
  /\ summary' = NoSummary
  /\ found' = 0 /\ skipped' = {} /\ arrived' = {}
  /\ UNCHANGED <<fsVars, dry_run, edits>>

(* The conflict copy of a merge that fails stays.                          *)
FailKeepingCopy == pc' = "failed" /\ UNCHANGED copy /\ Leave

(* Catching the exception and scanning again.                              *)
FailAndRescan == pc' = "scan" /\ copy' = NoCopy /\ Leave

(* The conflict copy is unlinked by the destructor of temporary_file.      *)
Fail == pc' = "failed" /\ copy' = NoCopy /\ Leave

Scan ==
  /\ pc = "scan"
  /\ LET staged == {p \in Path : Present("staged", p)}
         entries == {Scanned(p) : p \in {q \in staged : ~Structural(q)}}
     IN IF \E p \in staged : Unreachable("installed", p)
        THEN Fail
        ELSE /\ node' = [i \in Ino |-> Stamped(node[i], 0)]
             /\ todo' = Sorted(entries, Before)
             /\ found' = Cardinality(entries)
             /\ pc' = "next"
             /\ UNCHANGED <<name, uiVars, summary, edits, skipped, arrived>>

------------------------------------------------------------------------------
(* The loop over the candidates.                                           *)

Current == Head(todo)
It      == Current.path

(* validate_current()                                                      *)
StillMatches(v) ==
  /\ ~Unreachable("installed", v.path)
  /\ \A t \in Tree : FingerprintMatches(v.cd[t], Sees(t, v.path))

Fresh == StillMatches(Current)

(* On to the next candidate; the chosen metadata and the conflict copy are *)
(* local to the current one.                                               *)
Advance ==
  /\ pc' = "next" /\ todo' = Tail(todo)
  /\ source' = "installed" /\ copy' = NoCopy /\ call' = NoCall

Regular == Current.cd.installed.type = "regular" /\ Current.cd.staged.type = "regular"

(* Where a paired candidate goes once its metadata is chosen.              *)
Dialogue == IF Current.cd.equal THEN "keep" ELSE IF Regular THEN "difference" ELSE "simple"

(* show_dry_run(): comparing needs the candidate to be current.            *)
ShowDryRun ==
  /\ pc = "next" /\ todo # <<>> /\ dry_run
  /\ IF Regular /\ ~Current.cd.equal /\ Current.cd.text /\ ~Fresh
     THEN Fail
     ELSE /\ Advance
          /\ summary' = [summary EXCEPT !.inspected = @ + 1]
          /\ UNCHANGED <<fsVars, sweep, dry_run, edits, history>>

Visit ==
  /\ pc = "next" /\ todo # <<>> /\ ~dry_run
  /\ summary' = [summary EXCEPT !.inspected = @ + 1]
  /\ pc' = IF Relic(Current.cd) THEN "relic"
           ELSE IF MetadataEqual(Current.cd) THEN Dialogue ELSE "metadata"
  /\ UNCHANGED <<fsVars, todo, uiVars, edits, history>>

(* choose_metadata()                                                       *)
ChooseMetadata(s) ==
  /\ pc = "metadata"
  /\ source' = s
  /\ pc' = Dialogue
  /\ UNCHANGED <<fsVars, todo, sweep, copy, call, dry_run, summary, edits, history>>

(* handle_regular(): the difference is made once, before the prompt.       *)
ShowDifference ==
  /\ pc = "difference"
  /\ IF Current.cd.text /\ ~Fresh
     THEN Fail
     ELSE pc' = "regular" /\ UNCHANGED <<fsVars, todo, uiVars, summary, edits, history>>

(* [S]kip that forgets to count at the metadata prompt.                    *)
SkipUncounted ==
  /\ pc \in Menu
  /\ Advance
  /\ summary' = [summary EXCEPT !.skipped = IF pc = "metadata" THEN @ ELSE @ + 1]
  /\ skipped' = skipped \cup {Current}
  /\ UNCHANGED <<fsVars, sweep, dry_run, edits, found, arrived>>

(* [S]kip at any prompt.                                                   *)
Skip ==
  /\ pc \in Menu
  /\ Advance
  /\ summary' = [summary EXCEPT !.skipped = @ + 1]
  /\ skipped' = skipped \cup {Current}
  /\ UNCHANGED <<fsVars, sweep, dry_run, edits, found, arrived>>

Selected == Current.cd[source]

------------------------------------------------------------------------------
(* The dispositions.  Each validates its candidate and goes on at `label`, *)
(* by name, whatever the names refer to by then.                           *)

(* install() without looking whether the candidate is still current.       *)
ValidateNothing(op, to, label) ==
  /\ pc' = label
  /\ call' = [op |-> op, to |-> to, since |-> edits]
  /\ UNCHANGED <<fsVars, todo, sweep, source, copy, dry_run, summary, edits, history>>

Validate(op, to, label) ==
  IF ~Fresh THEN Fail
  ELSE /\ pc' = label
       /\ call' = [op |-> op, to |-> to, since |-> edits]
       /\ UNCHANGED <<fsVars, todo, sweep, source, copy, dry_run, summary, edits, history>>

(* A step of a call that is not its last.                                  *)
Step(label) ==
  /\ pc' = label
  /\ UNCHANGED <<todo, uiVars, summary, edits, history>>

(* The call returns, and the handler counts it.                            *)
Return ==
  /\ Advance
  /\ summary' = [summary EXCEPT !.resolved = @ + 1]
  /\ UNCHANGED <<sweep, dry_run, edits, history>>

(* keep() at "keep" is the automatic one for equal contents.               *)
Keep ==
  /\ pc \in {"keep", "regular", "simple"}
  /\ Validate("keep", It, IF source = "staged" /\ ~MetadataEqual(Current.cd) THEN "dress" ELSE "retire")

(* install(): a pair of directories never comes here, since it has equal   *)
(* contents, and a directory replaces nothing else.                        *)
Upgrade ==
  /\ pc \in {"regular", "simple"}
  /\ IF Current.cd.staged.type = "directory" THEN Fail ELSE Validate("install", It, "rename")

(* apply_metadata() of the installed name: the last step of install().     *)
Dress ==
  /\ pc = "dress"
  /\ LET i == name["installed"][It]
     IN IF i = NoIno THEN Fail
        ELSE /\ Commit(name, [node EXCEPT ![i] = Wearing(@, Selected)], {i})
             /\ IF call.op = "keep" THEN Step("retire") ELSE Return

(* remove_one(), or remove_directory_if_empty() when the candidate is a    *)
(* directory: the last step of keep(), install_merged(), remove_relic().   *)
Retire ==
  /\ pc = "retire"
  /\ IF Present("staged", It) /\ Below("staged", It) = {}
     THEN Commit([name EXCEPT !["staged"][It] = NoIno], node, {name["staged"][It]}) /\ Return
     ELSE IF Current.cd.staged.type = "directory" THEN UNCHANGED fsVars /\ Return
     ELSE Fail

(* move_replace(): rename(2) does nothing to two links to one inode, and a *)
(* directory neither replaces nor is replaced by anything else.            *)
Rename ==
  /\ pc = "rename"
  /\ LET i == name["installed"][It]
         s == name["staged"][It]
     IN IF s = NoIno \/ IsDirectory("staged", It) \/ IsDirectory("installed", It)
        THEN Fail
        ELSE /\ Commit(IF i = s THEN name
                       ELSE [name EXCEPT !["installed"][It] = s, !["staged"][It] = NoIno],
                       node, IF i = s THEN {} ELSE {i, s})
             /\ Step("dress")

(* handle_merge(): compare again and write the conflict copy, ...          *)
Merge ==
  /\ pc = "regular" /\ Current.cd.text
  /\ IF ~Fresh THEN Fail
     ELSE /\ pc' = "merge"
          /\ copy' = Conflicts
          /\ UNCHANGED <<fsVars, todo, sweep, source, call, dry_run, summary, edits, history>>

(* ... let the editor change it, ...                                       *)
EditCopy(d) ==
  /\ pc = "merge" /\ copy # d
  /\ copy' = d
  /\ UNCHANGED <<fsVars, pc, todo, sweep, source, call, dry_run, summary, edits, history>>

(* ... and install it.                                                     *)
InstallMerged == pc = "merge" /\ Validate("install_merged", It, "publish")

(* write_merged_file(): a file of the merged bytes under the selected      *)
(* metadata takes the installed name.                                      *)
Publish ==
  /\ pc = "publish"
  /\ LET new == CHOOSE i \in Unused : TRUE
         n == [type |-> "regular", data |-> copy, mode |-> Selected.mode,
               owner |-> Selected.owner, ctime |-> 0]
     IN IF IsDirectory("installed", It) THEN Fail
        ELSE /\ Commit([name EXCEPT !["installed"][It] = new], [node EXCEPT ![new] = n],
                       {new, name["installed"][It]})
             /\ Step("retire")

(* restore(), where the destination is the installed path, and             *)
(* relocate_relic().                                                       *)
MoveRelic(dest) == pc = "relic" /\ Validate("move", dest, "move")

MissingParents == {q \in Above[call.to] : ~Present("installed", q)}

(* ensure_parent(): the missing directories on the way, from the top down, *)
(* mode 0777 under an empty umask.                                         *)
MakeParent ==
  /\ pc = "move" /\ MissingParents # {}
  /\ IF Unreachable("installed", call.to) THEN Fail
     ELSE \E q \in MissingParents :
            LET new == CHOOSE i \in Unused : TRUE
                made == [type |-> "directory", data |-> [k \in Block |-> Nul], mode |-> LinkMode,
                         owner |-> ZeroOwner, ctime |-> 0]
            IN /\ Above[q] \cap MissingParents = {}
               /\ Commit([name EXCEPT !["installed"][q] = new], [node EXCEPT ![new] = made], {new})
               /\ Step("move")

(* rename without RENAME_NOREPLACE.                                        *)
MoveReplacing ==
  /\ pc = "move" /\ MissingParents = {}
  /\ LET s == name["staged"][It]
     IN IF s = NoIno \/ Unreachable("installed", call.to) \/ IsDirectory("installed", call.to)
        THEN Fail
        ELSE /\ Commit([name EXCEPT !["staged"][It] = NoIno, !["installed"][call.to] = s], node, {s})
             /\ Return

(* move_noreplace(): nothing at the destination is replaced.               *)
Move ==
  /\ pc = "move" /\ MissingParents = {}
  /\ LET s == name["staged"][It]
     IN IF s = NoIno \/ Unreachable("installed", call.to) \/ Present("installed", call.to)
        THEN Fail
        ELSE /\ Commit([name EXCEPT !["staged"][It] = NoIno, !["installed"][call.to] = s], node, {s})
             /\ Return

RemoveRelic == pc = "relic" /\ Validate("remove_relic", It, "retire")

(* What may end the session by an exception: a prompt (the input closes,   *)
(* the pager or the editor fails, the destination typed for a relic is     *)
(* none) and every library call.  A call gets no further than it got.      *)
MayThrow ==
  \/ pc \in Menu \cup Acting \cup {"scan", "keep", "difference"}
  \/ pc = "next" /\ (todo # <<>> <=> dry_run)
  \/ pc = "sweep" /\ sweep # <<>>

Interrupted == Faults /\ MayThrow /\ Fail

------------------------------------------------------------------------------
(* The end: cleanup_empty_directories(), unless this was a dry run.        *)

(* Shallow directories first.                                              *)
StagedDirectoriesDown ==
  Sorted({p \in Path : IsDirectory("staged", p)},
         LAMBDA p, q : \/ Cardinality(Above[p]) < Cardinality(Above[q])
                       \/ Cardinality(Above[p]) = Cardinality(Above[q]) /\ Rank[p] < Rank[q])

StagedDirectories ==
  Sorted({p \in Path : IsDirectory("staged", p)},
         LAMBDA p, q : \/ Cardinality(Above[p]) > Cardinality(Above[q])
                       \/ Cardinality(Above[p]) = Cardinality(Above[q]) /\ Rank[p] < Rank[q])

(* Cleaning up even after a dry run.                                       *)
FinishCleaning ==
  /\ pc = "next" /\ todo = <<>>
  /\ pc' = "sweep" /\ sweep' = StagedDirectories
  /\ UNCHANGED <<fsVars, todo, source, copy, call, dry_run, summary, edits, history>>

Finish ==
  /\ pc = "next" /\ todo = <<>>
  /\ IF dry_run THEN pc' = "done" /\ UNCHANGED sweep
                ELSE pc' = "sweep" /\ sweep' = StagedDirectories
  /\ UNCHANGED <<fsVars, todo, source, copy, call, dry_run, summary, edits, history>>

(* fs::remove_all() instead.                                               *)
SweepAll ==
  /\ pc = "sweep" /\ sweep # <<>>
  /\ sweep' = Tail(sweep)
  /\ LET p == Head(sweep)
     IN Commit([name EXCEPT !["staged"] =
                  [q \in Path |-> IF q = p \/ p \in Above[q] THEN NoIno ELSE @[q]]], node, {})
  /\ UNCHANGED <<pc, todo, source, copy, call, dry_run, summary, edits, history>>

(* fs::remove() of one listed name; a directory that is not empty stays.   *)
Sweep ==
  /\ pc = "sweep" /\ sweep # <<>>
  /\ sweep' = Tail(sweep)
  /\ LET p == Head(sweep)
     IN IF Present("staged", p) /\ Below("staged", p) = {}
        THEN Commit([name EXCEPT !["staged"][p] = NoIno], node, {name["staged"][p]})
        ELSE UNCHANGED fsVars
  /\ UNCHANGED <<pc, todo, source, copy, call, dry_run, summary, edits, history>>

Swept ==
  /\ pc = "sweep" /\ sweep = <<>>
  /\ pc' = "done"
  /\ UNCHANGED <<fsVars, todo, uiVars, summary, edits, history>>

------------------------------------------------------------------------------
(* Other processes: an editor saves a file in place, a package manager     *)
(* rejects a file, also in place of one it rejected before, or puts one in *)
(* the place of an empty directory.  What they do before the scan leads to *)
(* another initial state, and what they do afterwards is not looked at.    *)
Meanwhile ==
  /\ pc \notin {"scan", "done", "failed"}
  /\ edits < MaxEdits /\ edits' = edits + 1
  /\ UNCHANGED <<pc, todo, uiVars, summary, found, skipped>>

OtherWrites(t, p, d) ==
  /\ "write" \in Interference /\ Meanwhile
  /\ Present(t, p) /\ At(t, p).type = "regular" /\ At(t, p).data # d
  /\ Commit(name, [node EXCEPT ![name[t][p]].data = d], {name[t][p]})
  /\ UNCHANGED arrived

OtherStages(p, n) ==
  LET new == CHOOSE i \in Unused : TRUE
  IN /\ n.type = "regular"
     /\ Commit([name EXCEPT !["staged"][p] = new], [node EXCEPT ![new] = n], {new})
     /\ arrived' = arrived \cup {p}

OtherRejects(p, n) ==
  /\ "reject" \in Interference /\ Meanwhile
  /\ ~IsDirectory("staged", p) /\ \A q \in Above[p] : IsDirectory("staged", q)
  /\ OtherStages(p, n)

OtherReplaces(p, n) ==
  /\ "replace" \in Interference /\ Meanwhile
  /\ IsDirectory("staged", p) /\ Below("staged", p) = {}
  /\ OtherStages(p, n)

Others ==
  \E p \in Path :
    \/ \E t \in Tree, d \in Data : OtherWrites(t, p, d)
    \/ \E n \in InitNode : OtherRejects(p, n) \/ OtherReplaces(p, n)

------------------------------------------------------------------------------
(* What the program does by itself, and what the administrator decides.    *)
Program ==
  \/ Scan \/ ShowDryRun \/ Visit \/ ShowDifference \/ Finish \/ Sweep \/ Swept
  \/ Dress \/ Retire \/ Rename \/ Publish \/ MakeParent \/ Move
  \/ pc = "keep" /\ Keep

Decision ==
  \/ Skip \/ Upgrade \/ InstallMerged \/ RemoveRelic
  \/ pc # "keep" /\ Keep
  \/ \E s \in Tree : ChooseMetadata(s)
  \/ \E dest \in Path : MoveRelic(dest)

(* The trees of the names `here`, some of them links to another's inode.   *)
Placed(here, links) ==
  [t \in Tree |-> [p \in Path |->
     IF <<t, p>> \notin here THEN NoIno
     ELSE IF \E l \in links : l[1] = <<t, p>>
     THEN LET l == CHOOSE l \in links : l[1] = <<t, p>> IN Original[l[2][1]][l[2][2]]
     ELSE Original[t][p]]]

Init ==
  /\ \E here \in SUBSET (Tree \X Path), links \in SUBSET Linked :
       /\ \A l \in links : {l[1], l[2]} \subseteq here
       /\ name = Placed(here, links)
       /\ \E nodes \in [{name[h[1]][h[2]] : h \in here} -> InitNode] :
            node = [i \in Ino |-> IF i \in DOMAIN nodes THEN nodes[i] ELSE NoNode]
       /\ \A h \in here : \A q \in Above[h[2]] : IsDirectory(h[1], q)
       /\ \A l \in links : At(l[1][1], l[1][2]).type = "regular"
  /\ dry_run \in BOOLEAN
  /\ pc = "scan"
  /\ todo = <<>> /\ sweep = <<>> /\ copy = NoCopy /\ call = NoCall
  /\ source = "installed"
  /\ summary = NoSummary
  /\ edits = 0 /\ found = 0
  /\ skipped = {} /\ arrived = {}

Next ==
  \/ Program \/ Decision
  \/ Merge \/ \E d \in Data : EditCopy(d)
  \/ Interrupted
  \/ Others

(* The program never waits for anything but an answer, and the             *)
(* administrator answers: not by viewing or editing for ever.              *)
Spec == Init /\ [][Next]_vars /\ WF_vars(Program) /\ WF_vars(Decision)

------------------------------------------------------------------------------
(* Every variable has its type, and every name refers to an object.        *)
SessionTypeOK ==
  /\ name \in [Tree -> [Path -> Ino \cup {NoIno}]]
  /\ node \in [Ino -> Node \cup {NoNode}]
  /\ \A i \in Ino : node[i] # NoNode <=> \E t \in Tree, p \in Path : name[t][p] = i
  /\ edits \in 0 .. MaxEdits
  /\ dry_run \in BOOLEAN /\ source \in Tree
  /\ pc \in Menu \cup Acting \cup {"scan", "next", "keep", "difference", "sweep", "done", "failed"}
  /\ call \in Call \cup {NoCall} /\ (call # NoCall <=> pc \in Acting)
  /\ copy \in Data \cup {NoCopy} /\ (copy # NoCopy <=> pc = "merge" \/ call.op = "install_merged")
  /\ Len(todo) <= Cardinality(Path) /\ (pc \in Menu \cup Acting => todo # <<>>)

(* A dry run changes neither tree.  (rejmerge.8, --dry-run)                *)
DryRunIsReadOnly ==
  [][dry_run /\ edits' = edits =>
       name' = name /\ \A i \in Ino : Stamped(node'[i], 0) = Stamped(node[i], 0)]_vars

(* What the program takes the last name of is a file of the current        *)
(* candidate: the installed one when the rejected or the merged file takes *)
(* its place, the rejected one when the administrator chose to give it up; *)
(* and unless others acted since the call validated its candidate, what it *)
(* is given up for is at the installed name by then.  This holds for calls *)
(* that fail half-way too.  The one exception is a file that took the      *)
(* place of a directory: see OnlyDirectoriesAreSwept.                      *)
(* (run_terminal, keep, install, install_merged, move_noreplace, cleanup)  *)
NothingLost ==
  [][\A i \in Ino :
       edits' = edits /\ node[i] # NoNode /\ node[i].type # "directory" /\ node'[i] = NoNode
         => \/ /\ pc \in {"rename", "publish"} /\ i = name["installed"][It]
               /\ name'["installed"][It] # NoIno
               /\ node'[name'["installed"][It]].data =
                    IF pc = "publish" THEN copy ELSE At("staged", It).data
            \/ /\ pc = "retire" /\ i = name["staged"][It]
               /\ call.op \in {"keep", "install_merged"} /\ call.since = edits =>
                    /\ Present("installed", It)
                    /\ Current.cd.equal => At("installed", It).data = node[i].data
                    /\ call.op = "install_merged" => At("installed", It).data = copy
            \/ pc = "sweep" /\ \E p \in arrived : name["staged"][p] = i]_vars

(* The names a call takes away or replaces refer to what the administrator *)
(* was shown, however long the dialogue took and whatever other processes  *)
(* did meanwhile, unless one acts in the course of the call itself: see    *)
(* OnlyObservedIsRemoved of Reconciler.  (validate_current)                *)
StillShown(t) ==
  IF Current.was[t] = NoNode THEN ~Present(t, It)
  ELSE /\ Present(t, It) /\ At(t, It).type = Current.was[t].type
       /\ Current.was[t].type = "directory" \/ At(t, It).data = Current.was[t].data

OnlyShownIsActedOn ==
  [][edits' = edits /\ pc \in Acting /\ call.since = edits =>
       \A t \in Tree : name'[t][It] = name[t][It] \/ StillShown(t)]_vars

(* Directories are dealt with after everything below them, so that what    *)
(* was resolved no longer keeps them.  (the sort that ends scan)           *)
ChildrenFirst ==
  \A k \in DOMAIN todo : \A l \in DOMAIN todo :
    todo[k].path \in Above[todo[l].path] => l < k

(* A session that finishes accounts for every candidate of its scan.       *)
(* (run_summary, and the return value of every handler)                    *)
SummaryAccounts ==
  pc = "done" => /\ summary.inspected = found
                 /\ summary.resolved + summary.skipped = IF dry_run THEN 0 ELSE found

(* A session in which nothing is skipped leaves the staging tree empty but *)
(* for what arrived meanwhile.  (cleanup_empty_directories, keep)          *)
CompleteSessionLeavesNothing ==
  pc = "done" /\ ~dry_run /\ skipped = {} =>
    \A p \in Path : Present("staged", p) => p \in arrived \/ Below("staged", p) \cap arrived # {}

(* A skipped candidate is left where it is.  (rejmerge.8: skip)            *)
SkippedStays ==
  pc = "done" => \A v \in skipped : name["staged"][v.path] = v.cd.staged.inode

(* The same for everything but directories, unless others replace it.      *)
SkippedFilesStay ==
  pc = "done" => \A v \in skipped :
    v.cd.staged.type # "directory" /\ v.path \notin arrived =>
      name["staged"][v.path] = v.cd.staged.inode

(* Whatever is decided for one candidate, the others of its scan can still *)
(* be decided: their directories were changed, but not in what is checked, *)
(* and only links to the same inode and the destinations of relics share   *)
(* what is.  (candidate_access::fingerprint_matches, move_noreplace)       *)
SiblingsStayFresh ==
  edits = 0 => \A k \in DOMAIN todo :
    todo[k].alone /\ ~Relic(todo[k].cd) /\ (k = 1 => pc \notin Acting) => StillMatches(todo[k])

(* DESIGN.md, cleanup_empty_directories(): it removes empty real           *)
(* directories below the staging root, and nothing else.                   *)
OnlyDirectoriesAreSwept ==
  [][pc = "sweep" => \A i \in Ino :
       node[i] # NoNode /\ node[i].type # "directory" => node'[i] # NoNode]_vars

(* DESIGN.md: a staged object is a relic if no installed counterpart       *)
(* exists.  No state of the two trees keeps scan() from returning.         *)
ScanReturns == [][pc = "scan" => pc' # "failed"]_vars

(* A session ends.                                                         *)
Ends == pc = "scan" ~> pc \in {"done", "failed"}
==============================================================================
