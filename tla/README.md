# A TLA+ model of libpkgreconcile

libpkgreconcile resolves the files a package manager *rejected* during an
upgrade.  Rejected objects wait in a *staging* tree (normally
`var/lib/pkg/rejected` below the target root) under the path they would have
had in the *installed* tree.  The library pairs the two trees, classifies each
pair, and carries out the decision an administrator makes for it; `rejmerge`
is the terminal program on top.

Source paths below are relative to the repository; `FR` is
`src/filesystem_reconciler.cpp`.

## 1. The system

### Components

| Component | Source | State | Operations |
|---|---|---|---|
| Scan | `FR` 60-289, 698-781; `src/candidate.cpp` | none between calls; while running: open descriptors, one fingerprint pair, what was read so far | `scan()`: walk the staging tree, `lstat` both names, read and compare contents, classify, sort |
| Candidate | `src/candidate.cpp`, `src/candidate_access.h`, `types.h` | an immutable record: two paths, two metadata records, two raw fingerprints, state, `content_equal`, `metadata_equal`, `text_mergeable` | accessors; `fingerprint_matches` |
| Dispositions | `FR` 291-679, 801-890 | none between calls; while running: a temporary file, a source descriptor | `keep`, `install`, `install_merged`, `restore`, `relocate_relic`, `remove_relic` |
| Text comparison | `FR` 577-627, 783-799 | none; while running: a descriptor and the bytes read | `compare_text` (liblinediff compares) |
| Cleanup | `FR` 892-918 | a list of directories | `cleanup_empty_directories` |
| Path mapping | `FR` 39-58, 552-565, 869-882 | `root_`, `staging_root_` | normalisation at construction, `validate_mapping`, the relocation target |
| Terminal front end | `tools/terminal.cpp` | `run_summary`, the list of candidates, one temporary file | `run_terminal`: scan, one prompt dialogue per candidate, cleanup |
| Command line, colour | `tools/main.cpp`, `tools/color.cpp` | `run_options` | option parsing, the privilege check, `color_enabled`, styling of differences |
| Names and errors | `src/types.cpp`, `error.h` | none | enumerator names, exception types |

### How they interact

The library has no state of its own between calls and takes no lock.  All
shared state is the filesystem: two directory entries per candidate (the
installed and the staged name), the inodes behind them, and the temporary files
dispositions create next to their destination.  A candidate carries an
observation of that state across an unbounded time, an administrator's
thinking included.  `validate_current()` compares the observation with the
filesystem at the start of each disposition; everything the disposition then
does, it does *by name*, in several system calls.  Between any two system calls
other processes may act: editors, daemons, a package manager, or another
`rejmerge`.

### Which behaviours are hard

* **Reading while others write.**  `scan()` and `compare_text()` read files in
  blocks, and symbolic links by name, with `lstat`/`fstat` before and after.
* **Check, then act.**  The validation is an `lstat`; the removal, rename or
  chmod that follows names the object again.
* **Two copies of the truth.**  Across filesystems a move is *create a
  temporary, copy, set owner and mode, publish by rename, unlink the source*,
  and each of the steps may fail or be the last before a crash.
* **Late destinations.**  A relic's destination is missing when the relic is
  validated and may exist when it is moved.
* **Set-id bits.**  `chown` drops them, so ownership must be set before the mode
  and both before the file gets its name.
* **Directories.**  Their timestamps are left out of the validation because
  resolving a child changes them; their candidates therefore stay valid longer.
* **Spellings.**  One directory has many paths; checks are made on the argument, on
  its normal form, or by comparing paths element by element.
* **Aliases.**  Two names may be links to one inode; `rename` then does nothing.

### What makes each component correct

* *Scan*: a candidate never combines parts of two versions of a file; one that
  validates describes the trees as they are; a later edit makes it stale.
* *Text comparison*: what is compared is what was classified.
* *Dispositions*: a call that returns has delivered what it promises under
  exactly the selected ownership and mode; the staged contents are never lost by
  a failure, a crash or a race; nothing that exists is replaced by a relic; no
  temporary file is left by a call that returns or throws; the merged file
  appears atomically; a decision is carried out once.
* *Cleanup*: only empty directories go.  *Path mapping*: a candidate can only
  be used with the roots it was made for and nothing outside the root is
  written.  *Colour*: styles never
  reach a pager uninvited and never change a byte.  *Front end*: a dry run changes nothing, a skipped candidate is left
  alone, the summary accounts for every candidate inspected.

## 2. The modules

| Module | Models | Used by |
|---|---|---|
| `Candidate` | what `lstat` reports (`Node`, `Fingerprint`, `Observe`), `fingerprint_matches`, `same_fingerprint`, `same_metadata`, `classify_candidate`, the candidate record | `Reconciler`, `Session` |
| `Reconciler` | scan, text comparison and all six dispositions for one logical path, at the granularity of system calls, with other processes, failures and crashes | `ReconcilerRefinement`, `ReconcilerProofs` |
| `Disposition` | abstract: what a decision about one pair may do to the names, without system calls, fingerprints or temporary files | `ReconcilerRefinement` |
| `ReconcilerRefinement` | the refinement mapping from `Reconciler` to `Disposition` | `MCReconciler` |
| `MCReconciler` | values for TLC: five modes, of which one has a set-id bit; symmetry | the first six runs |
| `ReconcilerProofs` | proofs: types, and relics that never replace | `ObservationProofs` |
| `ObservationProofs` | proofs: what a candidate says stays true of the two objects | `ResolutionProofs` |
| `ResolutionProofs` | proofs: the order of the system calls, temporary files, staleness, one winner | `SurvivalProofs` |
| `SurvivalProofs` | proofs: the staged contents are never lost | `DeliveryProofs` |
| `DeliveryProofs` | proofs: what a call that returns has delivered | `RefinementProofs` |
| `RefinementProofs` | proofs: `Reconciler` implements `Disposition` | |
| `Session` | `run_terminal` over two trees of names: scan and its order, every dialogue, the steps of every disposition, dry runs, cleanup | `MCSession` |
| `SessionProofs` | proofs about `Session` | |
| `MCSession` | the names, inodes and objects of a small tree | the runs `session*` |
| `Paths` | the roots a reconciler is constructed with, the pair of paths of a candidate, `validate_mapping`, the target of a relocation, over the lexical operations of `std::filesystem::path` | `Frontend` |
| `Frontend` | a program from its command line to its exit status: `main`, the constructor, candidates and destinations handed to the library, differences shown through a pager or not, coloured or not | `MCFrontend` |
| `FrontendProofs` | proofs about `Frontend` and `Paths` | |
| `MCFrontend` | ways of writing roots, staging directories and destinations | `frontend`, `staging` |

`Candidate` also serves `Session`, whose library calls are those of `Reconciler` in
fewer steps: one to validate, then one per change of names or of an object.  `Frontend` is independent of both: it is about paths and
output, not about what is in the files.

### State and actions of `Reconciler`

| Variable | In the program |
|---|---|
| `entry` | the directory entries of the three names: installed, staged, and one other name below the root (the destination of `relocate_relic`) |
| `node`, `clock` | the inode table, and the kernel's time |
| `tmp`, `orphans` | the temporary file of a running call; those left by a crash, or by a failed `unlink` in a catch block |
| `fd` | the descriptors `first`, `second` of a scan, `source` of a copy, `descriptor` of `read_stable_regular` |
| `pc` | the next system call of each client |
| `cand` | the candidate a client makes or holds |
| `got` | the buffers: what was read, and how many blocks |
| `call`, `result` | the arguments and the outcome of the disposition |
| `seen`, `log` | history, for properties only: the two objects when they were observed; which kinds of disposition gave the staged object up |

Each action is one system call with the code up to the next one:
`ScanObserveStaged`, `ScanObserveInstalled`, `InspectOpen`,
`InspectRead*`, `InspectRecheck`, `LinkRead`, `LinkCheck` are `scan()`;
`Begin`, `ValidateInstalled`, `ValidateStaged` start every disposition;
`Chown`, `Chmod` are `apply_metadata`; `Retire*` are `remove_one` and
`remove_directory_if_empty`; `Rename` and `RenameCrossDevice` are
`move_replace` and `move_noreplace`; `CopyOpen`, `CopyBlock`, `Seal`,
`Publish` are the two copying functions with `install_temporary`;
`WriteMerged`, `Seal`, `Publish` are `write_merged_file`;
`CompareOpen`, `CompareRead`, `CompareVerify` are `read_stable_regular`.
`Throw` is the way out of every failing disposition: destructors close the
descriptors and the catch blocks unlink the temporary file.  A client may call
any disposition, again and again, with the same candidate, or drop it and scan
anew (`Forget`).

### `Disposition`, and how `Reconciler` implements it

`Disposition` has four variables: `holds` (the object at each name, without inode
and times), `duty` (the decision being carried out), `carried` (its contents are
where they belong) and `outcome`.  Its actions are what may be seen from outside:
the staged object or the merged file appears at the destination as a whole
(`Carry`, `CarryAway`; a relic only where nothing is), the staged object
disappears only after that, or after the installed object wears the selected owner
and mode (`Discard`), the installed object changes towards the selected
metadata (`Dress`), and the call returns, if what it promises holds (`Kept`), or
gives up wherever it is (`GiveUp`).

`ReconcilerRefinement` maps the program to it: `holds` (`Holdings`) is what the
directory entries refer to, `duty` (`Duty`) is the call of the client with its selected metadata
(an `install` of a pair of directories means *keep*, `FR` 824-831: `Meaning`), and
`carried` (`Carried`) is read off the program counter: the call has passed its rename or its
publication.  `Implements` is `D!Spec` under this mapping.

### State and actions of `Session`

| Variable | In the program |
|---|---|
| `name`, `node` | the directory entries of the two trees, and the inode table |
| `dry_run` | `run_options::dry_run` |
| `pc` | the prompt that waits for an answer, or the next call |
| `todo` | the candidates not yet dealt with, the current one first |
| `sweep` | the directories `cleanup_empty_directories` has still to try |
| `source` | the metadata chosen for the current candidate |
| `copy` | the contents of the temporary conflict copy of a merge |
| `call` | the disposition under way, from its validation to its return: which it is, its destination, and for the properties how often others had acted when it validated |
| `summary` | `run_summary` |
| `edits`, `found`, `skipped`, `arrived` | a bound, and history for the properties |

`Scan` is `scan()`; `Visit` is the head of the loop; `ChooseMetadata` is
`choose_metadata()`; `ShowDifference` is the comparison that opens
`handle_regular()`; `Keep`, `Upgrade`, `Merge`, `EditCopy`, `InstallMerged`,
`MoveRelic` (restore and relocate), `RemoveRelic` and `Skip` are the answers of
the four dialogues; `Keep` at `pc = "keep"` is
the one made without a question for equal contents; `ShowDryRun` is
`show_dry_run()`; `Finish`, `Sweep` and `Swept` are the end.

An answer that makes a library call only *begins* it: `Validate` is
`validate_current()`, and the rest of the disposition follows in steps of its own,
which go by name and find whatever is there by then:

| Answer | Steps after the validation |
|---|---|
| `Keep` | `Dress` if the metadata of the staged object was chosen, `Retire` |
| `Upgrade` | `Rename`, `Dress` |
| `InstallMerged` | `Publish`, `Retire` |
| `MoveRelic` | `MakeParent` for each missing directory, `Move` |
| `RemoveRelic` | `Retire` |

`Dress` is `apply_metadata`, `Retire` `remove_one` and `remove_directory_if_empty`,
`Rename` `move_replace`, `Publish` `write_merged_file`, `MakeParent` a step of
`ensure_parent` and `Move` `move_noreplace`.  The last one returns (`Return`) and the
handler counts.  Others may act before each of them, and each may
throw: a candidate that is no longer current and a name that is not what the call needs
are `Fail` in the action itself, and `Interrupted` is any other failure: of a system
call of the scan, of a step or of the cleanup, of the pager or the editor, input
that ends, or a relic destination that is no path below the root.  Nothing in
`run_terminal` catches, so the session is over and its locals are gone: the
summary, the candidates and the conflict copy (`Leave`).  What the call has
done to the trees by then stays done.

`Session` shows what `Reconciler` cannot: several candidates at once, whose
objects lie above one another or are links to one inode, and an administrator
who takes arbitrarily long while another process writes a file in place, the
package manager rejects one more, or an empty staged directory is replaced by a
file (`Interference` selects which), in the middle of a call too.  A behaviour is one session; `Init` has every
pair of trees, so it covers what any earlier session may have left.

### State and actions of `Frontend`

| Variable | In the program |
|---|---|
| `argv`, `options` | what `getopt_long` has not returned yet; `run_options` |
| `given` | history: the whole command line |
| `world` | effective user id 0, standard output a terminal, `NO_COLOR` set |
| `phase`, `status` | where the program is, and its exit status |
| `core` | the reconciler: `root_` and `staging_root_` |
| `last` | what the program did last, for the properties |

`ParseOption` is one turn of the loop of `main()`, `EndOfOptions` the checks after
it, `Construct` the constructor.  `Construct` may be given any staging directory,
as by another program on the same library; `rejmerge` gives the default one.
`Offer` hands a candidate of this or of another reconciler to a disposition up to
`validate_mapping`, `Relocate` is `relocate_relic` up to the move, `Show` is a
difference in a dry run or before a prompt, `Finish` the return from
`run_terminal` or an exception in `main()`.

A path is a record: absolute or not, and the sequence of its elements as
`std::filesystem` iterates them, a trailing slash being an empty last element.
`Slash`, `LexicallyNormal` and `LexicallyRelative` model `operator/`,
`lexically_normal` and `lexically_relative` of the standard library on POSIX.

### Abstractions, and why they lose nothing the properties look at

* Contents are one or two blocks of two values, one of which holds a NUL byte.
  All contents have the same length, so `st_size` never helps to notice an
  edit: the harder case.
* `ctime` stands for `st_mtim` and `st_ctim`.  The kernel moves `st_ctim` on
  every write, chmod, chown, rename and unlink of a link to the inode, as local
  Linux filesystems do.
* With `CoarseClock = FALSE` every change gets a time of its own.  `README.md:70`
  of the repository names size and timestamps as what the check compares, so two
  edits within one granule of the kernel clock are beyond what it promises; the
  switch is there to study them, and the runs leave it off.
* An inode number is reused as soon as nothing refers to it, so a fingerprint
  may meet a different object with the same number.
* These pairs of system calls are one step, because nothing between them reads
  what they change: opening and first `fstat` of both files of an inspection;
  `lstat` and `lchown`; `fchown`, `fchmod` and `fsync` on a temporary file no
  other process knows; `mkstemp` and opening the source.
* In `content_equal` the two operands of `==` (`FR` 267) read links in an order
  the language leaves open; the model reads the installed one first.
* Whether a staged directory has children is nondeterministic here
  (`RetireUnlinks` or `RetireFindsChildren`).
* A failing system call, a limit of liblinediff, a FIFO that appears where a
  file was: all are `CallError` or `ScanError`, enabled by `Faults`.  A real
  FIFO would make `open` block.  The `unlink` in a catch block, whose result nobody
  looks at, has a switch of its own: with `UnlinkFails` a call that throws may
  leave its temporary file, which then is one of `orphans`.
* One root; parents of the destination exist.  `validate_mapping` is in `Paths`, and
  `ensure_parent` in `Session`.

In `Session`:

* `ctime` only says whether an inode changed since the last scan, because
  timestamps are only ever compared with those that scan read; `Scan` resets it.
* What happens inside one step of a call is `Reconciler`'s subject, which has every
  system call of it: the two `lstat` of a validation are one step here, `lstat`,
  `lchown` and `chmod` of `apply_metadata` are one, writing the temporary file up to its
  publication is one, and moves are on one filesystem.  Each step with its directories
  changes what a single system call changes, but for `Dress`, whose `chown` and `chmod`
  nothing here tells apart: no property of `Session` is about owners or modes on their own.
* Other processes act from the end of the scan to the end of the session.  What
  they do earlier is another initial state, and nothing looks at what they do later.
* No object is a symbolic link.  A link takes the dialogue of a special file, and
  a link that stands for a directory on the way to another name leads out of the
  modelled names.
* Pairs of directories always have equal contents, so `install()` never meets
  one: `run_terminal` keeps them without a question.
* A relic is not moved into the staging tree itself.
* There are more inodes than names (`InodeAssumption`), so one is free when a call
  creates a file.  A filesystem that runs out of them fails the call, which is `Fail`.
* `std::sort` is `Sorted`: some listing of the candidates in the order of the
  comparison.  `Before` is a strict total order on them, so there is exactly one, which
  `SessionProofs` proves (`Sortable`) rather than assumes.
* Where a candidate's object has another name in either tree, `SiblingsStayFresh`
  says nothing: resolving one of two links does make the other stale, safely.
* Answers that are ignored, views and differences shown again change nothing.

In `Frontend`:

* Arguments arrive as `getopt_long` returns them.  It permutes, so operands are
  last; `POSIXLY_CORRECT`, which stops it at the first operand, is left out.
* `scan()` and the dialogues are `Session`'s subject; here any candidate, any
  destination and any two records of a difference may come, in any order.
* A line is a sequence of text, carriage return and line feed, and ends in its only line
  feed (`LineAssumption`): liblinediff ends the others itself and says so in a record
  of its own (`tests/test_color.cpp:64-78`).
* Two pieces stand for the styles.  Plain lines hold neither (`LineAssumption`), although
  a file may contain escape sequences of its own: `ColorIsCosmetic` is about those
  the program adds.
* A path has any number of elements, each a name a directory entry may have
  (`ProperName`), `.`, `..` or empty.
* No name is a symbolic link, so a path denotes the names that are entered and
  not left again (`Denotes`).
* The limits of the text comparison (zero is refused by the constructor) are left
  out.

Initially, in `Reconciler`, the staged name exists, the installed name exists or
not, and the third name is occupied only when the pair is a relic (it matters to nothing
else).

### Bounds

`NBlocks` is 1, or 2 where reading or copying is interleaved with anything: two
blocks are enough for a reader to get one block of each of two versions.
`CrossDevice` is the set of what a move may meet: one filesystem, two, or either.
`MaxClock = 2` bounds what *starts*: no disposition begins and no other process
acts once two changes have happened, while calls in progress finish.  Two
changes suffice for change-and-change-back, for a replacement followed by
another, and for a disposition followed by its replay.  `Ino` has three to five
inodes: the three names, a temporary file per client, and one to replace an
object with; a run in which no inode is free simply lacks that step.  Inodes
and clients are interchangeable (symmetry), and no run with symmetry checks
liveness.  Deadlock is not checked in any run: a client whose staged name is gone
or whose bound is reached, a session that ended and a program that exited have
nothing more to do.

`Session` has three names in either tree, one of them below another, all present
or absent and each a file or a directory, two files possibly links to one inode.
That is enough for a directory to be structural or a candidate, with or without
contents, paired with its own type or another, and for siblings.  `MaxEdits = 1`
is one interference, at any moment of the session: a candidate goes stale between being
shown and being decided or between two steps of its call, or a file arrives behind the
scan.  The run `session` leaves out some initial trees that differ from others in
contents only (`FewerSpec`): a binary file is only ever at the name beside the directory, and a
file at the name of the directory always holds the same text.  The dialogue of a
binary file, and of two different texts, is the same at each name.  The theorems are about
`Spec`, with every tree.

`Frontend` has command lines of up to `MaxArgs = 2` arguments, which is every order
of every two options; roots and staging directories of up to two elements with
every combination of a name, `.`, `..` and a trailing slash; entries one or two
levels deep; destinations of up to three elements, absolute or not; and
differences of two records.  The root and the staging directory share a name, so
that stripping the wrong prefix can succeed.

## 3. The runs

| Run | Instance | What it shows |
|---|---|---|
| `quiet` | 1 client, a filesystem or two, two-block files, every type and mode, failures, also of the clean-up after one, crashes | `TypeOK`, `SuccessDelivers`, `StagedSurvives`, `MergedIsAtomic`, `ResolvedFileIsStale`, `Implements` |
| `interfere` | scan and compare, two-block files and links, others write, replace, remove and chmod | `CandidateTruthful`, `FlagsMatchFingerprints`, `EditMakesStale`, `ComparedTruthful` |
| `race` | 2 clients, every disposition, two filesystems, failures | `AtMostOneWinner`, `StagedSurvives`, `RelicNeverReplaces`, `NoTemporaryLeft` |
| `stale_removed` | keep, others replace the staged object | **violated** `OnlyObservedIsRemoved` |
| `hard_link` | install of two links to one inode | **violated** `InstallConsumesStaged` |
| `replay_directory` | keep of a directory with children | **violated** `ResolvedIsStale` |
| `session` | three names per tree, text and binary files, directories, hard links, one interference of any kind, also within a call, every step may fail | `SessionTypeOK`, `ChildrenFirst`, `SummaryAccounts`, `CompleteSessionLeavesNothing`, `SkippedFilesStay`, `SiblingsStayFresh`, `DryRunIsReadOnly`, `NothingLost`, `OnlyShownIsActedOn`, `Ends` |
| `session_skip` | nothing interferes | **violated** `SkippedStays` |
| `session_walk` | nothing interferes | **violated** `ScanReturns` |
| `session_cleanup` | an empty staged directory becomes a file | **violated** `OnlyDirectoriesAreSwept` |
| `frontend` | command lines of two arguments, roots, staging directories and destinations in every spelling | `TypeOK`, `ArgumentsObeyed`, `OwnCandidateAccepted`, `ForeignCandidateRefused`, `RelocationInsideRoot`, `PagerStaysPlain`, `ColorIsCosmetic` |
| `staging` | every staging directory of up to two elements | **violated** `StagingBelowRoot` |

`Implements` in `quiet` says of each single step what the invariants say of the
states: with one client left alone by others, in every failure and crash, each name
changes only as a whole and only towards the decision, and a call returns only if
all of it was carried out, the metadata that `install()` sets after its rename
included.

What the `frontend` run shows: options mean the same in any order, and a run that
writes needs root however it was asked for (`ArgumentsObeyed`); the candidates of a
scan pass `validate_mapping` however the roots were written, trailing slashes, dots
and two dots included, and name the right objects (`OwnCandidateAccepted`), while
those of another reconciler pass only if both have the same two trees
(`ForeignCandidateRefused`); a relic goes to the typed destination seen from the
root (`RelocationInsideRoot`); a pager gets no escape sequences unless `always` asks
for them (`PagerStaysPlain`); colour adds styles around whole lines and no more
(`ColorIsCosmetic`).

What the `session` runs show: across any sequence of answers, failures and
interruptions, the program takes the last name of a file only where a call is meant to:
`install` and `install_merged` of the installed file, when what replaces it is in its
place in the same step; `keep`, `install_merged` and `remove_relic` of the staged
file of the candidate in hand (`NothingLost`).  That holds for calls that fail half-way,
when a relic is moved to another candidate's path, and when two names are links;
the only exception is the file of `session_cleanup`.  *Which* file that is, is promised only for calls
in whose course nobody else acts.  For those, an equal pair that is kept still has its
contents at the installed name when the staged one goes, the merged file is there, and
every name a call takes away or replaces refers to what was shown, however long the
administrator thought and whatever happened before the call validated its candidate
(`NothingLost`, `OnlyShownIsActedOn`).  Between the validation and the later steps the
code looks at nothing again: a file put at a name then, or contents written into it, are
replaced or discarded unseen, which `stale_removed` exhibits, and neither property says
otherwise.  Directories come after what is in them, so one session
in which nothing is skipped leaves an empty staging tree (`ChildrenFirst`,
`CompleteSessionLeavesNothing`); a decision leaves the candidates still to come
usable, although it changes the directories they are in (`SiblingsStayFresh`); the
summary accounts for every candidate
(`SummaryAccounts`); a dry run writes nothing (`DryRunIsReadOnly`); the temporary
conflict copy is gone after every way out of a merge (in `SessionTypeOK`).

The seven violations:

* `stale_removed`: `keep()` validates, another process puts a new object at the
  staged name, `keep()` unlinks that.  The manual page says that mutation fails
  when the candidate no longer matches live state
  (`man/libpkgreconcile.3.scdoc:55-57`); the check and the removal are two
  system calls, by name.
* `hard_link`: when both names are links to one inode, `rename` succeeds and does
  nothing, so `install()` returns with the staged name still there, which is
  what `tests/test_actions.cpp:107` asserts not to happen.
* `replay_directory`: `README.md:76` says the checks reject replayed decisions;
  a directory candidate whose directory still has children stays valid after the
  decision and can be carried out again.  `ResolvedFileIsStale` shows that
  nothing but directories is affected.
* `session_skip`: a staged directory is a candidate when the installed name is a
  directory or a file.  If it is empty and the administrator skips it, the
  cleanup that ends the session removes it all the same, with the metadata
  decision that was pending for it.  To skip is offered beside keeping and
  installing (`man/rejmerge.8.scdoc:19-21`), and `tests/test_terminal.cpp:230` asserts of the
  one kind it tries, a file without a counterpart, that it stays.  `SkippedFilesStay` shows that nothing
  but directories is affected.
* `session_walk`: `observe()` takes only `ENOENT` for *missing*.  An installed regular
  file where the staging tree has a directory with contents makes `lstat` of the
  installed path below fail with `ENOTDIR`, and `scan()` throws; a relic by
  `DESIGN.md:60` keeps the whole tree from being reconciled.  The staged directory
  itself, were it empty, would be offered as a candidate, by the code and the model,
  although by `DESIGN.md:79` it has no counterpart and is omitted.
* `session_cleanup`: cleanup lists the directories and then calls `fs::remove` on
  each name, which unlinks a file just as well.  A listed directory that becomes a
  file in between is removed, although only empty real directories are to go
  (`include/libpkgreconcile/filesystem_reconciler.h:92`, `DESIGN.md:126`).
* `staging`: the constructor refuses an empty staging directory and `.`, but it looks
  at the argument before normalising it, and `./` passes.  Both trees are then the
  root, and every installed file is a candidate paired with itself; an unsafe staging
  path is to throw (`include/libpkgreconcile/filesystem_reconciler.h:45`).

In the `race` run the other client is what makes a destination appear late
(`RelicNeverReplaces`); section 4 proves the property for any other process as well.
No temporary file stays after a call that returned or threw (`NoTemporaryLeft`), where
the catch blocks can unlink theirs; in `quiet` they may fail to, and nothing else
depends on it.
In `race` the publication of a merged file counts as giving up the
staged contents, because the merged file is what the administrator chose to
keep of them.  No document promises atomicity across candidates
(`DESIGN.md:139`), and none is checked.

## 4. The proofs

TLC checks the instances of section 3; the theorems below hold for every value of the
constants: any number of clients, inodes, blocks, names, contents, modes and owners,
any set of dispositions, with and without failures and crashes, command lines, paths
and lines of any length.  Two kinds of
condition appear:

* the named assumptions of `Candidate`, `Reconciler`, `Session`, `Paths` and `Frontend`
  on their constants, which TLC evaluates in every run (the sentinels are no inodes or
  nodes, files have at least one block, `Stripped` maps modes to modes, the relation
  `Above` is that of a finite tree, there are more inodes than names, roots and
  destinations are paths, an entry and the working directory are sequences of names,
  a line ends in its only line feed);
* the hypotheses of a theorem, written `ASSUME` in it and listed below, which say
  in which surroundings the code delivers what it promises.

The properties themselves are those of the runs, stated in the modules; no theorem has
a version of its own.

### `Reconciler`

| Theorem | Property | Hypotheses |
|---|---|---|
| `ReconcilerProofs!TypeCorrect` | `TypeOK` | none |
| `ReconcilerProofs!RelicsNeverReplace` | `RelicNeverReplaces` | none |
| `ObservationProofs!FlagsCorrect` | `FlagsMatchFingerprints` | `~CoarseClock` |
| `ObservationProofs!EditsDetected` | `EditMakesStale` | `~CoarseClock` |
| `ObservationProofs!CandidatesCorrect` | `CandidateTruthful` | `~CoarseClock` |
| `ObservationProofs!ComparisonsCorrect` | `ComparedTruthful` | `~CoarseClock` |
| `ResolutionProofs!TemporariesRemoved` | `NoTemporaryLeft` | `~UnlinkFails` |
| `ResolutionProofs!ResolvedStale` | `ResolvedFileIsStale` | `~CoarseClock` |
| `ResolutionProofs!OneWinner` | `AtMostOneWinner` | `"put" \notin Interference`, `~HardLinked` |
| `SurvivalProofs!ContentsSurvive` | `StagedSurvives` | `Interference \subseteq {"chmod"}` |
| `DeliveryProofs!SuccessIsDelivery` | `SuccessDelivers` | `Alone` |
| `DeliveryProofs!MergedAtomically` | `MergedIsAtomic` | `Alone` |
| `RefinementProofs!Refinement` | `Implements` | `Alone`, `Client # {}` |

Why the hypotheses are what they are:

* `~CoarseClock`: size and timestamps are what the library compares (`README.md:70`
  of the repository).  Two edits with one timestamp defeat it, and then each of these
  five properties is false.
* `OneWinner` is about one staged object.  If another process puts a new one there
  (`stale_removed`), the second call wins a different prize; with two links to one
  inode (`hard_link`) `rename` removes nothing.  No hypothesis about clocks is
  needed: what decides is that a name can be taken away once.
* `~UnlinkFails`: the catch blocks ignore what `unlink` returns, and if it fails the
  temporary file stays.
* `ContentsSurvive` allows any number of clients that work against each other, and
  other processes that change metadata.  Those that write or unlink the staged file
  destroy the contents themselves.
* `Alone` is one client, no interference, `~HardLinked` and `~CoarseClock`.  What a
  call has delivered when it returns can only be read off the names if nobody changed
  them in between.  Failures of every system call and the death of the client are
  included.  `Client # {}` is there because `Implements` speaks of a client.

None of the invariants the runs check is inductive.  Each theorem rests on
the ones before it, in this order:

1. `IInv == TypeOK /\ Control`.  Reading a block through a descriptor needs the
   descriptor to be open on a regular file with a block left to read, and writing a
   temporary file needs it to exist; `Control` says of each label of `pc` what is open
   there and how many blocks were read.  What a change of the inode table does is
   proved once: `Settle` keeps exactly the inodes something refers to.
   `RelicNeverReplaces` follows with `OwnControl` (only a client's own steps move it)
   and `MovesOfRelic` (each step out of `rename` and `publish` throws or found the
   destination empty).
2. `Truth == Past /\ \A c : Informed(c)`.  `Faithful(c, s)`: the fingerprint
   describes the object that was seen, and if that inode still has the
   timestamp, the object is unchanged.  `Progress` says at each label how much of the
   buffer is the contents of the object seen; the second look at the timestamp turns
   that into the whole.  The step is carried by `Aging`: whatever changes gets a
   timestamp later than every earlier one.
3. `Orderly`.  Which labels each kind of call passes, on which candidates, and that a
   temporary file exists nowhere but between its creation and its publication.
   `NoTemporaryLeft` compares two states of it.
4. `Distinct /\ Exhausted`.  No temporary file has a name or two owners, and names share
   an inode only if they did so initially; a client that has taken the staged object
   away, or has replaced the installed one, holds a candidate that is dead: one of
   its two objects is gone or younger.  `Dead` is stable because an inode that comes back
   under the name comes with a new timestamp.
5. `Separate /\ NoLinks /\ Winning`.  Once a client has consumed the staged name it stays
   absent, and no other client has.
6. `Preserved`.  All clients saw the same contents, a copy equals the part of
   its source it has read, no temporary file is read by anyone, and before a call
   that moves the contents unlinks the staged name they are at another.
7. `Journey(c)`.  Where the two objects are, and in which metadata, at every label from
   the validation to the return.
8. The refinement needs in addition that a staged directory without a counterpart is
   never a candidate (`Counterpart`: `scan()` omits it) and that all symbolic links have
   one mode (`LinkModes`).  There is one lemma per kind of step: a scan, a failure
   or death, `Begin`, the validation and the preparation of a temporary file, a comparison
   are stutters or `GiveUp`/`Begin`; chown and chmod are `Dress`; the unlink is `Discard`,
   a rename and a publication are `Carry` or `CarryAway`; returning is `Kept`.

TLC checked the invariants of 2 to 8 on instances of `Reconciler` before their proofs.

### `Session`

All without hypotheses beyond the named assumptions: any trees, any answers,
failures of any step, and any number of interferences of the kinds modelled, between any
two steps.

| Theorem | Property | Inductive invariant (with `Base`) |
|---|---|---|
| `TypeCorrect` | `SessionTypeOK` | `Base` |
| `DryRunIsSafe` | `DryRunIsReadOnly` | none more |
| `SummaryCorrect` | `SummaryAccounts` | `Counted` |
| `ChildrenBeforeParents` | `ChildrenFirst` | `Trees`, `Lined` |
| `OnlyTheShown` | `OnlyShownIsActedOn` | `Held`, `Trusted` |
| `NothingIsLost` | `NothingLost` | `Held`, `Trusted`, `Cleaning` |
| `SkippedFilesAreLeft` | `SkippedFilesStay` | `Cleaning`, `Standing` |
| `SiblingsAreFresh` | `SiblingsStayFresh` | `Trees`, `Undisturbed` |
| `NothingIsLeft` | `CompleteSessionLeavesNothing` | `Cleaning`, `Emptied` |

* `Base == Types /\ Flow /\ Scene`: the types; that the prompt the program is at fits the
  current candidate, and a call under way is one that can be made for it and at a
  step it has (`Stages`, `Subjects`); and that the remaining candidates are of different paths
  and each is the snapshot its scan took of two objects (`Snapshot`).
* `Counted`: every candidate is counted when it is reached and again when it
  is dealt with, which at a prompt differ by one.
* `Trees`: every directory on the way to a name exists, in both trees and at every
  moment: a move creates the missing ones from the top down, stopping at any of them
  leaves a tree, and only empty ones go.
* `Lined`: the candidates are in the order of the sort, and one above another is a
  directory.  It needs `Trees` at the scan.
* `Witnessed`: an inode that still has the time of the scan is the object that was shown;
  no interference undoes a timestamp.
* `Held`: what a step finds at the names even if somebody acted since the validation,
  because an interference writes, or puts regular files at staged names, and nothing else: a
  pair still has an installed object, the staged object of a candidate that is no directory
  has not become one, and the names of an install are not links to one inode (their
  contents would be equal), so that `Rename` moves.
* `Trusted`: from its validation to its last step a call in whose course nobody acted
  finds at each name it is still to take away or replace what was shown, and the
  merged file at the installed name before the staged one goes.  `Witnessed` starts it: an
  object whose fingerprint matches is the one that was shown.
* `Cleaning`: what is to be swept is deepest first, and a directory unless something
  arrived in its place.  The exception of `NothingLost` is that arrival.
* `Standing`: the object of a candidate that is no directory stays at its name until
  its turn, and for ever if it is skipped; the sweep does not list it.
* `Undisturbed`: as long as nobody interferes, the two objects of each remaining candidate
  without other links are those of its scan, with their times unless they are
  directories.  A move of a relic into another candidate's directories is the hard case.
* `Emptied`: what is still present at a staged name is a remaining candidate, or a
  directory on the way to one, or arrived; during the sweep, a directory still to be
  swept, or one with an arrival in it.

Each action has a lemma that says once what it changes (`ScanFacts`, `FailFacts`,
`SweepFacts`, `BeginFacts`, ...), and each step of a call is restated by what it does to
the trees (`Dressed`, `Retired`, `Renamed`, `Published`, `Makes`, `Moved`); the invariants use these and
not the definitions.  `Sortable` proves that a finite set with a strict total
order has a listing in that order, so that `Sorted`, a `CHOOSE`, is one.  TLC
checked each of these invariants on the instance of run `session` before its proof.

`Grounded` (`Base`), `CallsAreHeld` (`Held`), `Rooted` (`Trees`), `Remembered`
(`Witnessed`), `CallsAreTrusted` (`Trusted`) and `SweepsUpwards` (`Cleaning`) are theorems
of their own: `Rooted` is what every `lstat` of the library relies on, `CallsAreTrusted`
what a call may count on after its validation.

### `Frontend`

All without hypotheses beyond the named assumptions: command lines, roots, staging
directories, entries, destinations and lines of every length and in every spelling.

| Theorem | Property | Rests on |
|---|---|---|
| `TypeCorrect` | `TypeOK` | `Typed` |
| `Arguments` | `ArgumentsObeyed` | `Typed`, `Parsed` |
| `OwnAccepted` | `OwnCandidateAccepted` | `Explained`, `OwnCandidate` |
| `ForeignRefused` | `ForeignCandidateRefused` | `Explained`, `ForeignCandidate` |
| `RelocationInside` | `RelocationInsideRoot` | `Explained`, `RelocationPlace` |
| `PagerPlain` | `PagerStaysPlain` | `Explained` |
| `ColorCosmetic` | `ColorIsCosmetic` | `Explained`, `StyledTidy`, `TidyTwice` |

The inductive invariant is `Typed /\ Parsed /\ Explained`; TLC checked it on the
instance of `frontend` first.

* `Parsed`: at every moment of the parsing there are numbers `c` and `d` such that
  the first `c` arguments given have been dealt with, and what is left are the `d`
  operands among them followed by the arguments not yet looked at (`Cut`).  The options
  are the last ones of those `c` (`Obeyed`, `Latest`).  `ArgumentsObeyed`
  speaks of the end only and is not inductive.
* `Typed` says in particular that the two roots of a reconciler are canonical (`IsRoot`):
  absolute, and names only, but for one empty element at the end that a trailing slash
  leaves.  This is what makes comparing paths element by element in `validate_mapping`
  the same as comparing what they denote.
* `Explained`: what the program did last, it did to the reconciler and with the options
  it has now.

The rest of the work is about values, and most of it is induction over paths and lines.
The library's induction theorems take operators as parameters and are no use to the
installed provers, so `Induction` is derived from `NatLessThanWellFounded` and
`WFMin`: a set of numbers with a least counterexample.  With it

* `FoldExists` and `FoldWalks` turn the folds of `LexicallyNormal`, `Denotes` and
  `Unstyled` into *walks*, functions that give the value after each element, of which
  `DenotesWalk`, `NormalWalk` and `UnstyledWalk` are the three instances;
* `NormalAbsolute` and `NormalRelative` say what `LexicallyNormal` returns: names only, or
  as many `..` as were left over before them, with a trailing slash or without, and for an
  absolute path denoting the same;
* `SlashCanonical`, `OwnCandidate`, `ForeignCandidate` and `RelocationPlace` say where the
  paths a reconciler makes lead: a root followed by names denotes its own names
  followed by those, `LexicallyRelative` takes the root off again, and
  two pairs of roots that one candidate fits denote the same two directories;
* `UnstyledConcat`, `Framed`, `StyledTidy` and `TidyTwice` take a difference apart into
  its lines and each styled line into style, text, reset and line ending (`Tidy`).

### Only model-checked

* `Ends`, the liveness property of `Session`: liveness under fairness is beyond TLAPS.
* The seven violations: each is a behaviour, which TLC exhibits.

## 5. Fairness and liveness

`Reconciler` has no fairness and no liveness property is claimed for it: the
library never waits, and retries only on `EINTR`.  The only loops that wait for
something are the front end's prompts.  `Session` therefore assumes

* `WF_vars(Program)`: the program, running alone in its process, takes its next
  call whenever there is one.  Nothing ever disables it in the meantime.
* `WF_vars(Decision)`: an administrator in front of a prompt sooner or later
  gives an answer that decides something.  Editing the conflict copy,
  asking for the merge, or looking again is not such an answer, so the assumption
  rules out an administrator who does only that for ever.

Nothing is assumed about other processes or interruptions.  Under
these, `Ends` holds: each decision either consumes a candidate or ends the session.

`Frontend` has none either: `main()` runs once through its arguments.

## 6. What is not modelled, and the plan

Every safety property of the passing runs is proved, and so is the refinement.
What could still be added:

1. The steps of `Session` as an abstraction of `Reconciler`'s system calls: one theorem
   per disposition that a call on one filesystem changes the two names as its steps
   here do.
2. Differences of more than two records in `Show`.

Not modelled:

* Symbolic links on the way to a name: in `Session` and `Paths` no directory is one.
  Two hazards listed in `PROJECT.json` need them: a chmod by name that follows a link
  (`FR` 307), and a staging directory written with a trailing slash, whose `lstat`
  follows a link (`FR` 700).
* liblinediff: a library; only its limits matter here, as one of the failures.
* The names of enumerators, the exception types and the export macros: no state and no
  control.
* Durability of a rename across a power failure, which needs a model of the disk that
  nothing in the code speaks about.
