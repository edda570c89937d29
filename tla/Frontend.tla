------------------------------- MODULE Frontend -------------------------------
(***************************************************************************)
(* A program on top of the library: rejmerge from its command line to its  *)
(* exit status, or another one that gives the library a staging directory  *)
(* of its own choice.  What the library does with the files is the subject *)
(* of Reconciler and Session; here it is what paths it would do it to, and *)
(* what is shown.                                                          *)
(***************************************************************************)
EXTENDS Paths, FiniteSets

CONSTANTS
  Root,       \* arguments of --root
  Staging,    \* staging directories programs ask for
  Entry,      \* what a scan may find, as names below the staging root
  Destination,\* what an administrator may type as a relic's destination
  Line,       \* the lines of a difference, each a sequence of pieces
  MaxArgs     \* bound: arguments on the command line

ASSUME ArgumentAssumption ==
  /\ Root \subseteq AnyPath /\ Staging \subseteq AnyPath /\ Destination \subseteq AnyPath
  /\ Entry \subseteq Seq(ProperName) \ {<<>>}
  /\ MaxArgs \in Nat

(* A line is text that a line feed ends, even the last one of a file       *)
(* without any.  (tests/test_color.cpp)                                    *)
Style == {"style", "reset"}
ASSUME LineAssumption ==
  \A line \in Line : /\ line \in Seq(STRING \ Style)
                     /\ \A i \in DOMAIN line : line[i] = "lf" <=> i = Len(line)
                     /\ line # <<>>

ColorMode == {"auto", "always", "never"}

(* An argument as getopt_long() returns it: the option and its value.      *)
Argument ==
  [option: {"root"}, value: Root] \cup [option: {"color"}, value: ColorMode \cup {"sometimes"}]
    \cup [option: {"dry_run", "version", "help", "unknown", "operand"}]

VARIABLES
  argv,     \* what is left of the command line
  given,    \* history: the whole command line, until it has been obeyed
  options,  \* run_options: root, dry_run, color
  world,    \* euid 0, stdout a terminal, NO_COLOR set
  phase,    \* "options", "start", "running", "exited"
  status,   \* the exit status
  core,     \* the reconciler
  last      \* what the program did last

vars == <<argv, given, options, world, phase, status, core, last>>

NoCore  == [root |-> Empty, staging_root |-> Empty]
Nothing == [did |-> "nothing"]
Defaults == [root |-> Absolute(<<>>), dry_run |-> FALSE, color |-> "auto"]

Exit(code) ==
  /\ phase' = "exited" /\ status' = code
  /\ argv' = <<>> /\ given' = <<>> /\ core' = NoCore /\ last' = Nothing
  /\ options' = Defaults
  /\ UNCHANGED world

------------------------------------------------------------------------------
(* main(): options in the order given, operands wherever they stand last.  *)
Options(args) == {k \in DOMAIN args : args[k].option # "operand"}

(* An option given twice keeps its first value.                            *)
FirstOneWins(a) ==
  options' = IF a.option = "root" /\ options.root # Defaults.root THEN options
             ELSE IF a.option = "dry_run" THEN [options EXCEPT !.dry_run = TRUE]
             ELSE [options EXCEPT ![a.option] = a.value]

Obey(a) ==
  options' = IF a.option = "dry_run" THEN [options EXCEPT !.dry_run = TRUE]
             ELSE [options EXCEPT ![a.option] = a.value]

(* Any word is a color mode.                                               *)
UnknownOption(a) == a.option = "unknown"

Misused(a) ==
  \/ a.option = "unknown"
  \/ a.option = "color" /\ a.value \notin ColorMode

ParseOption ==
  /\ phase = "options" /\ Options(argv) # {}
  /\ LET k == Min(Options(argv))
         a == argv[k]
     IN IF a.option \in {"version", "help"} THEN Exit(0)
        ELSE IF Misused(a) THEN Exit(1)
        ELSE /\ Obey(a)
             /\ argv' = RemoveAt(argv, k)
             /\ UNCHANGED <<given, world, phase, status, core, last>>

(* An operand is an error, and so is a run that would write without being  *)
(* root.                                                                   *)
EndOfOptions ==
  /\ phase = "options" /\ Options(argv) = {}
  /\ IF argv # <<>> \/ ~(options.dry_run \/ world.superuser)
     THEN Exit(1)
     ELSE /\ phase' = "start"
          /\ UNCHANGED <<argv, given, options, world, status, core, last>>

(* The constructor of filesystem_reconciler.                               *)
Construct(staging) ==
  /\ phase = "start"
  /\ IF ~StagingAllowed(staging)
     THEN Exit(1)
     ELSE /\ phase' = "running"
          /\ core' = Reconciler(options.root, staging)
          /\ given' = <<>>
          /\ UNCHANGED <<argv, options, world, status, last>>

------------------------------------------------------------------------------
Did(what) ==
  /\ phase = "running"
  /\ last' = what
  /\ UNCHANGED <<argv, given, options, world, phase, status, core>>

(* A candidate of this or another reconciler is handed to a disposition; a *)
(* program that does the latter may go on after the error.                 *)
Offer(maker, entry) ==
  LET value == Candidate(maker, entry)
  IN Did([did |-> "offer", maker |-> maker, entry |-> entry, value |-> value,
          accepted |-> ValidMapping(core, value)])

Relocate(destination) ==
  IF RelocationAllowed(destination)
  THEN Did([did |-> "relocate", destination |-> destination,
            target |-> RelocationTarget(core, destination)])
  ELSE phase = "running" /\ Exit(1)

(* color_enabled()                                                         *)
ColorEnabled(mode, terminal, pager, no_color) ==
  \/ mode = "always"
  \/ mode = "auto" /\ terminal /\ ~pager /\ ~no_color

(* The line ending that stays outside the style.                           *)
NewlineOnly(line) == IF line # <<>> /\ Last(line) = "lf" THEN 1 ELSE 0

LineEnding(line) ==
  IF line = <<>> \/ Last(line) # "lf" THEN 0
  ELSE IF Len(line) > 1 /\ line[Len(line) - 1] = "cr" THEN 2 ELSE 1

(* ansi_unified_sink::write()                                              *)
Styled(kind, line) ==
  LET k == Len(line) - LineEnding(line)
  IN IF kind = "context" THEN line
     ELSE <<"style">> \o SubSeq(line, 1, k) \o <<"reset">> \o SubSeq(line, k + 1, Len(line))

Record == [kind: {"context", "deletion"}, line: Line]

(* render_unified_display()                                                *)
Rendered(records, color) ==
  FlattenSeq([i \in DOMAIN records |->
    IF color THEN Styled(records[i].kind, records[i].line) ELSE records[i].line])

(* Whether the difference goes through a pager: in a dry run it does not,  *)
(* otherwise it does when the output is a terminal.                        *)
UsePager == ~options.dry_run /\ world.terminal

(* handle_regular() with the context of show_dry_run().                    *)
ColorAsInDryRun == ColorEnabled(options.color, world.terminal, FALSE, world.no_color)

Color == ColorEnabled(options.color, world.terminal, UsePager, world.no_color)

Show(records) ==
  Did([did |-> "show", paged |-> UsePager, plain |-> Rendered(records, FALSE),
       bytes |-> Rendered(records, Color)])

(* run_terminal() returns, or throws into main().                          *)
Finish == phase = "running" /\ \E code \in {0, 1} : Exit(code)

------------------------------------------------------------------------------
Init ==
  /\ argv \in SeqOf(Argument, MaxArgs)
  /\ given = argv
  /\ options = Defaults
  /\ world \in [superuser: BOOLEAN, terminal: BOOLEAN, no_color: BOOLEAN]
  /\ phase = "options" /\ status = 0
  /\ core = NoCore /\ last = Nothing

Makers == {Reconciler(root, staging) : root \in Root, staging \in {s \in Staging : StagingAllowed(s)}}

Next ==
  \/ ParseOption \/ EndOfOptions
  \/ \E staging \in Staging : Construct(staging)
  \/ \E maker \in Makers, entry \in Entry : Offer(maker, entry)
  \/ \E destination \in Destination : Relocate(destination)
  \/ \E r, s \in Record : Show(<<r, s>>)
  \/ Finish

Spec == Init /\ [][Next]_vars

------------------------------------------------------------------------------
(* Every variable has its type, and a reconciler exists just while one is  *)
(* used.                                                                   *)
TypeOK ==
  /\ argv \in Seq(Argument) /\ status \in {0, 1}
  /\ options.dry_run \in BOOLEAN /\ options.color \in ColorMode
  /\ phase \in {"options", "start", "running", "exited"}
  /\ core # NoCore <=> phase = "running"
  /\ last # Nothing => phase = "running"

(* The options of a run are those of its command line in any order: the    *)
(* last root and color that were given, a dry run if it was asked for      *)
(* anywhere, and nothing that had to end the program instead.              *)
(* (main, rejmerge.8)                                                      *)
ArgumentsObeyed ==
  phase = "start" =>
    LET Given(option) == {k \in DOMAIN given : given[k].option = option}
        Final(option) == IF Given(option) = {} THEN Defaults[option]
                         ELSE given[Max(Given(option))].value
    IN /\ options.root = Final("root") /\ options.color = Final("color")
       /\ options.dry_run <=> Given("dry_run") # {}
       /\ \A a \in ToSet(given) : a.option \in {"root", "color", "dry_run"}
       /\ Given("dry_run") = {} => world.superuser

(* A reconciler accepts the candidates of its own scan, however its roots  *)
(* were written, and they name the two objects at the entry's place below  *)
(* its roots.  (scan, path_escaped, validate_mapping)                      *)
OwnCandidateAccepted ==
  last.did = "offer" /\ last.maker = core =>
    /\ last.accepted
    /\ Denotes(last.value.staged_path) = Denotes(core.staging_root) \o last.entry
    /\ Denotes(last.value.installed_path) = Denotes(core.root) \o last.entry

(* A candidate another reconciler made is accepted only if both have the   *)
(* same roots.  (validate_mapping)                                         *)
ForeignCandidateRefused ==
  last.did = "offer" /\ last.accepted =>
    /\ Denotes(last.maker.root) = Denotes(core.root)
    /\ Denotes(last.maker.staging_root) = Denotes(core.staging_root)

(* A relic is moved to the place the administrator typed, seen from the    *)
(* root as "/": never outside.  (relocate_relic)                           *)
RelocationInsideRoot ==
  last.did = "relocate" =>
    Denotes(last.target) = Denotes(core.root) \o Denotes(last.destination)

(* Unless color is forced, a pager gets no styles.                         *)
(* (handle_regular, color_enabled)                                         *)
PagerStaysPlain ==
  last.did = "show" /\ last.paged /\ options.color # "always" => last.bytes = last.plain

Unstyled(bytes) ==
  FoldLeft(LAMBDA text, b : IF b \in Style THEN text ELSE Append(text, b), <<>>, bytes)

(* Styles add nothing and change nothing: without them the bytes are those *)
(* of the plain difference, and no line ending is inside a style or torn.  *)
(* (ansi_unified_sink)                                                     *)
ColorIsCosmetic ==
  last.did = "show" =>
    LET bytes == last.bytes
    IN /\ Unstyled(bytes) = last.plain
       /\ \A i \in DOMAIN bytes : bytes[i] = "lf" =>
            /\ \A j \in 1 .. i - 1 : bytes[j] = "style" =>
                 \E l \in j + 1 .. i - 1 : bytes[l] = "reset"
            /\ ~(i > 2 /\ bytes[i - 1] = "reset" /\ bytes[i - 2] = "cr")

(* include/libpkgreconcile/filesystem_reconciler.h: the constructor throws *)
(* for an unsafe staging path.  One it accepts leads below the root, so    *)
(* that no file is both installed and staged.                              *)
StagingBelowRoot ==
  core # NoCore => IsStrictPrefix(Denotes(core.root), Denotes(core.staging_root))
==============================================================================
