-------------------------------- MODULE Paths --------------------------------
(***************************************************************************)
(* How the library maps paths: its two roots, the pair of paths a scan     *)
(* gives a candidate, the check of that pair before every call, and where  *)
(* a relocated relic goes.  A path is absolute or not, and the sequence of *)
(* its elements as std::filesystem iterates them: a trailing slash is an   *)
(* empty last element.                                                     *)
(***************************************************************************)
EXTENDS Integers, SequencesExt

CONSTANT Cwd  \* the names that lead from "/" to the working directory

(* What a directory may call one of its entries.                           *)
ProperName == STRING \ {"", ".", ".."}

Element == ProperName \cup {"", ".", ".."}
AnyPath == [absolute: BOOLEAN, parts: Seq(Element)]

ASSUME CwdAssumption == Cwd \in Seq(ProperName)

Relative(parts) == [absolute |-> FALSE, parts |-> parts]
Absolute(parts) == [absolute |-> TRUE, parts |-> parts]
Empty == Relative(<<>>)

(* p / q: q follows p's last name; appending nothing leaves a slash.       *)
Slash(p, q) ==
  LET names == IF p.parts # <<>> /\ Last(p.parts) = "" THEN Front(p.parts) ELSE p.parts
  IN IF q.absolute THEN q
     ELSE [p EXCEPT !.parts = names \o (IF q = Empty /\ names # <<>> THEN <<"">> ELSE q.parts)]

(* lexically_normal()                                                      *)
LexicallyNormal(p) ==
  LET Step(names, e) ==
        CASE e \in {"", "."} -> names
          [] e = ".." /\ names # <<>> /\ Last(names) # ".." -> Front(names)
          [] e = ".." /\ names = <<>> /\ p.absolute -> names
          [] OTHER -> Append(names, e)
      names == FoldLeft(Step, <<>>, p.parts)
      directory == p.parts # <<>> /\ Last(p.parts) \in {"", ".", ".."}
  IN [p EXCEPT !.parts =
        IF names = <<>> THEN IF p.absolute \/ p = Empty THEN <<>> ELSE <<".">>
        ELSE IF directory /\ Last(names) # ".." THEN Append(names, "") ELSE names]

(* lexically_relative() of two absolute paths.                             *)
LexicallyRelative(p, base) ==
  LET k == Len(LongestCommonPrefix({p.parts, base.parts}))
      up == {i \in k + 1 .. Len(base.parts) : base.parts[i] # ""}
      rest == SubSeq(p.parts, k + 1, Len(p.parts))
  IN Relative(IF up = {} /\ rest \in {<<>>, <<"">>} THEN <<".">>
              ELSE [i \in 1 .. Cardinality(up) |-> ".."] \o rest)

GoesUp(p) == Contains(p.parts, "..")

------------------------------------------------------------------------------
NormalizeRoot(root) ==
  IF root = Empty THEN Absolute(<<>>) ELSE LexicallyNormal(Slash(Absolute(Cwd), root))

StagingAllowed(staging) ==
  staging \notin {Empty, Relative(<<".">>)} /\ ~staging.absolute /\ ~GoesUp(staging)

NormalizeStagingRoot(root, staging) == LexicallyNormal(Slash(root, staging))

(* The constructor, for a staging directory it does not reject.            *)
Reconciler(root, staging) ==
  [root |-> NormalizeRoot(root),
   staging_root |-> NormalizeStagingRoot(NormalizeRoot(root), staging)]

PathEscaped(relative) == relative = Empty \/ GoesUp(relative)

(* The candidate whose path drops as many elements as the staging root has. *)
CandidateByCount(core, entry) ==
  LET staged == Slash(core.staging_root, Relative(entry))
      relative == Relative(SubSeq(staged.parts, Len(core.staging_root.parts) + 1, Len(staged.parts)))
  IN [relative_path |-> relative, staged_path |-> staged,
      installed_path |-> Slash(core.root, relative)]

(* scan(): the candidate for an entry found below the staging root.        *)
Candidate(core, entry) ==
  LET staged == Slash(core.staging_root, Relative(entry))
      relative == LexicallyRelative(staged, core.staging_root)
  IN [relative_path |-> relative, staged_path |-> staged,
      installed_path |-> Slash(core.root, relative)]

(* validate_mapping() with the staged path alone.                          *)
ValidStagedPath(core, value) ==
  value.staged_path = Slash(core.staging_root, value.relative_path)

ValidMapping(core, value) ==
  /\ ~PathEscaped(value.relative_path)
  /\ value.installed_path = Slash(core.root, value.relative_path)
  /\ value.staged_path = Slash(core.staging_root, value.relative_path)

(* relocate_relic(): the destination below the root, and where that is.    *)
LogicalPath(destination) == LexicallyNormal(Relative(destination.parts))

AnyAbsolute(destination) == destination.absolute

RelocationAllowed(destination) ==
  destination.absolute /\ ~GoesUp(LogicalPath(destination))

RelocationTarget(core, destination) == Slash(core.root, LogicalPath(destination))

------------------------------------------------------------------------------
(* What an absolute path means where no name is a symbolic link: the names *)
(* one has entered and not left again.                                     *)
Denotes(p) ==
  FoldLeft(LAMBDA at, e : CASE e \in {"", "."} -> at
                            [] e = ".." -> IF at = <<>> THEN at ELSE Front(at)
                            [] OTHER -> Append(at, e),
           <<>>, p.parts)
==============================================================================
