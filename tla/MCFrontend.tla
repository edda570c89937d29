------------------------------ MODULE MCFrontend ------------------------------
(***************************************************************************)
(* Small instances of Frontend: roots and staging directories written in   *)
(* every way two or three elements allow.                                  *)
(***************************************************************************)
EXTENDS Frontend

Here == <<"r">>

Roots ==
  {Empty, Absolute(<<>>), Absolute(<<"r">>), Absolute(<<"r", "">>), Absolute(<<"r", "s", "..">>),
   Relative(<<".">>), Relative(<<"s">>)}

(* All paths of up to n elements from `names`; only the last can be empty. *)
PathsOf(names, n) ==
  {p \in {Relative(s) : s \in SeqOf(names \cup {""}, n)} \cup {Absolute(s) : s \in SeqOf(names \cup {""}, n)} :
     \A i \in DOMAIN p.parts : p.parts[i] = "" => i = Len(p.parts) /\ i > 1}

AnyStaging == PathsOf({"s", ".", ".."}, 2)

(* Staging directories that name something.                                *)
NamedStaging == {p \in AnyStaging : p.absolute \/ p = Empty \/ Contains(p.parts, "s") \/ GoesUp(p)}

Entries == {<<"e">>, <<"s", "e">>}
Destinations == PathsOf({"s", ".", ".."}, 3)

Lines ==
  {<<"x", "lf">>, <<"x", "cr", "lf">>, <<"lf">>, <<"cr", "lf">>, <<"x", "cr", "x", "lf">>}
==============================================================================
