------------------------------ MODULE MCSession ------------------------------
(***************************************************************************)
(* Small trees for Session: a directory, a file in it, and a file beside   *)
(* it; inodes are numbers.                                                 *)
(***************************************************************************)
EXTENDS Session

Paths  == {"e", "e/f", "g"}
Parents == [p \in Paths |-> IF p = "e/f" THEN {"e"} ELSE {}]
Strings == [p \in Paths |-> CASE p = "e" -> 1 [] p = "e/f" -> 2 [] p = "g" -> 3]
Inodes == 1 .. 8
Originals ==
  [t \in Tree |-> [p \in Paths |-> Strings[p] + IF t = "installed" THEN 0 ELSE 3]]

AllModes == {"0000", "0644", "0755", "0777"}
StrippedModes == [m \in AllModes |-> m]

Object(type, byte, mode) ==
  [type |-> type, data |-> <<byte>>, mode |-> mode, owner |-> "root", ctime |-> 0]

Bare == {Object("regular", "a", "0644"), Object("directory", "nul", "0755")}

Objects ==
  Bare \cup {Object("regular", "b", "0755"), Object("regular", "nul", "0644")}

(* The two staged files may be links to one inode, and so may a pair.      *)
Links == {<<<<"staged", "g">>, <<"staged", "e/f">>>>, <<<<"installed", "g">>, <<"staged", "g">>>>}

Conflict == <<"b">>

(* Without the trees that differ from others only in where the binary file *)
(* is, and in which text the file has that stands for the directory.       *)
FewerInit ==
  /\ Init
  /\ \A t \in Tree :
       /\ Present(t, "e") => IsDirectory(t, "e") \/ At(t, "e").data = <<"a">>
       /\ Present(t, "e/f") => IsDirectory(t, "e/f") \/ TextData(At(t, "e/f").data)

FewerSpec == FewerInit /\ [][Next]_vars /\ WF_vars(Program) /\ WF_vars(Decision)
==============================================================================
