------------------------- MODULE ReconcilerRefinement -------------------------
(***************************************************************************)
(* The dispositions of Reconciler, called by one client that is left alone *)
(* by others, implement Disposition.                                       *)
(***************************************************************************)
EXTENDS Reconciler

Caller == CHOOSE c \in Client : TRUE
Calling == pc[Caller] \in CallLabel

Absent == [type |-> "missing"]

Object(i) ==
  IF i = NoIno THEN Absent
  ELSE [type |-> node[i].type, data |-> node[i].data, owner |-> node[i].owner, mode |-> node[i].mode]

(* An install on a directory keeps it: only its metadata is installed.     *)
MeaningOf == [keep |-> "keep", install |-> "install", install_merged |-> "merge",
              restore |-> "move", relocate_relic |-> "move", remove_relic |-> "remove",
              compare_text |-> "compare"]

Meaning ==
  IF call[Caller].kind = "install" /\ OnDirectory(Caller) THEN "keep"
  ELSE MeaningOf[call[Caller].kind]

Holdings == [s \in Slot |-> Object(entry[s])]

Duty ==
  IF Calling
  THEN [kind |-> Meaning, dest |-> call[Caller].dest, bytes |-> call[Caller].bytes,
        owner |-> Selected(Caller).owner, mode |-> Selected(Caller).mode]
  ELSE [kind |-> "none"]

Carried ==
  /\ Calling /\ Meaning \in {"install", "merge", "move"}
  /\ pc[Caller] \in {"retire", "chown", "chmod"}

D == INSTANCE Disposition WITH
  Name    <- Slot,
  Nothing <- Absent,
  ModeOf  <- Mode,
  holds   <- Holdings,
  duty    <- Duty,
  carried <- Carried,
  outcome <- result[Caller]

(* Every step of scan() and of the six dispositions, with its failures and *)
(* the death of the client, is a step of Disposition or changes nothing    *)
(* that Disposition speaks of.                                             *)
(* (keep, install, install_merged, restore, relocate_relic, remove_relic)  *)
Implements == D!Spec
==============================================================================
