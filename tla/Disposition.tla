----------------------------- MODULE Disposition -----------------------------
(***************************************************************************)
(* What the library promises of a decision about one pair, without how:    *)
(* no fingerprints, temporary files or system calls.  Each name changes    *)
(* only as a whole and only towards the decision; the staged object is     *)
(* given up only once what is to take its place is in place; a decision    *)
(* that fails stops where it is; one that succeeds was carried out.        *)
(***************************************************************************)
CONSTANTS
  Name,      \* the names a decision is about, "installed" and "staged" among them
  Nothing,   \* what is at a name without an object
  ModeOf     \* the modes an object may have

VARIABLES
  holds,     \* the object at each name: type, data, owner, mode
  duty,      \* the decision being carried out, or NoDuty
  carried,   \* it has put its contents where they belong
  outcome    \* how the last decision ended

vars == <<holds, duty, carried, outcome>>

NoDuty == [kind |-> "none"]

(* Decisions that bring contents to their destination.                     *)
Carries == duty.kind \in {"install", "merge", "move"}

Installed == holds["installed"]
Staged    == holds["staged"]

(* The object under the selected owner and mode; a link has no mode.       *)
Wears(object) ==
  /\ object # Nothing /\ object.owner = duty.owner
  /\ object.type = "symlink" \/ object.mode = duty.mode

(* The object under the selected owner and mode m.                         *)
Dressed(object, m) ==
  [type |-> object.type, data |-> object.data, owner |-> duty.owner, mode |-> m]

(* What must be true of the names h for the decision to have succeeded.    *)
Kept(h, brought) ==
  /\ Carries => brought
  /\ \/ h["staged"] = Nothing
     \/ duty.kind = "compare"
     \/ duty.kind = "keep" /\ h["staged"].type = "directory"
  /\ duty.kind \in {"keep", "install", "merge"} => Wears(h["installed"])

(* The call goes on, or returns.                                           *)
Continue(brought) ==
  \/ duty' = duty /\ carried' = brought /\ outcome' = outcome
  \/ Kept(holds', brought) /\ duty' = NoDuty /\ carried' = FALSE /\ outcome' = "ok"

Decide ==
  /\ duty = NoDuty /\ duty' # NoDuty
  /\ outcome' = "none"
  /\ UNCHANGED <<holds, carried>>

LookAgain == duty = NoDuty /\ outcome' = "none" /\ UNCHANGED <<holds, duty, carried>>

(* The merged file, or the staged object as it is.                         *)
Payload ==
  IF duty.kind = "merge"
  THEN [type |-> "regular", data |-> duty.bytes, owner |-> duty.owner, mode |-> duty.mode]
  ELSE Staged

(* Contents may be brought while the staged object still exists; a relic   *)
(* replaces nothing.                                                       *)
MayCarry ==
  /\ duty # NoDuty /\ Carries /\ ~carried
  /\ Staged # Nothing
  /\ duty.kind = "move" => holds[duty.dest] = Nothing

Carry ==
  /\ MayCarry
  /\ holds' = [holds EXCEPT ![duty.dest] = Payload]
  /\ Continue(TRUE)

CarryAway ==
  /\ MayCarry /\ duty.kind # "merge"
  /\ holds' = [holds EXCEPT ![duty.dest] = Staged, !["staged"] = Nothing]
  /\ Continue(TRUE)

(* The staged object goes last, except for the metadata of an install.     *)
Discard ==
  /\ duty # NoDuty
  /\ \/ Carries /\ carried
     \/ duty.kind = "remove"
     \/ duty.kind = "keep" /\ Wears(Installed)
  /\ holds' = [holds EXCEPT !["staged"] = Nothing]
  /\ Continue(carried)

(* The installed object is on its way to the selected owner and mode.      *)
Dress ==
  /\ duty # NoDuty /\ Installed # Nothing
  /\ \/ duty.kind = "keep" /\ Staged # Nothing
     \/ duty.kind = "install" /\ carried
  /\ \E m \in ModeOf :
       holds' = [holds EXCEPT !["installed"] = Dressed(Installed, m)]
  /\ Continue(carried)

Conclude == duty # NoDuty /\ holds' = holds /\ Continue(carried)

(* An error, or the death of the caller.                                   *)
GiveUp ==
  /\ duty # NoDuty /\ duty' = NoDuty
  /\ carried' = FALSE /\ outcome' \in {"failed", "none"}
  /\ UNCHANGED holds

Init == duty = NoDuty /\ carried = FALSE /\ outcome = "none"

Next ==
  Decide \/ LookAgain \/ Carry \/ CarryAway \/ Discard \/ Dress \/ Conclude \/ GiveUp

Spec == Init /\ [][Next]_vars
==============================================================================
