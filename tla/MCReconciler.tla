---------------------------- MODULE MCReconciler -----------------------------
(***************************************************************************)
(* Small instances of Reconciler: one or two blocks per file, a plain, a   *)
(* private and a set-id mode, root as the only owner unless a run says     *)
(* otherwise.                                                              *)
(***************************************************************************)
EXTENDS ReconcilerRefinement, TLC

AllModes == {"0000", "0644", "0755", "4755", "0777"}

(* chown(2) drops the set-id bits.                                         *)
StrippedModes == [m \in AllModes |-> IF m = "4755" THEN "0755" ELSE m]

Modes == {"0000", "0644", "0755", "4755", "0777"}

(* Inodes are interchangeable, and so are clients.                         *)
Symmetry == Permutations(Ino) \cup Permutations(Client)
==============================================================================
