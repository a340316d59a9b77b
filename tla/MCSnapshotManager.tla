------------------------- MODULE MCSnapshotManager -------------------------
(***************************************************************************)
(* Instances of SnapshotManager for TLC.                                   *)
(***************************************************************************)
EXTENDS SnapshotManager, TLC

CONSTANTS t1, t2, i1, i2, i3, d1, d2

\* Tasks, ids and devices are interchangeable.
Symmetry == Permutations(Tasks) \cup Permutations(Ids) \cup Permutations(Devices)
=============================================================================
