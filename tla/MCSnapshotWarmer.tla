-------------------------- MODULE MCSnapshotWarmer --------------------------
(* Instances of SnapshotWarmer for TLC. *)
EXTENDS SnapshotWarmer

CONSTANTS p1, p2

TwoProcs == {p1, p2}
=============================================================================
