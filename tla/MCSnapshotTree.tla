--------------------------- MODULE MCSnapshotTree ---------------------------
(* Instances of SnapshotTree for TLC.  The names are alike, so that states *)
(* that differ by a renaming count once.                                   *)
EXTENDS SnapshotTree, TLC

CONSTANTS s1, s2, s3, s4, none

MCSymmetry == Permutations(Snaps)
=============================================================================
