-------------------------- MODULE MCSnapshotStore --------------------------
(* Instances of SnapshotStore for TLC; names are alike, and so are disks.  *)
EXTENDS SnapshotStore, TLC

CONSTANTS s1, s2, s3, vda, vdb, none

MCWorlds == {{"words", "disk"}, {"list", "current"}, {"num"}, {"external", "list", "num"}}
MCWorded == {{"words"}}

MCSymmetry == Permutations(Names) \cup Permutations(Disks)
=============================================================================
