--------------------------- MODULE MCSharedFolders ---------------------------
(* Instances of SharedFolders for TLC.                                     *)
EXTENDS SharedFolders

\* The scripts for systemd and OpenRC, and none, on a quiet host; the worst a
\* guest without one can do.
MCWorlds == {{"automount"}, {}, {"late", "disturbed"}, {"automount", "openrc"}}
==============================================================================
