---------------------------- MODULE MCDirtyState ----------------------------
(* Instances of DirtyState for TLC.                                        *)
EXTENDS DirtyState

CONSTANTS vm1, vm2, vm3

\* A file shorter than the table, one longer than the capacity of 2, and one
\* that names a machine twice, with either mark.
MCFound ==
    { <<[name |-> vm1, clean |-> TRUE]>>,
      <<[name |-> vm3, clean |-> FALSE], [name |-> vm2, clean |-> FALSE],
        [name |-> vm1, clean |-> TRUE]>>,
      <<[name |-> vm1, clean |-> TRUE], [name |-> vm1, clean |-> FALSE]>> }

MCWorlds == {{}, {"save"}, {"load", "power"}, {"doubles"}}
=============================================================================
