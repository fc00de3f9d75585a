---------------------------- MODULE MCSmartRevert ----------------------------
(* Instances of SmartRevert for TLC: one machine and one window.  Machines *)
(* share nothing but the handler thread, which a second one only delays.   *)
EXTENDS SmartRevert

CONSTANTS vm1, tab1

\* With three versions a machine can diverge, be saved and diverge again; two
\* snapshots at once are enough, since any of them may be deleted.
Watched == [has |-> {"watched"}, top |-> 2, most |-> 2]
MCWorlds == {Watched,
             [has |-> {"save"}, top |-> 1, most |-> 2],
             [has |-> {"external", "list"}, top |-> 1, most |-> 1]}
MCWatched == {Watched}
=============================================================================
