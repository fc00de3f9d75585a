-------------------------------- MODULE MCPage --------------------------------
(* Instances of Page for TLC.                                              *)
EXTENDS Page, TLC

CONSTANTS ubuntu, fedora, s1, s2, none, loading, failed, idle, asked

State(ids, cur, dirty) == [ids |-> ids, cur |-> cur, dirty |-> dirty]
Bare == State({}, none, FALSE)
First == State({s1, s2}, s1, TRUE)
Second == State({s1, s2}, s2, FALSE)
Rootless == State({s2}, none, TRUE)      \* the current one was deleted
MCTrees == {Bare, First, Second, Rootless}

\* One machine is off, with a snapshot it is not in; the other runs.  The user
\* looks at trees, or uses the list.
MCStarts ==
    {[power |-> (ubuntu :> "shutoff" @@ fedora :> "running"),
      trees |-> (ubuntu :> First @@ fedora :> Second), user |-> u] :
        u \in {[may |-> {"select", "click"}, most |-> 3],
               [may |-> {"select", "press", "refresh"}, most |-> 2]}}
=============================================================================
