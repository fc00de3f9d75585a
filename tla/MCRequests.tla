----------------------------- MODULE MCRequests -----------------------------
(* Instances of Requests for TLC, with the texts that requests are made    *)
(* of; connections are alike.                                              *)
EXTENDS RequestTexts, TLC

CONSTANTS c1, c2

\* Names as they are, one that ends the path and one that is decoded and cut.
MCVms == {<<"vm">>}
MCSnaps == {<<"first">>, <<"form">>, <<"before", "?">>}
MCTags == {<<"docs">>, <<"form">>, <<"automount">>, <<"a", "%2F", "b">>}

AllOperations == {r.op : r \in AllRequests}

MCSymmetry == Permutations(Conns)
=============================================================================
