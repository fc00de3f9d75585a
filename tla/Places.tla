--------------------------------- MODULE Places ---------------------------------
(***************************************************************************)
(* Places in a text.  A text is a sequence of characters, a character a    *)
(* short string; what the code finds in one, it finds at a place.          *)
(***************************************************************************)
EXTENDS Integers, Sequences

Seqs == INSTANCE SequencesExt

\* The first of a set of places, or the other one.
First(places, other) ==
    IF places = {} THEN other ELSE CHOOSE p \in places : \A q \in places : p <= q

\* The last of them.
LastIn(places, other) ==
    IF places = {} THEN other ELSE CHOOSE p \in places : \A q \in places : q <= p
=============================================================================
