---------------------------- MODULE MCActivation ----------------------------
(* Instances of Activation for TLC, with files of settings.                *)
EXTENDS ServiceConfig

CONSTANTS ann, bob, curl, none

MCChars == {"p", "u", "x", "1", "a", "=", "space"}
MCKeys == {<<"p">>, <<"u">>}
MCValues == {<<>>, <<"1">>, <<"a", "space", "=">>}
=============================================================================
