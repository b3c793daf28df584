-------------------------- MODULE MCSourceBreaker --------------------------
(* Instances of SourceBreaker for TLC.                                      *)
EXTENDS SourceBreaker

OneSource  == <<"s1">>
TwoSources == <<"s1", "s2">>
=============================================================================
