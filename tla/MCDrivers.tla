----------------------------- MODULE MCDrivers -----------------------------
(* Texts for Drivers: empty, one part, and parts with index marks between. *)
EXTENDS Drivers

SampleTexts == {<<>>, <<"sound">>, <<"mark", "sound">>,
                <<"sound", "mark", "sound">>}
=============================================================================
