------------------------------ MODULE MCTexts ------------------------------
(* Texts for TLC: more marks than the texts have sentences.                *)
EXTENDS Texts

MCMarkNames == <<"mark0", "mark1", "mark2", "mark3", "mark4", "mark5", "mark6", "mark7">>
=============================================================================
