----------------------------- MODULE MCSettings -----------------------------
(* Settings with one language that brings a module, and a configuration    *)
(* file with two sections, one of which sets what a block may not change.  *)
EXTENDS Settings

MCLanguageModules == [l \in {"en", "cs"} |-> IF l = "cs" THEN "festival" ELSE NULL]

MCClientSettings ==
    << [pattern |-> {"reader", "editor"},
        val |-> [voice_type |-> "MALE2", rate |-> "two"]],
       [pattern |-> {"reader"},
        val |-> [output_module |-> "festival", spelling |-> "two"]] >>
=============================================================================
