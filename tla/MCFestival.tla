----------------------------- MODULE MCFestival -----------------------------
(* Festival for TLC: the text of an event that fits into the cache twice,  *)
(* and one that does not fit.                                               *)
EXTENDS Festival, TLC

MCSizeOf == "a" :> 1 @@ "tune" :> 3
MCDistinguished == {{}, {"voice_type", "rate"}}
=============================================================================
