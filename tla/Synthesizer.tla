---------------------------- MODULE Synthesizer ----------------------------
(***************************************************************************)
(* What an output module promises to the server about one message after    *)
(* the other (doc/opentts.texi 2794-2880): a message that was accepted is  *)
(* reported to begin, its index marks follow, and exactly one of END, STOP *)
(* and PAUSE ends it; nothing is reported of a message that is over.       *)
(* Drivers.tla shows that each of the modules keeps the promise.           *)
(***************************************************************************)
EXTENDS Sequences

CONSTANTS
    Untidy,     \* modules whose STOP and PAUSE may come without a BEGIN
    CanPause    \* modules that report PAUSE

VARIABLES
    driver,     \* the module
    phase,      \* what the server waits for: "quiet", "accepted" or "begun"
    said        \* what was reported of the last accepted message

vars == <<driver, phase, said>>

Init == phase = "quiet" /\ said = <<>>

\* 200 OK SPEAKING
Accept ==
    /\ phase = "quiet" /\ phase' = "accepted"
    /\ said' = <<>> /\ driver' = driver

Report(event) == said' = Append(said, event) /\ driver' = driver

Begin == phase = "accepted" /\ phase' = "begun" /\ Report("begin")

Mark == phase = "begun" /\ phase' = phase /\ Report("mark")

Finish(event) ==
    /\ event = "pause" => driver \in CanPause
    /\ \/ phase = "begun"
       \/ driver \in Untidy /\ phase = "accepted" /\ event # "end"
    /\ phase' = "quiet"
    /\ Report(event)

Next == \/ Accept \/ Begin \/ Mark
        \/ \E event \in {"end", "stop", "pause"} : Finish(event)

Spec == Init /\ [][Next]_vars
=============================================================================
