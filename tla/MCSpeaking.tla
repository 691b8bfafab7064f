----------------------------- MODULE MCSpeaking -----------------------------
(***************************************************************************)
(* Instances of Speaking for the model checker.                            *)
(***************************************************************************)
EXTENDS Speaking, TLC

ClientSymmetry == Permutations(Clients)

\* The bound of the run with faults: the module fails or reports index marks only
\* while one client is connected, no other has left messages or a pause behind,
\* and the messages are texts.
OneClientLeft ==
  \E c \in connected :
    /\ connected = {c}
    /\ priority[c] = TEXT
    /\ \A d \in Clients \ {c} : ~paused[d]
    /\ current_message.uid \in {c, NoClient}
    /\ \A q \in {MessagePausedList} \cup {queues[p] : p \in Priorities} :
         \A m \in Range(q) : m.uid = c
FaultsForOneClient ==
  \/ OneClientLeft
  \/ /\ ~(ModuleCrash \/ ModuleMark)
     /\ ~\E p \in Priorities : \E i \in DOMAIN queues[p] : SpeakFails(p, i)
=============================================================================
