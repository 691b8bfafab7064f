------------------------------ MODULE Announcer -----------------------------
(***************************************************************************)
(* What the server promises its clients, whatever the priorities, blocks,  *)
(* pauses and failures do: it is one voice.  It announces one message at a *)
(* time, each taken from the messages that wait; a message that was        *)
(* neither spoken to its end nor set aside while it was spoken, and that   *)
(* does not wait, never comes back.                                        *)
(***************************************************************************)
EXTENDS Naturals

CONSTANT Limit    \* the number of messages ever received

VARIABLES
  received,       \* the messages received are 1..received
  waiting,        \* those that may still be spoken
  voice           \* the message being spoken, 0 in silence

avars == <<received, waiting, voice>>

AInit ==
  /\ received = 0
  /\ waiting = {}
  /\ voice = 0

\* A message arrives; it may make others, or itself, not wait any more.
AReceive ==
  /\ received < Limit
  /\ received' = received + 1
  /\ waiting' \subseteq waiting \cup {received + 1}
  /\ UNCHANGED voice

\* A message that waits is announced; its copies may be forgotten.
AStart ==
  /\ voice = 0
  /\ voice' \in waiting
  /\ waiting' \subseteq waiting
  /\ UNCHANGED received

\* The message being spoken is to be heard again after a pause.
ASetAside ==
  /\ voice # 0
  /\ waiting' = waiting \cup {voice}
  /\ UNCHANGED <<received, voice>>

\* Messages are canceled or dropped.
ADiscard ==
  /\ waiting' \subseteq waiting
  /\ UNCHANGED <<received, voice>>

ASilence ==
  /\ voice # 0
  /\ voice' = 0
  /\ UNCHANGED <<received, waiting>>

ANext == AReceive \/ AStart \/ ASetAside \/ ADiscard \/ ASilence

ASpec == AInit /\ [][ANext]_avars
=============================================================================
