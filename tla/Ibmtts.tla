------------------------------- MODULE Ibmtts -------------------------------
(***************************************************************************)
(* The ibmtts output module, modules/ibmtts.c.  As in espeak.c there is a  *)
(* playback queue, a play thread and a stop thread, but the synthesiser    *)
(* runs in a third thread, the callback waits for nothing, and there is no *)
(* state beside the four flags and the mutexes a thread holds while it is  *)
(* suspended: whether the module is free is read off those.  A thread that *)
(* is not suspended is woken by nobody; it is expected to look again.      *)
(***************************************************************************)
EXTENDS Naturals, Sequences

CONSTANTS
  Requests,      \* what the server may send: "stop", "pause", "quit"
  MayFail,       \* the synthesiser may refuse a text
  Prompt,        \* a thread that was woken runs before the next command comes
  MaxMessages,   \* bound: messages the server sends
  MaxEntries,    \* bound: pieces of audio and marks made for one message
  MaxRequests    \* bound: STOP and PAUSE commands of the server

ASSUME IbmttsAssumption ==
  /\ Requests \subseteq {"stop", "pause", "quit"} /\ {MayFail, Prompt} \subseteq BOOLEAN
  /\ MaxMessages \in Nat /\ MaxEntries \in Nat /\ MaxRequests \in Nat

VARIABLES
  thread_exit_requested,
  stop_synth_requested, stop_play_requested, pause_requested,
  semaphore,         \* of each thread
  pc,                \* of each thread
  quitting,          \* the main thread: "no", "closing", "joining"
  playback_queue,    \* entries, each with the message it was made for
  entry,             \* the entry the play thread has taken
  index_mark_ht,     \* the message whose marks are in the table, 0 for NULL
  made,              \* pieces made for the message
  accepted,          \* the messages accepted are 1..accepted
  refused,           \* messages refused: the module was not free
  told,              \* the events reported for each message
  speaking,          \* the server waits for the end of a message
  requests,          \* STOP and PAUSE commands so far
  asked              \* ghost: the messages they were sent for

flags  == <<stop_synth_requested, stop_play_requested, pause_requested>>
server == <<accepted, refused, told, speaking, requests, asked>>
vars == <<thread_exit_requested, flags, semaphore, pc, quitting,
          playback_queue, entry, index_mark_ht, made, server>>

Threads    == {"synth", "play", "stop"}
MessageIds == 1..MaxMessages
Terminal   == {"END", "STOP", "PAUSE"}
NoEntry    == [kind |-> "none", msg |-> 0]

Init ==
  /\ thread_exit_requested = FALSE
  /\ stop_synth_requested = FALSE /\ stop_play_requested = FALSE
  /\ pause_requested = FALSE
  /\ semaphore = [t \in Threads |-> 0]
  /\ pc = [t \in Threads |-> "try"]
  /\ quitting = "no"
  /\ playback_queue = <<>> /\ entry = NoEntry
  /\ index_mark_ht = 0 /\ made = 0
  /\ accepted = 0 /\ refused = 0
  /\ told = [m \in MessageIds |-> <<>>]
  /\ speaking = FALSE /\ requests = 0 /\ asked = {}

-----------------------------------------------------------------------------
\* What the threads share

Goto(t, at) == pc' = [pc EXCEPT ![t] = at]
sem_post(t) == semaphore' = [semaphore EXCEPT ![t] = @ + 1]

\* The mutex of t is not locked: between sem_trywait() and the lock the
\* thread is busy still, between sem_wait() and the unlock not busy yet.
is_thread_busy(t) == pc[t] \notin {"suspended", "resumed"}

\* Between two commands of the server, and between two looks of the stop
\* thread, lies more time than a thread needs to wake up: nothing in the code
\* makes sure of it, and without it a stop may hit the next message.
NobodyIsWaking ==
  Prompt => \A t \in Threads :
    pc[t] # "resumed" /\ ~(pc[t] = "suspended" /\ semaphore[t] > 0)

\* sem_trywait, the lock, sem_wait, the unlock; the play thread does not look
\* at thread_exit_requested when it is woken, the others do.
Sleeps(t) ==
  /\ \/ pc[t] = "try" /\ thread_exit_requested /\ Goto(t, "ended")
                      /\ UNCHANGED semaphore
     \/ /\ pc[t] = "try" /\ ~thread_exit_requested
        /\ IF semaphore[t] > 0
           THEN Goto(t, "awake") /\ semaphore' = [semaphore EXCEPT ![t] = @ - 1]
           ELSE Goto(t, "suspend") /\ UNCHANGED semaphore
     \/ pc[t] = "suspend" /\ Goto(t, "suspended") /\ UNCHANGED semaphore
     \/ /\ pc[t] = "suspended" /\ semaphore[t] > 0
        /\ semaphore' = [semaphore EXCEPT ![t] = @ - 1]
        /\ Goto(t, "resumed")
     \/ /\ pc[t] = "resumed"
        /\ Goto(t, IF thread_exit_requested /\ t # "play" THEN "ended" ELSE "awake")
        /\ UNCHANGED semaphore
  /\ UNCHANGED <<thread_exit_requested, flags, quitting, playback_queue, entry,
                 index_mark_ht, made, server>>

Over(m) == \E i \in DOMAIN told[m] : told[m][i] \in Terminal

\* module_report_*; the server takes every END, STOP or PAUSE for the end of
\* the message it sent last
Tell(m, e) ==
  /\ told' = [told EXCEPT ![m] = Append(@, e)]
  /\ speaking' = (speaking /\ e \notin Terminal)
  /\ UNCHANGED <<accepted, refused, requests, asked>>

-----------------------------------------------------------------------------
\* The main thread

Arrives == quitting = "no" /\ NobodyIsWaking

MainUnchanged == UNCHANGED <<thread_exit_requested, pc, playback_queue, entry,
                             index_mark_ht, told>>

\* The server sends a message only in silence; "301 ERROR CANT SPEAK" when a
\* thread is not suspended yet.
ibmtts_speak ==
  /\ Arrives /\ ~speaking /\ accepted + refused < MaxMessages
  /\ IF \E t \in Threads : is_thread_busy(t)
     THEN /\ refused' = refused + 1
          /\ UNCHANGED <<accepted, speaking, semaphore, made>>
     ELSE /\ accepted' = accepted + 1 /\ speaking' = TRUE /\ made' = 0
          /\ sem_post("synth")
          /\ UNCHANGED refused
  /\ UNCHANGED <<flags, quitting, requests, asked>> /\ MainUnchanged

Requested(command) ==
  /\ command \in Requests /\ Arrives /\ speaking
  /\ requests < MaxRequests /\ requests' = requests + 1
  /\ asked' = asked \cup {<<command, accepted>>}

\* Mutant: the flags are set, the stop thread is left asleep.
StopNotPosted ==
  IF (is_thread_busy("synth") \/ is_thread_busy("play")) /\ ~is_thread_busy("stop")
  THEN /\ stop_synth_requested' = TRUE /\ stop_play_requested' = TRUE
       /\ UNCHANGED <<semaphore, pause_requested>>
  ELSE UNCHANGED <<flags, semaphore>>

\* Nothing happens while the stop thread is busy, or nobody else is.
RequestsStop ==
  IF (is_thread_busy("synth") \/ is_thread_busy("play")) /\ ~is_thread_busy("stop")
  THEN /\ stop_synth_requested' = TRUE /\ stop_play_requested' = TRUE
       /\ sem_post("stop") /\ UNCHANGED pause_requested
  ELSE UNCHANGED <<flags, semaphore>>

ibmtts_stop ==
  /\ Requested("stop")
  /\ RequestsStop
  /\ UNCHANGED <<quitting, made, accepted, refused, speaking>> /\ MainUnchanged

ibmtts_pause ==
  /\ Requested("pause")
  /\ pause_requested' = TRUE
  /\ sem_post("stop")
  /\ UNCHANGED <<stop_synth_requested, stop_play_requested, quitting, made,
                 accepted, refused, speaking>>
  /\ MainUnchanged

\* QUIT: what is spoken is stopped; then all threads are told to end ...
ibmtts_close ==
  /\ "quit" \in Requests /\ Arrives
  /\ quitting' = "closing"
  /\ RequestsStop
  /\ UNCHANGED <<made, accepted, refused, speaking, requests, asked>>
  /\ MainUnchanged

\* ... and joined
EndsThreads ==
  /\ quitting = "closing" /\ quitting' = "joining"
  /\ thread_exit_requested' = TRUE
  /\ semaphore' = [t \in Threads |-> semaphore[t] + 1]
  /\ UNCHANGED <<flags, pc, playback_queue, entry, index_mark_ht, made, server>>

-----------------------------------------------------------------------------
\* The synthesis thread, _ibmtts_synth()

SynthUnchanged == UNCHANGED <<thread_exit_requested, flags, quitting, entry, server>>

Push(kind) == playback_queue' = Append(playback_queue, [kind |-> kind, msg |-> accepted])

\* A new table of marks, BEGIN, and then either a sound icon or a text.
SynthBegins ==
  /\ pc["synth"] = "awake"
  /\ index_mark_ht' = accepted
  /\ Push("begin")
  /\ Goto("synth", "icon") \/ Goto("synth", "parts")
  /\ UNCHANGED <<semaphore, made>> /\ SynthUnchanged

SynthIcon ==
  /\ \/ pc["synth"] = "icon" /\ Push("icon") /\ Goto("synth", "icon_end")
     \/ pc["synth"] = "icon_end" /\ Push("end") /\ Goto("synth", "wake_last")
  /\ UNCHANGED <<semaphore, index_mark_ht, made>> /\ SynthUnchanged

\* The text goes to the synthesiser part by part, unless there is a stop.
process_text_mark ==
  /\ pc["synth"] = "parts"
  /\ \/ ~stop_synth_requested /\ Goto("synth", "synchronize")
     \/ (stop_synth_requested \/ MayFail) /\ Goto("synth", "try")
  /\ UNCHANGED <<semaphore, playback_queue, index_mark_ht, made>>
  /\ SynthUnchanged

\* eciCallback(): after a stop what is left is discarded.
eciCallback ==
  /\ pc["synth"] = "synchronize"
  /\ \/ /\ stop_synth_requested \/ stop_play_requested
        /\ Goto("synth", "try") /\ UNCHANGED <<playback_queue, made>>
     \/ /\ ~stop_synth_requested /\ ~stop_play_requested
        /\ \/ /\ made < MaxEntries /\ made' = made + 1
              /\ \E kind \in {"audio", "mark"} : Push(kind)
              /\ Goto("synth", "wake")
           \/ Push("end") /\ Goto("synth", "wake_last") /\ UNCHANGED made
  /\ UNCHANGED <<semaphore, index_mark_ht>> /\ SynthUnchanged

\* "Wake up the audio playback thread, if not already awake."
WakesPlay ==
  /\ pc["synth"] \in {"wake", "wake_last"}
  /\ IF is_thread_busy("play") THEN UNCHANGED semaphore ELSE sem_post("play")
  /\ Goto("synth", IF pc["synth"] = "wake" THEN "synchronize" ELSE "try")
  /\ UNCHANGED <<playback_queue, index_mark_ht, made>> /\ SynthUnchanged

Synth == \/ Sleeps("synth") \/ SynthBegins \/ SynthIcon \/ process_text_mark
         \/ eciCallback \/ WakesPlay

-----------------------------------------------------------------------------
\* The play thread, _ibmtts_play()

PlayUnchanged == UNCHANGED <<thread_exit_requested, stop_synth_requested,
                             pause_requested, semaphore, quitting,
                             index_mark_ht, made>>

PlayTakes ==
  /\ pc["play"] = "awake"
  /\ IF stop_play_requested \/ thread_exit_requested \/ playback_queue = <<>>
     THEN Goto("play", "try") /\ UNCHANGED <<playback_queue, entry>>
     ELSE /\ entry' = Head(playback_queue)
          /\ playback_queue' = Tail(playback_queue)
          /\ Goto("play", "handle")
  /\ UNCHANGED <<stop_play_requested, server>> /\ PlayUnchanged

\* the sound has been heard, or could not be played
Played ==
  /\ Goto("play", "awake")
  /\ UNCHANGED <<stop_play_requested, playback_queue, entry, server>>
  /\ PlayUnchanged

ibmtts_send_to_audio == pc["play"] = "handle" /\ entry.kind = "audio" /\ Played

ibmtts_play_file == pc["play"] = "handle" /\ entry.kind = "icon" /\ Played

PlayReports ==
  /\ pc["play"] = "handle" /\ entry.kind \in {"begin", "end"}
  /\ Tell(entry.msg, IF entry.kind = "begin" THEN "BEGIN" ELSE "END")
  /\ Goto("play", "awake")
  /\ UNCHANGED <<stop_play_requested, playback_queue, entry>> /\ PlayUnchanged

\* a mark without a name is left out
PlayReportsMark ==
  /\ pc["play"] = "handle" /\ entry.kind = "mark"
  /\ IF index_mark_ht = entry.msg
     THEN Tell(entry.msg, "MARK") /\ Goto("play", "marked")
     ELSE UNCHANGED server /\ Goto("play", "awake")
  /\ UNCHANGED <<stop_play_requested, playback_queue, entry>> /\ PlayUnchanged

\* a pause takes effect at the marks of the server, not at the client's own
PlayPauses ==
  /\ pc["play"] = "marked" /\ Goto("play", "awake")
  /\ \/ UNCHANGED stop_play_requested
     \/ pause_requested /\ stop_play_requested' = TRUE
  /\ UNCHANGED <<playback_queue, entry, server>> /\ PlayUnchanged

Play == \/ Sleeps("play") \/ PlayTakes \/ PlayReports
        \/ ibmtts_send_to_audio \/ ibmtts_play_file
        \/ PlayReportsMark \/ PlayPauses

-----------------------------------------------------------------------------
\* The stop thread, _ibmtts_stop_or_pause()

StopUnchanged == UNCHANGED <<thread_exit_requested, semaphore, quitting, entry, made>>

\* eciStop() and opentts_audio_stop() only make the others faster
StopStarts ==
  /\ pc["stop"] = "awake"
  /\ Goto("stop", IF stop_synth_requested \/ pause_requested
                  THEN "wait_synth" ELSE "try")
  /\ UNCHANGED <<flags, playback_queue, index_mark_ht, server>> /\ StopUnchanged

StopWaits ==
  /\ NobodyIsWaking
  /\ \/ pc["stop"] = "wait_synth" /\ ~is_thread_busy("synth") /\ Goto("stop", "wait_play")
     \/ pc["stop"] = "wait_play" /\ ~is_thread_busy("play") /\ Goto("stop", "clear")
  /\ UNCHANGED <<flags, playback_queue, index_mark_ht, server>> /\ StopUnchanged

\* Mutant: what is queued is left to be played.
ClearForgets ==
  /\ pc["stop"] = "clear"
  /\ Goto("stop", "table")
  /\ UNCHANGED <<flags, playback_queue, index_mark_ht, server>> /\ StopUnchanged

ibmtts_clear_playback_queue ==
  /\ pc["stop"] = "clear" /\ playback_queue' = <<>>
  /\ Goto("stop", "table")
  /\ UNCHANGED <<flags, index_mark_ht, server>> /\ StopUnchanged

StopDropsTable ==
  /\ pc["stop"] = "table" /\ index_mark_ht' = 0
  /\ Goto("stop", "tell")
  /\ UNCHANGED <<flags, playback_queue, server>> /\ StopUnchanged

StopTells ==
  /\ pc["stop"] = "tell"
  /\ Tell(accepted, IF stop_synth_requested THEN "STOP" ELSE "PAUSE")
  /\ Goto("stop", "reset")
  /\ UNCHANGED <<flags, playback_queue, index_mark_ht>> /\ StopUnchanged

StopResets ==
  /\ pc["stop"] = "reset"
  /\ stop_synth_requested' = FALSE /\ stop_play_requested' = FALSE
  /\ pause_requested' = FALSE
  /\ Goto("stop", "try")
  /\ UNCHANGED <<playback_queue, index_mark_ht, server>> /\ StopUnchanged

StopOrPause == \/ Sleeps("stop") \/ StopStarts \/ StopWaits \/ StopDropsTable
               \/ ibmtts_clear_playback_queue \/ StopTells \/ StopResets

-----------------------------------------------------------------------------
Main == ibmtts_speak \/ ibmtts_stop \/ ibmtts_pause \/ ibmtts_close

Next == Main \/ EndsThreads \/ Synth \/ Play \/ StopOrPause

\* The threads are scheduled; nobody has to send a command.
Spec == Init /\ [][Next]_vars /\ WF_vars(EndsThreads)
             /\ WF_vars(Synth) /\ WF_vars(Play) /\ WF_vars(StopOrPause)

-----------------------------------------------------------------------------
Sounding == pc["play"] = "handle" /\ entry.kind \in {"audio", "icon"}

\* BEGIN comes first and nothing follows the end of a message, but for the
\* STOP or PAUSE of a request that came too late.  What is heard lies in
\* between, and what is queued, and the table of marks, are of the message
\* being spoken: nothing but the suspended mutexes keeps the next message, or
\* the stop thread, from the queue and the table while they are in use.  A
\* message is stopped or paused only by a request that was sent for it:
\* ibmtts_speak() resets no flag, so each must have been used up before.
EventsInOrder ==
  /\ \A m \in MessageIds : \A i \in DOMAIN told[m] :
       /\ told[m][i] = "BEGIN" <=> i = 1 /\ told[m] \notin {<<"STOP">>, <<"PAUSE">>}
       /\ i < Len(told[m]) /\ told[m][i] \in Terminal
            => told[m][i] = "END" /\ told[m][i + 1] # "END" /\ i + 1 = Len(told[m])
       /\ told[m][i] = "STOP"  => <<"stop", m>> \in asked \/ quitting # "no"
       /\ told[m][i] = "PAUSE" => <<"pause", m>> \in asked
  /\ Sounding => told[entry.msg] # <<>> /\ ~Over(entry.msg)
  /\ \A i \in DOMAIN playback_queue : playback_queue[i].msg = accepted
  /\ pc["play"] = "handle" /\ entry.kind = "mark" => index_mark_ht = entry.msg

\* The stop thread waits for two threads that nobody wakes for it; they
\* suspend, and the stop is carried out, unless the module is closed.
StopCompletes == stop_synth_requested ~> ~stop_synth_requested \/ quitting # "no"

\* "After the audio stops playing, the event STOP, PAUSE or END must be
\* delivered" (doc/opentts.texi:2657).  It is not: when the callback adds END
\* while the play thread has found the queue empty and is not suspended yet,
\* the callback does not wake it, and it suspends with END in the queue.
EveryMessageEnds ==
  \A m \in MessageIds : accepted = m ~> Over(m) \/ quitting # "no"
=============================================================================
