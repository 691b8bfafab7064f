------------------------------- MODULE Espeak -------------------------------
(***************************************************************************)
(* The espeak output module, modules/espeak.c: a process of four threads.  *)
(*   - The main thread serves SPEAK, STOP, PAUSE and QUIT of the server.   *)
(*   - The synthesiser's thread calls synth_callback(), which fills the    *)
(*     playback queue and waits while the queue holds too much audio.      *)
(*   - The play thread empties the queue and reports BEGIN, marks and END. *)
(*   - The stop thread stops synthesis and playback and reports STOP or    *)
(*     PAUSE.                                                              *)
(* A section under espeak_state_mutex or playback_queue_mutex that does    *)
(* not wait is one step.  A thread is "busy" unless it holds its           *)
(* *_suspended_mutex, that is from sem_trywait() to pthread_mutex_lock()   *)
(* it is busy still, and until pthread_mutex_unlock() it is not busy yet.  *)
(***************************************************************************)
EXTENDS Naturals, Sequences, FiniteSets

CONSTANTS
  MaxMessages,               \* bound: messages the server sends
  MaxEntries,                \* bound: entries synthesised for one message
  MaxRequests,               \* bound: STOP and PAUSE commands of the server
  EspeakAudioQueueMaxSize    \* in chunks of audio

ASSUME EspeakAssumption ==
  /\ MaxMessages \in Nat /\ MaxEntries \in Nat /\ MaxRequests \in Nat
  /\ EspeakAudioQueueMaxSize \in Nat

VARIABLES
  espeak_state,
  espeak_pause_state,
  espeak_stop_requested,
  espeak_close_requested,
  espeak_state_mutex_kept,   \* the main thread will never unlock it
  playback_queue,    \* entries, each with the message it was made for
  play_semaphore,    \* espeak_play_semaphore
  stop_semaphore,    \* espeak_stop_or_pause_semaphore
  waiting,           \* threads blocked on playback_queue_condition
  ppc, entry,        \* the play thread and the entry it has popped
  spc, report,       \* the stop thread and the event it is to report
  cpc, made,         \* synth_callback() and the entries made for the message
  accepted,          \* the messages accepted are 1..accepted
  refused,           \* messages refused: the module was not idle
  told,              \* the events reported for each message
  speaking,          \* the server waits for the end of a message
  requests           \* STOP and PAUSE commands so far

stateVars == <<espeak_state, espeak_pause_state, espeak_stop_requested>>
lastingVars == <<espeak_close_requested, espeak_state_mutex_kept>>
playVars  == <<ppc, entry>>
stopVars  == <<spc, report>>
synthVars == <<cpc, made>>
serverVars == <<accepted, refused, speaking, requests>>
vars == <<stateVars, lastingVars, playback_queue, play_semaphore,
          stop_semaphore, waiting, playVars, stopVars, synthVars, serverVars,
          told>>

MessageIds == 1..MaxMessages
NoEntry    == [kind |-> "none", msg |-> 0]
Terminal   == {"END", "STOP", "PAUSE"}
NoReport   == [event |-> "none", msg |-> 0]

-----------------------------------------------------------------------------
\* The server and the pipes to it

Over(m) == \E i \in DOMAIN told[m] : told[m][i] \in Terminal

\* module_report_*: the module writes an event about m and the server reads
\* it; it takes every END, STOP or PAUSE for the end of what it sent last.
Tell(m, e) ==
  /\ told' = [told EXCEPT ![m] = Append(@, e)]
  /\ speaking' = (speaking /\ e \notin Terminal)
  /\ UNCHANGED <<accepted, refused, requests>>

\* The play thread, or the stop thread, is suspended: not is_thread_busy().
PlaySuspended == ppc \in {"suspended", "resumed"}
StopSuspended == spc \in {"suspended", "resumed"}

\* pthread_cond_signal wakes one of the threads that wait, if any.
Signal == waiting' \in IF waiting = {} THEN {{}} ELSE {waiting \ {t} : t \in waiting}

Room == Cardinality({i \in DOMAIN playback_queue : playback_queue[i].kind = "audio"})
          <= EspeakAudioQueueMaxSize

Push(kind) ==
  /\ playback_queue' = Append(playback_queue, [kind |-> kind, msg |-> accepted])
  /\ Signal

espeak_state_reset ==
  /\ espeak_state' = "IDLE"
  /\ espeak_pause_state' = "OFF"
  /\ espeak_stop_requested' = FALSE

Init ==
  /\ espeak_state = "IDLE"
  /\ espeak_pause_state = "OFF"
  /\ espeak_stop_requested = FALSE
  /\ espeak_close_requested = FALSE
  /\ espeak_state_mutex_kept = FALSE
  /\ playback_queue = <<>>
  /\ play_semaphore = 0 /\ stop_semaphore = 0
  /\ waiting = {}
  /\ ppc = "try" /\ entry = NoEntry
  /\ spc = "try" /\ report = NoReport
  /\ cpc = "none" /\ made = 0
  /\ accepted = 0 /\ refused = 0
  /\ told = [m \in MessageIds |-> <<>>]
  /\ speaking = FALSE
  /\ requests = 0

-----------------------------------------------------------------------------
\* The main thread

\* The server sends a message only in silence.
espeak_speak ==
  /\ ~espeak_state_mutex_kept
  /\ ~speaking /\ ~espeak_close_requested
  /\ accepted + refused < MaxMessages
  /\ espeak_state = "IDLE"
  /\ espeak_state' = "BEFORE_SYNTH"
  /\ espeak_pause_state' = "OFF"
  /\ espeak_stop_requested' = FALSE
  /\ accepted' = accepted + 1
  /\ speaking' = TRUE
  /\ cpc' = "queued" /\ made' = 0
  /\ UNCHANGED <<lastingVars, playback_queue, play_semaphore,
                 stop_semaphore, waiting, playVars, stopVars, refused,
                 requests, told>>

\* "301 ERROR CANT SPEAK": the server drops the message.
espeak_speak_refused ==
  /\ ~espeak_state_mutex_kept
  /\ ~speaking /\ ~espeak_close_requested
  /\ accepted + refused < MaxMessages
  /\ espeak_state # "IDLE"
  /\ refused' = refused + 1
  /\ UNCHANGED <<stateVars, lastingVars, playback_queue,
                 play_semaphore, stop_semaphore, waiting, playVars, stopVars,
                 synthVars, accepted, speaking, requests, told>>

\* espeak_Synth() fails, or the message is to be spelled: the message is
\* refused after the state was changed, and with the mutex held.
espeak_synth_fails ==
  /\ ~espeak_state_mutex_kept
  /\ ~speaking /\ ~espeak_close_requested
  /\ accepted + refused < MaxMessages
  /\ espeak_state = "IDLE"
  /\ espeak_state' = "BEFORE_SYNTH"
  /\ espeak_pause_state' = "OFF"
  /\ espeak_stop_requested' = FALSE
  /\ espeak_state_mutex_kept' = TRUE
  /\ refused' = refused + 1
  /\ UNCHANGED <<espeak_close_requested, playback_queue, play_semaphore,
                 stop_semaphore, waiting, playVars, stopVars, synthVars,
                 accepted, speaking, requests, told>>

\* espeak_stop: nothing happens while the stop thread is busy.
espeak_stop ==
  /\ ~espeak_state_mutex_kept
  /\ speaking /\ ~espeak_close_requested
  /\ requests < MaxRequests
  /\ requests' = requests + 1
  /\ IF espeak_state # "IDLE" /\ ~espeak_stop_requested /\ StopSuspended
     THEN espeak_stop_requested' = TRUE /\ stop_semaphore' = stop_semaphore + 1
     ELSE UNCHANGED <<espeak_stop_requested, stop_semaphore>>
  /\ UNCHANGED <<espeak_state, espeak_pause_state, lastingVars,
                 playback_queue, play_semaphore, waiting, playVars, stopVars,
                 synthVars, accepted, refused, speaking, told>>

espeak_pause ==
  /\ ~espeak_state_mutex_kept
  /\ speaking /\ ~espeak_close_requested
  /\ requests < MaxRequests
  /\ requests' = requests + 1
  /\ espeak_pause_state' = IF espeak_pause_state = "OFF" /\ ~espeak_stop_requested
                           THEN "REQUESTED" ELSE espeak_pause_state
  /\ UNCHANGED <<espeak_state, espeak_stop_requested, lastingVars,
                 playback_queue, play_semaphore, stop_semaphore, waiting,
                 playVars, stopVars, synthVars, accepted, refused, speaking, told>>

\* QUIT: both threads are woken and given 25 ms to end ...
espeak_close ==
  /\ ~espeak_close_requested
  /\ espeak_stop_requested' = TRUE
  /\ espeak_close_requested' = TRUE
  /\ waiting' = {}
  /\ play_semaphore' = play_semaphore + 1
  /\ stop_semaphore' = stop_semaphore + 1
  /\ UNCHANGED <<espeak_state, espeak_pause_state, espeak_state_mutex_kept,
                 playback_queue, playVars, stopVars, synthVars, serverVars, told>>

\* ... then what is left of them is canceled and the process exits.
espeak_exit ==
  /\ espeak_close_requested /\ ~(ppc = "ended" /\ spc = "ended" /\ cpc = "none")
  /\ ppc' = "ended" /\ spc' = "ended" /\ cpc' = "none"
  /\ playback_queue' = <<>> /\ waiting' = {}
  /\ UNCHANGED <<stateVars, lastingVars, play_semaphore,
                 stop_semaphore, entry, report, made, serverVars, told>>

-----------------------------------------------------------------------------
\* The synthesiser's thread

\* The first callback for a message puts BEGIN into the queue.
CallbackFirst ==
  /\ ~espeak_state_mutex_kept
  /\ cpc = "queued"
  /\ espeak_state = "BEFORE_SYNTH"
  /\ espeak_state' = "BEFORE_PLAY"
  /\ Push("begin")
  /\ play_semaphore' = play_semaphore + 1
  /\ cpc' = "check"
  /\ UNCHANGED <<espeak_pause_state, espeak_stop_requested, made,
                 lastingVars, stop_semaphore, playVars, stopVars,
                 serverVars, told>>

\* synth_callback returns 1 once a stop is requested, which ends synthesis.
CallbackStops ==
  /\ cpc = "check" /\ espeak_stop_requested
  /\ cpc' = "none"
  /\ UNCHANGED <<stateVars, lastingVars, playback_queue, made,
                 play_semaphore, stop_semaphore, waiting, playVars, stopVars,
                 serverVars, told>>

\* The next piece: audio needs room, everything else goes straight in.
CallbackNext ==
  /\ cpc = "check" /\ ~espeak_stop_requested
  /\ cpc' \in IF made < MaxEntries THEN {"room", "push"} ELSE {"push"}
  /\ UNCHANGED <<stateVars, lastingVars, playback_queue, made,
                 play_semaphore, stop_semaphore, waiting, playVars, stopVars,
                 serverVars, told>>

\* espeak_add_audio_to_playback_queue: wait on the condition while full.  The
\* mark or icon that the audio leads to is added without another look at
\* espeak_stop_requested.
CallbackWaits ==
  /\ cpc = "room" /\ "synth" \notin waiting
  /\ ~espeak_stop_requested /\ ~Room
  /\ waiting' = waiting \cup {"synth"}
  /\ UNCHANGED <<stateVars, lastingVars, playback_queue, synthVars,
                 play_semaphore, stop_semaphore, playVars, stopVars,
                 serverVars, told>>

CallbackAudio ==
  /\ cpc = "room" /\ "synth" \notin waiting
  /\ ~espeak_stop_requested /\ Room
  /\ Push("audio")
  /\ made' = made + 1
  /\ cpc' \in {"check"} \cup (IF made' < MaxEntries THEN {"mark"} ELSE {})
  /\ UNCHANGED <<stateVars, lastingVars, play_semaphore,
                 stop_semaphore, playVars, stopVars, serverVars, told>>

\* No room needed any more.
CallbackGivesUp ==
  /\ cpc = "room" /\ "synth" \notin waiting
  /\ espeak_stop_requested
  /\ cpc' \in {"check", "mark"}
  /\ UNCHANGED <<stateVars, lastingVars, playback_queue, made,
                 play_semaphore, stop_semaphore, waiting, playVars, stopVars,
                 serverVars, told>>

\* espeak_add_mark_, _sound_icon_, _flag_to_playback_queue
CallbackPush ==
  /\ cpc \in {"push", "mark"}
  /\ \E kind \in {"mark", "icon", "end"} :
       /\ IF kind = "end" THEN cpc = "push" ELSE made < MaxEntries
       /\ Push(kind)
       /\ IF kind = "end"
          THEN cpc' = "none" /\ UNCHANGED made
          ELSE cpc' = "check" /\ made' = made + 1
  /\ UNCHANGED <<stateVars, lastingVars, play_semaphore,
                 stop_semaphore, playVars, stopVars, serverVars, told>>

Synthesise ==
  \/ CallbackFirst \/ CallbackStops \/ CallbackNext \/ CallbackWaits
  \/ CallbackAudio \/ CallbackGivesUp \/ CallbackPush

-----------------------------------------------------------------------------
\* The play thread, _espeak_play

PlayUnchanged == UNCHANGED <<lastingVars, stopVars, synthVars,
                             accepted, refused, requests>>

\* sem_trywait, the lock, sem_wait, the unlock
PlaySleep ==
  /\ \/ ppc = "try" /\ espeak_close_requested /\ ppc' = "ended"
                    /\ UNCHANGED play_semaphore
     \/ /\ ppc = "try" /\ ~espeak_close_requested
        /\ IF play_semaphore > 0
           THEN ppc' = "awake" /\ play_semaphore' = play_semaphore - 1
           ELSE ppc' = "suspend" /\ UNCHANGED play_semaphore
     \/ ppc = "suspend" /\ ppc' = "suspended" /\ UNCHANGED play_semaphore
     \/ /\ ppc = "suspended" /\ play_semaphore > 0
        /\ play_semaphore' = play_semaphore - 1
        /\ ppc' = "resumed"
     \/ ppc = "resumed" /\ ppc' = "awake" /\ UNCHANGED play_semaphore
  /\ UNCHANGED <<stateVars, playback_queue, stop_semaphore, waiting, entry,
                 speaking, told>>
  /\ PlayUnchanged

\* A wake-up without anything to play is ignored.
PlayAwake ==
  /\ ppc = "awake"
  /\ ppc' = CASE espeak_close_requested -> "ended"
              [] ~espeak_close_requested /\ espeak_state \in {"IDLE", "BEFORE_SYNTH"} -> "try"
              [] OTHER -> "pop"
  /\ UNCHANGED <<stateVars, playback_queue, play_semaphore, stop_semaphore,
                 waiting, entry, speaking, told>>
  /\ PlayUnchanged

\* playback_queue_pop
playback_queue_pop ==
  /\ ppc = "pop" /\ "play" \notin waiting
  /\ \/ /\ espeak_stop_requested
        /\ ppc' = "try" /\ entry' = NoEntry
        /\ UNCHANGED <<playback_queue, waiting>>
     \/ /\ ~espeak_stop_requested /\ playback_queue = <<>>
        /\ waiting' = waiting \cup {"play"}
        /\ UNCHANGED <<playback_queue, ppc, entry>>
     \/ /\ ~espeak_stop_requested /\ playback_queue # <<>>
        /\ entry' = Head(playback_queue)
        /\ playback_queue' = Tail(playback_queue)
        /\ ppc' = "handle"
        /\ IF entry'.kind = "audio" THEN Signal ELSE UNCHANGED waiting
  /\ UNCHANGED <<stateVars, play_semaphore, stop_semaphore, speaking, told>>
  /\ PlayUnchanged

\* espeak_send_to_audio and espeak_play_file: the sound is over, or failed,
\* or opentts_audio_stop() cut it short.
PlaySound ==
  /\ ppc = "handle" /\ entry.kind \in {"audio", "icon"}
  /\ ppc' = "pop"
  /\ UNCHANGED <<stateVars, playback_queue, play_semaphore, stop_semaphore,
                 waiting, entry, speaking, told>>
  /\ PlayUnchanged

PlayBegin ==
  /\ ~espeak_state_mutex_kept
  /\ ppc = "handle" /\ entry.kind = "begin"
  /\ IF espeak_state = "BEFORE_PLAY"
     THEN espeak_state' = "SPEAKING" /\ ppc' = "tell_begin"
     ELSE UNCHANGED espeak_state /\ ppc' = "pop"
  /\ UNCHANGED <<espeak_pause_state, espeak_stop_requested, playback_queue,
                 play_semaphore, stop_semaphore, waiting, entry, speaking,
                 told>>
  /\ PlayUnchanged

PlayTellBegin ==
  /\ ppc = "tell_begin"
  /\ Tell(entry.msg, "BEGIN")
  /\ ppc' = "pop"
  /\ UNCHANGED <<stateVars, playback_queue, play_semaphore, stop_semaphore,
                 waiting, entry, lastingVars, stopVars, synthVars>>

PlayTellMark ==
  /\ ppc = "handle" /\ entry.kind = "mark"
  /\ Tell(entry.msg, "MARK")
  /\ ppc' = "mark"
  /\ UNCHANGED <<stateVars, playback_queue, play_semaphore, stop_semaphore,
                 waiting, entry, lastingVars, stopVars, synthVars>>

\* A pause happens at a mark of the server ("__spd_"), not at any other.
PlayPauses ==
  /\ ~espeak_state_mutex_kept
  /\ ppc = "mark"
  /\ espeak_state = "SPEAKING" /\ espeak_pause_state = "REQUESTED"
  /\ StopSuspended
  /\ espeak_stop_requested' = TRUE
  /\ espeak_pause_state' = "MARK_REPORTED"
  /\ stop_semaphore' = stop_semaphore + 1
  /\ ppc' = "try"
  /\ UNCHANGED <<espeak_state, playback_queue, play_semaphore, waiting,
                 entry, speaking, told>>
  /\ PlayUnchanged

PlayGoesOn ==
  /\ ~espeak_state_mutex_kept
  /\ ppc = "mark"
  /\ ppc' = "pop"
  /\ UNCHANGED <<stateVars, playback_queue, play_semaphore, stop_semaphore,
                 waiting, entry, speaking, told>>
  /\ PlayUnchanged

PlayEnd ==
  /\ ~espeak_state_mutex_kept
  /\ ppc = "handle" /\ entry.kind = "end"
  /\ IF espeak_state = "SPEAKING"
     THEN /\ ppc' = "tell_end"
          /\ IF espeak_stop_requested
             THEN UNCHANGED <<espeak_state, espeak_pause_state>>
             ELSE espeak_state' = "IDLE" /\ espeak_pause_state' = "OFF"
     ELSE ppc' = "pop" /\ UNCHANGED <<espeak_state, espeak_pause_state>>
  /\ UNCHANGED <<espeak_stop_requested, playback_queue, play_semaphore,
                 stop_semaphore, waiting, entry, speaking, told>>
  /\ PlayUnchanged

PlayTellEnd ==
  /\ ppc = "tell_end"
  /\ Tell(entry.msg, "END")
  /\ ppc' = "try"
  /\ UNCHANGED <<stateVars, playback_queue, play_semaphore, stop_semaphore,
                 waiting, entry, lastingVars, stopVars, synthVars>>

Play ==
  \/ PlaySleep \/ PlayAwake \/ playback_queue_pop \/ PlaySound \/ PlayBegin
  \/ PlayTellBegin \/ PlayTellMark \/ PlayPauses \/ PlayGoesOn \/ PlayEnd
  \/ PlayTellEnd

-----------------------------------------------------------------------------
\* The stop thread, _espeak_stop_or_pause

StopUnchanged == UNCHANGED <<lastingVars, play_semaphore, playVars,
                             accepted, refused, requests>>

StopSleep ==
  /\ \/ spc = "try" /\ espeak_close_requested /\ spc' = "ended"
                    /\ UNCHANGED stop_semaphore
     \/ /\ spc = "try" /\ ~espeak_close_requested
        /\ IF stop_semaphore > 0
           THEN spc' = "awake" /\ stop_semaphore' = stop_semaphore - 1
           ELSE spc' = "suspend" /\ UNCHANGED stop_semaphore
     \/ spc = "suspend" /\ spc' = "suspended" /\ UNCHANGED stop_semaphore
     \/ /\ spc = "suspended" /\ stop_semaphore > 0
        /\ stop_semaphore' = stop_semaphore - 1
        /\ spc' = "resumed"
     \/ spc = "resumed" /\ spc' = "awake" /\ UNCHANGED stop_semaphore
  /\ UNCHANGED <<stateVars, playback_queue, waiting, report, synthVars,
                 speaking, told>>
  /\ StopUnchanged

StopAwake ==
  /\ spc = "awake"
  /\ spc' = CASE espeak_close_requested -> "ended"
              [] ~espeak_close_requested /\ ~espeak_stop_requested -> "try"
              [] OTHER -> "broadcast"
  /\ UNCHANGED <<stateVars, playback_queue, stop_semaphore, waiting, report,
                 synthVars, speaking, told>>
  /\ StopUnchanged

\* Mutant: a callback that waits for room is not woken.
StopWakesNobody ==
  /\ spc = "broadcast"
  /\ spc' = "wait_play"
  /\ UNCHANGED <<stateVars, playback_queue, stop_semaphore, waiting, report,
                 synthVars, speaking, told>>
  /\ StopUnchanged

StopBroadcast ==
  /\ spc = "broadcast"
  /\ waiting' = {}
  /\ spc' = "wait_play"
  /\ UNCHANGED <<stateVars, playback_queue, stop_semaphore, report, synthVars,
                 speaking, told>>
  /\ StopUnchanged

\* Mutant: the play thread is told to stop, but not waited for.
StopDoesNotWait ==
  /\ spc = "wait_play"
  /\ spc' = "cancel"
  /\ UNCHANGED <<stateVars, playback_queue, stop_semaphore, waiting, report,
                 synthVars, speaking, told>>
  /\ StopUnchanged

\* opentts_audio_stop() until the play thread is suspended
StopWaitsForPlay ==
  /\ spc = "wait_play" /\ PlaySuspended
  /\ spc' = "cancel"
  /\ UNCHANGED <<stateVars, playback_queue, stop_semaphore, waiting, report,
                 synthVars, speaking, told>>
  /\ StopUnchanged

\* espeak_Cancel() waits for a callback to return and drops what is queued.
StopCancels ==
  /\ spc = "cancel" /\ cpc \in {"none", "queued", "check"}
  /\ cpc' = "none"
  /\ spc' = "clear"
  /\ UNCHANGED <<stateVars, playback_queue, stop_semaphore, waiting, report,
                 made, speaking, told>>
  /\ StopUnchanged

espeak_clear_playback_queue ==
  /\ spc = "clear"
  /\ playback_queue' = <<>>
  /\ spc' = "reset"
  /\ report' = [event |-> IF espeak_pause_state = "MARK_REPORTED"
                          THEN "PAUSE" ELSE "STOP",
                msg |-> accepted]
  /\ UNCHANGED <<stateVars, stop_semaphore, waiting, synthVars, speaking,
                 told>>
  /\ StopUnchanged

StopResets ==
  /\ ~espeak_state_mutex_kept
  /\ spc = "reset"
  /\ espeak_state_reset
  /\ spc' = "tell"
  /\ UNCHANGED <<playback_queue, stop_semaphore, waiting, report, synthVars,
                 speaking, told>>
  /\ StopUnchanged

StopTells ==
  /\ spc = "tell"
  /\ Tell(report.msg, report.event)
  /\ spc' = "try"
  /\ UNCHANGED <<stateVars, lastingVars, playback_queue,
                 play_semaphore, stop_semaphore, waiting, playVars, report,
                 synthVars>>

StopOrPause ==
  \/ StopSleep \/ StopAwake \/ StopBroadcast \/ StopWaitsForPlay
  \/ StopCancels \/ espeak_clear_playback_queue \/ StopResets \/ StopTells

-----------------------------------------------------------------------------
Server == espeak_speak \/ espeak_speak_refused \/ espeak_synth_fails
          \/ espeak_stop \/ espeak_pause

\* The process is gone.
Exited ==
  /\ espeak_close_requested
  /\ ppc = "ended" /\ spc = "ended" /\ cpc = "none"
  /\ UNCHANGED vars

Next ==
  \/ Server \/ espeak_close \/ espeak_exit
  \/ Synthesise \/ Play \/ StopOrPause
  \/ Exited

\* The threads are scheduled by the system; nobody has to send anything.
Fairness == WF_vars(Synthesise) /\ WF_vars(Play) /\ WF_vars(StopOrPause)

Spec == Init /\ [][Next]_vars /\ Fairness

-----------------------------------------------------------------------------
\* What the module promises

Sounding == ppc = "handle" /\ entry.kind \in {"audio", "icon"}

\* BEGIN comes first, nothing follows the end of a message, and it is heard
\* between the two: nothing of it is left in the queue for the next message to
\* run into, as stopping waits for the play thread, then for the callback, and
\* only then clears the queue.  Two exceptions, which the code makes: a message
\* stopped before its first sound has no BEGIN, and END may be followed by the
\* STOP of a request that came too late.  A pause takes effect at a mark: the
\* server resumes from the mark reported last, so nothing may be heard or
\* reported between it and PAUSE.
EventsInOrder ==
  /\ Sounding => told[entry.msg] # <<>> /\ ~Over(entry.msg)
  /\ \A i \in DOMAIN playback_queue :
       playback_queue[i].msg = accepted /\ ~Over(accepted)
  /\ \A m \in MessageIds : \A i \in DOMAIN told[m] :
       /\ told[m][i] = "BEGIN" <=> i = 1 /\ told[m] # <<"STOP">>
       /\ i < Len(told[m]) /\ told[m][i] \in Terminal
            => told[m][i] = "END" /\ told[m][i + 1] = "STOP" /\ i + 1 = Len(told[m])
       /\ told[m][i] = "PAUSE" => i > 1 /\ told[m][i - 1] = "MARK"

\* Whatever stops and pauses come and whoever waits for whom, the end of every
\* message accepted is reported, so that the server goes on with the next.
EveryMessageEnds ==
  \A m \in MessageIds :
    accepted = m ~> Over(m) \/ espeak_close_requested
=============================================================================
