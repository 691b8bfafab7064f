------------------------------ MODULE Drivers ------------------------------
(***************************************************************************)
(* The output modules that speak from a thread of their own.  Each is a    *)
(* process with two threads.  The main thread (module_main.c) reads a      *)
(* command, takes module_stdout_mutex, lets the module handle the command, *)
(* prints the reply and gives the mutex back.  The speaking thread sleeps  *)
(* on a semaphore, takes the text from a variable, plays it part by part   *)
(* and reports the events, each under the same mutex.  The two share flags *)
(* that no lock protects.  Three families of modules differ in how a       *)
(* message is stopped:                                                     *)
(*   flite, ivona, cicero, milena, mbrpipe, festival  poll a flag,         *)
(*   dummy, generic   kill the child process that plays,                   *)
(*   pico             moves an atomic state.                               *)
(* The server is the environment: it sends a message only when the last    *)
(* accepted one was reported to be over, STOP, PAUSE and QUIT at any time. *)
(***************************************************************************)
EXTENDS Integers, Sequences

CONSTANTS
    Families,      \* the modules to check, a set of names
    Texts,         \* the texts of messages: sequences of "sound" and "mark"
    MaxMessages,   \* bound: SPEAK commands
    MaxControls,   \* bound: STOP and PAUSE commands
    MayFail        \* TRUE: fork, pipe, the synthesiser and the device may fail

Flagged == {"flite", "ivona", "cicero", "milena", "mbrpipe", "festival"}
Forking == {"dummy", "generic"}

ASSUME DriversAssumption ==
    /\ Families \subseteq Flagged \cup Forking \cup {"pico"}
    /\ \A t \in Texts : t \in Seq({"sound", "mark"})
    /\ {MaxMessages, MaxControls} \subseteq Nat
    /\ MayFail \in BOOLEAN

VARIABLES
    driver,     \* the module, one of Families
    cmd,        \* the command the main thread handles, or how it ended
    sent, controls,   \* commands sent so far
    speaking,   \* <module>_speaking
    stopped,    \* <module>_stopped
    pauseReq,   \* <module>_pause_requested
    state,      \* pico_state
    crashed,    \* festival_connection_crashed
    sem,        \* the semaphore of the speaking thread
    pc,         \* where the speaking thread is
    text,       \* <module>_message
    event,      \* festival: the message is a character, a key or an icon
    rest,       \* what the thread has still to play
    fed,        \* pico: parts given to the engine and not played yet
    child,      \* the child process of dummy and generic
    pipe,       \* the two pipes between generic and its child
    told,       \* events reported since the last accepted message
    waits,      \* the server waits for the end of the accepted message
    since,      \* parts started since a STOP of the begun message, -1 without
    failed      \* a fault was taken

server  == <<sent, controls>>
flags   == <<speaking, stopped, pauseReq>>
message == <<text, event>>
process == <<child, pipe>>
special == <<state, crashed, fed>>
ghosts  == <<told, waits, since>>
vars == <<driver, cmd, server, flags, special, sem, pc, message, rest,
          process, ghosts, failed>>

Terminal == {"end", "stop", "pause"}
IsSound(part) == part = "sound"

Init ==
    /\ driver \in Families
    /\ cmd = "none" /\ sent = 0 /\ controls = 0
    /\ speaking = FALSE /\ stopped = FALSE /\ pauseReq = FALSE
    /\ state = "IDLE" /\ crashed = FALSE /\ fed = 0
    /\ sem = 0
    /\ pc = IF driver = "pico" THEN "top" ELSE "sleep"
    /\ text = <<>> /\ event = FALSE /\ rest = <<>>
    /\ child = "none" /\ pipe = "closed"
    /\ told = <<>> /\ waits = FALSE /\ since = -1
    /\ failed = FALSE

-----------------------------------------------------------------------------
(* The main thread: a command is handled with module_stdout_mutex held,    *)
(* which is what cmd # "none" means.                                       *)

MainUnchanged == UNCHANGED <<driver, pc, rest, fed>>

\* the server's side, and dispatch_cmd() taking the mutex
SendSpeak ==
    /\ cmd = "none" /\ ~waits /\ sent < MaxMessages
    /\ cmd' = "speak" /\ sent' = sent + 1
    /\ UNCHANGED <<driver, controls, flags, special, sem, pc, message, rest,
                   process, ghosts, failed>>

SendControl(c) ==
    /\ cmd = "none" /\ controls < MaxControls
    /\ cmd' = c /\ controls' = controls + 1
    /\ UNCHANGED <<driver, sent, flags, special, sem, pc, message, rest,
                   process, ghosts, failed>>

SendQuit ==
    /\ cmd = "none"
    /\ cmd' = "quit"
    /\ UNCHANGED <<driver, server, flags, special, sem, pc, message, rest,
                   process, ghosts, failed>>

\* the reply is printed, the mutex given back
Replies ==
    /\ cmd \in {"accepted", "refused"}
    /\ cmd' = "none"
    /\ UNCHANGED <<driver, server, flags, special, sem, pc, message, rest,
                   process, ghosts, failed>>

Accepts(txt, ev) ==
    /\ cmd' = "accepted"
    /\ sem' = sem + 1
    /\ text' = txt /\ event' = ev
    /\ waits' = TRUE /\ told' = <<>> /\ since' = -1

\* 301 ERROR CANT SPEAK: the server goes on to the next message
Refuses == cmd' = "refused" /\ UNCHANGED <<sem, message, ghosts>>

\* the speak functions of all modules but pico and festival
StartsSpeaking(ds) ==
    /\ cmd = "speak" /\ driver \in ds
    /\ \/ speaking /\ Refuses /\ UNCHANGED speaking
       \/ ~speaking /\ speaking' = TRUE
          /\ \E t \in Texts : Accepts(SelectSeq(t, IsSound), FALSE)
    /\ UNCHANGED <<server, stopped, pauseReq, special, process, failed>>
    /\ MainUnchanged

fl_speak      == StartsSpeaking({"flite"})
ivona_speak   == StartsSpeaking({"ivona"})
cicero_speak  == StartsSpeaking({"cicero"})
milena_speak  == StartsSpeaking({"milena"})
mbrpipe_speak == StartsSpeaking({"mbrpipe"})
dummy_speak   == StartsSpeaking({"dummy"})

\* the text may also be refused because it cannot be recoded
generic_speak ==
    \/ StartsSpeaking({"generic"})
    \/ /\ cmd = "speak" /\ driver = "generic" /\ MayFail /\ ~speaking
       /\ Refuses
       /\ UNCHANGED <<server, flags, special, process, failed>>
       /\ MainUnchanged

festival_speak ==
    /\ cmd = "speak" /\ driver = "festival"
    /\ \/ speaking /\ Refuses /\ UNCHANGED <<speaking, crashed>>
       \/ ~speaking /\ crashed /\ Refuses /\ UNCHANGED <<speaking, crashed>>
       \/ /\ ~speaking
          /\ crashed' = FALSE          \* festivalOpen() after a crash
          /\ speaking' = TRUE
          /\ \/ \E t \in Texts : Accepts(t, FALSE)
             \/ Accepts(<<"sound">>, TRUE)
    /\ UNCHANGED <<server, stopped, pauseReq, state, process, failed>>
    /\ MainUnchanged

pico_speak ==
    /\ cmd = "speak" /\ driver = "pico"
    /\ \/ state # "IDLE" /\ Refuses /\ UNCHANGED state
       \/ /\ state = "IDLE" /\ state' = "PLAY"
          /\ \E t \in Texts : Accepts(SelectSeq(t, IsSound), FALSE)
    /\ UNCHANGED <<server, flags, crashed, process, failed>>
    /\ MainUnchanged

\* STOP of a message that has begun and is not over: count what is played on
Counts == since' = IF waits /\ told # <<>> /\ since = -1 THEN 0 ELSE since
ControlDone ==
    /\ cmd' = "none"
    /\ UNCHANGED <<server, crashed, sem, message, pipe, told, waits, failed>>
    /\ MainUnchanged

RaisesStopped == stopped' = TRUE /\ Counts

StopByFlag(d) ==
    /\ cmd = "stop" /\ driver = d
    /\ RaisesStopped
    /\ UNCHANGED <<speaking, pauseReq, state, child>>
    /\ ControlDone

fl_stop      == StopByFlag("flite")
ivona_stop   == StopByFlag("ivona")
cicero_stop  == StopByFlag("cicero")
milena_stop  == StopByFlag("milena")
mbrpipe_stop == StopByFlag("mbrpipe")

festival_stop ==
    /\ cmd = "stop" /\ driver = "festival"
    /\ IF speaking THEN RaisesStopped ELSE UNCHANGED <<stopped, since>>
    /\ UNCHANGED <<speaking, pauseReq, state, child>>
    /\ ControlDone

\* kill(-pid): the group exists from the child's setpgid() to its end
KillsGroup == child' = IF speaking /\ child \in {"idle", "playing"}
                       THEN "killed" ELSE child

StopByKill(d) ==
    /\ cmd = "stop" /\ driver = d
    /\ KillsGroup
    /\ UNCHANGED <<flags, state, since>>
    /\ ControlDone

dummy_stop   == StopByKill("dummy")
generic_stop == StopByKill("generic")

pico_stop ==
    /\ cmd = "stop" /\ driver = "pico"
    /\ state' = IF state = "PLAY" THEN "STOP" ELSE state
    /\ UNCHANGED <<flags, child, since>>
    /\ ControlDone

\* modules that cannot pause stop instead
PauseByFlag(d) ==
    /\ cmd = "pause" /\ driver = d
    /\ IF speaking THEN RaisesStopped ELSE UNCHANGED <<stopped, since>>
    /\ UNCHANGED <<speaking, pauseReq, state, child>>
    /\ ControlDone

fl_pause      == PauseByFlag("flite")
ivona_pause   == PauseByFlag("ivona")
milena_pause  == PauseByFlag("milena")
mbrpipe_pause == PauseByFlag("mbrpipe")

\* cicero only remembers that a pause was asked for, and stops
cicero_pause ==
    /\ cmd = "pause" /\ driver = "cicero"
    /\ pauseReq' = speaking
    /\ IF speaking THEN RaisesStopped ELSE UNCHANGED <<stopped, since>>
    /\ UNCHANGED <<speaking, state, child>>
    /\ ControlDone

PauseLater(d) ==
    /\ cmd = "pause" /\ driver = d
    /\ pauseReq' = (speaking \/ pauseReq)
    /\ UNCHANGED <<speaking, stopped, state, child, since>>
    /\ ControlDone

generic_pause  == PauseLater("generic")
festival_pause == PauseLater("festival")

dummy_pause ==
    /\ cmd = "pause" /\ driver = "dummy"
    /\ UNCHANGED <<flags, state, child, since>>
    /\ ControlDone

pico_pause ==
    /\ cmd = "pause" /\ driver = "pico"
    /\ state' = IF state = "PLAY" THEN "PAUSE" ELSE state
    /\ UNCHANGED <<flags, child, since>>
    /\ ControlDone

-----------------------------------------------------------------------------
(* QUIT: do_quit() answers and calls the close function, still with the    *)
(* mutex held.                                                             *)

CloseDone ==
    /\ UNCHANGED <<driver, server, speaking, pauseReq, crashed, fed, message,
                   rest, pipe, told, waits, since, failed>>

CloseByFlag(d) ==
    /\ cmd = "quit" /\ driver = d
    /\ stopped' = (speaking \/ stopped)
    /\ cmd' = "join"
    /\ UNCHANGED <<state, sem, pc, child>>
    /\ CloseDone

fl_close      == CloseByFlag("flite")
ivona_close   == CloseByFlag("ivona")
cicero_close  == CloseByFlag("cicero")
milena_close  == CloseByFlag("milena")
mbrpipe_close == CloseByFlag("mbrpipe")

CloseByKill(d) ==
    /\ cmd = "quit" /\ driver = d
    /\ KillsGroup
    /\ cmd' = "join"
    /\ UNCHANGED <<stopped, state, sem, pc>>
    /\ CloseDone

dummy_close   == CloseByKill("dummy")
generic_close == CloseByKill("generic")

\* asks again and again until the thread is not speaking any more
festival_close ==
    /\ cmd = "quit" /\ driver = "festival"
    /\ IF speaking THEN stopped' = TRUE /\ cmd' = cmd
                   ELSE cmd' = "join" /\ UNCHANGED stopped
    /\ UNCHANGED <<state, sem, pc, child>>
    /\ CloseDone

pico_close ==
    /\ cmd = "quit" /\ driver = "pico"
    /\ state' = "CLOSE" /\ sem' = sem + 1
    /\ cmd' = "join"
    /\ UNCHANGED <<stopped, pc, child>>
    /\ CloseDone

\* Mutant: the thread is joined but not cancelled.
JoinsOnly ==
    /\ cmd = "join" /\ pc = "returned"
    /\ cmd' = "exited"
    /\ pipe' = "closed"
    /\ UNCHANGED <<driver, pc, server, flags, special, sem, message, rest, child,
                   ghosts, failed>>

\* pthread_cancel(), which the thread takes at any instruction, and
\* pthread_join(); pico only joins.  Then exit() closes the pipes.
module_terminate_thread ==
    /\ cmd = "join"
    /\ driver = "pico" => pc = "returned"
    /\ pc' = "returned"
    /\ cmd' = "exited"
    /\ pipe' = "closed"
    /\ UNCHANGED <<driver, server, flags, special, sem, message, rest, child,
                   ghosts, failed>>

-----------------------------------------------------------------------------
(* The speaking thread: steps that several modules share.                  *)

ThreadUnchanged == UNCHANGED <<driver, cmd, server, message>>
ToldUnchanged   == UNCHANGED ghosts

\* sem_wait() returns
Wakes ==
    /\ pc = "sleep" /\ sem > 0
    /\ sem' = sem - 1 /\ pc' = "woken"
    /\ UNCHANGED <<flags, special, rest, process, failed>>
    /\ ThreadUnchanged /\ ToldUnchanged

\* the flags are set again: a STOP that came before is forgotten
Starts ==
    /\ pc = "woken"
    /\ stopped' = FALSE /\ speaking' = TRUE
    /\ pc' = "begin"
    /\ UNCHANGED <<pauseReq, special, sem, rest, process, failed>>
    /\ ThreadUnchanged /\ ToldUnchanged

\* module_send_asynchronous(): only while no command is being handled
Tells(ev) ==
    /\ cmd = "none"
    /\ told' = Append(told, ev)
    /\ waits' = (waits /\ ev \notin Terminal)
    /\ since' = IF ev \in Terminal THEN -1 ELSE since
    /\ UNCHANGED <<special, sem, failed>>
    /\ ThreadUnchanged

Begins(next) ==
    /\ pc = "begin" /\ Tells("begin")
    /\ rest' = text
    /\ pc' = next
    /\ UNCHANGED <<flags, process>>

\* a step that neither reports nor plays
Moves(from, to) ==
    /\ pc = from /\ pc' = to
    /\ UNCHANGED <<stopped, pauseReq, special, sem, process, failed>>
    /\ ThreadUnchanged /\ ToldUnchanged

Silent(from, to)   == Moves(from, to) /\ UNCHANGED <<speaking, rest>>
Finishes(from, ev) == Moves(from, ev) /\ speaking' = FALSE /\ UNCHANGED rest
GetsPart(from, to) == Moves(from, to) /\ rest # <<>> /\ rest' = Tail(rest)
                      /\ UNCHANGED speaking

StopSeen(at) == stopped /\ Finishes(at, "stop")
\* Mutant: the flag is not looked at.
ChecksNothing(from, to) == Silent(from, to)
Checks(from, to) == ~stopped /\ Silent(from, to)

Started == since' = IF since >= 0 THEN since + 1 ELSE since

\* opentts_audio_play() is called
Plays(from, to) ==
    /\ pc = from /\ pc' = to
    /\ Started
    /\ UNCHANGED <<flags, special, sem, rest, process, told, waits, failed>>
    /\ ThreadUnchanged

\* Mutant: after STOP the thread goes on to report END.
EndsAgain(to) ==
    /\ pc \in Terminal /\ Tells(pc)
    /\ pc' = IF pc = "stop" THEN "end" ELSE to
    /\ UNCHANGED <<flags, rest, process>>

\* the last report of a message
Ends(to) ==
    /\ pc \in Terminal /\ Tells(pc)
    /\ pc' = to
    /\ UNCHANGED <<flags, rest, process>>

Resets(spoke) ==
    /\ pc = "reset" /\ pc' = "sleep"
    /\ stopped' = FALSE /\ speaking' = (speaking /\ spoke)
    /\ UNCHANGED <<pauseReq, special, sem, rest, process, failed>>
    /\ ThreadUnchanged /\ ToldUnchanged

\* the message is given up without a report
GivesUp(from, to, spoke) ==
    /\ MayFail
    /\ pc = from /\ pc' = to
    /\ speaking' = spoke
    /\ failed' = TRUE
    /\ UNCHANGED <<stopped, pauseReq, special, sem, rest, process>>
    /\ ThreadUnchanged /\ ToldUnchanged

-----------------------------------------------------------------------------
(* The threads that poll a flag.                                           *)

PollingLoop ==
    \/ Wakes \/ Starts \/ Begins("loop")
    \/ StopSeen("loop") \/ Checks("loop", "part") \/ GetsPart("part", "ready")
    \/ StopSeen("playing")
    \/ Ends("reset")

NoMoreParts(ev) == rest = <<>> /\ Finishes("part", ev)
LastStopSeen    == NoMoreParts(IF stopped THEN "stop" ELSE "end")
PlaysUnlessStopped == StopSeen("ready") \/ (~stopped /\ Plays("ready", "playing"))
PlayedPart == Checks("playing", "loop")

\* the volume may not be set (the thread sleeps with flite_speaking = 1),
\* the text may give no wave
_flite_speak ==
    /\ driver = "flite"
    /\ \/ PollingLoop \/ NoMoreParts("end") \/ PlaysUnlessStopped \/ PlayedPart
       \/ GivesUp("begin", "sleep", TRUE)
       \/ MayFail /\ Finishes("ready", "stop")
       \/ Resets(TRUE)

_ivona_speak ==
    /\ driver = "ivona"
    /\ \/ PollingLoop \/ LastStopSeen \/ PlaysUnlessStopped \/ PlayedPart
       \/ Resets(TRUE)

milena_speak_routine ==
    /\ driver = "milena"
    /\ \/ PollingLoop \/ LastStopSeen \/ PlayedPart
       \/ Plays("ready", "playing")
       \/ Resets(TRUE)

\* the program that makes the phonemes may not start: no report at all
mbrpipe_speak_routine ==
    /\ driver = "mbrpipe"
    /\ \/ PollingLoop \/ LastStopSeen \/ PlaysUnlessStopped \/ PlayedPart
       \/ GivesUp("ready", "reset", TRUE)
       \/ Resets(FALSE)

\* speaking is cleared after every part, and only after END was reported
_cicero_speak ==
    /\ driver = "cicero"
    /\ \/ PollingLoop
       \/ rest = <<>> /\ Silent("part", "end")
       \/ Plays("ready", "playing")
       \/ ~stopped /\ Finishes("playing", "loop")
       \/ MayFail /\ Silent("playing", "stop")
       \/ Resets(FALSE)

-----------------------------------------------------------------------------
(* festival: the wave comes from the cache, in one piece, or piece by      *)
(* piece with index marks between.                                         *)

\* CLEAN_UP and CLP: both flags are cleared before the report
CleansUp(from, ev) ==
    /\ pc = from /\ pc' = ev
    /\ stopped' = FALSE /\ speaking' = FALSE
    /\ UNCHANGED <<pauseReq, special, sem, rest, process, failed>>
    /\ ThreadUnchanged /\ ToldUnchanged

FestivalCached ==
    /\ event
    /\ \/ Plays("start", "cached")
       \/ CleansUp("start", "end")
       \/ CleansUp("cached", IF stopped THEN "stop" ELSE "end")

FestivalRequests ==
    \/ Silent("start", "next")
    \/ MayFail /\ CleansUp("start", "stop")

FestivalCrashes ==
    /\ MayFail
    /\ pc = "fetch" /\ pc' = "over"
    /\ crashed' = TRUE
    /\ UNCHANGED <<flags, state, fed, sem, rest, process, failed>>
    /\ ThreadUnchanged /\ ToldUnchanged

FestivalFetches ==
    \/ ~event /\ stopped /\ CleansUp("next", "stop")
    \/ (event \/ ~stopped) /\ Silent("next", "fetch")
    \/ rest = <<>> /\ Silent("fetch", "over")
    \/ CleansUp("over", "end")
    \/ /\ rest # <<>>
       /\ GetsPart("fetch", IF IsSound(Head(rest)) THEN "ready"
                            ELSE IF pauseReq THEN "last_mark" ELSE "mark")

FestivalMarks ==
    /\ pc \in {"mark", "last_mark"} /\ Tells("mark")
    /\ pc' = IF pc = "mark" THEN "next" ELSE "paused"
    /\ pauseReq' = (pauseReq /\ pc = "mark")
    /\ UNCHANGED <<speaking, stopped, rest, process>>

FestivalPlays ==
    \/ stopped /\ CleansUp("ready", "stop")
    \/ ~stopped /\ Plays("ready", "playing")
    \/ event /\ CleansUp("playing", "end")
    \/ ~event /\ stopped /\ CleansUp("playing", "stop")
    \/ ~event /\ Checks("playing", "next")

_festival_speak ==
    /\ driver = "festival"
    /\ \/ Wakes \/ Starts \/ Begins("start")
       \/ FestivalCached \/ FestivalRequests \/ FestivalFetches
       \/ FestivalCrashes \/ FestivalMarks \/ FestivalPlays
       \/ CleansUp("paused", "pause")
       \/ Ends("sleep")

-----------------------------------------------------------------------------
(* dummy and generic: a child plays, the thread waits for its end.         *)

Forks(to) ==
    /\ pc = "fork" /\ pc' = to
    /\ child' = "forked"
    /\ pipe' = IF driver = "generic" THEN "empty" ELSE pipe
    /\ UNCHANGED <<flags, special, sem, rest, failed>>
    /\ ThreadUnchanged /\ ToldUnchanged

\* Mutant: the child is not waited for.
ReapsNobody ==
    /\ pc = "wait"
    /\ pc' = "end" /\ speaking' = FALSE
    /\ UNCHANGED <<stopped, pauseReq, special, sem, rest, process, failed>>
    /\ ThreadUnchanged /\ ToldUnchanged

\* waitpid(): the way the child ended decides between STOP and END
Reaps ==
    /\ pc = "wait" /\ child \in {"exited", "killed"}
    /\ pc' = IF child = "killed" THEN "stop" ELSE "end"
    /\ child' = "none" /\ speaking' = FALSE
    /\ UNCHANGED <<stopped, pauseReq, special, sem, rest, pipe, failed>>
    /\ ThreadUnchanged /\ ToldUnchanged

_dummy_speak ==
    /\ driver = "dummy"
    /\ \/ Wakes \/ Silent("woken", "begin") \/ Begins("fork")
       \/ GivesUp("fork", "sleep", FALSE) \/ Forks("wait")
       \/ Reaps \/ Ends("sleep")

ParentUnchanged ==
    /\ UNCHANGED <<speaking, stopped, special, sem, child, failed>>
    /\ ThreadUnchanged /\ ToldUnchanged

\* Mutant: the pipes are left open at the end of the text.
ParentKeepsPipe ==
    \/ /\ pc = "parts" /\ rest # <<>>
       /\ rest' = Tail(rest) /\ pipe' = "part" /\ pc' = "answer"
       /\ ParentUnchanged /\ UNCHANGED pauseReq
    \/ /\ pc = "parts" /\ rest = <<>>
       /\ pauseReq' = FALSE /\ pc' = "wait"
       /\ ParentUnchanged /\ UNCHANGED <<rest, pipe>>
    \/ /\ pc = "answer" /\ pipe = "answer"
       /\ pipe' = "empty" /\ pc' = "parts"
       /\ ParentUnchanged /\ UNCHANGED <<pauseReq, rest>>

\* a pause asked for, or the end of the text, closes the pipes
module_parent_wfork ==
    \/ /\ pc = "parts" /\ ~pauseReq /\ rest # <<>>
       /\ rest' = Tail(rest) /\ pipe' = "part" /\ pc' = "answer"
       /\ ParentUnchanged /\ UNCHANGED pauseReq
    \/ /\ pc = "parts" /\ (pauseReq \/ rest = <<>>)
       /\ pauseReq' = FALSE /\ pipe' = "closed" /\ pc' = "wait"
       /\ ParentUnchanged /\ UNCHANGED rest
    \/ /\ pc = "answer" /\ pipe = "answer"
       /\ pipe' = "empty" /\ pc' = "parts"
       /\ ParentUnchanged /\ UNCHANGED <<pauseReq, rest>>
    \/ /\ pc = "answer" /\ pipe # "answer" /\ child \in {"exited", "killed"}
       /\ pipe' = "closed" /\ pc' = "wait"
       /\ ParentUnchanged /\ UNCHANGED <<pauseReq, rest>>

_generic_speak ==
    /\ driver = "generic"
    /\ \/ Wakes \/ GivesUp("woken", "sleep", FALSE)
       \/ Silent("woken", "begin") \/ Begins("fork")
       \/ GivesUp("fork", "sleep", FALSE) \/ Forks("parts")
       \/ module_parent_wfork \/ Reaps \/ Ends("sleep")

Becomes(from, to) ==
    /\ child = from /\ child' = to
    /\ UNCHANGED <<driver, cmd, server, flags, special, sem, pc, message, rest,
                   told, waits, failed>>

\* the child of dummy leads its group, plays one file and exits
_dummy_child ==
    /\ driver = "dummy"
    /\ UNCHANGED pipe
    /\ \/ Becomes("forked", "idle") /\ UNCHANGED since
       \/ Becomes("idle", "playing") /\ Started
       \/ Becomes("playing", "exited") /\ UNCHANGED since

\* the child of generic plays the parts it is sent until the pipe is closed
_generic_child ==
    /\ driver = "generic"
    /\ \/ Becomes("forked", "idle") /\ UNCHANGED <<pipe, since>>
       \/ pipe = "part" /\ Becomes("idle", "playing")
          /\ pipe' = "taken" /\ Started
       \/ Becomes("playing", IF pipe = "closed" THEN "exited" ELSE "idle")
          /\ pipe' = (IF pipe = "closed" THEN pipe ELSE "answer")
          /\ UNCHANGED since

generic_child_close ==
    /\ driver = "generic" /\ pipe = "closed"
    /\ Becomes("idle", "exited") /\ UNCHANGED <<pipe, since>>

-----------------------------------------------------------------------------
(* pico: an atomic state instead of the flags.                             *)

PicoMoves(from, to) == Silent(from, to) /\ UNCHANGED fed

\* the engine takes some of the text; after a STOP the loop goes on with
\* what it has not taken
pico_process_tts ==
    \/ rest = <<>> /\ PicoMoves("put", "test_end")
    \/ MayFail /\ PicoMoves("put", "test_end")
    \/ /\ pc = "put" /\ pc' = "get"
       /\ \E n \in 1..Len(rest) : fed' = n
       /\ UNCHANGED <<flags, state, crashed, sem, rest, process, failed>>
       /\ ThreadUnchanged /\ ToldUnchanged
    \/ /\ pc = "get" /\ pc' = "got"
       /\ rest' = Tail(rest) /\ fed' = fed - 1
       /\ Started
       /\ UNCHANGED <<flags, state, crashed, sem, process, told, waits, failed>>
       /\ ThreadUnchanged
    \/ fed > 0 /\ state = "PLAY" /\ PicoMoves("got", "get")
    \/ /\ pc = "got" /\ (fed = 0 \/ state # "PLAY")
       /\ pc' = "put" /\ fed' = 0
       /\ rest' = SubSeq(rest, fed + 1, Len(rest))
       /\ UNCHANGED <<flags, state, crashed, sem, process, failed>>
       /\ ThreadUnchanged /\ ToldUnchanged

\* the three tests after the message, each followed by a report and by IDLE
PicoTests == <<<<"test_end", "PLAY", "end">>, <<"test_stop", "STOP", "stop">>,
               <<"test_pause", "PAUSE", "pause">>, <<"top", "", "">>>>

PicoTested ==
    \E i \in 1..3 :
        \/ /\ state = PicoTests[i][2]
           /\ PicoMoves(PicoTests[i][1], PicoTests[i][3])
        \/ /\ state # PicoTests[i][2]
           /\ PicoMoves(PicoTests[i][1], PicoTests[i + 1][1])

PicoIdles ==
    /\ pc = "idle"
    /\ state' = "IDLE"
    /\ pc' = CASE told[Len(told)] = "end" -> "test_stop"
               [] told[Len(told)] = "stop" -> "test_pause"
               [] OTHER -> "top"
    /\ UNCHANGED <<flags, crashed, fed, sem, rest, process, failed>>
    /\ ThreadUnchanged /\ ToldUnchanged

pico_play_func ==
    /\ driver = "pico"
    /\ \/ state = "CLOSE" /\ PicoMoves("top", "returned")
       \/ state # "CLOSE" /\ PicoMoves("top", "sleep")
       \/ Wakes
       \/ state # "PLAY" /\ PicoMoves("woken", "top")
       \/ state = "PLAY" /\ PicoMoves("woken", "begin")
       \/ Begins("put") \/ pico_process_tts
       \/ PicoTested \/ Ends("idle") \/ PicoIdles

-----------------------------------------------------------------------------
Speak == fl_speak \/ ivona_speak \/ cicero_speak \/ milena_speak
         \/ mbrpipe_speak \/ festival_speak \/ dummy_speak \/ generic_speak
         \/ pico_speak
Stop  == fl_stop \/ ivona_stop \/ cicero_stop \/ milena_stop \/ mbrpipe_stop
         \/ festival_stop \/ dummy_stop \/ generic_stop \/ pico_stop
Pause == fl_pause \/ ivona_pause \/ cicero_pause \/ milena_pause
         \/ mbrpipe_pause \/ festival_pause \/ dummy_pause \/ generic_pause
         \/ pico_pause
Close == fl_close \/ ivona_close \/ cicero_close \/ milena_close
         \/ mbrpipe_close \/ festival_close \/ dummy_close \/ generic_close
         \/ pico_close

Handles == Replies \/ Speak \/ Stop \/ Pause \/ Close \/ module_terminate_thread
Thread == _flite_speak \/ _ivona_speak \/ _cicero_speak \/ milena_speak_routine
          \/ mbrpipe_speak_routine \/ _festival_speak \/ _dummy_speak
          \/ _generic_speak \/ pico_play_func
Child == _dummy_child \/ _generic_child \/ generic_child_close
Commands == SendSpeak \/ SendQuit \/ \E c \in {"stop", "pause"} : SendControl(c)

Next == Commands \/ Handles \/ Thread \/ Child

\* threads and processes are scheduled; nobody has to send a command
Spec == Init /\ [][Next]_vars /\ WF_vars(Handles) /\ WF_vars(Thread)
             /\ WF_vars(Child)

-----------------------------------------------------------------------------
Phase == IF ~waits THEN "quiet" ELSE IF told = <<>> THEN "accepted" ELSE "begun"
Synth == INSTANCE Synthesizer WITH
             phase <- Phase, said <- told,
             Untidy <- {"pico"}, CanPause <- {"festival", "pico"}

\* Each module keeps the promise of Synthesizer.tla: a message that was
\* accepted is reported to begin before its marks, is ended by one report,
\* and nothing is reported after that, whenever STOP and PAUSE come.
KeepsPromise == Synth!Spec

\* A module that polls a flag starts at most one more part of a message that
\* has begun after it was told to stop: the flag is looked at between the
\* parts and nothing clears it before the end is reported.
StopIsShort == driver \in Flagged => since <= 1

\* A child never outlives its message: when the thread is not waiting for
\* the child, there is none, neither playing nor left to be reaped.
NoStrayChild ==
    pc \in {"sleep", "woken", "begin", "fork", "end", "stop"} => child = "none"

\* Every accepted message is reported to be over, unless something failed or
\* the module is closed.  pico may be stuck in STOP or PAUSE.
EveryMessageEnds ==
    (waits /\ driver # "pico")
        ~> (~waits \/ failed \/ cmd \in {"quit", "join", "exited"})

\* QUIT terminates the module, whatever the thread is doing: it is cancelled
\* also while it waits for the mutex the main thread holds.
QuitExits == (cmd = "quit" /\ driver \notin {"festival", "pico"}) ~> cmd = "exited"

\* "Then the output module should exit itself" (doc/opentts.texi:2786) is
\* not so for festival and pico: they wait, with the mutex, for a thread
\* that may be waiting for the mutex to report BEGIN or END.
EveryQuitExits == cmd = "quit" ~> cmd = "exited"
=============================================================================
