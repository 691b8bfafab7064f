# A verification project for OpenTTS

OpenTTS is a speech server. Clients send it messages over SSIP; it decides by
priority what is spoken, in which order and what is dropped, and hands one
message at a time to an output module, a process of its own that drives a
synthesiser. This directory holds TLA+ specifications of that behaviour, TLC
configurations that check them on small instances, and proofs that TLAPS checks
for every value of the constants.

Below, `server/`, `modules/`, `audio/` and `api/` are directories of the
repository's `src/`, `doc/` is the one at its root.

    tlc -workers 2 -config arrivals.cfg MCSpeaking      # one run
    tlapm SpeakingProofs.tla                            # the proofs

## 1. Inventory

### Components

| component | state it keeps | operations | talks to | module |
|---|---|---|---|---|
| Priority queues (`server/speaking.c:790-1052`) | the lists `MessageQueue->p1..p5` | `stop_priority*`, `stop_from_uid`, `resolve_priorities`, removal, sorted insertion | called by both threads of the server under `element_free_mutex` | `PriorityQueues` |
| Speaking (`server/speaking.c`) | `current_message`, `SPEAKING`, `poll_count`, `speaking_module`, `MessagePausedList`, `last_p5_block`, the requests for pause and resume | `speak()`, `speaking_stop/cancel/pause/resume*`, `reload_message`, `is_sb_speaking` | main thread through shared variables and `speaking_pipe`; output module through two pipes; clients through events | `Speaking`, `Announcer` |
| Output layer and life cycle of modules (`server/output.c`, `server/module.c`) | the modules' pipes and processes, `working`, `output_layer_mutex` | `output_speak`, `output_stop`, `output_send_debug`, events, choice, load, reload, close | three threads of the server; modules | `Output` |
| Signals (`server/sighandler.c`, `stop_speak_thread`) | `thread_must_stop` | SIGINT, SIGUSR1, SIGHUP | Speaking, modules | `Output` |
| Main loop, connections (`server/openttsd.c`, `server/server.c`, `server/parse.c`) | descriptors, uids, `openttsd_sockets`, `max_fd` | `select()`, accept, read, serve, close | clients, Speaking | `Sessions` |
| Settings and history (`server/set.c`, `server/configuration.c`, `server/history.c`) | settings and cursor of each client, global defaults | SET, GET, LIST, HELP, HISTORY, sections of the file | commands | `Settings` |
| Index marks and escaping (`server/index_marking.c`, `escape_dot`, `deescape_dot`) | the text of a message | insert, find, strip, escape | library, server, module | `Texts` |
| C client library (`api/c/libopentts.c`) | connection, reply, mutexes, condition variables | calls, reading thread, callbacks | the server, a program's threads | `Client` |
| espeak (`modules/espeak.c`) | playback queue, state, semaphores, a condition variable | SPEAK, STOP, PAUSE, QUIT; play and stop threads; callback | server, synthesiser, audio | `Espeak` |
| ibmtts (`modules/ibmtts.c`) | playback queue, flags, suspended mutexes, table of marks | the same, synthesis in a thread | the same | `Ibmtts` |
| flite, ivona, cicero, milena, mbrpipe, festival, dummy, generic, pico (`modules/*.c`, `modules/module_utils.c`) | flags, semaphore, a child process | the same with one speak thread | the same | `Drivers`, `Synthesizer` |
| Settings, connection and cache of festival (`modules/festival.c`, `modules/festival_client.c`, `do_set` in `modules/module_utils.c`) | `msg_settings`, `msg_settings_old`, `festival_info`, `festival_connection_crashed`, `FestivalCache` | SET, recovery, sending what changed, lookup, insertion, cleaning | festival over a socket | `Festival` |
| Audio (`audio/*.c`) | device | open, play, stop, close | modules | external |
| Other client libraries, clients, dumbtts | - | - | - | not modelled, section 6 |

### What is hard

* **Two threads and a process.** The main thread and the speak thread share
  `pause_requested`, `resume_requested`, `SPEAKING` and the settings of the
  clients without a lock; the module's events reach the server some time after
  the fact. A command may be served between any two steps of `speak()`.
* **Wake-ups.** `speak()` sleeps in `poll()` on a pipe of bytes, the library's
  threads on condition variables without predicates, the modules' threads on
  semaphores, with "busy" read off a mutex by `pthread_mutex_trylock`. A wake-up
  that is lost or used up by the wrong thread leaves somebody waiting for ever.
* **One pipe for replies and events.** Whoever reads a line must be the one it
  is for. The same holds for the reply pointer of the client library.
* **Sequences.** Blocks, pauses and the copies of progress messages move
  messages between seven lists; settings depend on each other; a text is escaped
  and unescaped four times by four rules.
* **Order of requests and events.** RESUME acts at once, PAUSE only when the
  speak thread comes round; BEGIN and PAUSED are read later than they happen;
  STOP reaches a module before, during or after the message it is for.
* **Reuse.** A descriptor is used again by another client while an event for
  the client before is on its way; the slot in `openttsd_sockets` holds what the
  last client left; `max_fd` goes down by one at a time.
* **Failures.** A module refuses a message or dies at any point and is replaced;
  a client disappears in the middle of a line; `fork()`, the synthesiser or the
  device fails; the server closes the connection of the library.

`PROJECT.json` lists the hazards at their lines, with the properties about them.

### What makes each component correct

* Priority queues: what arrives leaves at most one text and one notification (or
  block of them); messages of priority important and message stay in order;
  nothing stops a message of priority important; nothing vanishes unreported.
* Speaking: one voice; no lost wake-up; the events of a message come in an order
  that makes sense; a message is held, ended or canceled; what was paused goes
  on after RESUME.
* Output layer: replies and events are not mixed up; a crash costs at most one
  message; no command goes to a module that was closed; a reload ends.
* Connections: every command is answered; a client is found as long as it is
  connected; blocks, data and events are its own.
* Settings: those that depend on each other agree; a block is uniform.
* Texts: what is heard is what was sent, also after pauses; client, server and
  module agree where a message ends.
* Client library: a call sees the reply to its own command, and returns.
* Modules: BEGIN, marks, one END, STOP or PAUSE; nothing is heard outside; every
  message that was accepted ends; STOP is short; no process is left behind.
* Settings, connection and cache of festival: what is heard is what was asked
  for; the cache keeps to its limit; a break costs one message.

## 2. Plan

1. **Core (done)**: `PriorityQueues`, `Speaking`, `Announcer`, with
   `SpeakingProofs`.
2. **Output layer, life cycle, signals (done)**: `Output`.
3. **Modules (done)**: `Espeak`, `Ibmtts`, and `Drivers`, which implements
   `Synthesizer`; `Festival`, the settings, the connection and the cache behind
   one of them.
4. **Connections and settings (done)**: `Sessions`, `Settings`.
5. **Client library (done)**: `Client`.
6. **Algorithms on texts (done)**: `Texts`.
7. **Proofs (done)**: of `Settings`, `Texts`, `Sessions`, `Drivers` (with the refinement of
   `Synthesizer`), `Output`, `Espeak`, `Ibmtts`, `Festival` and `Client`; every
   safety property of `Speaking` that a run checks.
8. **Left to model**: the stop pipe of the ALSA back end, the Python client.

Abstract specifications: `Announcer`, what the server promises to its clients;
`Synthesizer`, what a module promises to the server.

## 3. Modules

| module | what it is |
|---|---|
| `PriorityQueues` | the lists and the rules by which messages cancel each other, as operators without state |
| `Speaking` | state machine of the main thread's commands, the speak thread and an output module |
| `Announcer` | what clients are promised: one voice, what was spoken or canceled does not come back |
| `MCSpeaking` | `Speaking` for TLC, with the symmetry of the clients |
| `SpeakingProofs` | lemmas about the lists and the rules of `PriorityQueues`; theorems about `Speaking` |
| `OutputProofs`, `SessionsProofs`, `SettingsTextsProofs`, `DriversProofs`, `ClientProofs`, `IbmttsProofs`, `EspeakFestivalProofs` | the inductive invariants of these modules and theorems about them |
| `Output` | three threads of the server, the pipes and the processes of the modules |
| `Sessions` | clients, descriptors, the main loop, and the events of the speak thread |
| `Settings`, `MCSettings` | the settings of all clients and the commands that change them; a configuration for TLC |
| `Texts`, `MCTexts` | a text from `spd_say()` to the synthesiser, over pauses; names of marks for TLC |
| `Client` | threads of a program, the reading thread of the library, the server |
| `Espeak` | the threads of the espeak module |
| `Ibmtts` | the threads of the ibmtts module |
| `Drivers`, `MCDrivers` | nine modules that speak in one thread; texts for TLC |
| `Synthesizer` | what a module promises to the server |
| `Festival`, `MCFestival` | the festival module between the server's settings, its cache and a connection that may break; sizes of waves for TLC |

How they fit together: `Speaking` takes the output layer for one step per
command and the module for a process that reports events; `Output` opens up the
former, `Espeak`, `Ibmtts` and `Drivers` the latter. `Sessions` and `Settings`
open up the main thread, `Texts` the text, `Client` the other end of a
connection.

### PriorityQueues

A message is `[id, uid, gid, copy]`; `gid` is `settings.reparted`, 0 outside a
block; `copy` tells the copies in `last_p5_block` from the originals. The rules
of `speaking.c` change the lists, report CANCEL and may call `output_stop()`. An
*effect* `[queues, cancelled, stop]` is threaded through them; `Speaking` carries
it out in one step (`Apply`). The code holds `element_free_mutex` for all of it,
so no other thread sees a part of it. `Kept(s, I)` is a list from which the
elements outside the positions `I` were removed.

`speaking_stop_all` compares `reparted` with 1 as the code does
(`speaking.c:498`).

### Speaking

The state is the code's, under the code's names. `spc` is where `speak()` is:

    poll -> pause -> (pause_done -> poll | resume -> resume_done -> pick)
    pick -> (promote ->)* poll

| code | action |
|---|---|
| `poll()` and the read of a byte | `SpeakWake`, `SpeakEvent`, `SpeakHangup` |
| `is_sb_speaking()` | `SpeakEvent`, by the event at the head of `events` |
| `speaking_pause`, `speaking_pause_all` | `SpeakPause`, and `pause_requested = 0` in `SpeakPauseDone` |
| `SPEAKING` tested without the lock | `SpeakCheck` |
| `resume_requested`, `reload_message` | `SpeakReload`, `SpeakReloadFails`, `SpeakReloaded`, `SpeakResumeDone` |
| `last_p5_block` moved to `p2` | `SpeakPromote`, one message a step, the lock is held (`Unlocked`) |
| `get_message_from_queues`, `output_speak` | `SpeakMessage`, `SpeakFails`, `SpeakNothing` |
| `queue_message` | `Enqueue`, in `Speak` and `SpeakReload` |
| `parse.c` | `SetPriority`, `BlockBegin`, `BlockEnd`, `Stop`, `StopAll`, `CancelClient`, `Pause`, `PauseAll`, `Resume`, `ResumeAll`, `Disconnect` |
| `speaking_cancel_all` | `CancelAllStop` (before the lock) and `CancelAllQueues` |
| the module's process | `ModuleBegin`, `ModuleMark`, `ModuleEnd`, `ModuleStops`, `ModulePauses`, `ModuleCrash` |

Abstractions, and why they are sound for the properties:

* What a thread does while it holds `element_free_mutex` is one step. The other
  thread takes the same mutex before it looks at the lists; what it reads without
  it has steps of its own. `output_speak()` is called under the mutex and waits for
  the module's reply, so that it is one step too.
* `poll()` and the read that follows are one step: only `speak()` reads the pipe.
* A message leaves `MessagePausedList` and is queued again in one step, though the
  code drops the mutex in between: a command served there can be moved before the
  removal (SPEAK, STOP, CANCEL) or after the queueing (RESUME, SET) with the same
  outcome.
* The text of a message is not modelled here (see `Texts`). What matters of it is whether an index
  mark was reached (`index_mark`): then `reload_message()` may find nothing after
  the mark and fail.
* Settings other than the priority are left out (see `Settings`); all clients ask
  to be notified of all events (see `Sessions`).
* The module is the one that `modules/module_utils.c` and the drivers make of it:
  after it accepted a text it reports BEGIN, marks, and one of END, STOP and PAUSE.
  It obeys an order late, or finishes first. `orders` holds STOP and PAUSE for the
  text it speaks; an order while it is idle does nothing.
* A module that died is replaced by one that works (`output.c`, `module.c`:
  another module of the list is chosen).

Bounds: `MaxMessages`, `MaxBlocks`, `MaxWakeups`, `MaxPaused`, `MaxEvents`,
`MaxCrashes` are guards of the actions that would exceed them. Each only keeps the
environment (a client, the module) from going on; the server's own steps are never
held up by one, except that no command is served while `MaxWakeups` bytes wait.
Deadlock is not checked in these runs, for with a bounded number of messages the
clients fall silent and the server rightly sleeps. `QueuesDrain` and
`NoLostWakeup` say that it does not sleep too early.

### Output

Names follow `output.c` and `module.c`. A thread takes `output_layer_mutex`,
writes commands, reads one line for each and gives the mutex back; a step is one
write or one read, since a module or another thread may act between them.
`wait_for_poll`, `is_sb_speaking` and `output_module_is_speaking` are the loop of
`speak()` as far as the pipes go. `catch_signals`, `Joined`, `unload_output_module`,
`reload_output_module`, `configure` and `start_speak_thread` are the signal
thread; `quit` and `output_close` the end of the server. A module may crash
between any two steps. INIT, AUDIO, LOGLEVEL and LIST VOICES are part of the
start of a module: nobody else knows the new process yet. `Careful` keeps
CANCEL all and SET all DEBUG away while a module speaks; without it an event may
be taken for the reply to DEBUG (see "What does not hold").

### Sessions

A client sends a line in two parts and waits for the reply. `Select` and the
visits of the ready descriptors are steps of their own, so that a descriptor may
be closed and used again between them. `serve` has an action for each kind of
command: `parse_speak`, `parse_data`, `parse_end_of_data`, `parse_general_event`,
`parse_block`, `parse_control`, `set_rate_all`, `set_notification_self`,
`parse_quit`. `view` is the client's own account of its state, with which the
properties compare the server's. The queue is a list: order and priorities are
`Speaking`'s.

### Settings

One action per SET command, for self, all and a uid, also of a client that has
left or does not exist. Numbers and modes have the values one, two and bad.
`section_value` is what the sections of the file that match a client's name leave
behind: the code applies them in their order, so that the last one that sets a
parameter decides. History commands are those of `history.c` on an empty list: no
message is ever put into it (`server/server.c:145`).

### Texts

A text is a sequence of characters of seven kinds; a tag or an entity the server wrote is
one element too. `EscapeDots` is the library's, `DataOf` what `serve()` and `parse()`
make of the lines, `deescape_dot` undoes the dots, `insert_index_marks`,
`find_index_mark` and `strip_index_marks` are `index_marking.c`, `escape_dot` the
output layer's, `do_message`, `MessageParts` and `module_strip_ssml` the module's. A
message may be paused at a mark or without one and is reloaded as `reload_message()`
does. `MarkNames` holds the names of the marks; a text with more sentences is not sent,
a bound without effect in the run, where 5 characters need fewer than the 8 names of
`MCTexts`. `Spoils` and `RawDots` name the cases in which the text is damaged, listed in
section 4; the properties leave them out.

### Client

A call is a sequence of requests (`Programs`). `LockSsip`, `CheckStream`,
`spd_send_data_wo_mutex`, `Woken`, `CopyReply`, `Acknowledge`, `get_reply` and
`Leave` are its steps; `ReaderGets`, `ReaderCallsBack`, `ReaderHandsOver`,
`ReaderGoesOn`, `ReaderBroken`, `ReaderSignals` those of `spd_events_handler()`.
`pthread_cond_signal` wakes one waiter, if there is one. Spurious wake-ups are
left out. `ListsAlone` says that the program makes no other call while it reads a
list.

### Espeak and Ibmtts

One action per section of a thread between two points at which another thread
can act. Entries of the playback queue remember the message they were made for.
In `Espeak` a thread is "busy" unless it holds its suspended mutex; `PlaySuspended`
and `StopSuspended` include the time between the semaphore and the unlock, in
which it counts as not busy though it has been woken. `Ibmtts` has the same with
`is_thread_busy`; `Prompt` assumes that a woken thread unlocks its mutex before
the next command of the server comes, a matter of microseconds for which the
code has no guarantee. The synthesiser makes at most `MaxEntries` pieces of audio,
marks and icons for a message. A sound that is stopped ends early; the device is
external.

### Drivers and Synthesizer

`driver` is the module that is checked, chosen in `Init`. The main thread
(`module_main.c`) handles one command at a time under `module_stdout_mutex`; the
speak thread reports under the same mutex. Each module has its own actions for
SPEAK, STOP, PAUSE, QUIT and for its thread, made of shared steps (`Wakes`,
`Begins`, `GetsPart`, `Checks`, `Plays`, `Ends`, ...), which is what the modules'
code is made of. `dummy` and `generic` have a child process, `pico` a state that
both threads set. `Synthesizer` is what `doc/opentts.texi:2794-2880` says of a
message and its reports; `KeepsPromise` is the refinement. `Untidy` is `pico`,
which may report STOP or PAUSE without BEGIN.

### Festival

What `Drivers` leaves out of one module. `do_set` and the steps up to `Posts` are
the main thread's, in the order of `festival_speak()`: `festivalOpen` and `OpensUp`
after a break, `ComparesVoices`, and `UpdateParameter` for one setting after the
other (`UPDATE_PARAMETER`, `UPDATE_STRING_PARAMETER`; the numbers other than the
rate behave like it). `PlaysCached`, `Requests` and `GetsWave` are the speaking
thread's. The two never overlap: the server sends settings only when the last
message was reported to be over, and the thread does nothing after that report.
`old` is what the module believes festival to have, `tuned` what festival has;
they differ as soon as a connection breaks, between any two steps (`Breaks`).
`cache_clean` may remove entries in any order: the code divides the count of an
entry by its age in seconds and compares floating point numbers, of which
infinity and NaN are some. A message is one wave; STOP and PAUSE are in `Drivers`.
After a break `festivalGetVoices()` reads a variable that was never set: the module
goes on or dies (`GetsVoices`), and the server starts it again (`Restarts`).
Festival is assumed to answer what it always answers, or not at all.

## 4. Runs

| run | instance | shows |
|---|---|---|
| `arrivals` | 1 client, 4 messages, all five priorities | types; no lost wake-up; the order of arrival of the two upper queues; important messages are not stopped; the queues drain |
| `control` | 2 clients, 3 messages, 2 blocks, priorities important, text, notification | what was canceled or ended waits nowhere; one text or block at a time; the order of a client's events; CANCEL all silences the module |
| `pause` | 2 clients, 2 messages, pause, resume, quit; with one client left also refusals, index marks and a crash | every event has a message; one voice, across the replacement of a module; nothing vanishes; `Speaking` implements `Announcer` |
| `output` | 2 modules, 2 messages, 1 crash, 1 STOP or DEBUG, 1 reload | a crash costs one message; no event is taken for a reply; STOP goes to a live module; a reload ends |
| `sessions` | 2 descriptors on both sides of the server's socket, 2 clients, 3 lines | all connections are within `max_fd`; blocks and events are the client's own; every command is answered |
| `settings` | 2 clients, 4 commands, 3 parameters, 2 modules, 2 sections | a synthesis voice belongs to the module in use; a block has one set of settings |
| `texts` | all texts of up to 5 characters, two modes, 2 resumes | what is heard is what was sent; nobody takes text for commands; marks are in order |
| `client` | 2 threads, 3 calls of five kinds, 1 event, a server that may fail | replies and priorities are the caller's own and no freed reply is read; calls return |
| `espeak` | 2 messages, 2 entries each, 2 requests, a queue of one chunk | sound between BEGIN and the end only; pauses at marks; every message ends |
| `ibmtts` | 2 messages, 1 entry each, 2 requests, QUIT, failures | the order of events, queue and table of marks are the message's; no stop that was not asked for; stops complete |
| `drivers` | 9 modules, 3 messages, 3 requests, failures | each implements `Synthesizer`; STOP is short; no child is left; messages end; QUIT exits |
| `festival` | 2 languages, 1 type of voice, 1 synthesis voice, 2 rates, a cache for two waves, any number of messages and breaks | what is heard was made for the text and the settings asked for; the cache keeps its books and its limit; a break costs one message |

Why these bounds. A message cancels another, so three messages (one spoken, one
waiting, one arriving) show every pair of rules, and four the promotion of a
progress message past another message. Two clients are needed for "paused and not
paused", "mine and not mine"; a third behaves as the second. Two blocks are the
least at which a block can be replaced by a block and at which the number 1 is
not the gid of every block. Two wake-ups are one more than the speak thread
consumes in a round. In `output` one module can fail while another one takes
over. In `pause` the module fails and reports marks only while one client is left
whose messages are texts (`FaultsForOneClient` of `MCSpeaking`); that it fails
while it is told to stop is in `output`. In `sessions` one descriptor is above and
one below the server's, so that `max_fd` goes down past a gap. In the modules'
runs a second message shows what the first one left behind, two requests can race
each other, and in `drivers` a third one can hit the message after. In `festival`
nothing is counted: one wave fits twice into the cache, one is larger than it, and
every setting has a value to go to and to come back from. A text of five
characters holds a line end, a dot, a line end and something on both sides; seven
kinds of characters are all that any of the rules tells apart. Each property is
broken by a change of the code that one would plausibly make (`mutants` in
`PROJECT.json`), found within the same bounds.

Deadlock is checked in `espeak` and `client`, whose specifications say when the
system may rest (`Exited`; `Quiet`), and in `festival`, which never rests. Elsewhere
the clients of a bounded instance fall silent and the server rightly sleeps; that it
does not sleep too early is a matter of the liveness properties.

### Fairness

Threads and processes are scheduled: weak fairness of each thread of the server,
of the library and of the modules, and of child processes, all of which the system
schedules and none of which waits for something the model leaves out. In
`Speaking` also of `CancelAllQueues`, the second half of a command that has begun,
and of `ModuleFinishes`, for a module gets on with its text; the same in `Output`
(`Module(n)`). In `Client` the server answers (`Serve`). In `Sessions` a client
ends a line it has begun: until then the whole server is blocked in `serve()`.
Nobody is assumed to send a command, a signal or to crash.

### What does not hold

These properties are stated in the modules and TLC refutes them; each has a
configuration, in which the counterexample is found within seconds
(`tlc -config stop_block.cfg MCSpeaking`). They are not part of the runs above.

| configuration | module, property | behaviour |
|---|---|---|
| `resume_before_begin` | `MCSpeaking`, `EventOrder` | PAUSE is carried out before BEGIN is read: the client sees RESUME first (`server/speaking.c:723`), though "RESUME is allways preceeded by the event PAUSE" (`doc/ssip.texi:1164`) |
| `double_pause` | `MCSpeaking`, `NoLostWakeup` | the byte that was read with the event PAUSED goes with the second of two pauses (`speaking.c:136`): a message of a client that is not paused waits in silence (`ssip.texi:599-600`) |
| `last_progress` | `MCSpeaking`, `LastProgressSurvives` | any message outside a block erases the copy of the last progress message: both have gid 0 (`speaking.c:282`, `ssip.texi:660-663`) |
| `resume_lost` | `MCSpeaking`, `ResumeIsHeard` | RESUME is served before the message is in `MessagePausedList`: it stays there though the client is not paused (`speaking.c:175`, `ssip.texi:531`) |
| `pause_lost` | `MCSpeaking`, `PauseTakesEffect` | a second pause request overwrites the first, or is erased with it (`speaking.c:135`, `ssip.texi:522-525`) |
| `stop_block` | `MCSpeaking`, `StopsWholeBlock` | STOP all leaves the rest of any block but the one with gid 1 (`speaking.c:498`, `ssip.texi:741-742`) |
| `block_dropped` | `MCSpeaking`, `NothingVanishes` | the messages of an older block are freed without an event (`speaking.c:979`, `ssip.texi:1143-1145`) |
| `cancel_leaves` | `MCSpeaking`, `CancelLeavesNothing` | CANCEL leaves what a pause set aside and the copies of progress messages (`speaking.c:513`, `ssip.texi:516-517`) |
| `quit_hangs` | `MCDrivers`, `EveryQuitExits` | festival and pico wait at QUIT, with `module_stdout_mutex`, for a thread that may need it for a report (`modules/festival.c:467`, `opentts.texi:2783-2786`) |
| `notification_off` | `Sessions`, `NotificationsAsSet` | switching one event off switches all off: `! SPD_x` for `~SPD_x` (`server/set.c:420`) |
| `lost_wakeup` | `Ibmtts`, `EveryMessageEnds` | the callback adds END while the play thread has found the queue empty and is not suspended yet; nobody wakes it (`modules/ibmtts.c:1445`, `opentts.texi:2657-2659`) |
| `static_buffer` | `Client`, `SetsOwnValue` | `spd_w_set_*` write a static buffer before they take `ssip_mutex` (`api/c/libopentts.c:660`, `698`): a thread may send the value of another |
| `lists_together` | `Client`, `CallsAreOwn` | the calls that read a list take no `ssip_mutex` (`libopentts.c:911`): two threads take each other's replies |
| `festival_host` | `MCFestival`, `BreakCostsOne` | an attempt to connect that fails frees `festival_info`, and the next one goes to the default host instead of `FestivalServerHost` (`modules/festival_client.c:472`, `466`) |
| `festival_voice` | `MCFestival`, `HeardAsAsked` | a section of the configuration file sets a type of voice beside a synthesis voice; SET VOICE to that type then changes nothing that festival is told (`modules/festival.c:380-382`, `modules/module_utils.h:73-87`) |
| `festival_names` | `MCFestival`, `VoicesApart` | with `FestivalCacheDistinguishVoices` a character is still heard in the synthesis voice of another client: the key holds the type only (`modules/festival.c:1001`, `config/modules/festival.conf:42-45`) |

Seen while modelling:

* **Speaking.** A progress message that was reported as canceled is spoken later
  from its copy, under the same id (`doc/ssip.texi:1143-1145`). A reloaded message
  counts as new and cancels texts that were queued during the pause. A module's
  refusal sends `speak()` back to sleep with messages waiting, which is only made
  up for by bytes that happen to be left. Messages of other clients get between
  those of a block (`ssip.texi:736-737`). RESUME of a client that is not paused is
  not refused (`ssip.texi:535-538`). The test for a paused client at
  `speaking.c:229-236` is never true, for `get_message_from_queues` has filtered.
* **Output.** With CANCEL all or DEBUG while a module speaks, an event is read in
  place of a reply, the speak thread never learns of the end and a reload waits for
  ever (`speaking.c:258-265`); hence `Careful`. A reload that fails leaves
  the module in the table with descriptors that are closed once more at the next
  reload (`module.c:335-346`). SIGHUP unloads every module
  (`opentts.texi:1355-1357`), and `configure()` appends the sections for clients a
  second time. The reply to QUIT may be an event, and the process is then not
  waited for. At SIGINT the canceled speak thread may leave `output_layer_mutex`
  locked (`opentts.texi:1349-1351`).
* **Sessions, settings.** A client that sends half a line blocks the server. `SET
  all DEBUG` with two clients is done and answered with an error
  (`set.c:388`). SET LANGUAGE changes the module inside a block, where SET
  OUTPUT_MODULE is refused. A section of the configuration file may set a type of
  voice beside a synthesis voice; `VoiceFits` ends where one was applied. With an
  empty history FORWARD and SET POS are never refused, for the length minus one
  wraps (`history.c:242`, `265`, `ssip.texi:1566-1570`).
* **Texts.** A plain text that is resumed twice has its entities escaped twice; one
  that was paused without a mark is taken up whole with the text `<speak>` in it
  (`speaking.c:390`); `index_mark` is kept when the rest is marked anew
  (`speaking.c:337`), so that a mark may not be found and the message is lost
  (`speaking.c:367`). An empty text is heard as a line end. Two lone dots in a row
  inside a tag end the message for the module (`output.c:889`).
* **Client.** The list call uses a NULL reply (`libopentts.c:923`). A
  connection that breaks wakes one waiter only (`libopentts.c:1315`).
* **Modules.** A synthesis that fails in espeak, or a message of type SPELL,
  leaves `espeak_state_mutex` locked and the next SPEAK waits for ever
  (`espeak.c:445`). An early STOP is lost in flite, ivona, cicero, milena and
  mbrpipe, whose threads clear the flags when they wake up. flite is stuck when the
  volume cannot be set (`flite.c:286`), mbrpipe reports nothing when the fork of
  its synthesiser fails, dummy and generic when theirs does. A STOP between `fork()`
  and `setpgid()` is lost. `pause_requested` of generic and festival outlives the
  message. In pico a STOP before the thread wakes up is stuck, as is the next
  message if it comes between END and the idle state. festival never frees the waves
  it removes from its cache, whose tables have no function for that
  (`festival.c:1062`), so that `FestivalCacheMaxKBytes` limits its books and not its
  memory. ibmtts may carry out a stop
  on the next message if a woken thread is late (`Prompt`), and polls for ever at a
  QUIT while it speaks.

## 5. Proofs

Proved by TLAPS for every value of the constants, that is for any number of
clients, connections, modules, messages, blocks, crashes, commands and events
under way, and for any texts, settings and configuration sections:

| module | theorem | statement |
|---|---|---|
| `PriorityQueues` | `ResolvePrioritiesYields` | what the arrival of a message does to queues of any length |
| `Speaking` | `TypeCorrect` | `Spec => []TypeOK` |
| | `OneText` | `Spec => []OneTextAtATime` |
| | `Voice` | `Spec => []OneVoice` |
| | `Owner` | `Spec => []EventHasOwner` |
| | `Important` | `Spec => ImportantNeverInterrupted` |
| | `Implements` | `Spec => OneVoicePromise`: the refinement of `Announcer` |
| | `WakeupsSuffice` | `NoPauses` and `NoFailures` imply `Spec => []NoLostWakeup` |
| | `SaidInOrder` | `NoPauses` implies `Spec => []InArrivalOrder` |
| | `CanceledStaysGone` | `NoPauses` and `NoProgress` imply `Spec => []CanceledIsGone` |
| | `CancelAllStopsModule` | `Spec => CancelAllSilences` |
| | `NoMessageVanishes` | `NoBlocks` implies `Spec => NothingVanishes` |
| | `ReportsInOrder` | `NoPauses`, `NoProgress` and `NoCrashes` imply `Spec => EventOrder` |
| `Output` | `OutputInvariant`, `CarefulInvariant` | the inductive invariants |
| | `StopFindsModule` | `Spec => []StopsLiveModule` |
| | `RepliesAreReplies` | `Careful` implies `Spec => []SwallowsNothing` |
| | `CrashesPayForLosses` | `Careful` implies `Spec => []CrashCostsOne` |
| `Sessions` | `SessionsInvariant` | the inductive invariant |
| | `EveryConnectionIsServed` | `Spec => []MaxFdCovers` |
| | `BlocksOfOneClient` | `Spec => []BlocksAreOwn` |
| | `EventsGoToTheSender` | `Spec => []EventsAreAsked` |
| `Settings` | `SettingsInvariant` | the inductive invariant |
| | `SynthesisVoiceFits` | `Spec => []VoiceFits` |
| | `BlocksAreUniform` | `Spec => []BlockIsUniform` |
| `Texts` | `TextsInvariant` | the inductive invariant |
| | `TextsStaysInStep` | `TextsSpec => []StaysInStep` |
| | `TextsMarksInOrder` | `TextsSpec => []MarksInOrder` |
| | `TextsHeardIsSent` | `TextsSpec => []HeardIsSent` |
| `Espeak` | `EspeakInvariant` | the inductive invariant |
| | `EventsComeInOrder` | `Spec => []EventsInOrder` |
| `Ibmtts` | `IbmttsInvariant` | the inductive invariant, if `Prompt` |
| | `IbmttsEventsInOrder` | `Prompt` implies `Spec => []EventsInOrder` |
| `Client` | `ClientInvariant` | the inductive invariant, if `ListsAlone` |
| | `RepliesReachTheirCallers` | `ListsAlone` implies `Spec => []CallsAreOwn` |
| `Drivers` | `DriversInvariant` | the inductive invariant |
| | `StopSoon` | `Spec => []StopIsShort` |
| | `ChildrenReaped` | `Spec => []NoStrayChild` |
| | `PromiseKept` | `Spec => KeepsPromise`: the refinement of `Synthesizer` |
| `Festival` | `FestivalInvariant` | types, and what the module knows of its connection |
| | `BreaksCostOne` | `DefaultHost` implies `FestivalSpec => []BreakCostsOne` |
| | `HeardWhatWasAsked` | `~MixedVoices` implies `FestivalSpec => []HeardAsAsked` |
| | `FestivalCacheBounded` | `FestivalSpec => []CacheBounded` |

Each theorem rests on the `ASSUME` of its module and on nothing else, but for those
with a hypothesis of their own: `Careful`, `ListsAlone`, in `Speaking` `NoPauses`,
`NoFailures`, `NoProgress`, `NoCrashes` and `NoBlocks`, in `Ibmtts` `Prompt`, in
`Festival` `DefaultHost` and `~MixedVoices`. Each of these says what the clients or the modules of a server
do not do or what its configuration does not say, each is needed (below), and each
is met by the run that checks the property. What the assumptions say: the
bounds are natural numbers; the sets of clients and of modules are finite;
descriptors and uids are positive and the server's socket is not a client's; the
values that stand for "none" are none of the others (a NULL pointer is no record); a parameter gets a value
of its kind from a section of the configuration file. TLC evaluates them in the
runs.

### Priority queues and Speaking

The first part of `SpeakingProofs` shows that `Kept` lists elements from
increasing positions (`RankTaken`, `KeptPrunes`) and that therefore each rule
*yields* a pruned effect: every queue afterwards is a subsequence of the queue
before (`Subsequence`, `Yields`). That relation is reflexive and transitive, so
the compositions in `resolve_priorities` and in CANCEL follow. The rest
lifts this to the actions (`EnqueueMessage`, `StopEffect`, `PromoteQueues`) and
then uses two inductive invariants:

* `TypeInv`: `TypeOK` and `Promoting` (while `speak()` is in the middle of moving
  progress messages some are left). Without the second, `Head(last_p5_block)`
  would not be a message.
* `VoiceInv`: a message is only looked for in silence (`SPEAKING` excludes
  `Looking`); while one is spoken there is a current message, the module's pointer
  and descriptor are set, and either the module is busy and its pipe holds no
  terminal event, or the last event in the pipe, and no other, is terminal.
  `OneVoice` alone is not inductive: it does not exclude a busy module with an END
  in its pipe. `Important` needs the first conjunct: a reload or a promotion could
  stop an important message, but neither happens while something is spoken.

`OneTextAtATime` is inductive with `TypeInv`: whatever prunes keeps a block a
block, and an arrival restores it.

`CancelAllStopsModule` follows from what `stop_priority` promises about the STOP
order (`StopPriorityYields`): the queue of the message that is spoken is one of the
five that are emptied.

Four theorems are about servers whose clients send no PAUSE (`NoPauses`),
where nothing is set aside and nothing is reloaded (`NothingPaused`):

* `AwakeInv`: in silence, without a byte in the pipe and with the speak thread
  asleep, nothing waits. It is about all that waits, not only about what may be
  spoken, which makes it inductive: every arrival posts, an event read in silence
  sends the thread on to look again, and what it takes from the queues is spoken.
  `NoFailures` is needed, for a refusal takes the thread back to sleep with messages
  waiting and without a byte of its own; `double_pause` shows why `NoPauses` is.
* `OrderInv`: every list is sorted by strictly increasing ids, also the copies of
  the last progress messages; no id is in two queues, none is above
  `last_message_id`, and while the copies are being moved the queue of progress
  messages is empty. Every step does one of three things to the lists
  (`OrderSteps`): a message arrives, messages leave, or the copies are inserted
  where their ids belong. With pauses a reloaded message is appended out of order.
* `GoneInv`: an id that is not used yet was not reported, the current message is in
  no queue, and nothing in a queue was reported as canceled or ended. Its core is
  that each rule *frees* what it reports (`Frees`, `Tells`): an id that is reported
  as canceled was in a queue and is in none afterwards, because ids are unique
  (`Unmixed`, from `OrderInv`). `NoProgress` is needed, since a progress message
  that was reported as canceled comes back from its copy; `NoPauses`, since a
  message that ends before the order to pause reaches the module is reloaded.
* `PhaseInv`, for `EventOrder`: nothing was reported for a message in a queue, and
  while one is spoken what was reported for it, the module's state and the events
  that wait are in one of four phases (`Phase`): not begun, stopped before it began,
  BEGIN waits in front of the others, BEGIN was read and no other waits. `EventOrder`
  says nothing of the events that wait, so it needs this. `NoCrashes` is needed: when
  a module dies before its BEGIN is read, `speaking_module_cleanup` reports END for a
  message that never began (`server/speaking.c:1168`, modelled by `SpeakHangup`).

One is about servers whose clients send no blocks (`NoBlocks`):

* `LooseInv`: no list holds a message of a block. `AsideInv`: a message whose module
  has the order to pause, or has reported PAUSE, is set aside already, so that it is
  held when it falls silent. Its core is the other half of `Frees`: where no message
  is in a block, each rule *accounts* for what it takes out of the queues
  (`Accounts`): it was reported as canceled. Blocks are the exception in the code,
  hence `NoBlocks` (`block_dropped`): `stop_priority_except_first` frees the messages
  of an older block without a word.

### Output

`Base` holds whatever is sent. `Restarts`: while clients are served, the speak
thread is gone only while the signal thread closes and opens modules, and
nothing is spoken then. `Reloads`: what is still to be closed, and that a thread's
target is one of them. `Loaded`: a module that works has open pipes and is in
the table. `Live`: so has the one that speaks. `StopsLiveModule` follows from `Base`
but is not inductive by itself: it says nothing of where the other threads
are when the table changes.

`CarefulInv` is the invariant behind the two others. Its part `Pipes` gives every
module that works a *role* (`Role`: it is sent its settings or told to speak, it
speaks, it is told to quit, was told, is asked for DEBUG, or has nothing to do),
read off the places of the three threads, and says for each role what the two pipes may hold and what the process
may be doing (`Suits`): a reply comes first, no event stands before it, behind the
terminal event comes nothing. `Locks` says who holds `output_layer_mutex` where,
`Polls` what `speak()` believes of the module it waits for. `SwallowsNothing` then
says that the role of a module with a thread that waits for a reply excludes an
event at the head of its pipe. `CrashCostsOne` compares two counters; what
makes it inductive is the account of what they will still count (`Account`): the
messages lost, the one nobody speaks (`Owed`) and the crashes nobody has noticed
yet (`Crashed`) together are at most the crashes.

Both are false without `Careful` (`SwallowsNothing` is what is broken when DEBUG
or CANCEL all come while a module speaks, section 4); `output.cfg` has
`Careful = TRUE` for the same reason.

### Sessions

`MaxFdCovers` is part of the invariant as it stands: `max_fd` only goes down, by
one, when the highest descriptor is closed. `Tables`: no uid belongs to two
descriptors and what `select()` found ready is connected until the loop comes to it.
`Accounts` and `LinesInOrder`: what the client believes (`view`) against
`openttsd_sockets` and its settings, and which lines can be under way; a client that
is inside its data is not misread. `Blocks`: a gid is at most `max_gid` and, once
given, belongs to one connection. `Addressed`: a message has the descriptor of its
sender until that client is gone. `EventsAreAsked` needs `WantsCover`: the
client's own account of its notifications runs ahead of the server's by the
one command that is under way.

### Settings

`VoiceFits` is inductive together with the types. `BlockIsUniform` speaks of
messages already queued only; it becomes inductive with `Agree`: while a block is
open, what its messages were queued with is what the client's settings still say,
unless someone else changed them (`touched`).

### Espeak

`EventsInOrder` is about what was told; why the next event fits is a matter of where
four threads are. `States` says what `espeak_state` tells of the synthesiser, the
queue and the events: nothing is made, queued or played while it is `IDLE`, nothing was
told before it is `SPEAKING`, and once the end was told in `SPEAKING` everything waits
for the stop thread. `Queue`: the entry for BEGIN comes first and once, the one for the
end last, all for the message accepted last. `Playing`: what the play thread has taken
out of the queue. `Stops`: the stop thread finds the play thread suspended and the
callback gone before it clears the queue; it may tell the STOP of a message after
the next one was accepted, as the play thread may its END. What was told is only
spoken of by predicates on sequences (`Ordered`, `EndIsLast`, `MayStop`), with
a lemma on each for what appending an event does.

### Ibmtts

The module has no state variable like `espeak_state`; what keeps two messages apart is
that `ibmtts_speak` accepts one only while all three threads are suspended. With
`Prompt`, suspended means asleep with nothing posted (`NobodyBusy`): the queue is empty,
no flag is set, and whatever was told of the last message ended it. `Queue`: what is
queued or handled, and the table of marks, are of the message accepted last, BEGIN comes
first and once, the end last. `Synthesis`: from the semaphore that is posted to the first
entry (`Fresh`) nothing was told or queued; while it goes on the message is not over.
`Stopping`: the stop thread has waited for the synthesis, then for the play thread, and
`Asleep` says that neither can wake before it is done, not even to be ended by QUIT; a
flag that is set was asked for by a command for the message accepted last, so the stop
thread has it to do before another message is accepted. `Prompt` is needed: a thread
that was posted but still counts as suspended lets the stop thread go on, or the
next message in.

### Drivers

One invariant says at every place of the speaking thread what the server was told
and what it waits for (`Reported`, `PicoReported`), which flag the thread has
still to see (`Seen`), and that a child exists only between `fork()` and
`waitpid()` (`Childless`); `OneAtATime` says that a command to speak comes when
nothing is waited for. For `pico` the state says more than the place does, hence
a part of its own. The refinement maps the reports to those of `Synthesizer`;
every step is one of its steps or a stutter.

### Client

The hand-over of a reply has no predicate that says whose it is, so the invariant has to.
`Locks`: one call at a time is inside the library, by `ssip_mutex` or because it lists
alone. `Requested` and `Answered`: at most one request is not answered; it is
unread by the server, or its reply is the only one among the events in the socket, or
the reading thread has it, and the caller it is for waits. `HandedOver`: who was
woken finds its own reply, or NULL when the thread is gone, and the reading thread waits
until it was copied, so the next reply cannot overwrite it. `Priority`: the
connection's priority is what the call wants that has set it; no other call can
have sent a request since. `Connection` says what a failed or closed connection
leaves behind: nothing. `ListsAlone` is needed: with lists read beside other calls both
the replies and the requests mix (`lists_together`).

### Festival

* `LostInv`, for `BreakCostsOne`: once a message was lost the connection is up again,
  or the break was seen and nothing is done before it is opened, or the module died.
  So what loses a message elsewhere (`FirstLost`) is the first to do so. It needs that
  the module believes the connection broken only when it is (`ConnectionInv`).
  `DefaultHost` is needed: after a failed attempt `festivalOpen` forgets the
  configured host and does not find festival again (`festival_host`).
* `BeliefInv`, for `HeardAsAsked`: on a connection that is up festival has what `old`
  remembers (`TunedInv`); on the way through the comparisons `old` agrees with the
  message in everything compared already, and what a command would reset at festival
  was forgotten before (`ComparedInv`): a new language makes festival forget its
  voice and its rate, a type of voice replaces a synthesis voice. `~MixedVoices` is
  needed: with both set the synthesis voice is sent last, and a message that then
  asks for the same type alone sends nothing (`festival_voice`). On a cut connection `old` may say anything, as no wave comes.
* `CacheInv`: each entry was made from its text, in the language of its table and with
  the rate and the type of voice that the table is told apart by. An insertion adds one
  entry at most (`InsertAddsOne`), whatever the cleaning removes.
* `BooksInv`, for `CacheBounded`: tables and list have the same places and no two
  entries share one (`Apart`), what is about to be inserted has none yet, the size is
  the sum. The sum (`TotalSize`, a fold of the community modules over a set) is
  a recursive function taken by `CHOOSE`: that it exists and is unique is
  shown by the least number for which it does not (`SumsUpTo`, `SumsAgree`;
  `LeastNumber` stands in for induction), and then that it does not depend on the
  order (`TotalSizeAdds`). `CleaningFits` is the argument about the limit: two thirds of
  a size within the limit leave room, and a single entry that is too large goes.

### Texts

Sequences of any length, put together by a fold of the community modules: `JoinExists`
gives a fold its partial results, and what holds of all of them is shown by the least
place at which it would not (`UpTo`). `Clean(t, S)` says that no element of S is in a tag;
here a mark does not end a tag, because marks come and go while the text is cut and
resumed. `Undotted` is the argument for `StaysInStep`: in a text of SSML no dot is in a
tag when the server gets it, so every dot that ends a line ends a sentence too, and gets a
mark between itself and the line end (`InsertNoDotLine`). Hence `escape_dot` doubles
at most the last dot (`EscapeOnce`), and the lone dot that `do_message` finds first is the
one that was appended (`MarkedReadWhole`). Removal of the marks for a resume keeps the
tags, but joins dots and line ends again, so `Clean`, not `NoDotLine`, is what goes
around. A plain text has no tags at all. `~RawDots` is needed: those texts do end early.
`Ordered` is the argument for `MarksInOrder`: the text is free of marks whenever
`insert_index_marks` runs, and its number counts the marks written (`CountsAppend`); the
doubling of dots neither moves nor adds one. A resume without a mark sends the text again
with its old marks, hence the cases `MarksInOrder` leaves out.

`Faithful` is the argument for `HeardIsSent`: in every stage what has been heard and what
the module would speak of the text on its way make what the client said.
* `Audible(t, m)` is what is left of `t` character by character, and distributes over
  concatenation (`AudibleConcat`); the parts a message is spoken in put together are the
  message (`PartsAreAll`), so `Spoken` is `Audible` (`SpokenIsAudible`).
* The library's doubled dots are halved by the server, and the data end where the
  library ended them (`ReadAsWritten`).
* The module reads a text but for the second dot of a last line of two (`Fixed`,
  `ReadIsFixed`), and `escape_dot` does not change that (`EscapeFixed`). Which dots are
  lost must not depend on the marks that come and go: in SSML a mark is never the last
  character nor before a dot (`MarkFollowed`), so removing the marks first or last is the
  same (`FixedWithoutMarks`, `HeardWithoutMarks`).
* A plain text is framed by `<speak>` and `</speak>`, holds neither `<` nor `>` between
  them (`InFrame`), and each entity is heard as its character (`InsertInFrame`); a rest
  without entities is stripped to what is left to hear (`RestStripped`).
* What the module has read has its first mark of a number where the server finds it, and
  the text is cut there into what is spoken and what goes again (`CutFacts`).

`~RawDots` is needed here also for the client's own last line of two dots; `~spoiled`
for plain texts resumed with entities or without a mark, and for marks of an
earlier resume.

### Only model-checked

* Liveness: `QueuesDrain`, `EveryMessageEnds` and the others, which need fairness.

Every safety invariant and every action property that a run checks is stated by a theorem.

## 6. Not modelled

* Memory of the server: use of a message after it was freed, which the double
  entry in `MessagePausedList` makes possible (`speaking.c:272`); the `-1` in
  `bytes` with which `copy_message` later copies (`output.c:545`); lengths of
  buffers in `deescape_dot` and `do_message`.
* A full `speaking_pipe` (65536 bytes), to which the speak thread itself writes
  while it holds the mutex.
* The history list: `server.c:145` is switched off, messages never enter it.
* festival: the encoding of its protocol, answers it never gives, a NULL language
  (the server always sends one), and the communication with a local process, which
  has no code (`festival.c:1200`).
* Audio plug-ins, the synthesisers, dumbtts, and the parts of modules that set
  voices and parameters: device and library calls without concurrency of their own.
* Spurious wake-ups of condition variables, errors of `pthread_*`.
* The Python, Guile and Lisp libraries, the command line clients.
* Start-up: options, directories, the socket, the parser of the configuration file.
* Symbols, punctuation and spelling in `module_utils.c`: wording.
