------------------------------- MODULE Output -------------------------------
(***************************************************************************)
(* The output layer of the server (output.c, module.c) between three       *)
(* threads and the processes of the output modules:                        *)
(*   speak   sends messages and reads the events of the module that speaks *)
(*   main    sends STOP and DEBUG, and closes everything at the end        *)
(*   signal  reloads modules at SIGUSR1 and SIGHUP                         *)
(* Each module has a pipe in and a pipe out.  Replies and events come      *)
(* through the same pipe: output_layer_mutex and the order of the commands *)
(* are all that keeps one thread from reading the line another one waits   *)
(* for.  A module may crash at any time.                                   *)
(***************************************************************************)
EXTENDS Integers, Sequences, FiniteSets

CONSTANTS
    Names,          \* the configured modules
    Dummy,          \* the module of last resort, one of Names
    Default,        \* GlobalFDSet.output_module
    NULL,
    MaxMessages,    \* bound: messages
    MaxCrashes,     \* bound: crashes
    MaxControls,    \* bound: STOPs and SET all DEBUG commands
    MaxReloads,     \* bound: SIGUSR1 and SIGHUP
    Careful         \* TRUE: no CANCEL ALL, no DEBUG while a module speaks

ASSUME OutputAssumption ==
    /\ IsFiniteSet(Names)
    /\ Dummy \in Names /\ Default \in Names
    /\ NULL \notin Names /\ NULL \notin {"speak", "main", "signal"}
    /\ {MaxMessages, MaxCrashes, MaxControls, MaxReloads} \subseteq Nat
    /\ Careful \in BOOLEAN

Threads == {"speak", "main", "signal"}

VARIABLES
    listed,     \* output_modules: the names in the table
    working,    \* module->working
    open,       \* the server's ends of the two pipes are open
    proc,       \* the process: "up", "dead" (not waited for) or "reaped"
    inp, out,   \* the pipes: commands, and lines of replies and events
    talk,       \* the module: "silent", "accepted" or "begun"
    speaking_module, SPEAKING,
    polled,     \* the module whose pipe speak() polls, NULL: poll_count = 1
    bytes,      \* bytes in speaking_pipe
    mutex,      \* the holder of output_layer_mutex, or NULL
    pc,         \* where each thread is
    target,     \* the module each thread is talking to
    todo,       \* modules the thread has still to handle
    queue,      \* messages: the module each one asks for
    message,    \* the message speak() has taken, or NULL
    mustStop,   \* thread_must_stop
    reloading,  \* what the signal thread reloads: "no", "dead" or "all"
    sent, crashes, controls, reloads,
    lost, swallowed   \* ghosts, see the properties

modules  == <<listed, working, open>>
pipes    == <<inp, out>>
talking  == <<speaking_module, SPEAKING, polled>>
counters == <<sent, crashes, controls, reloads>>
ghosts   == <<lost, swallowed>>
vars == <<modules, proc, pipes, talk, talking, bytes, mutex, pc, target, todo,
          queue, message, mustStop, reloading, counters, ghosts>>

Replies == {"ok", "err"}

Init ==
    /\ listed = Names
    /\ working = [n \in Names |-> TRUE] /\ open = [n \in Names |-> TRUE]
    /\ proc = [n \in Names |-> "up"]
    /\ inp = [n \in Names |-> <<>>] /\ out = [n \in Names |-> <<>>]
    /\ talk = [n \in Names |-> "silent"]
    /\ speaking_module = NULL /\ SPEAKING = FALSE /\ polled = NULL
    /\ bytes = 0 /\ mutex = NULL
    /\ pc = [speak |-> "poll", main |-> "idle", signal |-> "idle"]
    /\ target = [t \in Threads |-> NULL] /\ todo = [t \in Threads |-> {}]
    /\ queue = <<>> /\ message = NULL /\ mustStop = FALSE /\ reloading = "no"
    /\ sent = 0 /\ crashes = 0 /\ controls = 0 /\ reloads = 0
    /\ lost = 0 /\ swallowed = FALSE

-----------------------------------------------------------------------------
(* Talking to a module: every operator below is part of a step of thread t *)
(* that holds the mutex.                                                   *)

Works(n) == n \in listed /\ working[n]

\* get_output_module_by_name(), and what get_output_module() falls back on
get_output_module(wanted) ==
    LET others == {n \in listed \ {Dummy} : working[n]}
    IN  IF Works(wanted) THEN {wanted}
        ELSE IF Works(Default) THEN {Default}
        ELSE IF others # {} THEN others
        ELSE IF Works(Dummy) THEN {Dummy} ELSE {NULL}

Goes(t, to) == pc' = [pc EXCEPT ![t] = to]
output_lock(t) == mutex = NULL /\ mutex' = t
output_unlock(t) == mutex' = NULL

\* output_check_module(): a dead process is waited for
output_check_module(n) ==
    proc' = IF proc[n] = "dead" THEN [proc EXCEPT ![n] = "reaped"] ELSE proc

\* the pipe is broken: nobody speaks
Broken(n) ==
    /\ working' = [working EXCEPT ![n] = FALSE]
    /\ speaking_module' = NULL
    /\ output_check_module(n)

\* output_send_data(): the write
Sends(n, cmds) ==
    /\ proc[n] = "up"
    /\ inp' = [inp EXCEPT ![n] = @ \o cmds]
    /\ UNCHANGED <<working, proc>>
SendFails(n) == proc[n] # "up" /\ Broken(n) /\ UNCHANGED inp

\* output_read_reply(): the next line, whatever it is
Reads(n, line) ==
    /\ out[n] # <<>> /\ line = Head(out[n])
    /\ out' = [out EXCEPT ![n] = Tail(@)]
    /\ UNCHANGED <<working, proc>>
ReadFails(n) ==
    /\ out[n] = <<>> /\ proc[n] # "up"
    /\ Broken(n) /\ UNCHANGED out

\* a reply is expected: an event read in its place is lost
Expects(line) == swallowed' = (swallowed \/ line \notin Replies)

-----------------------------------------------------------------------------
(* The speaking thread.                                                    *)

SpeakUnchanged ==
    UNCHANGED <<listed, open, talk, todo, counters>>

\* the message is dropped; only a crash may cost one
Drops ==
    /\ message' = NULL
    /\ lost' = IF \E n \in listed : working[n] THEN lost + 1 ELSE lost
    /\ Goes("speak", "poll")

wait_for_poll ==
    /\ pc["speak"] = "poll"
    /\ bytes > 0 \/ (polled # NULL /\ (out[polled] # <<>> \/ proc[polled] # "up"))
    /\ bytes' = IF bytes > 0 THEN bytes - 1 ELSE bytes
    /\ Goes("speak",
            IF polled = NULL THEN "next"
            ELSE IF proc[polled] # "up" THEN "hangup"
            ELSE IF out[polled] # <<>> THEN "activity" ELSE "next")
    /\ UNCHANGED <<working, proc, pipes, talking, mutex, target, queue, message,
                   mustStop, lost, swallowed>>
    /\ SpeakUnchanged

\* Mutant: the module that died may be chosen again.
CleanupKeepsModule ==
    /\ pc["speak"] = "hangup"
    /\ lost' = IF message # NULL THEN lost + 1 ELSE lost
    /\ message' = NULL
    /\ SPEAKING' = FALSE /\ speaking_module' = NULL /\ polled' = NULL
    /\ Goes("speak", "next")
    /\ UNCHANGED <<working, proc, pipes, bytes, mutex, target, queue, mustStop,
                   swallowed>>
    /\ SpeakUnchanged

\* POLLHUP: what is left in the pipe is not read any more
speaking_module_cleanup ==
    /\ pc["speak"] = "hangup"
    /\ working' = [n \in Names |-> working[n] /\ n # speaking_module]
    /\ lost' = IF message # NULL THEN lost + 1 ELSE lost
    /\ message' = NULL
    /\ SPEAKING' = FALSE /\ speaking_module' = NULL /\ polled' = NULL
    /\ Goes("speak", "next")
    /\ UNCHANGED <<proc, pipes, bytes, mutex, target, queue, mustStop, swallowed>>
    /\ SpeakUnchanged

\* is_sb_speaking(): the module is read before the mutex is taken
is_sb_speaking ==
    /\ pc["speak"] = "activity"
    /\ IF speaking_module = NULL
       THEN /\ SPEAKING' = FALSE
            /\ Goes("speak", "next") /\ UNCHANGED target
       ELSE /\ target' = [target EXCEPT !["speak"] = speaking_module]
            /\ Goes("speak", "event_lock") /\ UNCHANGED SPEAKING
    /\ UNCHANGED <<working, proc, pipes, speaking_module, polled, bytes, mutex,
                   queue, message, mustStop, lost, swallowed>>
    /\ SpeakUnchanged

EventLock ==
    /\ pc["speak"] = "event_lock" /\ output_lock("speak")
    /\ Goes("speak", "event")
    /\ UNCHANGED <<working, proc, pipes, talking, bytes, target, queue, message,
                   mustStop, lost, swallowed>>
    /\ SpeakUnchanged

\* a reply in place of an event counts as the end of the message, but the
\* module is still the speaking one and still polled
output_module_is_speaking ==
    /\ pc["speak"] = "event" /\ output_unlock("speak")
    /\ LET n == target["speak"] IN
       \/ /\ Reads(n, "begin") /\ SPEAKING' = TRUE
          /\ UNCHANGED <<speaking_module, polled, bytes, message, lost>>
       \/ /\ Reads(n, "over")
          /\ SPEAKING' = FALSE /\ polled' = NULL /\ speaking_module' = NULL
          /\ bytes' = bytes + 1 /\ message' = NULL
          /\ UNCHANGED lost
       \/ /\ \E line \in Replies : Reads(n, line)
          /\ SPEAKING' = FALSE
          /\ UNCHANGED <<speaking_module, polled, bytes, message, lost>>
       \/ /\ ReadFails(n)
          /\ SPEAKING' = FALSE
          /\ UNCHANGED <<polled, bytes, message, lost>>
    /\ Goes("speak", "next")
    /\ UNCHANGED <<inp, target, queue, mustStop, swallowed>>
    /\ SpeakUnchanged

\* the rest of the loop of speak(): stop, or take a message
TakesMessage ==
    /\ pc["speak"] = "next" /\ ~SPEAKING /\ ~mustStop /\ queue # <<>>
    /\ message' = Head(queue) /\ queue' = Tail(queue)
    /\ lost' = IF message # NULL THEN lost + 1 ELSE lost
    /\ Goes("speak", "speak")
    /\ UNCHANGED <<working, proc, pipes, talking, bytes, mutex, target,
                   mustStop, swallowed>>
    /\ SpeakUnchanged

PollsAgain ==
    /\ pc["speak"] = "next"
    /\ SPEAKING \/ (~mustStop /\ queue = <<>>)
    /\ Goes("speak", "poll")
    /\ UNCHANGED <<working, proc, pipes, talking, bytes, mutex, target, queue,
                   message, mustStop, lost, swallowed>>
    /\ SpeakUnchanged

ThreadEnds ==
    /\ pc["speak"] = "next" /\ ~SPEAKING /\ mustStop
    /\ mustStop' = FALSE
    /\ speaking_module' = NULL /\ SPEAKING' = FALSE /\ polled' = NULL
    /\ Goes("speak", "gone")
    /\ UNCHANGED <<working, proc, pipes, bytes, mutex, target, queue, message,
                   lost, swallowed>>
    /\ SpeakUnchanged

\* output_speak(): choose a module, send the settings
output_speak ==
    /\ pc["speak"] = "speak" /\ mutex = NULL
    /\ \E n \in get_output_module(message) :
       \/ /\ n = NULL /\ Drops
          /\ UNCHANGED <<working, proc, inp, speaking_module, mutex, target>>
       \/ /\ n # NULL /\ Sends(n, <<"set">>)
          /\ speaking_module' = n
          /\ target' = [target EXCEPT !["speak"] = n]
          /\ output_lock("speak") /\ Goes("speak", "set")
          /\ UNCHANGED <<message, lost>>
       \/ /\ n # NULL /\ SendFails(n) /\ Drops
          /\ UNCHANGED <<mutex, target>>
    /\ UNCHANGED <<out, SPEAKING, polled, bytes, queue, mustStop, swallowed>>
    /\ SpeakUnchanged

\* any reply but 2xx, or none: output_speak() returns an error
Refused(n) ==
    \/ /\ \E line \in {"err", "begin", "over"} : Reads(n, line) /\ Expects(line)
       /\ UNCHANGED speaking_module
    \/ ReadFails(n) /\ UNCHANGED swallowed

\* output_send_settings() is answered: the text follows
output_send_settings ==
    /\ pc["speak"] = "set"
    /\ LET n == target["speak"] IN
       \/ /\ proc[n] = "up"
          /\ out[n] # <<>> /\ Head(out[n]) = "ok"
          /\ out' = [out EXCEPT ![n] = Tail(@)]
          /\ inp' = [inp EXCEPT ![n] = Append(@, "speak")]
          /\ Goes("speak", "say")
          /\ UNCHANGED <<working, proc, speaking_module, mutex, message, lost,
                         swallowed>>
       \/ /\ out[n] # <<>> /\ Head(out[n]) = "ok"
          /\ SendFails(n)
          /\ out' = [out EXCEPT ![n] = Tail(@)]
          /\ Drops /\ output_unlock("speak") /\ UNCHANGED swallowed
       \/ /\ Refused(n)
          /\ Drops /\ output_unlock("speak") /\ UNCHANGED inp
    /\ UNCHANGED <<SPEAKING, polled, bytes, target, queue, mustStop>>
    /\ SpeakUnchanged

\* 200 OK SPEAKING, or the message is dropped
SpeakReply ==
    /\ pc["speak"] = "say" /\ output_unlock("speak")
    /\ LET n == target["speak"] IN
       \/ /\ Reads(n, "ok") /\ Goes("speak", "said")
          /\ UNCHANGED <<speaking_module, message, lost, swallowed>>
       \/ Refused(n) /\ Drops
    /\ UNCHANGED <<inp, SPEAKING, polled, bytes, target, queue, mustStop>>
    /\ SpeakUnchanged

\* Mutant: the server believes to be silent until BEGIN is read.
SaidSilently ==
    /\ pc["speak"] = "said"
    /\ polled' = IF speaking_module # NULL THEN speaking_module ELSE polled
    /\ Goes("speak", "poll")
    /\ UNCHANGED <<working, proc, pipes, speaking_module, SPEAKING, bytes, mutex,
                   target, queue, message, mustStop, lost, swallowed>>
    /\ SpeakUnchanged

\* the main thread may have found the module broken in between
Said ==
    /\ pc["speak"] = "said"
    /\ SPEAKING' = TRUE
    /\ polled' = IF speaking_module # NULL THEN speaking_module ELSE polled
    /\ Goes("speak", "poll")
    /\ UNCHANGED <<working, proc, pipes, speaking_module, bytes, mutex, target,
                   queue, message, mustStop, lost, swallowed>>
    /\ SpeakUnchanged

-----------------------------------------------------------------------------
(* The main thread.                                                        *)

MainUnchanged == UNCHANGED <<listed, open, talk, SPEAKING, polled, message>>

\* the speaking thread holds element_free_mutex from taking a message until
\* the message is on its way
ElementFree == pc["speak"] \notin {"speak", "set", "say", "said"}

queue_message(name) ==
    /\ pc["main"] = "idle" /\ sent < MaxMessages /\ ElementFree
    /\ sent' = sent + 1
    /\ queue' = Append(queue, name) /\ bytes' = bytes + 1
    /\ UNCHANGED <<working, proc, pipes, speaking_module, mutex, pc, target, todo,
                   mustStop, crashes, controls, reloads, ghosts>>
    /\ MainUnchanged

\* STOP has no reply.  All its callers hold element_free_mutex, but for
\* CANCEL ALL
output_stop ==
    /\ pc["main"] = "idle" /\ mutex = NULL
    /\ Careful => ElementFree
    /\ controls < MaxControls /\ controls' = controls + 1
    /\ IF speaking_module = NULL THEN UNCHANGED <<working, proc, inp, speaking_module>>
       ELSE \/ Sends(speaking_module, <<"stop">>) /\ UNCHANGED speaking_module
            \/ SendFails(speaking_module)
    /\ UNCHANGED <<out, bytes, mutex, pc, target, todo, queue, mustStop, sent, crashes,
                   reloads, ghosts>>
    /\ MainUnchanged

modules_debug ==
    /\ pc["main"] = "idle" /\ controls < MaxControls /\ controls' = controls + 1
    /\ Goes("main", "debug") /\ todo' = [todo EXCEPT !["main"] = listed]
    /\ UNCHANGED <<working, proc, pipes, speaking_module, bytes, mutex, target, queue,
                   mustStop, sent, crashes, reloads, ghosts>>
    /\ MainUnchanged

DebugUnchanged ==
    UNCHANGED <<bytes, queue, mustStop, counters, lost>> /\ MainUnchanged

Left(t, n) == todo' = [todo EXCEPT ![t] = @ \ {n}]

\* module->working is tested before the mutex is taken
output_send_debug ==
    /\ pc["main"] = "debug" /\ todo["main"] # {} /\ mutex = NULL
    /\ Careful => ElementFree /\ ~SPEAKING
    /\ \E n \in todo["main"] :
       \/ /\ ~Works(n) /\ Left("main", n)
          /\ UNCHANGED <<working, proc, inp, speaking_module, mutex, pc, target>>
       \/ /\ Works(n) /\ Sends(n, <<"debug">>)
          /\ target' = [target EXCEPT !["main"] = n]
          /\ output_lock("main") /\ Goes("main", "debug_reply")
          /\ UNCHANGED <<speaking_module, todo>>
       \/ /\ Works(n) /\ SendFails(n) /\ Left("main", n)
          /\ UNCHANGED <<mutex, pc, target>>
    /\ UNCHANGED <<out, swallowed>>
    /\ DebugUnchanged

DebugReply ==
    /\ pc["main"] = "debug_reply" /\ output_unlock("main")
    /\ LET n == target["main"] IN
       /\ \/ /\ \E line \in Replies \cup {"begin", "over"} :
                Reads(n, line) /\ Expects(line)
             /\ UNCHANGED speaking_module
          \/ ReadFails(n) /\ UNCHANGED swallowed
       /\ Left("main", n)
    /\ Goes("main", "debug")
    /\ UNCHANGED <<inp, target>>
    /\ DebugUnchanged

DebugEnds ==
    /\ pc["main"] = "debug" /\ todo["main"] = {} /\ Goes("main", "idle")
    /\ UNCHANGED <<working, proc, pipes, speaking_module, mutex, target, todo, swallowed>>
    /\ DebugUnchanged

\* quit(): the speaking thread is canceled wherever it is, with what it holds
quit ==
    /\ pc["main"] = "idle" /\ pc["signal"] = "ended"
    /\ pc' = [pc EXCEPT !["speak"] = "gone", !["main"] = "close"]
    /\ todo' = [todo EXCEPT !["main"] = listed]
    /\ UNCHANGED <<working, proc, pipes, speaking_module, bytes, mutex, target, queue,
                   mustStop, counters, ghosts>>
    /\ MainUnchanged

QuitEnds ==
    /\ pc["main"] = "close" /\ todo["main"] = {} /\ Goes("main", "exited")
    /\ UNCHANGED <<working, proc, pipes, speaking_module, bytes, mutex, target, todo,
                   queue, mustStop, counters, ghosts>>
    /\ MainUnchanged

-----------------------------------------------------------------------------
(* Closing a module, by the main thread at the end, by the signal thread   *)
(* when it reloads.                                                        *)

CloseUnchanged ==
    UNCHANGED <<talk, SPEAKING, polled, bytes, queue, message, mustStop, counters, lost>>

\* a module that does not work is only waited for
output_close(t) ==
    /\ pc[t] = "close" /\ todo[t] # {} /\ mutex = NULL
    /\ \E n \in todo[t] :
       /\ target' = [target EXCEPT ![t] = n]
       /\ \/ working[n] /\ Sends(n, <<"stop", "quit">>) /\ Goes(t, "quit")
             /\ mutex' = t /\ UNCHANGED speaking_module
          \/ working[n] /\ SendFails(n) /\ Goes(t, "shut") /\ UNCHANGED mutex
          \/ ~working[n] /\ Goes(t, "wait") /\ mutex' = t
             /\ UNCHANGED <<working, proc, inp, speaking_module>>
    /\ UNCHANGED <<listed, open, out, todo, swallowed, reloading>>
    /\ CloseUnchanged

\* any line but a 2xx reply ends output_close() before it has waited
QuitReply(t) ==
    /\ pc[t] = "quit"
    /\ LET n == target[t] IN
       \/ /\ Reads(n, "ok") /\ Goes(t, "wait")
          /\ UNCHANGED <<speaking_module, mutex>>
       \/ /\ \E line \in {"err", "begin", "over"} : Reads(n, line)
          /\ Goes(t, "shut") /\ output_unlock(t) /\ UNCHANGED speaking_module
       \/ ReadFails(n) /\ Goes(t, "shut") /\ output_unlock(t)
    /\ UNCHANGED <<listed, open, inp, target, todo, swallowed, reloading>>
    /\ CloseUnchanged

\* a process that is still there after a second is killed
waitpid_with_timeout(t) ==
    /\ pc[t] = "wait"
    /\ proc' = [proc EXCEPT ![target[t]] = "reaped"]
    /\ Goes(t, "shut") /\ output_unlock(t)
    /\ UNCHANGED <<modules, pipes, talking, target, todo, swallowed, reloading>>
    /\ UNCHANGED <<talk, bytes, queue, message, mustStop, counters, lost>>

\* INIT, AUDIO, LOGLEVEL and LIST VOICES have been answered
send_initial_commands(S) ==
    /\ inp' = [n \in Names |-> IF n \in S THEN <<>> ELSE inp[n]]
    /\ out' = [n \in Names |-> IF n \in S THEN <<>> ELSE out[n]]
    /\ talk' = [n \in Names |-> IF n \in S THEN "silent" ELSE talk[n]]

\* the modules S are started anew, new pipes and new processes: nothing is left
\* of the old ones
load_output_module(S) ==
    /\ working' = [n \in Names |-> n \in S \/ working[n]]
    /\ open' = [n \in Names |-> n \in S \/ open[n]]
    /\ proc' = [n \in Names |-> IF n \in S THEN "up" ELSE proc[n]]
    /\ send_initial_commands(S)

ShutUnchanged ==
    UNCHANGED <<talking, bytes, mutex, target, queue, message, mustStop,
                counters, ghosts, reloading>>

unload_output_module(t) ==
    /\ pc[t] = "shut" /\ ~(t = "signal" /\ reloading = "dead")
    /\ open' = [open EXCEPT ![target[t]] = FALSE]
    /\ working' = [working EXCEPT ![target[t]] = FALSE]
    /\ listed' = listed \ {target[t]}
    /\ Left(t, target[t]) /\ Goes(t, "close")
    /\ UNCHANGED <<proc, pipes, talk>>
    /\ ShutUnchanged

\* when it cannot be started, the closed module stays in the table
reload_output_module ==
    /\ pc["signal"] = "shut" /\ reloading = "dead"
    /\ LET n == target["signal"] IN
       /\ \/ load_output_module({n})
          \/ /\ open' = [open EXCEPT ![n] = FALSE]
             /\ UNCHANGED <<working, proc, pipes, talk>>
       /\ Left("signal", n)
    /\ Goes("signal", "close")
    /\ UNCHANGED listed
    /\ ShutUnchanged

-----------------------------------------------------------------------------
(* The signal thread.                                                      *)

SignalUnchanged ==
    UNCHANGED <<working, open, proc, pipes, talk, talking, mutex, target, queue,
                message, ghosts, sent, crashes, controls>>

\* Mutant: the thread that has to stop is not woken.
SignalWithoutWakeup(kind) ==
    /\ pc["signal"] = "idle" /\ reloads < MaxReloads
    /\ reloads' = reloads + 1 /\ reloading' = kind
    /\ mustStop' = TRUE
    /\ Goes("signal", "stopping")
    /\ UNCHANGED <<listed, todo, bytes>>
    /\ SignalUnchanged

\* SIGUSR1 reloads the dead modules, SIGHUP all of them
catch_signals(kind) ==
    /\ pc["signal"] = "idle" /\ reloads < MaxReloads
    /\ reloads' = reloads + 1 /\ reloading' = kind
    /\ mustStop' = TRUE /\ bytes' = bytes + 1
    /\ Goes("signal", "stopping")
    /\ UNCHANGED <<listed, todo>>
    /\ SignalUnchanged

\* configure() closes every module, reload_dead_modules() those that do not work
ToReload == {n \in listed : reloading = "all" \/ ~working[n]}

\* Mutant: the thread is told to stop, but not joined.
NotJoined ==
    /\ pc["signal"] = "stopping"
    /\ todo' = [todo EXCEPT !["signal"] = ToReload]
    /\ Goes("signal", "close")
    /\ UNCHANGED <<listed, reloading, mustStop, bytes, reloads>>
    /\ SignalUnchanged

\* stop_speak_thread() has joined the thread
Joined ==
    /\ pc["signal"] = "stopping" /\ pc["speak"] = "gone"
    /\ todo' = [todo EXCEPT !["signal"] = ToReload]
    /\ Goes("signal", "close")
    /\ UNCHANGED <<listed, reloading, mustStop, bytes, reloads>>
    /\ SignalUnchanged

\* configure(), when every module has been unloaded: those the file names that
\* can be started, at least one.  Without the default module another one becomes
\* the default: one of those get_output_module() chooses from in any case.
configure ==
    \E S \in SUBSET Names \ {{}} : load_output_module(S) /\ listed' = S

start_speak_thread ==
    /\ pc["signal"] = "close" /\ todo["signal"] = {}
    /\ pc' = [pc EXCEPT !["signal"] = "idle", !["speak"] = "poll"]
    /\ IF reloading = "all" THEN configure
       ELSE UNCHANGED <<listed, working, open, proc, pipes, talk>>
    /\ reloading' = "no"
    /\ UNCHANGED <<talking, mutex, target, todo, queue, message, mustStop, bytes,
                   counters, ghosts>>

SIGINT ==
    /\ pc["signal"] = "idle" /\ Goes("signal", "ended")
    /\ UNCHANGED <<listed, todo, reloading, mustStop, bytes, reloads>>
    /\ SignalUnchanged

-----------------------------------------------------------------------------
(* The processes of the modules.                                           *)

ModuleUnchanged ==
    UNCHANGED <<modules, talking, bytes, mutex, pc, target, todo, queue, message,
                mustStop, sent, controls, reloads, ghosts, reloading>>

\* one command, and the reply to it; STOP has none and may end the message
Obeys(n) ==
    /\ proc[n] = "up" /\ inp[n] # <<>>
    /\ inp' = [inp EXCEPT ![n] = Tail(@)]
    /\ LET cmd == Head(inp[n])
           Answers(line) == out' = [out EXCEPT ![n] = Append(@, line)]
       IN \/ cmd \in {"set", "debug"} /\ Answers("ok") /\ UNCHANGED <<talk, proc>>
          \/ /\ cmd = "speak" /\ talk[n] = "silent" /\ Answers("ok")
             /\ talk' = [talk EXCEPT ![n] = "accepted"] /\ UNCHANGED proc
          \/ /\ cmd = "speak" /\ talk[n] # "silent" /\ Answers("err")
             /\ UNCHANGED <<talk, proc>>
          \/ cmd = "stop" /\ UNCHANGED <<out, talk, proc>>
          \/ /\ cmd = "quit" /\ Answers("ok")
             /\ proc' = [proc EXCEPT ![n] = "dead"] /\ UNCHANGED talk
    /\ UNCHANGED crashes
    /\ ModuleUnchanged

\* an event; a message stopped early has no BEGIN
Reports(n) ==
    /\ proc[n] = "up" /\ talk[n] # "silent"
    /\ \/ /\ talk[n] = "accepted"
          /\ talk' = [talk EXCEPT ![n] = "begun"]
          /\ out' = [out EXCEPT ![n] = Append(@, "begin")]
       \/ /\ talk' = [talk EXCEPT ![n] = "silent"]
          /\ out' = [out EXCEPT ![n] = Append(@, "over")]
    /\ UNCHANGED <<proc, inp, crashes>>
    /\ ModuleUnchanged

Crashes(n) ==
    /\ proc[n] = "up" /\ open[n] /\ crashes < MaxCrashes
    /\ crashes' = crashes + 1
    /\ proc' = [proc EXCEPT ![n] = "dead"]
    /\ UNCHANGED <<pipes, talk>>
    /\ ModuleUnchanged

-----------------------------------------------------------------------------
Speak ==
    (\/ wait_for_poll \/ speaking_module_cleanup \/ is_sb_speaking \/ EventLock
     \/ output_module_is_speaking \/ TakesMessage \/ PollsAgain \/ ThreadEnds
     \/ output_speak \/ output_send_settings \/ SpeakReply \/ Said)
    /\ UNCHANGED reloading

Closes(t) == output_close(t) \/ QuitReply(t) \/ waitpid_with_timeout(t)
             \/ unload_output_module(t)

Main ==
    \/ (output_send_debug \/ DebugReply \/ DebugEnds \/ quit \/ QuitEnds)
       /\ UNCHANGED reloading
    \/ Closes("main")

Clients ==
    (\/ \E name \in Names \ {Dummy} : queue_message(name)
     \/ output_stop \/ modules_debug) /\ UNCHANGED reloading

Signal == Joined \/ Closes("signal") \/ reload_output_module \/ start_speak_thread

Module(n) == Obeys(n) \/ Reports(n)

Exited == pc["main"] = "exited" /\ UNCHANGED vars

Next ==
    \/ Speak \/ Main \/ Clients \/ Signal \/ SIGINT
    \/ \E kind \in {"dead", "all"} : catch_signals(kind)
    \/ \E n \in Names : Module(n) \/ Crashes(n)
    \/ Exited

\* threads and processes are scheduled; signals, crashes, clients need not come
Fairness ==
    /\ WF_vars(Speak) /\ WF_vars(Main) /\ WF_vars(Signal)
    /\ \A n \in Names : WF_vars(Module(n))

Spec == Init /\ [][Next]_vars /\ Fairness

-----------------------------------------------------------------------------
\* A crash costs at most the message that was being spoken or sent, however
\* many modules are reloaded and whatever is stopped meanwhile.
CrashCostsOne == lost <= crashes

\* No thread takes an event for the reply it waits for: the event would never
\* reach the speaking thread.
SwallowsNothing == ~swallowed

\* STOP and PAUSE follow speaking_module without looking at the table: it is
\* never a module that was unloaded or whose pipes are closed, as long as the
\* main thread serves clients.
StopsLiveModule ==
    pc["main"] = "idle" /\ speaking_module # NULL
    => speaking_module \in listed /\ open[speaking_module]

\* A reload waits for the message being spoken, whose module may crash instead
\* of reporting the end, and ends.
RestartCompletes == pc["signal"] = "stopping" ~> pc["signal"] = "idle"
=============================================================================
