------------------------------ MODULE Speaking ------------------------------
(***************************************************************************)
(* How the OpenTTS server decides what is spoken, and when.                *)
(*                                                                         *)
(* Three parties run concurrently:                                         *)
(*   - the main thread serves one command of one client at a time          *)
(*     (parse.c, queue_message() of server.c, the speaking_* functions);   *)
(*   - the speak thread, speak() of speaking.c, polls a pipe that carries  *)
(*     its wake-ups and the output module's events, and hands messages to  *)
(*     the module;                                                         *)
(*   - the output module, a process of its own, speaks one message at a    *)
(*     time and reports what happens to it.                                *)
(* What a thread does while it holds element_free_mutex is one step; the   *)
(* variables the code reads and writes without the mutex                   *)
(* (pause_requested, resume_requested, SPEAKING, the clients' settings)    *)
(* are read and written in steps of their own.                             *)
(***************************************************************************)
EXTENDS PriorityQueues

CONSTANTS
  Clients,         \* the clients, connected at the start
  NoClient,        \* the uid 0 of nobody
  Levels,          \* the priorities the clients use
  Commands,        \* the kinds of commands the clients use
  Faults,          \* what else the module does: "refuse", "mark", "crash"
  MaxMessages,     \* bound: messages queued by the clients
  MaxBlocks,       \* bound: blocks opened by the clients
  MaxWakeups,      \* bound: no command is served while this many bytes wait
  MaxPaused,       \* bound: no PAUSE while this many messages are set aside
  MaxEvents,       \* bound: events of the module that wait to be read
  MaxCrashes       \* bound: crashes of output modules

ASSUME ClientsAssumption == IsFiniteSet(Clients) /\ NoClient \notin Clients
ASSUME LevelsAssumption  == Levels \subseteq Priorities
ASSUME BoundsAssumption ==
  /\ MaxMessages \in Nat
  /\ MaxBlocks \in Nat
  /\ MaxWakeups \in Nat
  /\ MaxPaused \in Nat
  /\ MaxEvents \in Nat
  /\ MaxCrashes \in Nat

VARIABLES
  queues,                \* MessageQueue->p1 .. p5
  last_p5_block,         \* copies of the last progress message or block
  MessagePausedList,     \* messages interrupted by a pause
  paused_while_speaking, \* the messages that have this flag
  index_mark,            \* the messages with a known last index mark
  current_message,       \* the message spoken last, or NoMessage
  current_priority,      \* the queue it came from
  SPEAKING,              \* the flag SPEAKING
  poll_count,            \* 2 while the module's events are polled as well
  speaking_module,       \* is the pointer speaking_module set?
  speaking_uid,
  speaking_gid,
  spc,                   \* where the speak thread is
  mpc,                   \* where the main thread is
  wakeups,               \* bytes in speaking_pipe
  pause_requested,       \* 0: none, 1: all clients, 2: pause_requested_uid
  pause_requested_uid,
  resume_requested,
  connected,             \* clients whose connection is open
  paused,                \* settings->paused of each client
  priority,              \* settings->priority of each client
  inside_block,          \* gid of the block a client is in, 0 outside
  max_gid,
  last_message_id,
  reported,              \* the last event reported for each message
  module,                \* the output module
  orders,                \* STOP and PAUSE orders for the message it speaks
  events,                \* its events, not read yet
  crashes                \* crashes so far

queueVars   == <<queues, last_p5_block, MessagePausedList>>
flagVars    == <<paused_while_speaking, index_mark>>
currentVars == <<current_message, current_priority, SPEAKING, poll_count>>
speakerVars == <<speaking_uid, speaking_gid>>
requestVars == <<pause_requested, pause_requested_uid, resume_requested>>
clientVars  == <<connected, paused, priority, inside_block>>
counterVars == <<max_gid, last_message_id>>
moduleVars  == <<module, events, crashes>>
orderVars   == <<orders, speaking_module>>

vars == <<queueVars, flagVars, currentVars, speakerVars, spc, mpc, wakeups,
          requestVars, clientVars, counterVars, reported, moduleVars,
          orderVars>>

MessageIds == 1..MaxMessages
Groups     == 0..MaxBlocks
Messages   == [id : MessageIds, uid : Clients, gid : Groups, copy : BOOLEAN]
NoMessage  == [id |-> 0, uid |-> NoClient, gid |-> 0, copy |-> FALSE]

\* A message object keeps its identity when it moves between the lists.
Key(m) == <<m.id, m.copy>>
Keys   == MessageIds \X BOOLEAN

Terminal == {"end", "stopped", "paused"}
Event    == {"begin", "mark"} \cup Terminal
Report   == {"none", "begin", "end", "cancel", "pause", "resume"}

TypeOK ==
  /\ queues \in [Priorities -> Seq(Messages)]
  /\ last_p5_block \in Seq(Messages)
  /\ MessagePausedList \in Seq(Messages)
  /\ paused_while_speaking \subseteq Keys
  /\ index_mark \subseteq Keys
  /\ current_message \in Messages \cup {NoMessage}
  /\ current_priority \in Priorities
  /\ SPEAKING \in BOOLEAN
  /\ poll_count \in {1, 2}
  /\ speaking_module \in BOOLEAN
  /\ speaking_uid \in Clients \cup {NoClient}
  /\ speaking_gid \in Groups
  /\ spc \in {"poll", "pause", "pause_done", "resume", "resume_done", "pick",
              "promote"}
  /\ mpc \in {"serve", "cancel_all"}
  /\ wakeups \in Nat
  /\ pause_requested \in {0, 1, 2}
  /\ pause_requested_uid \in Clients \cup {NoClient}
  /\ resume_requested \in BOOLEAN
  /\ connected \subseteq Clients
  /\ paused \in [Clients -> BOOLEAN]
  /\ priority \in [Clients -> Priorities]
  /\ inside_block \in [Clients -> Groups]
  /\ max_gid \in Groups
  /\ last_message_id \in 0..MaxMessages
  /\ reported \in [MessageIds -> Report]
  /\ module \in {"idle", "starting", "talking", "dead"}
  /\ orders \subseteq {"stop", "pause"}
  /\ events \in Seq(Event)
  /\ crashes \in 0..MaxCrashes

-----------------------------------------------------------------------------
\* Helpers of both threads

\* message_nto_speak: is the client of m paused?  A client that is gone is not.
message_nto_speak(m) == m.uid \in connected /\ paused[m.uid]

Busy == module \in {"starting", "talking"}

\* output_stop, if called: the module gets the order when it is speaking; a
\* broken pipe makes the server forget it.
OutputStop(called) ==
  /\ orders' = IF called /\ speaking_module /\ Busy THEN orders \cup {"stop"}
               ELSE orders
  /\ speaking_module' = (speaking_module /\ ~(called /\ module = "dead"))
  /\ UNCHANGED moduleVars

\* The queues, the CANCEL reports and the STOP order of an effect.
Apply(e) ==
  /\ queues' = e.queues
  /\ reported' = [i \in MessageIds |->
                    IF i \in e.cancelled THEN "cancel" ELSE reported[i]]
  /\ OutputStop(e.stop)

\* Sets or clears key k in the set of keys S.
Mark(S, k, on) == IF on THEN S \cup {k} ELSE S \ {k}

\* The critical section of queue_message: m joins queue p, a progress message
\* also joins last_p5_block as a copy, then the priorities are resolved.
Enqueue(m, p) ==
  LET copy  == [m EXCEPT !.copy = TRUE]
      block == last_p5_block
      kept  == IF block = <<>> \/ block[Len(block)].gid # m.gid
               THEN <<>> ELSE block
  IN  /\ Apply(resolve_priorities(
                 Effect([queues EXCEPT ![p] = Append(@, m)]),
                 p, SPEAKING, current_priority, speaking_gid))
      /\ IF p = PROGRESS
         THEN /\ last_p5_block' = Append(kept, copy)
              /\ paused_while_speaking' =
                   Mark(paused_while_speaking, Key(copy),
                        Key(m) \in paused_while_speaking)
              /\ index_mark' =
                   Mark(index_mark, Key(copy), Key(m) \in index_mark)
         ELSE UNCHANGED <<last_p5_block, flagVars>>

\* Mutant: the wake-up is forgotten.
PostForgotten == wakeups' = wakeups

speaking_semaphore_post == wakeups' = wakeups + 1

-----------------------------------------------------------------------------
\* The main thread

\* A command of the given kind can be served.
Serving(command) ==
  /\ command \in Commands
  /\ mpc = "serve"
  /\ wakeups < MaxWakeups

\* Output control commands are not allowed inside a block.
Control(command) ==
  /\ Serving(command)
  /\ \E c \in connected : inside_block[c] = 0

\* element_free_mutex is free between the steps of the speak thread, except
\* while it moves last_p5_block.
Unlocked == spc # "promote"

\* SPEAK (also CHAR, KEY, SOUND_ICON): a new message of client c is queued.
Speak(c) ==
  /\ Serving("speak")
  /\ Unlocked
  /\ c \in connected
  /\ last_message_id < MaxMessages
  /\ last_message_id' = last_message_id + 1
  /\ Enqueue([id |-> last_message_id + 1, uid |-> c,
              gid |-> inside_block[c], copy |-> FALSE], priority[c])
  /\ speaking_semaphore_post
  /\ UNCHANGED <<MessagePausedList, currentVars, speakerVars, spc, mpc,
                 requestVars, clientVars, max_gid>>

\* SET SELF PRIORITY
SetPriority(c) ==
  /\ Serving("priority")
  /\ c \in connected
  /\ inside_block[c] = 0
  /\ \E p \in Levels : priority' = [priority EXCEPT ![c] = p]
  /\ UNCHANGED <<queueVars, flagVars, currentVars, speakerVars, spc, mpc,
                 wakeups, requestVars, connected, paused, inside_block,
                 counterVars, reported, moduleVars, orderVars>>

\* BLOCK BEGIN
BlockBegin(c) ==
  /\ Serving("block")
  /\ c \in connected
  /\ inside_block[c] = 0
  /\ max_gid < MaxBlocks
  /\ max_gid' = max_gid + 1
  /\ inside_block' = [inside_block EXCEPT ![c] = max_gid + 1]
  /\ UNCHANGED <<queueVars, flagVars, currentVars, speakerVars, spc, mpc,
                 wakeups, requestVars, connected, paused, priority,
                 last_message_id, reported, moduleVars, orderVars>>

\* BLOCK END
BlockEnd(c) ==
  /\ Serving("block")
  /\ c \in connected
  /\ inside_block[c] > 0
  /\ inside_block' = [inside_block EXCEPT ![c] = 0]
  /\ UNCHANGED <<queueVars, flagVars, currentVars, speakerVars, spc, mpc,
                 wakeups, requestVars, connected, paused, priority,
                 counterVars, reported, moduleVars, orderVars>>

\* get_speaking_client_uid: the uid that speaks; forgotten once it is silent.
get_speaking_client_uid == IF SPEAKING THEN speaking_uid ELSE NoClient

\* STOP uid
Stop(c) ==
  /\ Control("stop")
  /\ Unlocked
  /\ Apply(IF get_speaking_client_uid = c
           THEN speaking_stop(Effect(queues), current_priority, c)
           ELSE Effect(queues))
  /\ speaking_uid' = get_speaking_client_uid
  /\ UNCHANGED <<last_p5_block, MessagePausedList, flagVars, currentVars,
                 speaking_gid, spc, mpc, wakeups, requestVars, clientVars,
                 counterVars>>

\* STOP all
StopAll ==
  /\ Control("stop_all")
  /\ Unlocked
  /\ Apply(speaking_stop_all(Effect(queues), current_priority))
  /\ UNCHANGED <<last_p5_block, MessagePausedList, flagVars, currentVars,
                 speakerVars, spc, mpc, wakeups, requestVars, clientVars,
                 counterVars>>

\* CANCEL uid
CancelClient(c) ==
  /\ Control("cancel")
  /\ Unlocked
  /\ Apply(stop_from_uid(
             IF get_speaking_client_uid = c
             THEN speaking_stop(Effect(queues), current_priority, c)
             ELSE Effect(queues), c))
  /\ speaking_uid' = get_speaking_client_uid
  /\ UNCHANGED <<last_p5_block, MessagePausedList, flagVars, currentVars,
                 speaking_gid, spc, mpc, wakeups, requestVars, clientVars,
                 counterVars>>

\* CANCEL all: the module is stopped before the mutex is taken ...
CancelAllStop ==
  /\ Control("cancel_all")
  /\ OutputStop(TRUE)
  /\ mpc' = "cancel_all"
  /\ UNCHANGED <<queueVars, flagVars, currentVars, speakerVars, spc, wakeups,
                 requestVars, clientVars, counterVars, reported>>

\* ... and the queues are emptied under it.
CancelAllQueues ==
  LET Empty(e, p) == stop_priority(e, p, current_priority)
  IN  /\ mpc = "cancel_all"
      /\ Unlocked
      /\ Apply(Empty(Empty(Empty(Empty(Empty(Effect(queues),
           IMPORTANT), MESSAGE), TEXT), NOTIFICATION), PROGRESS))
      /\ mpc' = "serve"
      /\ UNCHANGED <<last_p5_block, MessagePausedList, flagVars, currentVars,
                     speakerVars, spc, wakeups, requestVars, clientVars,
                     counterVars>>

\* PAUSE uid: only a request, the speak thread carries it out.
Pause(c) ==
  /\ Control("pause")
  /\ Len(MessagePausedList) < MaxPaused
  /\ pause_requested' = 2
  /\ pause_requested_uid' = c
  /\ speaking_semaphore_post
  /\ UNCHANGED <<queueVars, flagVars, currentVars, speakerVars, spc, mpc,
                 resume_requested, clientVars, counterVars, reported,
                 moduleVars, orderVars>>

\* PAUSE all
PauseAll ==
  /\ Control("pause_all")
  /\ Len(MessagePausedList) < MaxPaused
  /\ pause_requested' = 1
  /\ speaking_semaphore_post
  /\ UNCHANGED <<queueVars, flagVars, currentVars, speakerVars, spc, mpc,
                 pause_requested_uid, resume_requested, clientVars,
                 counterVars, reported, moduleVars, orderVars>>

\* RESUME uid: carried out by the main thread up to the request to reload the
\* messages that were set aside.
Resume(c) ==
  /\ Control("resume")
  /\ paused' = [paused EXCEPT ![c] = FALSE]
  /\ resume_requested' = TRUE
  /\ speaking_semaphore_post
  /\ UNCHANGED <<queueVars, flagVars, currentVars, speakerVars, spc, mpc,
                 pause_requested, pause_requested_uid, connected, priority,
                 inside_block, counterVars, reported, moduleVars, orderVars>>

\* RESUME all: every connected client, with a wake-up for each.
ResumeAll ==
  /\ Control("resume_all")
  /\ paused' = [c \in Clients |-> paused[c] /\ c \notin connected]
  /\ resume_requested' = TRUE
  /\ wakeups' = wakeups + Cardinality(connected)
  /\ UNCHANGED <<queueVars, flagVars, currentVars, speakerVars, spc, mpc,
                 pause_requested, pause_requested_uid, connected, priority,
                 inside_block, counterVars, reported, moduleVars, orderVars>>

\* QUIT or a closed connection: the settings and the messages stay.
Disconnect(c) ==
  /\ Serving("quit")
  /\ c \in connected
  /\ connected' = connected \ {c}
  /\ UNCHANGED <<queueVars, flagVars, currentVars, speakerVars, spc, mpc,
                 wakeups, requestVars, paused, priority, inside_block,
                 counterVars, reported, moduleVars, orderVars>>

-----------------------------------------------------------------------------
\* The speak thread: one iteration of the loop of speak() goes through
\* poll, pause, resume and pick.

EventReady == poll_count = 2 /\ events # <<>> /\ module # "dead"
HangupReady == poll_count = 2 /\ module = "dead"

\* Mutant: a byte is taken though the pipe may be empty.
TakeAlways == wakeups' = wakeups - 1

TakeWakeup == wakeups' = IF wakeups > 0 THEN wakeups - 1 ELSE 0

\* poll() returns for a byte in speaking_pipe alone.
SpeakWake ==
  /\ spc = "poll"
  /\ wakeups > 0
  /\ ~EventReady
  /\ ~HangupReady
  /\ TakeWakeup
  /\ spc' = "pause"
  /\ UNCHANGED <<queueVars, flagVars, currentVars, speakerVars, mpc,
                 requestVars, clientVars, counterVars, reported, moduleVars,
                 orderVars>>

\* The event ev is reported for the current message.
ReportCurrent(ev) == reported' = [reported EXCEPT ![current_message.id] = ev]

\* The module fell silent; after a pause the message is not freed by speak(),
\* for it is in MessagePausedList.
FellSilent(ev) ==
  /\ SPEAKING' = FALSE
  /\ poll_count' = 1
  /\ speaking_module' = FALSE
  /\ ReportCurrent(ev)
  /\ current_message' = IF ev = "pause" THEN NoMessage ELSE current_message
  /\ UNCHANGED flagVars

\* The byte read by poll() is made up for when a message is over.
TakeAndPost == wakeups' = IF wakeups > 0 THEN wakeups ELSE 1

\* poll() returns for an event of the module, is_sb_speaking() handles it.
SpeakEvent ==
  /\ spc = "poll"
  /\ EventReady
  /\ speaking_module
  /\ current_message # NoMessage
  /\ events' = Tail(events)
  /\ CASE Head(events) = "begin" ->
            /\ SPEAKING' = TRUE
            /\ ReportCurrent(IF Key(current_message) \in paused_while_speaking
                             THEN "resume" ELSE "begin")
            /\ paused_while_speaking' =
                 paused_while_speaking \ {Key(current_message)}
            /\ TakeWakeup
            /\ UNCHANGED <<index_mark, current_message, poll_count,
                           speaking_module>>
       [] Head(events) = "mark" ->
            /\ index_mark' = index_mark \cup {Key(current_message)}
            /\ TakeWakeup
            /\ UNCHANGED <<paused_while_speaking, current_message, SPEAKING,
                           poll_count, speaking_module, reported>>
       [] Head(events) = "end"     -> FellSilent("end") /\ TakeAndPost
       [] Head(events) = "stopped" -> FellSilent("cancel") /\ TakeAndPost
       [] Head(events) = "paused"  -> FellSilent("pause") /\ TakeWakeup
  /\ spc' = "pause"
  /\ UNCHANGED <<queueVars, current_priority, speakerVars, mpc, requestVars,
                 clientVars, counterVars, module, crashes, orders>>

\* Mutant: the flag SPEAKING is not reset.
CleanupKeepsSpeaking ==
  /\ ReportCurrent("end")
  /\ current_message' = NoMessage
  /\ poll_count' = 1
  /\ speaking_module' = FALSE
  /\ UNCHANGED SPEAKING

\* The message is given up and reported as ended.
speaking_module_cleanup ==
  /\ IF SPEAKING /\ current_message # NoMessage
     THEN ReportCurrent("end") ELSE UNCHANGED reported
  /\ current_message' = NoMessage
  /\ SPEAKING' = FALSE
  /\ poll_count' = 1
  /\ speaking_module' = FALSE

\* poll() returns since the module is gone.  The next message goes to another
\* module that works.
SpeakHangup ==
  /\ spc = "poll"
  /\ HangupReady
  /\ speaking_module_cleanup
  /\ module' = "idle"
  /\ events' = <<>>
  /\ orders' = {}
  /\ TakeWakeup
  /\ spc' = "pause"
  /\ UNCHANGED <<queueVars, flagVars, current_priority, speakerVars, mpc,
                 requestVars, clientVars, counterVars, crashes>>

\* Mutant: the message is not put into the list.
PauseForgets ==
  /\ paused_while_speaking' = paused_while_speaking \cup {Key(current_message)}
  /\ orders' = orders \cup {"pause"}
  /\ UNCHANGED MessagePausedList

\* output_pause; the current message joins MessagePausedList.
SetAside ==
  /\ paused_while_speaking' = paused_while_speaking \cup {Key(current_message)}
  /\ MessagePausedList' = Append(MessagePausedList, current_message)
  /\ orders' = IF speaking_module /\ Busy THEN orders \cup {"pause"} ELSE orders

\* speaking_pause / speaking_pause_all: the clients are paused; the message
\* that is being spoken is set aside if it is of one of them and the module
\* gets the order.
SpeakPause ==
  LET targets == IF pause_requested = 1 THEN connected
                 ELSE {pause_requested_uid}
      interrupts == /\ SPEAKING
                    /\ speaking_uid \in targets
                    /\ current_message # NoMessage
      broken == speaking_module /\ module = "dead"
  IN  /\ spc = "pause"
      /\ pause_requested # 0
      /\ paused' = [c \in Clients |-> paused[c] \/ c \in targets]
      /\ IF interrupts /\ ~broken
         THEN SetAside
         ELSE UNCHANGED <<paused_while_speaking, MessagePausedList, orders>>
      /\ speaking_module' = (speaking_module /\ ~(interrupts /\ broken))
      /\ spc' = "pause_done"
      /\ UNCHANGED <<queues, last_p5_block, index_mark, currentVars,
                     speakerVars, mpc, wakeups, requestVars, connected,
                     priority, inside_block, counterVars, reported, moduleVars>>

SpeakPauseDone ==
  /\ spc = "pause_done"
  /\ pause_requested' = 0
  /\ spc' = "poll"
  /\ UNCHANGED <<queueVars, flagVars, currentVars, speakerVars, mpc, wakeups,
                 pause_requested_uid, resume_requested, clientVars,
                 counterVars, reported, moduleVars, orderVars>>

\* Mutant: the next message is looked for while one is being spoken.
CheckIgnoresSpeaking ==
  /\ spc = "pause"
  /\ pause_requested = 0
  /\ spc' = "resume"
  /\ UNCHANGED <<queueVars, flagVars, currentVars, speakerVars, mpc, wakeups,
                 requestVars, clientVars, counterVars, reported, moduleVars,
                 orderVars>>

\* No pause is requested: wait on while a message is being spoken.
SpeakCheck ==
  /\ spc = "pause"
  /\ pause_requested = 0
  /\ spc' = IF SPEAKING THEN "poll" ELSE "resume"
  /\ UNCHANGED <<queueVars, flagVars, currentVars, speakerVars, mpc, wakeups,
                 requestVars, clientVars, counterVars, reported, moduleVars,
                 orderVars>>

\* The position in MessagePausedList of the message to reload, 0 if none.
NextReload ==
  LET ready == {i \in DOMAIN MessagePausedList :
                  ~message_nto_speak(MessagePausedList[i])}
  IN  IF ready = {} THEN 0
      ELSE CHOOSE i \in ready : \A j \in ready : i <= j

\* reload_message: the message goes back to the queue of the priority its
\* client has now, outside of any block.
SpeakReload ==
  LET m == MessagePausedList[NextReload]
  IN  /\ spc = "resume"
      /\ resume_requested
      /\ NextReload > 0
      /\ MessagePausedList' = Without(MessagePausedList, NextReload)
      /\ Enqueue([m EXCEPT !.gid = 0], priority[m.uid])
      /\ speaking_semaphore_post
      /\ UNCHANGED <<currentVars, speakerVars, spc, mpc, requestVars,
                     clientVars, counterVars>>

\* reload_message finds no text after the last index mark: the message is lost.
SpeakReloadFails ==
  /\ spc = "resume"
  /\ resume_requested
  /\ NextReload > 0
  /\ Key(MessagePausedList[NextReload]) \in index_mark
  /\ MessagePausedList' = Without(MessagePausedList, NextReload)
  /\ UNCHANGED <<queues, last_p5_block, flagVars, currentVars, speakerVars,
                 spc, mpc, wakeups, requestVars, clientVars, counterVars,
                 reported, moduleVars, orderVars>>

SpeakReloaded ==
  /\ spc = "resume"
  /\ resume_requested => NextReload = 0
  /\ spc' = IF resume_requested THEN "resume_done" ELSE "pick"
  /\ UNCHANGED <<queueVars, flagVars, currentVars, speakerVars, mpc, wakeups,
                 requestVars, clientVars, counterVars, reported, moduleVars,
                 orderVars>>

SpeakResumeDone ==
  /\ spc = "resume_done"
  /\ resume_requested' = FALSE
  /\ spc' = "pick"
  /\ UNCHANGED <<queueVars, flagVars, currentVars, speakerVars, mpc, wakeups,
                 pause_requested, pause_requested_uid, clientVars, counterVars,
                 reported, moduleVars, orderVars>>

\* The last progress messages are due: speak() holds the mutex while it moves
\* them to the queue of priority message, one by one.
Postponed == last_p5_block # <<>> /\ queues[PROGRESS] = <<>>

SpeakPromote ==
  LET m == Head(last_p5_block)
      q == [queues EXCEPT ![MESSAGE] = InsertById(@, m)]
      OlderTexts(e) == stop_priority_older_than(e, TEXT, m.id, MESSAGE)
      Low(e) == stop_priority(stop_priority(e, NOTIFICATION, MESSAGE),
                              PROGRESS, MESSAGE)
  IN  /\ spc = "promote" \/ (spc = "pick" /\ Postponed)
      /\ last_p5_block' = Tail(last_p5_block)
      /\ IF Len(last_p5_block) > 1
         THEN /\ queues' = q
              /\ spc' = "promote"
              /\ UNCHANGED <<current_priority, wakeups, reported, orderVars,
                             moduleVars>>
         ELSE /\ Apply(Low(OlderTexts(Effect(q))))
              /\ current_priority' = MESSAGE
              /\ speaking_semaphore_post
              /\ spc' = "poll"
      /\ UNCHANGED <<MessagePausedList, flagVars, current_message, SPEAKING,
                     poll_count, speakerVars, mpc, requestVars, clientVars,
                     counterVars>>

\* get_message_from_queues: the first message of queue p whose client is not
\* paused, if the more urgent queues hold none.
Speakable(p) == {i \in DOMAIN queues[p] : ~message_nto_speak(queues[p][i])}

Next_message(p, i) ==
  /\ i \in Speakable(p)
  /\ \A j \in Speakable(p) : i <= j
  /\ \A r \in Priorities : r < p => Speakable(r) = {}

\* What output_speak() and the rest of the critical section have in common
\* whether or not the module takes the message at position i of queue p.
Take(p, i) ==
  /\ spc = "pick"
  /\ ~Postponed
  /\ Next_message(p, i)
  /\ queues' = [queues EXCEPT ![p] = Without(@, i)]
  /\ current_priority' = p
  /\ speaking_uid' = queues[p][i].uid
  /\ speaking_gid' = queues[p][i].gid
  /\ spc' = "poll"
  /\ UNCHANGED <<MessagePausedList, flagVars, mpc, wakeups, requestVars,
                 clientVars, counterVars, reported, crashes>>

\* Mutant: current_message is not replaced.
StartsWithOldMessage(m) ==
  /\ SPEAKING' = TRUE
  /\ poll_count' = 2
  /\ speaking_module' = TRUE
  /\ UNCHANGED current_message

StartsSpeaking(m) ==
  /\ SPEAKING' = TRUE
  /\ poll_count' = 2
  /\ speaking_module' = TRUE
  /\ current_message' = m

\* The module accepts the message.  The copies of a block whose last message
\* has the gid of this one need not be said any more.
SpeakMessage(p, i) ==
  LET m == queues[p][i]
  IN  /\ Take(p, i)
      /\ module # "dead"
      /\ module' = "starting"
      /\ orders' = {}
      /\ StartsSpeaking(m)
      /\ last_p5_block' =
           IF last_p5_block # <<>>
              /\ last_p5_block[Len(last_p5_block)].gid = m.gid
           THEN <<>> ELSE last_p5_block
      /\ UNCHANGED events

\* The module answers with an error, or it is found dead and is replaced: the
\* message is dropped.
SpeakFails(p, i) ==
  /\ Take(p, i)
  /\ \/ "refuse" \in Faults /\ module = "idle"
     \/ module = "dead"
  /\ speaking_module' = (module # "dead")
  /\ module' = "idle"
  /\ events' = <<>>
  /\ orders' = {}
  /\ UNCHANGED <<last_p5_block, current_message, SPEAKING, poll_count>>

SpeakNothing ==
  /\ spc = "pick"
  /\ ~Postponed
  /\ \A p \in Priorities : Speakable(p) = {}
  /\ spc' = "poll"
  /\ UNCHANGED <<queueVars, flagVars, currentVars, speakerVars, mpc, wakeups,
                 requestVars, clientVars, counterVars, reported, moduleVars,
                 orderVars>>

-----------------------------------------------------------------------------
\* The output module

\* The module reports event ev and goes on in state s.
Emit(ev, s) ==
  /\ Len(events) < MaxEvents
  /\ events' = Append(events, ev)
  /\ module' = s
  /\ UNCHANGED <<queueVars, flagVars, currentVars, speakerVars, spc, mpc,
                 wakeups, requestVars, clientVars, counterVars, reported,
                 crashes, orderVars>>

ModuleBegin == module = "starting" /\ Emit("begin", "talking")

ModuleMark == module = "talking" /\ "mark" \in Faults /\ Emit("mark", module)

\* It may reach the end of the text before it sees an order.
ModuleEnd == module = "talking" /\ Emit("end", "idle")

ModuleStops == Busy /\ "stop" \in orders /\ Emit("stopped", "idle")

ModulePauses == module = "talking" /\ "pause" \in orders /\ Emit("paused", "idle")

ModuleCrash ==
  /\ "crash" \in Faults
  /\ module # "dead"
  /\ crashes < MaxCrashes
  /\ crashes' = crashes + 1
  /\ module' = "dead"
  /\ UNCHANGED <<queueVars, flagVars, currentVars, speakerVars, spc, mpc,
                 wakeups, requestVars, clientVars, counterVars, reported,
                 events, orderVars>>

-----------------------------------------------------------------------------
Init ==
  /\ queues = [p \in Priorities |-> <<>>]
  /\ last_p5_block = <<>>
  /\ MessagePausedList = <<>>
  /\ paused_while_speaking = {}
  /\ index_mark = {}
  /\ current_message = NoMessage
  /\ current_priority = TEXT
  /\ SPEAKING = FALSE
  /\ poll_count = 1
  /\ speaking_module = FALSE
  /\ speaking_uid = NoClient
  /\ speaking_gid = 0
  /\ spc = "poll"
  /\ mpc = "serve"
  /\ wakeups = 0
  /\ pause_requested = 0
  /\ pause_requested_uid = NoClient
  /\ resume_requested = FALSE
  /\ connected = Clients
  /\ paused = [c \in Clients |-> FALSE]
  /\ priority \in [Clients -> Levels]
  /\ inside_block = [c \in Clients |-> 0]
  /\ max_gid = 0
  /\ last_message_id = 0
  /\ reported = [i \in MessageIds |-> "none"]
  /\ module = "idle"
  /\ orders = {}
  /\ events = <<>>
  /\ crashes = 0

MainThread ==
  \/ \E c \in Clients :
       \/ Speak(c) \/ SetPriority(c) \/ BlockBegin(c) \/ BlockEnd(c)
       \/ Stop(c) \/ CancelClient(c) \/ Pause(c) \/ Resume(c) \/ Disconnect(c)
  \/ StopAll \/ CancelAllStop \/ CancelAllQueues \/ PauseAll \/ ResumeAll

SpeakThread ==
  \/ SpeakWake \/ SpeakEvent \/ SpeakHangup
  \/ SpeakPause \/ SpeakPauseDone \/ SpeakCheck
  \/ SpeakReload \/ SpeakReloadFails \/ SpeakReloaded \/ SpeakResumeDone
  \/ SpeakPromote
  \/ \E p \in Priorities : \E i \in DOMAIN queues[p] :
       SpeakMessage(p, i) \/ SpeakFails(p, i)
  \/ SpeakNothing

ModuleFinishes == ModuleBegin \/ ModuleEnd \/ ModuleStops \/ ModulePauses

OutputModule == ModuleFinishes \/ ModuleMark \/ ModuleCrash

Next == MainThread \/ SpeakThread \/ OutputModule

Spec == Init /\ [][Next]_vars

\* The threads of the server run on, and the module gets on with its text and
\* answers its orders.
Fairness ==
  /\ WF_vars(SpeakThread)
  /\ WF_vars(CancelAllQueues)
  /\ WF_vars(ModuleFinishes)

FairSpec == Spec /\ Fairness

-----------------------------------------------------------------------------
\* Properties

\* The queues of texts and of notifications hold one message or the messages of
\* one block: stop_priority_except_first() keeps nothing of an older message.
OneTextAtATime == OneBlock(queues[TEXT]) /\ OneBlock(queues[NOTIFICATION])

\* The flag SPEAKING is set exactly from the moment the module takes a message
\* until the end of it is read from its pipe, so that a message is only handed
\* to a module that is silent and whose pipe holds no event of the last one
\* (which would be read as the reply to SPEAK).
OneVoice ==
  module # "dead" =>
    IF SPEAKING
    THEN /\ Busy \/ (events # <<>> /\ events[Len(events)] \in Terminal)
         /\ \A i \in 1..(Len(events) - 1) : events[i] \notin Terminal
    ELSE module = "idle" /\ events = <<>>

\* Every event that is read belongs to a message: speak() would poll the same
\* event forever if is_sb_speaking() found no current message.
EventHasOwner == EventReady => speaking_module /\ current_message # NoMessage

\* Nothing that arrives, comes back from a pause or is promoted makes the
\* server stop the module while a message of priority important is spoken; only
\* STOP and CANCEL do (ssip.texi: "never interrupted").
ImportantNeverInterrupted ==
  [][/\ SPEAKING /\ current_priority = IMPORTANT
     /\ ~\E c \in Clients : Stop(c) \/ CancelClient(c)
     /\ ~(StopAll \/ CancelAllStop \/ CancelAllQueues)
     => /\ "stop" \in orders' => "stop" \in orders
        /\ SPEAKING' => current_priority' = current_priority]_vars

\* speak() only goes to sleep when there is nothing to do: with no wake-up
\* under way, no message that may be spoken is left in a queue.
Asleep == spc = "poll" /\ wakeups = 0 /\ ~EventReady /\ ~HangupReady
NoLostWakeup ==
  Asleep /\ ~SPEAKING =>
    last_p5_block = <<>> /\ \A p \in Priorities : Speakable(p) = {}

\* Messages of the priorities important and message are said in the order they
\* came: their queues are sorted by id.
Sorted(q) == \A i, j \in DOMAIN q : i < j => q[i].id < q[j].id
InArrivalOrder == Sorted(queues[IMPORTANT]) /\ Sorted(queues[MESSAGE])

\* A message that was reported as canceled or as ended waits nowhere: CANCEL
\* means it "will not be spoken anymore".
CanceledIsGone ==
  \A p \in Priorities : \A i \in DOMAIN queues[p] :
     reported[queues[p][i].id] \notin {"cancel", "end"}

\* The events a client may see one after another for a message.
NextReports(ev) ==
  CASE ev = "none"   -> {"begin", "cancel"}
    [] ev = "begin"  -> {"end", "cancel", "pause"}
    [] ev = "pause"  -> {"resume", "cancel"}
    [] ev = "resume" -> {"end", "cancel", "pause"}
    [] OTHER         -> {}

EventOrder ==
  [][\A i \in MessageIds :
       reported'[i] # reported[i] => reported'[i] \in NextReports(reported[i])]_vars

\* The message with this id waits in a queue, is set aside, or is spoken.
Held(i) ==
  \/ \E p \in Priorities : i \in Ids(queues[p])
  \/ i \in Ids(MessagePausedList)
  \/ SPEAKING /\ current_message.id = i

\* The errors after which speak() drops the message with this id without a word
\* to the client: the module refuses it or is found dead, or no text is found
\* after its index mark when it is resumed.
Dropped(i) ==
  \/ \E p \in Priorities : \E k \in DOMAIN queues[p] :
       queues[p][k].id = i /\ SpeakFails(p, k)
  \/ SpeakReloadFails /\ MessagePausedList[NextReload].id = i

\* No message outside a block vanishes: from its arrival on the server holds it
\* until the client is told that it ended or was canceled, or it is dropped for
\* an error; also when the module dies under it or clients pause and leave.
NothingVanishes ==
  [][\A i \in 1..last_message_id' :
       i > last_message_id \/ Held(i)
       => Held(i)' \/ reported'[i] \in {"end", "cancel"} \/ Dropped(i)]_vars

\* A STOP that hits a block stops the whole block ("The Speech Output Control
\* Commands also handle the whole block as one message").
StopsWholeBlock ==
  [][(StopAll \/ \E c \in Clients : Stop(c)) /\ SPEAKING /\ speaking_gid > 0
       /\ "stop" \in orders'
     => \A m \in Range(queues'[current_priority]) : m.gid # speaking_gid]_vars

\* CANCEL "stops as yet unspoken output messages as well": nothing of the
\* client is left to be spoken.
CancelLeavesNothing ==
  [][\A c \in Clients : CancelClient(c) =>
       \A q \in {last_p5_block', MessagePausedList'}
                  \cup {queues'[p] : p \in Priorities} :
         \A m \in Range(q) : m.uid # c]_vars

\* After CANCEL all whatever is spoken has been told to stop, also a message
\* that was started between the first STOP order and the emptying of the queues.
CancelAllSilences ==
  [][CancelAllQueues /\ Busy /\ speaking_module => "stop" \in orders']_vars

\* A request to pause client c is under way.
PausePending(c) ==
  \/ pause_requested = 2 /\ pause_requested_uid = c
  \/ pause_requested = 1 /\ c \in connected

\* A PAUSE that was served takes effect.
PauseTakesEffect ==
  [][\A c \in Clients :
       PausePending(c) /\ ~PausePending(c)' => paused'[c]]_vars

\* What was set aside for a client goes on after RESUME: when the speak thread
\* sleeps in silence, all that is set aside belongs to paused clients.
ResumeIsHeard ==
  Asleep /\ ~SPEAKING =>
    \A m \in Range(MessagePausedList) : message_nto_speak(m)

\* The newest progress message is only canceled while its copy is kept to be
\* said later ("the important messages at the end of the progress sequences
\* will be said").
LastProgressSurvives ==
  [][queues[PROGRESS] # <<>> =>
       LET last == queues[PROGRESS][Len(queues[PROGRESS])].id
       IN  reported[last] # "cancel" /\ reported'[last] = "cancel"
           => \/ last \in Ids(last_p5_block')
              \/ queues'[PROGRESS] # <<>>]_vars

\* Whatever waits is spoken, canceled or dropped in the end: nothing stays in
\* the queues once the clients fall silent.
QueuesDrain == <>[](\A p \in Priorities : queues[p] = <<>>)

\* The server is the one voice its clients are promised.
Waiting == UNION {Ids(q) : q \in {last_p5_block, MessagePausedList}
                                   \cup {queues[p] : p \in Priorities}}

Abstract == INSTANCE Announcer WITH
  Limit    <- MaxMessages,
  received <- last_message_id,
  waiting  <- Waiting,
  voice    <- IF SPEAKING THEN current_message.id ELSE 0

OneVoicePromise == Abstract!ASpec

=============================================================================
