------------------------------- MODULE Client -------------------------------
(***************************************************************************)
(* The C client library, api/c/libopentts.c: threads of one program call   *)
(* it over one connection; in threaded mode a thread of the library,       *)
(* spd_events_handler(), reads the socket, calls back for events and hands *)
(* every reply over to the caller that waits for it.                       *)
(*                                                                         *)
(* The hand-over uses two condition variables and no predicate:            *)
(* mutex_reply_ready is held from before a request is written until the    *)
(* caller waits, and the library's thread waits on cond_reply_ack until    *)
(* the reply was copied.  mutex_reply_ack is never held across a step.     *)
(***************************************************************************)
EXTENDS Naturals, Sequences, FiniteSets

CONSTANTS
  Callers,      \* threads of the program
  Kinds,        \* what they call, by the names of Programs
  Levels,       \* the priorities they ask for
  NULL,
  MaxCalls,     \* bound: calls
  MaxEvents,    \* bound: events the server sends
  ListsAlone,   \* does the program keep other calls away while it lists?
  ServerFails   \* may the server close the connection?

Commands == {"name", "command", "set", "priority", "speak", "data", "dot",
             "notify", "list"}
Request  == [cmd : Commands, by : Callers, level : Levels]
Reply    == [ok : BOOLEAN, for : Request \cup {NULL}]

ASSUME ClientAssumption ==
  /\ Kinds \subseteq {"command", "set", "char", "say", "notify", "list"}
  /\ ListsAlone \in BOOLEAN
  /\ NULL \notin Callers \cup Levels \cup Request \cup Reply
  /\ MaxCalls \in Nat /\ MaxEvents \in Nat /\ ServerFails \in BOOLEAN

VARIABLES
  mode,           \* connection->mode
  stream,         \* connection->stream: "none", "open" or "null"
  reply,          \* connection->reply: a reply, NULL, or Freed
  ssip_mutex,     \* who holds it, or NULL
  ready_waiters,  \* callers that wait on cond_reply_ready
  ack_waiting,    \* the reading thread waits on cond_reply_ack
  pc,             \* where each caller is
  todo,           \* the requests its call has left to send
  want,           \* the priority or the value its call asked for
  buffer,         \* the value in the static buffer of spd_set_...()
  got,            \* the reply it is looking at
  rpc, item,      \* the reading thread and what it has read
  calls,          \* calls so far
  alive,          \* the server keeps the connection open
  requests,       \* written to the socket, not read by the server
  replies,        \* written by the server, not read
  level,          \* the priority the server has set for the connection
  queued,         \* the messages the server has queued
  sent, called    \* events sent, events handed to callbacks

callVars   == <<pc, todo, want, buffer, got>>
readerVars == <<rpc, item>>
serverVars == <<alive, level, queued, sent>>
vars == <<mode, stream, reply, ssip_mutex, ready_waiters, ack_waiting,
          callVars, readerVars, calls, requests, replies, serverVars, called>>

\* What a call sends, request by request.  Only "data" is sent without waiting
\* for a reply.
spd_say     == <<"priority", "speak", "data", "dot">>
spd_char    == <<"priority", "command">>
spd_command == <<"command">>
spd_set     == <<"set">>
spd_list    == <<"list">>

\* one request for each kind of event; two stand for all of them
spd_set_notification == <<"notify", "notify">>

Programs == [open   |-> <<"name">>, command |-> spd_command, set |-> spd_set,
             char   |-> spd_char, say |-> spd_say,
             notify |-> spd_set_notification, list |-> spd_list]

Event    == [ok |-> TRUE, for |-> NULL]      \* a line 7xx
Freed    == [ok |-> FALSE, for |-> NULL]     \* a pointer to freed memory

Init ==
  /\ mode \in {"single", "threaded"}
  /\ stream = "none"
  /\ reply = NULL
  /\ ssip_mutex = NULL
  /\ ready_waiters = {}
  /\ ack_waiting = FALSE
  /\ pc = [c \in Callers |-> "out"]
  /\ todo = [c \in Callers |-> <<>>]
  /\ want \in [Callers -> Levels]
  /\ buffer \in Levels
  /\ got = [c \in Callers |-> NULL]
  /\ rpc = "none" /\ item = NULL
  /\ calls = 0
  /\ alive \in BOOLEAN
  /\ requests = <<>> /\ replies = <<>>
  /\ level \in Levels
  /\ queued = <<>>
  /\ sent = 0 /\ called = 0

Goto(c, at) == pc' = [pc EXCEPT ![c] = at]

\* pthread_cond_signal(cond_reply_ready)
SignalReady ==
  ready_waiters' \in IF ready_waiters = {} THEN {{}}
                     ELSE {ready_waiters \ {c} : c \in ready_waiters}

-----------------------------------------------------------------------------
\* The callers

\* make_connection: without a server, do_autospawn() starts one, or does not.
spd_open(c) ==
  /\ stream = "none" /\ \A d \in Callers : pc[d] = "out"
  /\ calls < MaxCalls
  /\ calls' = calls + 1
  /\ alive' \in {TRUE, alive}
  /\ IF alive'
     THEN /\ stream' = "open"
          /\ rpc' = IF mode = "threaded" THEN "get" ELSE "none"
          /\ todo' = [todo EXCEPT ![c] = Programs.open]
          /\ Goto(c, "check")
     ELSE UNCHANGED <<stream, rpc, todo, pc>>
  /\ UNCHANGED <<mode, reply, ssip_mutex, ready_waiters, ack_waiting, want, buffer,
                 got, item, requests, replies, level, queued, sent, called>>

\* A call of kind k may begin: the connection is open and stays so.
MayCall(c, k) ==
  /\ stream # "none" /\ pc[c] = "out"
  /\ \A d \in Callers : todo[d] # Programs.open /\ pc[d] # "join"
  /\ ListsAlone => /\ \A d \in Callers : todo[d] # spd_list
                   /\ k = "list" => \A d \in Callers : pc[d] = "out"
  /\ calls < MaxCalls

\* what it may ask for, when its requests say it
Asked(c, k) == IF k \in {"set", "char", "say"} THEN Levels ELSE {want[c]}

\* spd_set_voice_rate() and its like write their command into a buffer that
\* all callers share, and only then ask for the mutex.
Formats(k, l) == buffer' = IF k = "set" THEN l ELSE buffer

\* Mutant: no call takes ssip_mutex.
CallTakesNoLock(c) ==
  /\ \E k \in Kinds : \E l \in Asked(c, k) :
       /\ MayCall(c, k) /\ Formats(k, l)
       /\ todo' = [todo EXCEPT ![c] = Programs[k]]
       /\ want' = [want EXCEPT ![c] = l]
       /\ Goto(c, "check")
  /\ calls' = calls + 1
  /\ UNCHANGED <<mode, stream, reply, ssip_mutex, ready_waiters, ack_waiting,
                 got, readerVars, requests, replies, serverVars, called>>

\* All calls take ssip_mutex first but spd_list_modules() and its like.
Call(c) ==
  /\ \E k \in Kinds : \E l \in Asked(c, k) :
       /\ MayCall(c, k) /\ Formats(k, l)
       /\ todo' = [todo EXCEPT ![c] = Programs[k]]
       /\ want' = [want EXCEPT ![c] = l]
       /\ Goto(c, IF k = "list" THEN "check" ELSE "lock")
  /\ calls' = calls + 1
  /\ UNCHANGED <<mode, stream, reply, ssip_mutex, ready_waiters, ack_waiting,
                 got, readerVars, requests, replies, serverVars, called>>

LockSsip(c) ==
  /\ pc[c] = "lock" /\ ssip_mutex = NULL
  /\ ssip_mutex' = c
  /\ Goto(c, "check")
  /\ UNCHANGED <<mode, stream, reply, ready_waiters, ack_waiting, todo, want, buffer,
                 got, readerVars, calls, requests, replies, serverVars, called>>

\* The command is copied; spd_send_data_wo_mutex looks at the stream before it
\* takes any lock ...
CheckStream(c) ==
  /\ pc[c] = "check"
  /\ want' = [want EXCEPT ![c] = IF Head(todo[c]) = "set" THEN buffer ELSE @]
  /\ Goto(c, IF stream = "open" THEN "send" ELSE "leave")
  /\ UNCHANGED <<mode, stream, reply, ssip_mutex, ready_waiters, ack_waiting,
                 todo, buffer, got, readerVars, calls, requests, replies,
                 serverVars, called>>

\* ... then, under mutex_reply_ready, writes the request and waits.  What is
\* written to a server that is gone is lost.
spd_send_data_wo_mutex(c) ==
  /\ pc[c] = "send"
  /\ LET request == [cmd |-> Head(todo[c]), by |-> c, level |-> want[c]] IN
     /\ requests' = IF alive THEN Append(requests, request) ELSE requests
     /\ IF request.cmd = "data"
        THEN Goto(c, "next") /\ UNCHANGED ready_waiters
        ELSE IF mode = "threaded"
        THEN Goto(c, "wait") /\ ready_waiters' = ready_waiters \cup {c}
        ELSE Goto(c, "reply") /\ UNCHANGED ready_waiters
  /\ UNCHANGED <<mode, stream, reply, ssip_mutex, ack_waiting, todo, want, buffer,
                 got, readerVars, calls, replies, serverVars, called>>

\* The wait is over: mutex_reply_ready is taken and released.
Woken(c) ==
  /\ pc[c] = "wait" /\ c \notin ready_waiters
  /\ Goto(c, "read")
  /\ UNCHANGED <<mode, stream, reply, ssip_mutex, ready_waiters, ack_waiting,
                 todo, want, buffer, got, readerVars, calls, requests, replies,
                 serverVars, called>>

\* strdup(connection->reply), which is freed but not cleared.
CopyReply(c) ==
  /\ pc[c] = "read"
  /\ IF reply = NULL
     THEN Goto(c, "leave") /\ UNCHANGED <<reply, got>>
     ELSE /\ got' = [got EXCEPT ![c] = reply]
          /\ reply' = Freed
          /\ Goto(c, "ack")
  /\ UNCHANGED <<mode, stream, ssip_mutex, ready_waiters, ack_waiting, todo,
                 want, buffer, readerVars, calls, requests, replies, serverVars, called>>

\* Mutant: the reader is not told that the reply was copied.
AcknowledgesNothing(c) ==
  /\ pc[c] = "ack"
  /\ Goto(c, "next")
  /\ UNCHANGED <<mode, stream, reply, ssip_mutex, ready_waiters, ack_waiting,
                 todo, want, buffer, got, readerVars, calls, requests, replies,
                 serverVars, called>>

Acknowledge(c) ==
  /\ pc[c] = "ack"
  /\ ack_waiting' = FALSE
  /\ Goto(c, "next")
  /\ UNCHANGED <<mode, stream, reply, ssip_mutex, ready_waiters, todo, want, buffer,
                 got, readerVars, calls, requests, replies, serverVars, called>>

\* In single mode the caller reads its reply itself.
get_reply(c) ==
  /\ pc[c] = "reply"
  /\ \/ /\ replies # <<>>
        /\ got' = [got EXCEPT ![c] = Head(replies)]
        /\ replies' = Tail(replies)
        /\ Goto(c, "next") /\ UNCHANGED stream
     \/ /\ replies = <<>> /\ ~alive
        /\ stream' = "null"
        /\ Goto(c, "leave") /\ UNCHANGED <<got, replies>>
  /\ UNCHANGED <<mode, reply, ssip_mutex, ready_waiters, ack_waiting, todo,
                 want, buffer, readerVars, calls, requests, serverVars, called>>

\* ret_ok: the code of the reply is 300 or more
Refuses(c) == Head(todo[c]) # "data" /\ ~got[c].ok

\* A call goes on with its next request unless the server refused this one.
NextRequest(c) ==
  /\ pc[c] = "next"
  /\ LET over == Refuses(c) \/ Len(todo[c]) = 1 IN
     /\ todo' = [todo EXCEPT ![c] = IF over THEN @ ELSE Tail(@)]
     /\ Goto(c, IF over THEN "leave" ELSE "check")
  /\ UNCHANGED <<mode, stream, reply, ssip_mutex, ready_waiters, ack_waiting,
                 want, buffer, got, readerVars, calls, requests, replies, serverVars,
                 called>>

\* The call returns; spd_open() closes the connection when it was refused.
Leave(c) ==
  /\ pc[c] = "leave"
  /\ ssip_mutex' = IF ssip_mutex = c THEN NULL ELSE ssip_mutex
  /\ todo' = [todo EXCEPT ![c] = <<>>]
  /\ got' = [got EXCEPT ![c] = NULL]
  /\ Goto(c, IF todo[c] = Programs.open /\ (got[c] = NULL \/ ~got[c].ok)
             THEN "join" ELSE "out")
  /\ UNCHANGED <<mode, stream, reply, ready_waiters, ack_waiting, want, buffer,
                 readerVars, calls, requests, replies, serverVars, called>>

\* spd_close: the program closes the connection when no call is under way.
spd_close(c) ==
  /\ stream # "none" /\ \A d \in Callers : pc[d] = "out"
  /\ Goto(c, "join")
  /\ UNCHANGED <<mode, stream, reply, ssip_mutex, ready_waiters, ack_waiting,
                 todo, want, buffer, got, readerVars, calls, requests, replies,
                 serverVars, called>>

\* The reading thread is canceled where it reads or waits, and joined.
Join(c) ==
  /\ pc[c] = "join" /\ rpc \in {"none", "get", "wait", "gone"}
  /\ stream' = "none" /\ reply' = NULL
  /\ rpc' = "none" /\ item' = NULL
  /\ ready_waiters' = {} /\ ack_waiting' = FALSE
  /\ requests' = <<>> /\ replies' = <<>>
  /\ Goto(c, "out")
  /\ UNCHANGED <<mode, ssip_mutex, todo, want, buffer, got, calls, serverVars, called>>

Library(c) ==
  \/ LockSsip(c) \/ CheckStream(c) \/ spd_send_data_wo_mutex(c) \/ Woken(c)
  \/ CopyReply(c) \/ Acknowledge(c) \/ get_reply(c) \/ NextRequest(c)
  \/ Leave(c) \/ Join(c)

-----------------------------------------------------------------------------
\* The reading thread

ReaderGets ==
  /\ rpc = "get"
  /\ \/ /\ replies # <<>>
        /\ item' = Head(replies)
        /\ replies' = Tail(replies)
        /\ rpc' = IF item' = Event THEN "event" ELSE "hand"
        /\ UNCHANGED stream
     \/ /\ replies = <<>> /\ ~alive
        /\ stream' = "null"
        /\ rpc' = "broken" /\ UNCHANGED <<item, replies>>
  /\ UNCHANGED <<mode, reply, ssip_mutex, ready_waiters, ack_waiting,
                 callVars, calls, requests, serverVars, called>>

ReaderCallsBack ==
  /\ rpc = "event"
  /\ called' = called + 1
  /\ rpc' = "get"
  /\ UNCHANGED <<mode, stream, reply, ssip_mutex, ready_waiters, ack_waiting,
                 callVars, item, calls, requests, replies, serverVars>>

\* Under mutex_reply_ready: publish, signal; then wait for the acknowledgement.
ReaderHandsOver ==
  /\ rpc = "hand"
  /\ reply' = item
  /\ SignalReady
  /\ ack_waiting' = TRUE
  /\ rpc' = "wait"
  /\ UNCHANGED <<mode, stream, ssip_mutex, callVars, item, calls, requests,
                 replies, serverVars, called>>

ReaderGoesOn ==
  /\ rpc = "wait" /\ ~ack_waiting
  /\ rpc' = "get"
  /\ UNCHANGED <<mode, stream, reply, ssip_mutex, ready_waiters, ack_waiting,
                 callVars, item, calls, requests, replies, serverVars, called>>

\* The socket is broken: the reply is NULL, ...
ReaderBroken ==
  /\ rpc = "broken"
  /\ reply' = NULL
  /\ rpc' = "signal"
  /\ UNCHANGED <<mode, stream, ssip_mutex, ready_waiters, ack_waiting,
                 callVars, item, calls, requests, replies, serverVars, called>>

\* ... the caller that waits now is woken, and the thread is gone.
ReaderSignals ==
  /\ rpc = "signal"
  /\ SignalReady
  /\ rpc' = "gone"
  /\ UNCHANGED <<mode, stream, reply, ssip_mutex, ack_waiting, callVars, item,
                 calls, requests, replies, serverVars, called>>

Reader ==
  \/ ReaderGets \/ ReaderCallsBack \/ ReaderHandsOver \/ ReaderGoesOn
  \/ ReaderBroken \/ ReaderSignals

-----------------------------------------------------------------------------
\* The server, at the other end of the socket

Serve ==
  /\ alive /\ requests # <<>>
  /\ LET request == Head(requests) IN
     /\ requests' = Tail(requests)
     /\ \/ request.cmd = "data" /\ UNCHANGED <<replies, level, queued>>
        \/ /\ request.cmd # "data"
           /\ replies' = Append(replies, [ok |-> TRUE, for |-> request])
           /\ level' = IF request.cmd = "priority" THEN request.level ELSE level
           /\ queued' = IF request.cmd = "dot"
                        THEN Append(queued, [by |-> request.by,
                                             want |-> request.level,
                                             level |-> level])
                        ELSE queued
        \/ /\ request.cmd # "data"
           /\ replies' = Append(replies, [ok |-> FALSE, for |-> request])
           /\ UNCHANGED <<level, queued>>
  /\ UNCHANGED <<mode, stream, reply, ssip_mutex, ready_waiters, ack_waiting,
                 callVars, readerVars, calls, alive, sent, called>>

\* Events come only once they were asked for, which single mode refuses to do.
SendEvent ==
  /\ alive /\ mode = "threaded" /\ stream = "open" /\ sent < MaxEvents
  /\ sent' = sent + 1
  /\ replies' = Append(replies, Event)
  /\ UNCHANGED <<mode, stream, reply, ssip_mutex, ready_waiters, ack_waiting,
                 callVars, readerVars, calls, requests, alive, level, queued,
                 called>>

CloseSocket ==
  /\ ServerFails /\ alive
  /\ alive' = FALSE
  /\ requests' = <<>>
  /\ UNCHANGED <<mode, stream, reply, ssip_mutex, ready_waiters, ack_waiting,
                 callVars, readerVars, calls, replies, level, queued, sent,
                 called>>

Server == Serve \/ SendEvent \/ CloseSocket

-----------------------------------------------------------------------------
\* No call is under way; or one waits that nobody will wake any more.
Quiet ==
  /\ \/ \A c \in Callers : pc[c] = "out"
     \/ rpc = "gone" /\ ready_waiters # {}
  /\ rpc \in {"none", "get", "gone"} /\ replies = <<>>
  /\ UNCHANGED vars

Next ==
  \/ \E c \in Callers : spd_open(c) \/ Call(c) \/ spd_close(c) \/ Library(c)
  \/ Reader \/ Server
  \/ Quiet

\* Threads are scheduled and the server answers; nobody has to call or close.
Fairness ==
  /\ \A c \in Callers : WF_vars(Library(c))
  /\ WF_vars(Reader)
  /\ WF_vars(Serve)

Spec == Init /\ [][Next]_vars /\ Fairness

-----------------------------------------------------------------------------
\* A caller looks only at the reply to the request it has just sent, though
\* all replies come through one pointer and the signal names nobody; and its
\* message is queued with the priority it asked for, though the server keeps
\* one priority per connection, set by a request of its own.  The reply is
\* freed but connection->reply keeps its value: nobody reads it again before a
\* new reply is there.
CallsAreOwn ==
  /\ \A c \in Callers : pc[c] = "next" /\ Head(todo[c]) # "data" =>
       /\ got[c] # NULL /\ got[c].for.by = c
       /\ got[c].for.cmd = Head(todo[c])
  /\ \A i \in DOMAIN queued : queued[i].level = queued[i].want
  /\ \A c \in Callers : pc[c] = "read" => reply # Freed

\* No wake-up is lost and nobody waits for a mutex for ever: as long as the
\* server keeps the connection, every call returns.
CallsReturn ==
  \A c \in Callers : pc[c] # "out" ~> pc[c] = "out" \/ ~alive

\* The request sent says what its own caller wants.  It may not: another call
\* writes the static buffer before ssip_mutex lets the first one copy it.
SetsOwnValue == [][\A c \in Callers : pc[c] = "check" => want'[c] = want[c]]_vars
=============================================================================
