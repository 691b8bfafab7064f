------------------------------ MODULE Sessions ------------------------------
(***************************************************************************)
(* The connections of the server: the main loop of openttsd.c, serve() and *)
(* parse(), the tables fd_uid, fd_settings and openttsd_sockets, and the   *)
(* events that the speaking thread writes to descriptors.  A descriptor is *)
(* used again for another client as soon as it is free; what belongs to    *)
(* the client before must not be taken for the new one's.  The clients     *)
(* send a line in two parts, wait for the reply to a command before they   *)
(* send the next one, and may close the connection at any time.            *)
(***************************************************************************)
EXTENDS Integers, Sequences

CONSTANTS
    Fds,             \* descriptors free for clients
    server_socket,   \* the descriptor that accepts connections
    Types,           \* types of events
    Commands,        \* the commands the clients use
    MaxClients,      \* bound: connections
    MaxLines         \* bound: lines the clients send

ASSUME SessionsAssumption ==
    /\ Fds \subseteq Nat \ {0, server_socket} /\ server_socket \in Nat \ {0}
    /\ Commands \subseteq {"speak", "begin", "end", "on", "off", "all_fast",
                            "char", "control", "quit"}
    /\ {MaxClients, MaxLines} \subseteq Nat

Uids == 1..MaxClients
Lines == {<<c>> : c \in Commands \ {"on", "off"}}
         \cup {<<c, t>> : c \in Commands \cap {"on", "off"}, t \in Types}
DataLines == {<<"text">>, <<"latin">>, <<"dot">>}   \* "latin" is not UTF-8

VARIABLES
    testfds,      \* descriptors found ready and not looked at yet
    max_fd,       \* status.max_fd
    fd_uid,       \* the client on each descriptor, 0 for none
    settings,     \* fd_settings: [fd, rate, notification] of each client
    sockets,      \* openttsd_sockets: [awaiting_data, inside_block, o_buf]
    max_uid, max_gid,
    messages,     \* what the speaking thread has still to say
    reporting,    \* the events of the current message still to come
    connected,    \* connections made by the clients; they get uids in order
    inbox,        \* lines on their way
    half,         \* the first part of a line is on its way
    gone,         \* the client has closed its end
    waiting,      \* the client waits for a reply
    view,         \* the client's own account: [data, block, wants]
    lines,        \* lines sent
    blocks,       \* ghost: <<gid, client, in a block by its own account>>
    heard         \* ghost: events delivered: [to, from, asked]

server  == <<testfds, max_fd, fd_uid, settings, sockets, max_uid, max_gid>>
speaker == <<messages, reporting>>
clients == <<connected, inbox, half, gone, waiting, view, lines>>
ghosts  == <<blocks, heard>>
vars == <<server, speaker, clients, ghosts>>

NewSocket == [awaiting_data |-> FALSE, inside_block |-> 0, o_buf |-> "none"]
default_fd_set == [fd |-> -1, rate |-> "normal", notification |-> {}]

Init ==
    /\ testfds = {} /\ max_fd = server_socket
    /\ fd_uid = [fd \in Fds |-> 0]
    /\ settings = [u \in Uids |-> default_fd_set]
    /\ sockets = [fd \in Fds |-> NewSocket]
    /\ max_uid = 0 /\ max_gid = 0
    /\ messages = <<>> /\ reporting = <<>>
    /\ connected = 0 /\ lines = 0
    /\ inbox = [u \in Uids |-> <<>>]
    /\ half = [u \in Uids |-> FALSE] /\ gone = [u \in Uids |-> FALSE]
    /\ waiting = [u \in Uids |-> FALSE]
    /\ view = [u \in Uids |-> [data |-> FALSE, block |-> FALSE, wants |-> {}]]
    /\ blocks = {} /\ heard = {}

-----------------------------------------------------------------------------
(* The clients.                                                            *)

Connects ==
    /\ connected < MaxClients /\ connected' = connected + 1
    /\ UNCHANGED <<server, speaker, ghosts, inbox, half, gone, waiting, view, lines>>

BeginsLine(u) ==
    /\ u <= connected /\ ~gone[u] /\ ~waiting[u] /\ ~half[u] /\ lines < MaxLines
    /\ lines' = lines + 1
    /\ half' = [half EXCEPT ![u] = TRUE]
    /\ UNCHANGED <<server, speaker, ghosts, connected, inbox, gone, waiting, view>>

\* the account of its own settings is what the protocol promises
EndsLine(u, line) ==
    /\ half[u] /\ ~gone[u]
    /\ line \in (IF view[u].data THEN DataLines ELSE Lines)
    /\ half' = [half EXCEPT ![u] = FALSE]
    /\ inbox' = [inbox EXCEPT ![u] = Append(@, line)]
    /\ waiting' = [waiting EXCEPT ![u] = line \notin DataLines \ {<<"dot">>}]
    /\ view' = [view EXCEPT ![u].wants =
                  CASE line[1] = "on"  -> @ \cup {line[2]}
                    [] line[1] = "off" -> @ \ {line[2]}
                    [] OTHER           -> @]
    /\ UNCHANGED <<server, speaker, ghosts, connected, gone, lines>>

Closes(u) ==
    /\ u <= connected /\ ~gone[u]
    /\ gone' = [gone EXCEPT ![u] = TRUE]
    /\ waiting' = [waiting EXCEPT ![u] = FALSE]
    /\ UNCHANGED <<server, speaker, ghosts, connected, inbox, half, view, lines>>

-----------------------------------------------------------------------------
(* Connections.                                                            *)

Readable(fd) ==
    LET u == fd_uid[fd] IN u # 0 /\ (inbox[u] # <<>> \/ half[u] \/ gone[u])

Select ==
    /\ testfds = {}
    /\ testfds' = {fd \in Fds : Readable(fd)}
                  \cup {fd \in {server_socket} : max_uid < connected}
    /\ testfds' # {}
    /\ UNCHANGED <<max_fd, fd_uid, settings, sockets, max_uid, max_gid,
                   speaker, clients, ghosts>>

\* the loop goes up to status.max_fd as it is by then, see MaxFdCovers
Visits(fd) == fd \in testfds /\ fd <= max_fd /\ \A other \in testfds : fd <= other

\* Mutant: a connection finds the socket as the last one left it.
SocketIsStale ==
    /\ Visits(server_socket)
    /\ testfds' = testfds \ {server_socket}
    /\ \E fd \in Fds :
          /\ fd_uid[fd] = 0
          /\ max_fd' = IF fd > max_fd THEN fd ELSE max_fd
          /\ max_uid' = max_uid + 1
          /\ settings' = [settings EXCEPT ![max_uid + 1].fd = fd]
          /\ fd_uid' = [fd_uid EXCEPT ![fd] = max_uid + 1]
    /\ UNCHANGED <<sockets, max_gid, speaker, clients, ghosts>>

connection_new ==
    /\ Visits(server_socket)
    /\ testfds' = testfds \ {server_socket}
    /\ \/ UNCHANGED <<max_fd, fd_uid, settings, sockets, max_uid>>   \* accept() fails
       \/ \E fd \in Fds :
          /\ fd_uid[fd] = 0
          /\ max_fd' = IF fd > max_fd THEN fd ELSE max_fd
          /\ sockets' = [sockets EXCEPT ![fd] = NewSocket]
          /\ max_uid' = max_uid + 1
          /\ settings' = [settings EXCEPT ![max_uid + 1].fd = fd]
          /\ fd_uid' = [fd_uid EXCEPT ![fd] = max_uid + 1]
    /\ UNCHANGED <<max_gid, speaker, clients, ghosts>>

\* Mutant: max_fd counts the connections.
DestroyDecrements(fd) ==
    /\ settings' = [settings EXCEPT ![fd_uid[fd]].fd = -1]
    /\ fd_uid' = [fd_uid EXCEPT ![fd] = 0]
    /\ max_fd' = max_fd - 1

\* part of a step: the settings stay, the state of the socket too
connection_destroy(fd) ==
    /\ settings' = [settings EXCEPT ![fd_uid[fd]].fd = -1]
    /\ fd_uid' = [fd_uid EXCEPT ![fd] = 0]
    /\ max_fd' = IF fd = max_fd THEN max_fd - 1 ELSE max_fd

ClientHasGone(fd) ==
    /\ Visits(fd) /\ fd # server_socket
    /\ LET u == fd_uid[fd] IN inbox[u] = <<>> /\ ~half[u] /\ gone[u]
    /\ testfds' = testfds \ {fd}
    /\ connection_destroy(fd)
    /\ UNCHANGED <<sockets, max_uid, max_gid, speaker, clients, ghosts>>

\* read() finds the end in the middle of a line; the next round closes it
EndOfFile(fd) ==
    /\ Visits(fd) /\ fd # server_socket
    /\ LET u == fd_uid[fd]
       IN inbox[u] = <<>> /\ half[u] /\ gone[u] /\ half' = [half EXCEPT ![u] = FALSE]
    /\ testfds' = testfds \ {fd}
    /\ UNCHANGED <<max_fd, fd_uid, settings, sockets, max_uid, max_gid, speaker,
                   ghosts, connected, inbox, gone, waiting, view, lines>>

-----------------------------------------------------------------------------
(* serve(): one line, and the reply to it.  Without a whole line read()    *)
(* blocks, and nobody else is served.                                      *)

Serves(fd, line) ==
    /\ Visits(fd) /\ fd # server_socket
    /\ inbox[fd_uid[fd]] # <<>> /\ line = Head(inbox[fd_uid[fd]])
    /\ inbox' = [inbox EXCEPT ![fd_uid[fd]] = Tail(@)]
    /\ testfds' = testfds \ {fd}
    /\ UNCHANGED <<max_uid, heard, reporting, connected, half, lines>>

\* the account the client keeps changes with the reply it reads
Answers(fd, data, block) ==
    LET u == fd_uid[fd] IN
    /\ waiting' = [waiting EXCEPT ![u] = FALSE]
    /\ view' = [view EXCEPT ![u].data = data, ![u].block = block]
SameView(fd) == Answers(fd, view[fd_uid[fd]].data, view[fd_uid[fd]].block)

KeepsSettings == UNCHANGED <<max_fd, fd_uid, settings, gone>>
KeepsMessages == UNCHANGED <<messages, blocks>>

\* Mutant: the descriptor is looked up, the settings are not.
QueuesAllEvents(fd) ==
    LET u == fd_uid[fd]
        new == [uid |-> u, fd |-> fd, notification |-> Types,
                reparted |-> sockets[fd].inside_block, wants |-> view[u].wants]
    IN  /\ messages' = Append(messages, new)
        /\ blocks' = blocks \cup {<<new.reparted, u, view[u].block>>}

\* the settings are copied as they are now
queue_message(fd) ==
    LET u == fd_uid[fd]
        new == [uid |-> u, fd |-> fd, notification |-> settings[u].notification,
                reparted |-> sockets[fd].inside_block, wants |-> view[u].wants]
    IN  /\ messages' = Append(messages, new)
        /\ blocks' = blocks \cup {<<new.reparted, u, view[u].block>>}

CommandMode(fd) == ~sockets[fd].awaiting_data

parse_speak(fd) ==
    /\ CommandMode(fd) /\ Serves(fd, <<"speak">>)
    /\ sockets' = [sockets EXCEPT ![fd].awaiting_data = TRUE, ![fd].o_buf = "empty"]
    /\ Answers(fd, TRUE, view[fd_uid[fd]].block)
    /\ KeepsSettings /\ KeepsMessages /\ UNCHANGED max_gid

\* the characters that fail the check for UTF-8 spoil the whole message
parse_data(fd) ==
    /\ ~CommandMode(fd)
    /\ \E line \in (DataLines \cup Lines) \ {<<"dot">>} :
         /\ Serves(fd, line)
         /\ sockets' = [sockets EXCEPT ![fd].o_buf =
                          IF line = <<"latin">> \/ @ = "bad" THEN "bad" ELSE "good"]
    /\ KeepsSettings /\ KeepsMessages
    /\ UNCHANGED <<max_gid, waiting, view>>

\* Mutant: a text without characters is dropped without an answer.
AnswersOnlyText(fd) ==
    /\ ~CommandMode(fd) /\ Serves(fd, <<"dot">>)
    /\ IF sockets[fd].o_buf = "good" THEN queue_message(fd) ELSE KeepsMessages
    /\ sockets' = [sockets EXCEPT ![fd].awaiting_data = FALSE, ![fd].o_buf = "none"]
    /\ IF sockets[fd].o_buf = "good"
       THEN Answers(fd, FALSE, view[fd_uid[fd]].block) ELSE UNCHANGED <<waiting, view>>
    /\ KeepsSettings /\ UNCHANGED max_gid

\* 225 OK MESSAGE QUEUED, 206 OK MESSAGE CANCELED when there is no text, or
\* an error
parse_end_of_data(fd) ==
    /\ ~CommandMode(fd) /\ Serves(fd, <<"dot">>)
    /\ IF sockets[fd].o_buf = "good" THEN queue_message(fd) ELSE KeepsMessages
    /\ sockets' = [sockets EXCEPT ![fd].awaiting_data = FALSE, ![fd].o_buf = "none"]
    /\ Answers(fd, FALSE, view[fd_uid[fd]].block)
    /\ KeepsSettings /\ UNCHANGED max_gid

\* CHAR, KEY and SOUND_ICON
parse_general_event(fd) ==
    /\ CommandMode(fd) /\ Serves(fd, <<"char">>)
    /\ queue_message(fd)
    /\ SameView(fd)
    /\ KeepsSettings /\ UNCHANGED <<max_gid, sockets>>

\* a block in a block, an end without a begin: an error, nothing changes
parse_block(fd) ==
    /\ CommandMode(fd)
    /\ \/ /\ Serves(fd, <<"begin">>) /\ sockets[fd].inside_block = 0
          /\ max_gid' = max_gid + 1
          /\ sockets' = [sockets EXCEPT ![fd].inside_block = max_gid + 1]
          /\ Answers(fd, FALSE, TRUE)
       \/ /\ Serves(fd, <<"end">>) /\ sockets[fd].inside_block > 0
          /\ sockets' = [sockets EXCEPT ![fd].inside_block = 0]
          /\ Answers(fd, FALSE, FALSE) /\ UNCHANGED max_gid
       \/ /\ \/ Serves(fd, <<"begin">>) /\ sockets[fd].inside_block > 0
             \/ Serves(fd, <<"end">>) /\ sockets[fd].inside_block = 0
          /\ SameView(fd) /\ UNCHANGED <<max_gid, sockets>>
    /\ KeepsSettings /\ KeepsMessages

\* STOP, CANCEL, PAUSE, ... have no effect here; an error inside a block
parse_control(fd) ==
    /\ CommandMode(fd) /\ Serves(fd, <<"control">>)
    /\ SameView(fd)
    /\ KeepsSettings /\ KeepsMessages /\ UNCHANGED <<max_gid, sockets>>

\* SET all: every client on a descriptor up to status.max_fd
set_rate_all(fd) ==
    /\ CommandMode(fd) /\ Serves(fd, <<"all_fast">>)
    /\ settings' = [u \in Uids |->
         IF \E i \in Fds : i <= max_fd /\ fd_uid[i] = u
         THEN [settings[u] EXCEPT !.rate = "fast"] ELSE settings[u]]
    /\ SameView(fd)
    /\ KeepsMessages /\ UNCHANGED <<max_gid, sockets, max_fd, fd_uid, gone>>

\* the mask is (! SPD_x), which is 0: no type is left on
set_notification_self(fd) ==
    /\ CommandMode(fd)
    /\ \E t \in Types :
       \/ /\ Serves(fd, <<"on", t>>)
          /\ settings' = [settings EXCEPT ![fd_uid[fd]].notification = @ \cup {t}]
       \/ /\ Serves(fd, <<"off", t>>)
          /\ settings' = [settings EXCEPT ![fd_uid[fd]].notification = {}]
    /\ SameView(fd)
    /\ KeepsMessages /\ UNCHANGED <<max_gid, sockets, max_fd, fd_uid, gone>>

\* the client closes its end when it reads 231 HAPPY HACKING
parse_quit(fd) ==
    /\ CommandMode(fd) /\ Serves(fd, <<"quit">>)
    /\ gone' = [gone EXCEPT ![fd_uid[fd]] = TRUE]
    /\ connection_destroy(fd)
    /\ SameView(fd)
    /\ KeepsMessages /\ UNCHANGED <<max_gid, sockets>>

serve(fd) ==
    \/ parse_speak(fd) \/ parse_data(fd) \/ parse_end_of_data(fd)
    \/ parse_general_event(fd) \/ parse_block(fd) \/ parse_control(fd)
    \/ set_rate_all(fd) \/ set_notification_self(fd) \/ parse_quit(fd)

-----------------------------------------------------------------------------
(* The speaking thread: one message after the other, two events each,      *)
(* written to the descriptor stored with the message.                      *)

TakesMessage ==
    /\ reporting = <<>> /\ messages # <<>>
    /\ reporting' = <<"begin", "end">>
    /\ UNCHANGED <<server, messages, clients, ghosts>>

\* socket_send_msg(): nothing is written to a closed descriptor
report_state ==
    /\ reporting # <<>>
    /\ reporting' = Tail(reporting)
    /\ messages' = IF Len(reporting) = 1 THEN Tail(messages) ELSE messages
    /\ LET m == Head(messages)
           event == Head(reporting)
       IN  heard' = IF event \in m.notification /\ fd_uid[m.fd] # 0
                    THEN heard \cup {[to |-> fd_uid[m.fd], from |-> m.uid,
                                      asked |-> event \in m.wants]}
                    ELSE heard
    /\ UNCHANGED <<server, clients, blocks>>

-----------------------------------------------------------------------------
Server ==
    \/ Select \/ connection_new
    \/ \E fd \in Fds : ClientHasGone(fd) \/ EndOfFile(fd) \/ serve(fd)
Speaker == TakesMessage \/ report_state

Next ==
    \/ Server \/ Speaker \/ Connects
    \/ \E u \in Uids : \/ BeginsLine(u) \/ Closes(u)
                       \/ \E line \in Lines \cup DataLines : EndsLine(u, line)

\* the clients end the lines they begin: until then the server is blocked
Fairness ==
    /\ WF_vars(Server) /\ WF_vars(Speaker)
    /\ \A u \in Uids : WF_vars(\E line \in Lines \cup DataLines : EndsLine(u, line))

Spec == Init /\ [][Next]_vars /\ Fairness

-----------------------------------------------------------------------------
\* No connection is beyond status.max_fd, where neither the main loop nor a
\* command for all clients would find it: max_fd only ever goes down by one.
MaxFdCovers == \A fd \in Fds : fd_uid[fd] # 0 => fd <= max_fd

\* A message is in a block if its client believes to be in one, and the
\* messages of a block come from one client: neither a block left open by the
\* client before nor one of another connection counts.
BlocksAreOwn ==
    /\ \A b \in blocks : b[1] > 0 <=> b[3]
    /\ \A a, b \in blocks : a[1] = b[1] /\ a[1] > 0 => a[2] = b[2]

\* An event that is delivered was asked for when its message was sent, and as
\* long as the sender has not left it goes to nobody else.
EventsAreAsked ==
    \A e \in heard : e.asked /\ (e.to = e.from \/ gone[e.from])

\* Every command of an accepted client is answered, whatever the others do:
\* close their connections in the middle of a line, of a text or of a block.
EveryCommandAnswered ==
    \A u \in Uids : waiting[u] /\ u <= max_uid ~> ~waiting[u]

\* "affect ... the messages that follow": a client that has no command under
\* way has the notifications on that it switched on and not off again.
NotificationsAsSet ==
    \A u \in Uids : u <= max_uid /\ ~waiting[u] => settings[u].notification = view[u].wants
=============================================================================
