--------------------------- MODULE SessionsProofs ---------------------------
(***************************************************************************)
(* Theorems about Sessions, for any set of descriptors, any number of      *)
(* connections and of lines: the main loop reaches every connection, the   *)
(* blocks belong to one client each, and an event goes to who asked for    *)
(* it.                                                                     *)
(***************************************************************************)
EXTENDS Sessions, SequenceTheorems, TLAPS

-----------------------------------------------------------------------------
(***************************************************************************)
(* The inductive invariant.                                                *)
(***************************************************************************)

AllLines == Lines \cup DataLines
Text     == DataLines \ {<<"dot">>}
Settings == [fd : Int, rate : {"normal", "fast"}, notification : SUBSET Types]
Sockets  == [awaiting_data : BOOLEAN, inside_block : Nat,
             o_buf : {"none", "empty", "good", "bad"}]
Messages == [uid : Uids, fd : Fds, notification : SUBSET Types,
             reparted : Nat, wants : SUBSET Types]
Views    == [data : BOOLEAN, block : BOOLEAN, wants : SUBSET Types]

TypeOK ==
    /\ testfds \subseteq Fds \cup {server_socket} /\ max_fd \in Int
    /\ fd_uid \in [Fds -> {0} \cup Uids]
    /\ settings \in [Uids -> Settings]
    /\ sockets \in [Fds -> Sockets]
    /\ max_uid \in Nat /\ max_gid \in Nat
    /\ messages \in Seq(Messages) /\ reporting \in Seq({"begin", "end"})
    /\ connected \in Nat /\ lines \in Nat
    /\ inbox \in [Uids -> Seq(AllLines)]
    /\ half \in [Uids -> BOOLEAN] /\ gone \in [Uids -> BOOLEAN]
    /\ waiting \in [Uids -> BOOLEAN]
    /\ view \in [Uids -> Views]
    /\ blocks \subseteq Nat \X Uids \X BOOLEAN
    /\ heard \subseteq [to : Uids, from : Uids, asked : BOOLEAN]

Connected(fd) == fd_uid[fd] # 0

\* What select() found ready is connected until the loop comes to it, no
\* client has two descriptors, and uids are given in order.
Tables ==
    /\ \A fd \in testfds \ {server_socket} : Connected(fd)
    /\ server_socket \in testfds => max_uid < connected
    /\ max_uid <= connected /\ connected <= MaxClients
    /\ \A fd \in Fds : fd_uid[fd] <= max_uid
    /\ \A a, b \in Fds : Connected(a) /\ fd_uid[a] = fd_uid[b] => a = b

\* The server and the client agree on what the next line is part of.
Accounts ==
    /\ \A fd \in Fds : Connected(fd) =>
         /\ sockets[fd].inside_block > 0 <=> view[fd_uid[fd]].block
         /\ sockets[fd].awaiting_data = view[fd_uid[fd]].data
    /\ \A u \in Uids : u > max_uid =>
         ~view[u].data /\ ~view[u].block /\ settings[u].notification = {}

\* A number of a block is given to one connection, whose client used it.
Blocks ==
    /\ \A fd \in Fds : Connected(fd) => sockets[fd].inside_block <= max_gid
    /\ \A a, b \in Fds :
         Connected(a) /\ Connected(b) /\ sockets[a].inside_block > 0
           /\ sockets[a].inside_block = sockets[b].inside_block => a = b
    /\ \A b \in blocks : b[1] <= max_gid
    /\ \A b \in blocks, fd \in Fds :
         Connected(fd) /\ b[1] > 0 /\ b[1] = sockets[fd].inside_block =>
           b[2] = fd_uid[fd]

\* A message goes to the descriptor of its client until the client is gone.
Addressed ==
    /\ reporting # <<>> => messages # <<>>
    /\ \A i \in 1..Len(messages) :
         /\ messages[i].notification \subseteq messages[i].wants
         /\ fd_uid[messages[i].fd] = messages[i].uid \/ gone[messages[i].uid]

\* The lines of a client that the server has not read: only text is sent
\* without waiting for an answer, so that a command is the last one.
LinesInOrder(u) ==
    /\ \A i \in 1..Len(inbox[u]) :
         /\ inbox[u][i] \in (IF view[u].data THEN DataLines ELSE Lines)
         /\ i < Len(inbox[u]) => inbox[u][i] \in Text
         /\ i = Len(inbox[u]) /\ inbox[u][i] \notin Text => waiting[u] \/ gone[u]
    /\ half[u] => ~waiting[u]

\* The client's account of its notifications runs ahead of the server's by
\* the one command that is under way.
Pending(u, c) == \E i \in 1..Len(inbox[u]) : inbox[u][i][1] = c
WantsCover(u) ==
    /\ Pending(u, "off") \/ settings[u].notification \subseteq view[u].wants
    /\ \A i \in 1..Len(inbox[u]) : inbox[u][i][1] = "on" => inbox[u][i][2] \in view[u].wants

Inv ==
    /\ TypeOK /\ MaxFdCovers /\ Tables /\ Accounts
    /\ BlocksAreOwn /\ Blocks
    /\ Addressed /\ EventsAreAsked
    /\ \A u \in Uids : LinesInOrder(u) /\ WantsCover(u)

-----------------------------------------------------------------------------
(***************************************************************************)
(* Lines.                                                                  *)
(***************************************************************************)

\* A line of text is no command, and neither is the dot that ends a text.
LEMMA LineFacts ==
  /\ \A l \in DataLines : l \notin Lines /\ l[1] # "on" /\ l[1] # "off"
  /\ \A l \in Lines : l \notin DataLines /\ l \notin Text
  /\ Text \subseteq DataLines /\ <<"dot">> \in DataLines /\ <<"dot">> \notin Text
  /\ \A l \in DataLines : l \notin Text => l = <<"dot">>
<1> QED
  BY SessionsAssumption DEF Lines, DataLines, Text

\* A line that is served: it is the first one of a client that is connected,
\* and a command is also the last one.
LEMMA ServedLine ==
  ASSUME Inv, NEW fd \in Fds, NEW line, Serves(fd, line)
  PROVE  /\ fd_uid[fd] \in Uids /\ fd_uid[fd] <= max_uid /\ Connected(fd)
         /\ line \in (IF view[fd_uid[fd]].data THEN DataLines ELSE Lines)
         /\ Len(inbox[fd_uid[fd]]) \in Nat \ {0} /\ line = inbox[fd_uid[fd]][1]
         /\ line \notin Text => Len(inbox[fd_uid[fd]]) = 1
<1> DEFINE u == fd_uid[fd]
<1>1. fd \in testfds \ {server_socket}
  BY DEF Serves, Visits
<1>2. u \in Uids /\ u <= max_uid /\ Connected(fd)
  BY <1>1 DEF Inv, TypeOK, Tables, Connected
<1>3. inbox[u] \in Seq(AllLines) /\ inbox[u] # <<>> /\ line = Head(inbox[u])
  BY <1>2 DEF Inv, TypeOK, Serves
<1>4. Len(inbox[u]) \in Nat \ {0} /\ line = inbox[u][1]
  BY <1>3
<1>5. LinesInOrder(u)
  BY <1>2 DEF Inv
<1>6. \A i \in 1..Len(inbox[u]) :
         /\ inbox[u][i] \in (IF view[u].data THEN DataLines ELSE Lines)
         /\ i < Len(inbox[u]) => inbox[u][i] \in Text
  BY <1>5 DEF LinesInOrder
<1> HIDE DEF u
<1>7. 1 \in 1..Len(inbox[u]) /\ view[u].data \in BOOLEAN
  BY <1>2, <1>4 DEF Inv, TypeOK, Views
<1>8. line \in (IF view[u].data THEN DataLines ELSE Lines)
  BY <1>4, <1>6, <1>7
<1>9. 1 < Len(inbox[u]) => inbox[u][1] \in Text
  BY <1>6, <1>7
<1>10. ASSUME line \notin Text PROVE Len(inbox[u]) = 1
  <2> DEFINE n == Len(inbox[u])
  <2>1. n \in Nat /\ n # 0
    BY <1>4
  <2>2. ~(1 < n)
    BY <1>4, <1>9, <1>10
  <2> HIDE DEF n
  <2>3. n = 1
    BY <2>1, <2>2
  <2> QED
    BY <2>3 DEF n
<1> QED
  BY <1>2, <1>4, <1>8, <1>10 DEF u

\* What serve() does to the line, whatever the command is.
LEMMA ServedInbox ==
  ASSUME Inv, NEW fd \in Fds, NEW line, Serves(fd, line)
  PROVE  /\ inbox' \in [Uids -> Seq(AllLines)]
         /\ \A w \in Uids : w # fd_uid[fd] => inbox'[w] = inbox[w]
         /\ Len(inbox'[fd_uid[fd]]) = Len(inbox[fd_uid[fd]]) - 1
         /\ \A i \in 1..Len(inbox'[fd_uid[fd]]) :
              inbox'[fd_uid[fd]][i] = inbox[fd_uid[fd]][i + 1]
<1> DEFINE u == fd_uid[fd]
<1>1. u \in Uids /\ Len(inbox[u]) \in Nat \ {0}
  BY ServedLine
<1>2. inbox \in [Uids -> Seq(AllLines)] /\ inbox[u] # <<>>
      /\ inbox' = [inbox EXCEPT ![u] = Tail(inbox[u])]
  BY DEF Inv, TypeOK, Serves
<1>3. inbox'[u] = Tail(inbox[u])
  BY <1>1, <1>2
<1> HIDE DEF u
<1>4. Tail(inbox[u]) \in Seq(AllLines) /\ Len(Tail(inbox[u])) = Len(inbox[u]) - 1
      /\ \A i \in 1..Len(Tail(inbox[u])) : Tail(inbox[u])[i] = inbox[u][i + 1]
  BY <1>1, <1>2
<1> QED
  BY <1>1, <1>2, <1>3, <1>4 DEF u

-----------------------------------------------------------------------------
(***************************************************************************)
(* The steps of the clients.                                               *)
(***************************************************************************)

LEMMA InitInv == Init => Inv
<1> SUFFICES ASSUME Init PROVE Inv
  OBVIOUS
<1>1. TypeOK
  BY SessionsAssumption DEF Init, TypeOK, Uids, Settings, Sockets, Views, NewSocket, default_fd_set
<1>2. MaxFdCovers /\ Tables /\ Accounts
  BY SessionsAssumption
  DEF Init, MaxFdCovers, Tables, Accounts, Connected, Uids, default_fd_set
<1>3. BlocksAreOwn /\ Blocks /\ Addressed /\ EventsAreAsked
  BY DEF Init, BlocksAreOwn, Blocks, Addressed, EventsAreAsked, Connected
<1>4. ASSUME NEW u \in Uids PROVE LinesInOrder(u) /\ WantsCover(u)
  BY <1>4 DEF Init, LinesInOrder, WantsCover, default_fd_set
<1> QED
  BY <1>1, <1>2, <1>3, <1>4 DEF Inv

LEMMA ConnectsInv == Inv /\ Connects => Inv'
<1> SUFFICES ASSUME Inv, Connects PROVE Inv'
  OBVIOUS
<1> USE DEF Connects, server, speaker, ghosts
<1>1. TypeOK'
  BY DEF Inv, TypeOK
<1>2. MaxFdCovers' /\ BlocksAreOwn' /\ EventsAreAsked'
  BY DEF Inv, MaxFdCovers, BlocksAreOwn, EventsAreAsked
<1>3. Tables' /\ Accounts'
  BY SessionsAssumption DEF Inv, TypeOK, Tables, Accounts, Connected
<1>4. Blocks' /\ Addressed'
  BY DEF Inv, Blocks, Addressed, Connected
<1>5. \A u \in Uids : LinesInOrder(u)' /\ WantsCover(u)'
  BY DEF Inv, LinesInOrder, WantsCover, Pending
<1> QED
  BY <1>1, <1>2, <1>3, <1>4, <1>5 DEF Inv

LEMMA BeginsLineInv == ASSUME NEW u \in Uids PROVE Inv /\ BeginsLine(u) => Inv'
<1> SUFFICES ASSUME Inv, BeginsLine(u) PROVE Inv'
  OBVIOUS
<1> USE DEF BeginsLine, server, speaker, ghosts
<1>1. TypeOK'
  BY DEF Inv, TypeOK
<1>2. MaxFdCovers' /\ BlocksAreOwn' /\ EventsAreAsked'
  BY DEF Inv, MaxFdCovers, BlocksAreOwn, EventsAreAsked
<1>3. Tables' /\ Accounts'
  BY DEF Inv, Tables, Accounts, Connected
<1>4. Blocks' /\ Addressed'
  BY DEF Inv, Blocks, Addressed, Connected
<1>5. \A w \in Uids : LinesInOrder(w)' /\ WantsCover(w)'
  BY DEF Inv, TypeOK, LinesInOrder, WantsCover, Pending
<1> QED
  BY <1>1, <1>2, <1>3, <1>4, <1>5 DEF Inv

LEMMA ClosesInv == ASSUME NEW u \in Uids PROVE Inv /\ Closes(u) => Inv'
<1> SUFFICES ASSUME Inv, Closes(u) PROVE Inv'
  OBVIOUS
<1> USE DEF Closes, server, speaker, ghosts
<1>1. TypeOK'
  BY DEF Inv, TypeOK
<1>2. MaxFdCovers' /\ BlocksAreOwn'
  BY DEF Inv, MaxFdCovers, BlocksAreOwn
<1>3. Tables' /\ Accounts' /\ Blocks'
  BY DEF Inv, Tables, Accounts, Blocks, Connected
<1>4. \A w \in Uids : gone[w] => gone'[w]
  BY DEF Inv, TypeOK
<1>5. Addressed' /\ EventsAreAsked'
  <2>1. \A i \in 1..Len(messages) : messages[i].uid \in Uids
    <3>1. \A i \in 1..Len(messages) : messages[i] \in Messages
      BY ElementOfSeq DEF Inv, TypeOK
    <3> QED
      BY <3>1 DEF Messages
  <2>2. \A e \in heard : e.from \in Uids
    BY DEF Inv, TypeOK
  <2>3. Addressed'
    BY <1>4, <2>1 DEF Inv, Addressed
  <2>4. heard' = heard /\ EventsAreAsked
    BY DEF Inv
  <2>5. EventsAreAsked'
    BY <1>4, <2>2, <2>4 DEF EventsAreAsked
  <2> QED
    BY <2>3, <2>5
<1>6. \A w \in Uids : LinesInOrder(w)' /\ WantsCover(w)'
  BY DEF Inv, TypeOK, LinesInOrder, WantsCover, Pending
<1> QED
  BY <1>1, <1>2, <1>3, <1>5, <1>6 DEF Inv

\* The lines and accounts of a client stay as they are.
LEMMA SameLines ==
  ASSUME Inv, NEW w \in Uids,
         inbox'[w] = inbox[w], view'[w] = view[w], waiting'[w] = waiting[w],
         half'[w] = half[w], gone'[w] = gone[w],
         settings'[w].notification = settings[w].notification
  PROVE  LinesInOrder(w)' /\ WantsCover(w)'
<1>1. LinesInOrder(w) /\ WantsCover(w)
  BY DEF Inv
<1>2. LinesInOrder(w)'
  BY <1>1 DEF LinesInOrder
<1>3. Pending(w, "off")' = Pending(w, "off")
  BY DEF Pending
<1>4. WantsCover(w)'
  BY <1>1, <1>3 DEF WantsCover
<1> QED
  BY <1>2, <1>4

\* The client ends a line: nothing but a text may follow what it sent before.
LEMMA EndsLineInv ==
  ASSUME NEW u \in Uids, NEW line \in AllLines PROVE Inv /\ EndsLine(u, line) => Inv'
<1> SUFFICES ASSUME Inv, EndsLine(u, line) PROVE Inv'
  OBVIOUS
<1> USE DEF EndsLine, server, speaker, ghosts
<1>1. /\ view \in [Uids -> Views] /\ inbox \in [Uids -> Seq(AllLines)]
      /\ waiting \in [Uids -> BOOLEAN] /\ half \in [Uids -> BOOLEAN]
  BY DEF Inv, TypeOK
<1>2. line \in (IF view[u].data THEN DataLines ELSE Lines)
  OBVIOUS
<1>3. line[1] \in {"on", "off"} => line \in Lines /\ line[2] \in Types
  BY LineFacts DEF Lines, AllLines
<1>4. /\ view' \in [Uids -> Views]
      /\ \A w \in Uids : view'[w].data = view[w].data /\ view'[w].block = view[w].block
      /\ \A w \in Uids : w # u => view'[w] = view[w]
  BY <1>1, <1>3, ZenonT(40) DEF Views
<1>5. /\ inbox' \in [Uids -> Seq(AllLines)]
      /\ \A w \in Uids : w # u => inbox'[w] = inbox[w]
      /\ inbox'[u] = Append(inbox[u], line)
  BY <1>1
<1>6. TypeOK'
  BY <1>4, <1>5 DEF Inv, TypeOK
<1>7. MaxFdCovers' /\ BlocksAreOwn' /\ EventsAreAsked'
  BY DEF Inv, MaxFdCovers, BlocksAreOwn, EventsAreAsked
<1>8. Tables' /\ Blocks' /\ Addressed'
  BY DEF Inv, Tables, Blocks, Addressed, Connected
<1>9. Accounts'
  <2>1. \A fd \in Fds : Connected(fd) => fd_uid[fd] \in Uids
    BY DEF Inv, TypeOK, Connected
  <2> QED
    BY <1>4, <2>1 DEF Inv, Accounts, Connected
<1>10. ~waiting[u] /\ ~gone[u] /\ ~half'[u] /\ waiting'[u] = (line \notin Text)
  <2>1. half[u] /\ LinesInOrder(u)
    BY DEF Inv
  <2> QED
    BY <1>1, <2>1 DEF LinesInOrder, Text
<1>11. \A i \in 1..Len(inbox[u]) : inbox[u][i] \in Text /\ view[u].data
  <2> SUFFICES ASSUME NEW i \in 1..Len(inbox[u])
               PROVE  inbox[u][i] \in Text /\ view[u].data
    OBVIOUS
  <2>1. LinesInOrder(u)
    BY DEF Inv
  <2>2. i < Len(inbox[u]) \/ i = Len(inbox[u])
    BY <1>1
  <2>3. inbox[u][i] \in Text
    BY <1>10, <2>1, <2>2 DEF LinesInOrder
  <2> QED
    BY <2>1, <2>3, LineFacts DEF LinesInOrder
<1>12. /\ Len(inbox'[u]) = Len(inbox[u]) + 1 /\ Len(inbox[u]) \in Nat
       /\ inbox'[u][Len(inbox[u]) + 1] = line
       /\ \A i \in 1..Len(inbox[u]) : inbox'[u][i] = inbox[u][i]
  BY <1>1, <1>5
<1>13. LinesInOrder(u)'
  <2>1. ASSUME NEW i \in 1..Len(inbox'[u])
        PROVE  /\ inbox'[u][i] \in (IF view[u].data THEN DataLines ELSE Lines)
               /\ i < Len(inbox'[u]) => inbox'[u][i] \in Text
               /\ i = Len(inbox'[u]) /\ inbox'[u][i] \notin Text => waiting'[u] \/ gone'[u]
    <3>1. CASE i \in 1..Len(inbox[u])
      <4>1. inbox'[u][i] \in Text /\ view[u].data /\ i # Len(inbox'[u])
        BY <1>11, <1>12, <3>1
      <4> QED
        BY <4>1, LineFacts
    <3>2. CASE i = Len(inbox[u]) + 1
      <4>1. inbox'[u][i] = line /\ ~(i < Len(inbox'[u]))
        BY <1>12, <3>2
      <4> QED
        BY <1>2, <1>10, <4>1
    <3> QED
      BY <1>12, <3>1, <3>2
  <2> QED
    BY <1>4, <1>10, <2>1 DEF LinesInOrder
<1>14. WantsCover(u)'
  <2>1. \A i \in 1..Len(inbox[u]) : inbox[u][i][1] # "on" /\ inbox[u][i][1] # "off"
    BY <1>11, LineFacts
  <2>2. settings[u].notification \subseteq view[u].wants
    BY <2>1 DEF Inv, WantsCover, Pending
  <2>3. line[1] = "off" \/ view[u].wants \subseteq view'[u].wants
    BY <1>1 DEF Views
  <2>4. line[1] = "on" => line[2] \in view'[u].wants
    BY <1>1 DEF Views
  <2>5. line[1] = "off" => Pending(u, "off")'
    BY <1>12 DEF Pending
  <2>6. \A i \in 1..Len(inbox'[u]) : inbox'[u][i][1] = "on" => inbox'[u][i][2] \in view'[u].wants
    <3> SUFFICES ASSUME NEW i \in 1..Len(inbox'[u]), inbox'[u][i][1] = "on"
                 PROVE  inbox'[u][i][2] \in view'[u].wants
      OBVIOUS
    <3>1. i \in 1..Len(inbox[u]) \/ i = Len(inbox[u]) + 1
      BY <1>12
    <3>2. inbox'[u][i] = line
      BY <1>12, <2>1, <3>1
    <3> QED
      BY <2>4, <3>2
  <2> QED
    BY <2>2, <2>3, <2>5, <2>6 DEF WantsCover
<1>15. ASSUME NEW w \in Uids, w # u PROVE LinesInOrder(w)' /\ WantsCover(w)'
  <2>1. /\ inbox'[w] = inbox[w] /\ view'[w] = view[w] /\ waiting'[w] = waiting[w]
        /\ half'[w] = half[w] /\ gone'[w] = gone[w] /\ settings'[w] = settings[w]
    BY <1>1, <1>4, <1>5, <1>15
  <2> QED
    BY <2>1, SameLines
<1> QED
  BY <1>6, <1>7, <1>8, <1>9, <1>13, <1>14, <1>15 DEF Inv

-----------------------------------------------------------------------------
(***************************************************************************)
(* Connections.                                                            *)
(***************************************************************************)

LEMMA SelectInv == Inv /\ Select => Inv'
<1> SUFFICES ASSUME Inv, Select PROVE Inv'
  OBVIOUS
<1> USE DEF Select, speaker, clients, ghosts
<1>1. TypeOK'
  BY DEF Inv, TypeOK
<1>2. MaxFdCovers' /\ BlocksAreOwn' /\ EventsAreAsked'
  BY DEF Inv, MaxFdCovers, BlocksAreOwn, EventsAreAsked
<1>3. Tables'
  BY SessionsAssumption DEF Inv, Tables, Connected, Readable
<1>4. Accounts' /\ Blocks' /\ Addressed'
  BY DEF Inv, Accounts, Blocks, Addressed, Connected
<1>5. \A u \in Uids : LinesInOrder(u)' /\ WantsCover(u)'
  BY SameLines
<1> QED
  BY <1>1, <1>2, <1>3, <1>4, <1>5 DEF Inv

\* The socket of a new connection is cleared: no block and no text is left.
LEMMA ConnectionNewInv == Inv /\ connection_new => Inv'
<1> SUFFICES ASSUME Inv, connection_new PROVE Inv'
  OBVIOUS
<1> USE DEF connection_new, speaker, clients, ghosts
<1>1. CASE UNCHANGED <<max_fd, fd_uid, settings, sockets, max_uid>>
  <2>1. TypeOK'
    BY <1>1 DEF Inv, TypeOK
  <2>2. MaxFdCovers' /\ BlocksAreOwn' /\ EventsAreAsked'
    BY <1>1 DEF Inv, MaxFdCovers, BlocksAreOwn, EventsAreAsked
  <2>3. Tables' /\ Accounts' /\ Blocks' /\ Addressed'
    BY <1>1 DEF Inv, Tables, Accounts, Blocks, Addressed, Connected
  <2>4. \A u \in Uids : LinesInOrder(u)' /\ WantsCover(u)'
    BY <1>1, SameLines
  <2> QED
    BY <2>1, <2>2, <2>3, <2>4 DEF Inv
<1>2. CASE \E fd \in Fds :
          /\ fd_uid[fd] = 0
          /\ max_fd' = IF fd > max_fd THEN fd ELSE max_fd
          /\ sockets' = [sockets EXCEPT ![fd] = NewSocket]
          /\ max_uid' = max_uid + 1
          /\ settings' = [settings EXCEPT ![max_uid + 1].fd = fd]
          /\ fd_uid' = [fd_uid EXCEPT ![fd] = max_uid + 1]
  <2>1. PICK fd \in Fds :
          /\ fd_uid[fd] = 0
          /\ max_fd' = IF fd > max_fd THEN fd ELSE max_fd
          /\ sockets' = [sockets EXCEPT ![fd] = NewSocket]
          /\ max_uid' = max_uid + 1
          /\ settings' = [settings EXCEPT ![max_uid + 1].fd = fd]
          /\ fd_uid' = [fd_uid EXCEPT ![fd] = max_uid + 1]
    BY <1>2
  <2>2. /\ max_uid \in Nat /\ connected \in Nat /\ MaxClients \in Nat
        /\ max_uid + 1 <= connected /\ max_uid + 1 \in Uids /\ fd \in Int
    BY SessionsAssumption DEF Visits, Inv, Tables, TypeOK, Uids
  <2>3. /\ fd_uid' \in [Fds -> {0} \cup Uids] /\ fd_uid'[fd] = max_uid + 1
        /\ \A other \in Fds : other # fd => fd_uid'[other] = fd_uid[other]
    BY <2>1, <2>2 DEF Inv, TypeOK
  <2>4. /\ sockets' \in [Fds -> Sockets] /\ sockets'[fd] = NewSocket
        /\ \A other \in Fds : other # fd => sockets'[other] = sockets[other]
    BY <2>1 DEF Inv, TypeOK, Sockets, NewSocket
  <2>5. /\ settings' \in [Uids -> Settings]
        /\ \A w \in Uids : settings'[w].notification = settings[w].notification
    <3>1. settings \in [Uids -> Settings]
      BY DEF Inv, TypeOK
    <3>2. \A w \in Uids : settings[w] \in Settings
      BY <3>1
    <3>3. settings' = [w \in Uids |-> IF w = max_uid + 1 THEN [settings[w] EXCEPT !.fd = fd]
                                     ELSE settings[w]]
      BY <2>1, <2>2, <3>1
    <3> QED
      BY <2>2, <3>2, <3>3 DEF Settings
  <2>6. TypeOK'
    BY <2>1, <2>2, <2>3, <2>4, <2>5 DEF Inv, TypeOK
  <2>7. MaxFdCovers'
    BY <2>1, <2>2, <2>3, SessionsAssumption DEF Inv, TypeOK, MaxFdCovers
  <2>8. BlocksAreOwn' /\ EventsAreAsked'
    BY DEF Inv, BlocksAreOwn, EventsAreAsked
  <2>9. /\ \A other \in Fds : fd_uid[other] \in Nat /\ fd_uid[other] <= max_uid
        /\ \A other \in Fds : other # fd => Connected(other)' = Connected(other)
    BY <2>3 DEF Inv, TypeOK, Tables, Uids, Connected
  <2>10. Tables'
    <3>1. /\ \A other \in testfds' \ {server_socket} : Connected(other)'
          /\ server_socket \notin testfds'
          /\ max_uid' <= connected' /\ connected' <= MaxClients
      BY <2>1, <2>2, <2>3, <2>9 DEF Inv, TypeOK, Tables, Connected
    <3>2. \A other \in Fds : fd_uid'[other] <= max_uid'
      BY <2>1, <2>2, <2>3, <2>9
    <3>3. ASSUME NEW a \in Fds, NEW b \in Fds, Connected(a)', fd_uid'[a] = fd_uid'[b]
          PROVE  a = b
      BY <2>2, <2>3, <2>9, <3>3 DEF Inv, Tables, Connected
    <3> QED
      BY <3>1, <3>2, <3>3 DEF Tables
  <2>11. Accounts'
    <3>1. ~view[max_uid + 1].data /\ ~view[max_uid + 1].block /\ view[max_uid + 1] \in Views
      BY <2>2 DEF Inv, TypeOK, Accounts
    <3>2. ASSUME NEW other \in Fds, Connected(other)'
          PROVE  /\ sockets'[other].inside_block > 0 <=> view'[fd_uid'[other]].block
                 /\ sockets'[other].awaiting_data = view'[fd_uid'[other]].data
      <4>1. CASE other = fd
        <5>1. view'[fd_uid'[other]] = view[max_uid + 1]
          BY <2>3, <4>1
        <5>2. sockets'[other].inside_block = 0 /\ sockets'[other].awaiting_data = FALSE
          BY <2>4, <4>1 DEF NewSocket
        <5>3. view[max_uid + 1].data = FALSE /\ view[max_uid + 1].block = FALSE
          BY <3>1 DEF Views
        <5>4. ~(sockets'[other].inside_block > 0) /\ ~view'[fd_uid'[other]].block
          BY <5>1, <5>2, <5>3
        <5>5. sockets'[other].awaiting_data = view'[fd_uid'[other]].data
          BY <5>1, <5>2, <5>3
        <5> QED
          BY <5>4, <5>5
      <4>2. CASE other # fd
        <5>1. Connected(other)
          BY <2>9, <3>2, <4>2
        <5> QED
          BY <2>3, <2>4, <4>2, <5>1 DEF Inv, Accounts
      <4> QED
        BY <4>1, <4>2
    <3>3. \A u \in Uids : u > max_uid' => u > max_uid
      BY <2>1, <2>2 DEF Uids
    <3> QED
      BY <2>5, <3>2, <3>3 DEF Inv, Accounts
  <2>12. Blocks'
    <3>1. /\ sockets'[fd].inside_block = 0 /\ max_gid \in Nat
          /\ \A other \in Fds : sockets[other].inside_block \in Nat
      BY <2>4 DEF NewSocket, Inv, TypeOK, Sockets
    <3>2. \A other \in Fds : Connected(other)' => sockets'[other].inside_block <= max_gid
      BY <2>4, <2>9, <3>1 DEF Inv, Blocks
    <3>3. ASSUME NEW a \in Fds, NEW b \in Fds, Connected(a)', Connected(b)',
                 sockets'[a].inside_block > 0,
                 sockets'[a].inside_block = sockets'[b].inside_block
          PROVE  a = b
      <4>1. a # fd /\ b # fd
        BY <3>1, <3>3
      <4> QED
        BY <2>4, <2>9, <3>3, <4>1 DEF Inv, Blocks
    <3>4. ASSUME NEW b \in blocks, NEW other \in Fds, Connected(other)', b[1] > 0,
                 b[1] = sockets'[other].inside_block
          PROVE  b[2] = fd_uid'[other]
      <4>1. other # fd
        BY <3>1, <3>4
      <4> QED
        BY <2>3, <2>4, <2>9, <3>4, <4>1 DEF Inv, Blocks
    <3> QED
      BY <3>2, <3>3, <3>4 DEF Inv, Blocks
  <2>13. Addressed'
    <3> SUFFICES ASSUME NEW i \in 1..Len(messages)
                 PROVE  fd_uid'[messages[i].fd] = messages[i].uid \/ gone[messages[i].uid]
      BY DEF Inv, Addressed
    <3>1. messages[i] \in Messages
      BY ElementOfSeq DEF Inv, TypeOK
    <3>2. messages[i].fd \in Fds /\ messages[i].uid # 0
      BY <3>1 DEF Messages, Uids
    <3> QED
      BY <2>1, <2>3, <3>2 DEF Inv, Addressed
  <2>14. \A u \in Uids : LinesInOrder(u)' /\ WantsCover(u)'
    BY <2>5, SameLines
  <2> QED
    BY <2>6, <2>7, <2>8, <2>10, <2>11, <2>12, <2>13, <2>14 DEF Inv
<1> QED
  BY <1>1, <1>2

\* What connection_destroy() leaves of a connection of a client who is gone.
LEMMA Destroyed ==
  ASSUME Inv, NEW fd \in Fds, fd \in testfds \ {server_socket},
         testfds' = testfds \ {fd}, connection_destroy(fd),
         UNCHANGED <<sockets, max_uid, max_gid, messages, reporting, connected, blocks, heard>>,
         gone'[fd_uid[fd]], \A w \in Uids : gone[w] => gone'[w],
         \A w \in Uids : view'[w].data = view[w].data /\ view'[w].block = view[w].block
  PROVE  /\ fd_uid' \in [Fds -> {0} \cup Uids] /\ settings' \in [Uids -> Settings]
         /\ max_fd' \in Int /\ testfds' \subseteq Fds \cup {server_socket}
         /\ \A w \in Uids : settings'[w].notification = settings[w].notification
         /\ MaxFdCovers' /\ Tables' /\ Accounts' /\ BlocksAreOwn' /\ Blocks'
         /\ Addressed' /\ EventsAreAsked'
<1> DEFINE u == fd_uid[fd]
<1>1. Connected(fd) /\ u \in Uids
  BY DEF Inv, TypeOK, Tables, Connected
<1>2. /\ fd_uid' \in [Fds -> {0} \cup Uids] /\ fd_uid'[fd] = 0
      /\ \A other \in Fds : other # fd => fd_uid'[other] = fd_uid[other]
  BY DEF connection_destroy, Inv, TypeOK
<1>3. /\ settings' \in [Uids -> Settings]
      /\ \A w \in Uids : settings'[w].notification = settings[w].notification
  <2>1. settings \in [Uids -> Settings]
    BY DEF Inv, TypeOK
  <2>2. \A w \in Uids : settings[w] \in Settings
    BY <2>1
  <2>3. settings' = [w \in Uids |-> IF w = u THEN [settings[w] EXCEPT !.fd = -1]
                                   ELSE settings[w]]
    BY <1>1, <2>1 DEF connection_destroy
  <2> QED
    BY <2>2, <2>3 DEF Settings
<1>4. \A other \in Fds : Connected(other)' => other # fd /\ Connected(other)
  BY <1>2 DEF Connected
<1>5. max_fd' \in Int /\ MaxFdCovers'
  <2>1. max_fd \in Int /\ fd <= max_fd /\ \A other \in Fds : other \in Int
    BY <1>1, SessionsAssumption DEF Inv, TypeOK, MaxFdCovers, Connected
  <2>2. max_fd' = IF fd = max_fd THEN max_fd - 1 ELSE max_fd
    BY DEF connection_destroy
  <2>3. \A other \in Fds : Connected(other)' => other # fd /\ other <= max_fd
    BY <1>4 DEF Inv, MaxFdCovers, Connected
  <2> QED
    BY <2>1, <2>2, <2>3 DEF MaxFdCovers, Connected
<1>6. Tables'
  <2>1. /\ \A other \in testfds' \ {server_socket} : Connected(other)'
        /\ server_socket \in testfds' => max_uid' < connected'
        /\ max_uid' <= connected' /\ connected' <= MaxClients
    BY <1>2 DEF Inv, TypeOK, Tables, Connected
  <2>2. \A other \in Fds : fd_uid'[other] <= max_uid'
    <3>1. max_uid' = max_uid /\ max_uid \in Nat
      BY DEF Inv, TypeOK
    <3>2. \A other \in Fds : fd_uid[other] <= max_uid
      BY DEF Inv, Tables
    <3>3. fd_uid'[fd] <= max_uid
      BY <1>2, <3>1
    <3> QED
      BY <1>2, <3>1, <3>2, <3>3
  <2>3. \A a, b \in Fds : Connected(a)' /\ fd_uid'[a] = fd_uid'[b] => a = b
    BY <1>2 DEF Inv, Tables, Connected
  <2> QED
    BY <2>1, <2>2, <2>3 DEF Tables
<1>7. Accounts'
  <2>1. \A other \in Fds : Connected(other) => fd_uid[other] \in Uids
    BY DEF Inv, TypeOK, Connected
  <2> QED
    BY <1>2, <1>3, <1>4, <2>1 DEF Inv, Accounts
<1>8. BlocksAreOwn' /\ EventsAreAsked'
  <2>1. \A e \in heard : e.from \in Uids
    BY DEF Inv, TypeOK
  <2>2. EventsAreAsked /\ BlocksAreOwn
    BY DEF Inv
  <2>3. EventsAreAsked'
    BY <2>1, <2>2 DEF EventsAreAsked
  <2> QED
    BY <2>2, <2>3 DEF BlocksAreOwn
<1>9. Blocks'
  BY <1>2, <1>4 DEF Inv, Blocks
<1>10. Addressed'
  <2> SUFFICES ASSUME NEW i \in 1..Len(messages)
               PROVE  fd_uid'[messages[i].fd] = messages[i].uid \/ gone'[messages[i].uid]
    BY DEF Inv, Addressed
  <2>1. messages[i] \in Messages
    BY ElementOfSeq DEF Inv, TypeOK
  <2>2. messages[i].fd \in Fds /\ messages[i].uid \in Uids
    BY <2>1 DEF Messages
  <2>3. fd_uid[messages[i].fd] = messages[i].uid \/ gone[messages[i].uid]
    BY DEF Inv, Addressed
  <2> QED
    BY <1>2, <2>2, <2>3
<1> QED
  BY <1>2, <1>3, <1>5, <1>6, <1>7, <1>8, <1>9, <1>10 DEF Inv, TypeOK

LEMMA ClientHasGoneInv == ASSUME NEW fd \in Fds PROVE Inv /\ ClientHasGone(fd) => Inv'
<1> SUFFICES ASSUME Inv, ClientHasGone(fd) PROVE Inv'
  OBVIOUS
<1> USE DEF ClientHasGone, speaker, clients, ghosts
<1>1. fd \in testfds \ {server_socket} /\ gone[fd_uid[fd]]
  BY DEF Visits
<1>2. /\ fd_uid' \in [Fds -> {0} \cup Uids] /\ settings' \in [Uids -> Settings]
      /\ max_fd' \in Int /\ testfds' \subseteq Fds \cup {server_socket}
      /\ \A w \in Uids : settings'[w].notification = settings[w].notification
      /\ MaxFdCovers' /\ Tables' /\ Accounts' /\ BlocksAreOwn' /\ Blocks'
      /\ Addressed' /\ EventsAreAsked'
  BY <1>1, Destroyed
<1>3. TypeOK'
  BY <1>2 DEF Inv, TypeOK
<1>4. \A u \in Uids : LinesInOrder(u)' /\ WantsCover(u)'
  BY <1>2, SameLines
<1> QED
  BY <1>2, <1>3, <1>4 DEF Inv

LEMMA EndOfFileInv == ASSUME NEW fd \in Fds PROVE Inv /\ EndOfFile(fd) => Inv'
<1> SUFFICES ASSUME Inv, EndOfFile(fd) PROVE Inv'
  OBVIOUS
<1> USE DEF EndOfFile, speaker, ghosts
<1>1. TypeOK'
  BY DEF Inv, TypeOK
<1>2. MaxFdCovers' /\ BlocksAreOwn' /\ EventsAreAsked'
  BY DEF Inv, MaxFdCovers, BlocksAreOwn, EventsAreAsked
<1>3. Tables' /\ Accounts' /\ Blocks' /\ Addressed'
  BY DEF Inv, Tables, Accounts, Blocks, Addressed, Connected
<1>4. ASSUME NEW u \in Uids PROVE LinesInOrder(u)' /\ WantsCover(u)'
  <2>1. LinesInOrder(u) /\ WantsCover(u) /\ (half'[u] => half[u])
    BY DEF Inv, TypeOK
  <2>2. LinesInOrder(u)'
    BY <2>1 DEF LinesInOrder
  <2>3. Pending(u, "off")' = Pending(u, "off")
    BY DEF Pending
  <2>4. WantsCover(u)'
    BY <2>1, <2>3 DEF WantsCover
  <2> QED
    BY <2>2, <2>4
<1> QED
  BY <1>1, <1>2, <1>3, <1>4 DEF Inv

-----------------------------------------------------------------------------
(***************************************************************************)
(* serve().                                                                *)
(***************************************************************************)

\* The tables do not change when a line is served that keeps the connection.
LEMMA ServedTables ==
  ASSUME Inv, NEW fd \in Fds, NEW line, Serves(fd, line), UNCHANGED <<max_fd, fd_uid>>
  PROVE  testfds' \subseteq Fds \cup {server_socket} /\ Tables' /\ MaxFdCovers'
<1>1. testfds' = testfds \ {fd} /\ UNCHANGED <<max_uid, connected>>
  BY DEF Serves
<1>2. Tables' /\ MaxFdCovers'
  BY <1>1 DEF Inv, Tables, MaxFdCovers, Connected
<1> QED
  BY <1>1, <1>2 DEF Inv, TypeOK

\* The command that is answered was the last line, so that nothing of the
\* client is under way.
LEMMA AnsweredLines ==
  ASSUME Inv, NEW fd \in Fds, NEW line, Serves(fd, line), line \notin Text,
         NEW data \in BOOLEAN, NEW block \in BOOLEAN, Answers(fd, data, block),
         gone' \in [Uids -> BOOLEAN],
         \A w \in Uids : w # fd_uid[fd] =>
           gone'[w] = gone[w] /\ settings'[w].notification = settings[w].notification,
         settings'[fd_uid[fd]].notification \subseteq view[fd_uid[fd]].wants
  PROVE  /\ view' \in [Uids -> Views] /\ waiting' \in [Uids -> BOOLEAN]
         /\ inbox' \in [Uids -> Seq(AllLines)]
         /\ view'[fd_uid[fd]].data = data /\ view'[fd_uid[fd]].block = block
         /\ \A w \in Uids : w # fd_uid[fd] => view'[w] = view[w]
         /\ \A w \in Uids : LinesInOrder(w)' /\ WantsCover(w)'
<1> DEFINE u == fd_uid[fd]
<1>1. u \in Uids /\ Len(inbox[u]) = 1
  BY ServedLine
<1>2. /\ inbox' \in [Uids -> Seq(AllLines)] /\ Len(inbox'[u]) = Len(inbox[u]) - 1
      /\ \A w \in Uids : w # u => inbox'[w] = inbox[w]
  BY ServedInbox
<1>3. Len(inbox'[u]) = 0
  BY <1>1, <1>2
<1>4. view \in [Uids -> Views] /\ waiting \in [Uids -> BOOLEAN]
  BY DEF Inv, TypeOK
<1>5. /\ view' \in [Uids -> Views]
      /\ view'[u].data = data /\ view'[u].block = block /\ view'[u].wants = view[u].wants
      /\ \A w \in Uids : w # u => view'[w] = view[w]
  BY <1>1, <1>4 DEF Answers, Views
<1>6. /\ waiting' \in [Uids -> BOOLEAN] /\ ~waiting'[u]
      /\ \A w \in Uids : w # u => waiting'[w] = waiting[w]
  BY <1>1, <1>4 DEF Answers
<1>7. half' = half
  BY DEF Serves
<1>8. ASSUME NEW w \in Uids, w # u PROVE LinesInOrder(w)' /\ WantsCover(w)'
  BY <1>2, <1>5, <1>6, <1>7, <1>8, SameLines
<1>9. ASSUME NEW w \in Uids, w = u PROVE LinesInOrder(w)' /\ WantsCover(w)'
  <2>1. LinesInOrder(w)'
    BY <1>3, <1>6, <1>9 DEF LinesInOrder
  <2>2. WantsCover(w)'
    BY <1>3, <1>5, <1>9 DEF WantsCover
  <2> QED
    BY <2>1, <2>2
<1> QED
  BY <1>1, <1>2, <1>5, <1>6, <1>8, <1>9

\* When a command that switches nothing off is served the server delivers no
\* event the client does not want.
LEMMA ServedWants ==
  ASSUME Inv, NEW fd \in Fds, NEW line, Serves(fd, line), line \notin Text
  PROVE  /\ line[1] # "off" =>
              settings[fd_uid[fd]].notification \subseteq view[fd_uid[fd]].wants
         /\ line[1] = "on" => line[2] \in view[fd_uid[fd]].wants
<1> DEFINE u == fd_uid[fd]
<1>1. u \in Uids /\ Len(inbox[u]) = 1 /\ line = inbox[u][1]
  BY ServedLine
<1>2. WantsCover(u)
  BY <1>1 DEF Inv
<1> HIDE DEF u
<1>3. \A i \in 1..Len(inbox[u]) : inbox[u][i] = line
  BY <1>1
<1>4. 1 \in 1..Len(inbox[u])
  BY <1>1
<1>5. line[1] # "off" => settings[u].notification \subseteq view[u].wants
  BY <1>2, <1>3 DEF WantsCover, Pending
<1>6. line[1] = "on" => line[2] \in view[u].wants
  BY <1>2, <1>3, <1>4 DEF WantsCover
<1> QED
  BY <1>5, <1>6 DEF u

\* A message is sent with the notifications its client wants, and belongs to
\* the block the client believes to be in.
LEMMA Queued ==
  ASSUME Inv, NEW fd \in Fds, Connected(fd), queue_message(fd),
         settings[fd_uid[fd]].notification \subseteq view[fd_uid[fd]].wants,
         UNCHANGED <<fd_uid, max_gid, reporting, gone>>,
         \A f \in Fds : sockets'[f].inside_block = sockets[f].inside_block
  PROVE  /\ messages' \in Seq(Messages) /\ blocks' \subseteq Nat \X Uids \X BOOLEAN
         /\ BlocksAreOwn' /\ Blocks' /\ Addressed'
<1> DEFINE u == fd_uid[fd]
           gid == sockets[fd].inside_block
           new == [uid |-> u, fd |-> fd, notification |-> settings[u].notification,
                   reparted |-> gid, wants |-> view[u].wants]
           b0 == <<gid, u, view[u].block>>
<1>1. u \in Uids /\ settings[u] \in Settings /\ view[u] \in Views /\ sockets[fd] \in Sockets
  BY DEF Inv, TypeOK, Connected
<1>2. new \in Messages /\ gid \in Nat /\ view[u].block \in BOOLEAN
  BY <1>1 DEF Messages, Settings, Views, Sockets
<1>3. messages \in Seq(Messages) /\ blocks \subseteq Nat \X Uids \X BOOLEAN /\ max_gid \in Nat
  BY DEF Inv, TypeOK
<1>4. messages' = Append(messages, new) /\ blocks' = blocks \cup {b0}
  BY DEF queue_message
<1>5. b0 \in Nat \X Uids \X BOOLEAN /\ b0[1] = gid /\ b0[2] = u /\ b0[3] = view[u].block
  BY <1>1, <1>2
<1>6. (gid > 0 <=> view[u].block) /\ gid <= max_gid
  BY DEF Inv, Accounts, Blocks
<1>7. /\ new.notification \subseteq new.wants
      /\ fd_uid[new.fd] = new.uid
  OBVIOUS
<1> HIDE DEF new, b0, gid
<1>8. /\ messages' \in Seq(Messages) /\ Len(messages') = Len(messages) + 1
      /\ Len(messages) \in Nat
      /\ messages'[Len(messages) + 1] = new
      /\ \A i \in 1..Len(messages) : messages'[i] = messages[i]
  BY <1>2, <1>3, <1>4
<1>9. Addressed'
  <2>1. messages' # <<>>
    BY <1>8
  <2>2. ASSUME NEW i \in 1..Len(messages')
        PROVE  /\ messages'[i].notification \subseteq messages'[i].wants
               /\ fd_uid[messages'[i].fd] = messages'[i].uid \/ gone[messages'[i].uid]
    <3>1. CASE i \in 1..Len(messages)
      <4>1. messages'[i] = messages[i]
        BY <1>8, <3>1
      <4> QED
        BY <3>1, <4>1 DEF Inv, Addressed
    <3>2. CASE i = Len(messages) + 1
      <4>1. messages'[i] = new
        BY <1>8, <3>2
      <4> QED
        BY <1>7, <4>1
    <3> QED
      BY <1>8, <3>1, <3>2
  <2> QED
    BY <2>1, <2>2 DEF Addressed
<1>10. BlocksAreOwn'
  <2>1. \A b \in blocks' : b[1] > 0 <=> b[3]
    BY <1>4, <1>5, <1>6 DEF Inv, BlocksAreOwn
  <2>2. \A b \in blocks : b[1] > 0 /\ b[1] = gid => b[2] = u
    BY DEF Inv, Blocks, gid
  <2>3. \A a, b \in blocks : a[1] = b[1] /\ a[1] > 0 => a[2] = b[2]
    BY DEF Inv, BlocksAreOwn
  <2>4. ASSUME NEW a \in blocks', NEW b \in blocks', a[1] = b[1], a[1] > 0 PROVE a[2] = b[2]
    BY <1>4, <1>5, <2>2, <2>3, <2>4
  <2> QED
    BY <2>1, <2>4 DEF BlocksAreOwn
<1>11. Blocks'
  <2>1. \A b \in blocks' : b[1] <= max_gid
    BY <1>4, <1>5, <1>6 DEF Inv, Blocks
  <2>2. ASSUME NEW b \in blocks', NEW f \in Fds, Connected(f), b[1] > 0,
               b[1] = sockets[f].inside_block
        PROVE  b[2] = fd_uid[f]
    <3>1. CASE b \in blocks
      BY <2>2, <3>1 DEF Inv, Blocks
    <3>2. CASE b = b0
      <4>1. f = fd
        BY <1>5, <2>2, <3>2 DEF Inv, Blocks, gid
      <4> QED
        BY <1>5, <3>2, <4>1
    <3> QED
      BY <1>4, <3>1, <3>2
  <2> QED
    BY <2>1, <2>2 DEF Inv, Blocks, Connected
<1> QED
  BY <1>3, <1>4, <1>5, <1>8, <1>9, <1>10, <1>11

\* A line that queues nothing.
LEMMA NotQueued ==
  ASSUME Inv, KeepsMessages, UNCHANGED <<fd_uid, max_gid, reporting, gone>>,
         \A f \in Fds : sockets'[f].inside_block = sockets[f].inside_block
  PROVE  /\ messages' \in Seq(Messages) /\ blocks' \subseteq Nat \X Uids \X BOOLEAN
         /\ BlocksAreOwn' /\ Blocks' /\ Addressed'
<1> USE DEF KeepsMessages
<1>1. BlocksAreOwn' /\ Blocks' /\ Addressed'
  BY DEF Inv, BlocksAreOwn, Blocks, Addressed, Connected
<1> QED
  BY <1>1 DEF Inv, TypeOK

\* The accounts agree when the one that changes agrees.
LEMMA ServedAccounts ==
  ASSUME Inv, NEW fd \in Fds, Connected(fd), UNCHANGED <<fd_uid, max_uid>>,
         \A w \in Uids : w # fd_uid[fd] => view'[w] = view[w],
         \A w \in Uids : w > max_uid => settings'[w].notification = settings[w].notification,
         \A f \in Fds : f # fd => sockets'[f] = sockets[f],
         sockets'[fd].inside_block > 0 <=> view'[fd_uid[fd]].block,
         sockets'[fd].awaiting_data = view'[fd_uid[fd]].data
  PROVE  Accounts'
<1>1. \A f \in Fds : Connected(f) => fd_uid[f] \in Uids
  BY DEF Inv, TypeOK, Connected
<1>2. \A f \in Fds : Connected(f) /\ f # fd => fd_uid[f] # fd_uid[fd]
  BY DEF Inv, Tables
<1>3. ASSUME NEW f \in Fds, Connected(f)
      PROVE  /\ sockets'[f].inside_block > 0 <=> view'[fd_uid[f]].block
             /\ sockets'[f].awaiting_data = view'[fd_uid[f]].data
  <2>1. CASE f = fd
    BY <2>1
  <2>2. CASE f # fd
    BY <1>1, <1>2, <1>3, <2>2 DEF Inv, Accounts
  <2> QED
    BY <2>1, <2>2
<1>4. ASSUME NEW w \in Uids, w > max_uid
      PROVE  ~view'[w].data /\ ~view'[w].block /\ settings'[w].notification = {}
  <2>1. w # fd_uid[fd]
    BY <1>1, <1>4 DEF Inv, TypeOK, Tables, Uids
  <2> QED
    BY <1>4, <2>1 DEF Inv, Accounts
<1> QED
  BY <1>3, <1>4 DEF Accounts, Connected

\* SPEAK: the lines that follow are the text.
LEMMA ParseSpeakInv == ASSUME NEW fd \in Fds PROVE Inv /\ parse_speak(fd) => Inv'
<1> SUFFICES ASSUME Inv, parse_speak(fd) PROVE Inv'
  OBVIOUS
<1> DEFINE u == fd_uid[fd]
           line == <<"speak">>
<1> USE DEF parse_speak, KeepsSettings
<1>1. Serves(fd, line) /\ line \notin Text /\ line[1] # "off"
  BY DEF Text, DataLines
<1>2. u \in Uids /\ Connected(fd) /\ view[u] \in Views
  BY <1>1, ServedLine DEF Inv, TypeOK
<1>3. settings[u].notification \subseteq view[u].wants
  BY <1>1, ServedWants
<1>4. /\ view' \in [Uids -> Views] /\ waiting' \in [Uids -> BOOLEAN]
      /\ inbox' \in [Uids -> Seq(AllLines)]
      /\ view'[u].data = TRUE /\ view'[u].block = view[u].block
      /\ \A w \in Uids : w # u => view'[w] = view[w]
      /\ \A w \in Uids : LinesInOrder(w)' /\ WantsCover(w)'
  <2>1. view[u].block \in BOOLEAN /\ gone' \in [Uids -> BOOLEAN]
    BY <1>2 DEF Views, Inv, TypeOK
  <2> QED
    BY <1>1, <1>3, <2>1, AnsweredLines
<1>5. /\ sockets' \in [Fds -> Sockets] /\ \A f \in Fds : f # fd => sockets'[f] = sockets[f]
      /\ sockets'[fd].inside_block = sockets[fd].inside_block
      /\ sockets'[fd].awaiting_data = TRUE
  BY DEF Inv, TypeOK, Sockets
<1>6. testfds' \subseteq Fds \cup {server_socket} /\ Tables' /\ MaxFdCovers'
  BY <1>1, ServedTables
<1>7. UNCHANGED <<max_uid, heard, reporting, connected, half, lines>>
  BY <1>1 DEF Serves
<1>8. /\ messages' \in Seq(Messages) /\ blocks' \subseteq Nat \X Uids \X BOOLEAN
      /\ BlocksAreOwn' /\ Blocks' /\ Addressed'
  BY <1>5, <1>7, NotQueued
<1>9. Accounts'
  <2>1. sockets'[fd].inside_block > 0 <=> view'[u].block
    BY <1>2, <1>4, <1>5 DEF Inv, Accounts
  <2> QED
    BY <1>2, <1>4, <1>5, <1>7, <2>1, ServedAccounts
<1>10. TypeOK'
  BY <1>4, <1>5, <1>6, <1>7, <1>8 DEF Inv, TypeOK
<1>11. EventsAreAsked'
  BY <1>7 DEF Inv, EventsAreAsked
<1> QED
  BY <1>4, <1>6, <1>8, <1>9, <1>10, <1>11 DEF Inv

\* A line of the text: the server takes it for a line of the text too.
LEMMA ParseDataInv == ASSUME NEW fd \in Fds PROVE Inv /\ parse_data(fd) => Inv'
<1> SUFFICES ASSUME Inv, parse_data(fd) PROVE Inv'
  OBVIOUS
<1> DEFINE u == fd_uid[fd]
<1> USE DEF parse_data, KeepsSettings
<1>1. PICK line \in (DataLines \cup Lines) \ {<<"dot">>} :
         /\ Serves(fd, line)
         /\ sockets' = [sockets EXCEPT ![fd].o_buf =
                          IF line = <<"latin">> \/ @ = "bad" THEN "bad" ELSE "good"]
  OBVIOUS
<1>2. /\ u \in Uids /\ Connected(fd) /\ Len(inbox[u]) \in Nat \ {0} /\ line = inbox[u][1]
      /\ line \in (IF view[u].data THEN DataLines ELSE Lines)
  BY <1>1, ServedLine
<1>3. line \in Text
  <2>1. view[u].data = TRUE
    BY <1>2 DEF CommandMode, Inv, TypeOK, Accounts, Sockets
  <2>2. line \in DataLines
    BY <1>2, <2>1
  <2> QED
    BY <1>1, <2>2, LineFacts
<1>4. /\ inbox' \in [Uids -> Seq(AllLines)] /\ Len(inbox'[u]) = Len(inbox[u]) - 1
      /\ \A w \in Uids : w # u => inbox'[w] = inbox[w]
      /\ \A i \in 1..Len(inbox'[u]) : inbox'[u][i] = inbox[u][i + 1]
  BY <1>1, ServedInbox
<1>5. /\ sockets' \in [Fds -> Sockets] /\ \A f \in Fds : f # fd => sockets'[f] = sockets[f]
      /\ sockets'[fd].inside_block = sockets[fd].inside_block
      /\ sockets'[fd].awaiting_data = sockets[fd].awaiting_data
  <2>1. sockets \in [Fds -> Sockets] /\ sockets[fd] \in Sockets
    BY DEF Inv, TypeOK
  <2> QED
    BY <1>1, <2>1 DEF Sockets
<1>6. testfds' \subseteq Fds \cup {server_socket} /\ Tables' /\ MaxFdCovers'
  BY <1>1, ServedTables
<1>7. UNCHANGED <<max_uid, heard, reporting, connected, half, lines>>
  BY <1>1 DEF Serves
<1>8. /\ messages' \in Seq(Messages) /\ blocks' \subseteq Nat \X Uids \X BOOLEAN
      /\ BlocksAreOwn' /\ Blocks' /\ Addressed'
  BY <1>5, <1>7, NotQueued
<1>9. Accounts'
  <2>1. sockets'[fd].inside_block > 0 <=> view'[u].block
    BY <1>2, <1>5 DEF Inv, Accounts
  <2>2. sockets'[fd].awaiting_data = view'[u].data
    BY <1>2, <1>5 DEF Inv, Accounts
  <2> QED
    BY <1>2, <1>5, <1>7, <2>1, <2>2, ServedAccounts
<1>10. TypeOK'
  BY <1>4, <1>5, <1>6, <1>7, <1>8 DEF Inv, TypeOK
<1>11. EventsAreAsked'
  BY <1>7 DEF Inv, EventsAreAsked
<1>12. ASSUME NEW w \in Uids, w # u PROVE LinesInOrder(w)' /\ WantsCover(w)'
  BY <1>4, <1>7, <1>12, SameLines
<1>13. ASSUME NEW w \in Uids, w = u PROVE LinesInOrder(w)' /\ WantsCover(w)'
  <2>1. LinesInOrder(w) /\ WantsCover(w)
    BY DEF Inv
  <2>2. /\ Len(inbox[w]) \in Nat \ {0} /\ Len(inbox'[w]) = Len(inbox[w]) - 1
        /\ \A i \in 1..Len(inbox'[w]) :
             i + 1 \in 1..Len(inbox[w]) /\ inbox'[w][i] = inbox[w][i + 1]
    BY <1>2, <1>4, <1>13
  <2>3. LinesInOrder(w)'
    <3>1. ASSUME NEW i \in 1..Len(inbox'[w])
          PROVE  /\ inbox'[w][i] \in (IF view[w].data THEN DataLines ELSE Lines)
                 /\ i < Len(inbox'[w]) => inbox'[w][i] \in Text
                 /\ i = Len(inbox'[w]) /\ inbox'[w][i] \notin Text => waiting[w] \/ gone[w]
      <4>1. /\ i + 1 \in 1..Len(inbox[w]) /\ inbox'[w][i] = inbox[w][i + 1]
            /\ i < Len(inbox'[w]) => i + 1 < Len(inbox[w])
            /\ i = Len(inbox'[w]) => i + 1 = Len(inbox[w])
        BY <2>2
      <4> QED
        BY <2>1, <4>1 DEF LinesInOrder
    <3> QED
      BY <1>7, <2>1, <3>1 DEF LinesInOrder
  <2>4. Pending(w, "off") => Pending(w, "off")'
    <3> SUFFICES ASSUME NEW i \in 1..Len(inbox[w]), inbox[w][i][1] = "off"
                 PROVE  \E j \in 1..Len(inbox'[w]) : inbox'[w][j][1] = "off"
      BY DEF Pending
    <3>1. i # 1
      BY <1>2, <1>3, <1>13, LineFacts
    <3>2. i - 1 \in 1..Len(inbox'[w]) /\ inbox'[w][i - 1] = inbox[w][i]
      BY <2>2, <3>1
    <3> QED
      BY <3>2
  <2>5. \A i \in 1..Len(inbox'[w]) :
          inbox'[w][i][1] = "on" => inbox'[w][i][2] \in view[w].wants
    BY <2>1, <2>2 DEF WantsCover
  <2> QED
    BY <2>1, <2>3, <2>4, <2>5 DEF WantsCover
<1> QED
  BY <1>6, <1>8, <1>9, <1>10, <1>11, <1>12, <1>13 DEF Inv

\* The end of a text: a message is queued if there is a text.
LEMMA ParseEndOfDataInv == ASSUME NEW fd \in Fds PROVE Inv /\ parse_end_of_data(fd) => Inv'
<1> SUFFICES ASSUME Inv, parse_end_of_data(fd) PROVE Inv'
  OBVIOUS
<1> DEFINE u == fd_uid[fd]
           line == <<"dot">>
<1> USE DEF parse_end_of_data, KeepsSettings
<1>1. Serves(fd, line) /\ line \notin Text /\ line[1] # "off"
  BY DEF Text
<1>2. u \in Uids /\ Connected(fd) /\ view[u] \in Views
  BY <1>1, ServedLine DEF Inv, TypeOK
<1>3. settings[u].notification \subseteq view[u].wants
  BY <1>1, ServedWants
<1>4. /\ view' \in [Uids -> Views] /\ waiting' \in [Uids -> BOOLEAN]
      /\ inbox' \in [Uids -> Seq(AllLines)]
      /\ view'[u].data = FALSE /\ view'[u].block = view[u].block
      /\ \A w \in Uids : w # u => view'[w] = view[w]
      /\ \A w \in Uids : LinesInOrder(w)' /\ WantsCover(w)'
  <2>1. view[u].block \in BOOLEAN /\ gone' \in [Uids -> BOOLEAN]
    BY <1>2 DEF Views, Inv, TypeOK
  <2> QED
    BY <1>1, <1>3, <2>1, AnsweredLines
<1>5. /\ sockets' \in [Fds -> Sockets] /\ \A f \in Fds : f # fd => sockets'[f] = sockets[f]
      /\ sockets'[fd].inside_block = sockets[fd].inside_block
      /\ sockets'[fd].awaiting_data = FALSE
  BY DEF Inv, TypeOK, Sockets
<1>6. testfds' \subseteq Fds \cup {server_socket} /\ Tables' /\ MaxFdCovers'
  BY <1>1, ServedTables
<1>7. UNCHANGED <<max_uid, heard, reporting, connected, half, lines>>
  BY <1>1 DEF Serves
<1>8. /\ messages' \in Seq(Messages) /\ blocks' \subseteq Nat \X Uids \X BOOLEAN
      /\ BlocksAreOwn' /\ Blocks' /\ Addressed'
  <2>1. CASE queue_message(fd)
    BY <1>2, <1>3, <1>5, <1>7, <2>1, Queued
  <2>2. CASE KeepsMessages
    BY <1>5, <1>7, <2>2, NotQueued
  <2> QED
    BY <2>1, <2>2
<1>9. Accounts'
  <2>1. sockets'[fd].inside_block > 0 <=> view'[u].block
    BY <1>2, <1>4, <1>5 DEF Inv, Accounts
  <2> QED
    BY <1>2, <1>4, <1>5, <1>7, <2>1, ServedAccounts
<1>10. TypeOK'
  BY <1>4, <1>5, <1>6, <1>7, <1>8 DEF Inv, TypeOK
<1>11. EventsAreAsked'
  BY <1>7 DEF Inv, EventsAreAsked
<1> QED
  BY <1>4, <1>6, <1>8, <1>9, <1>10, <1>11 DEF Inv

\* A command that changes no table and no socket.
LEMMA PlainCommand ==
  ASSUME Inv, NEW fd \in Fds, NEW line, Serves(fd, line), line \notin Text, SameView(fd),
         UNCHANGED <<max_gid, sockets, gone, max_fd, fd_uid>>,
         \/ KeepsMessages
         \/ queue_message(fd) /\ settings[fd_uid[fd]].notification \subseteq view[fd_uid[fd]].wants,
         settings' \in [Uids -> Settings],
         \A w \in Uids : w # fd_uid[fd] => settings'[w].notification = settings[w].notification,
         settings'[fd_uid[fd]].notification \subseteq view[fd_uid[fd]].wants
  PROVE  Inv'
<1> DEFINE u == fd_uid[fd]
<1>1. u \in Uids /\ u <= max_uid /\ max_uid \in Nat /\ Connected(fd) /\ view[u] \in Views
  BY ServedLine DEF Inv, TypeOK
<1>2. /\ view' \in [Uids -> Views] /\ waiting' \in [Uids -> BOOLEAN]
      /\ inbox' \in [Uids -> Seq(AllLines)]
      /\ view'[u].data = view[u].data /\ view'[u].block = view[u].block
      /\ \A w \in Uids : w # u => view'[w] = view[w]
      /\ \A w \in Uids : LinesInOrder(w)' /\ WantsCover(w)'
  <2>1. view[u].data \in BOOLEAN /\ view[u].block \in BOOLEAN /\ gone' \in [Uids -> BOOLEAN]
    BY <1>1 DEF Views, Inv, TypeOK
  <2> QED
    BY <2>1, AnsweredLines DEF SameView
<1>3. testfds' \subseteq Fds \cup {server_socket} /\ Tables' /\ MaxFdCovers'
  BY ServedTables
<1>4. UNCHANGED <<max_uid, heard, reporting, connected, half, lines>>
  BY DEF Serves
<1>5. /\ messages' \in Seq(Messages) /\ blocks' \subseteq Nat \X Uids \X BOOLEAN
      /\ BlocksAreOwn' /\ Blocks' /\ Addressed'
  BY <1>1, <1>4, Queued, NotQueued
<1>6. Accounts'
  <2>1. /\ sockets'[fd].inside_block > 0 <=> view'[u].block
        /\ sockets'[fd].awaiting_data = view'[u].data
    BY <1>1, <1>2 DEF Inv, Accounts
  <2>2. \A w \in Uids : w > max_uid => w # u
    BY <1>1 DEF Uids
  <2> QED
    BY <1>1, <1>2, <1>4, <2>1, <2>2, ServedAccounts
<1>7. TypeOK'
  BY <1>2, <1>3, <1>4, <1>5 DEF Inv, TypeOK
<1>8. EventsAreAsked'
  BY <1>4 DEF Inv, EventsAreAsked
<1> QED
  BY <1>2, <1>3, <1>5, <1>6, <1>7, <1>8 DEF Inv

LEMMA ParseGeneralEventInv ==
  ASSUME NEW fd \in Fds PROVE Inv /\ parse_general_event(fd) => Inv'
<1> SUFFICES ASSUME Inv, parse_general_event(fd) PROVE Inv'
  OBVIOUS
<1>1. /\ Serves(fd, <<"char">>) /\ <<"char">> \notin Text /\ <<"char">>[1] # "off"
      /\ SameView(fd) /\ queue_message(fd) /\ settings' = settings
      /\ UNCHANGED <<max_gid, sockets, gone, max_fd, fd_uid>>
  BY DEF parse_general_event, KeepsSettings, Text, DataLines
<1>2. settings[fd_uid[fd]].notification \subseteq view[fd_uid[fd]].wants
  BY <1>1, ServedWants
<1>3. settings' \in [Uids -> Settings]
  BY <1>1 DEF Inv, TypeOK
<1> QED
  BY <1>1, <1>2, <1>3, PlainCommand

LEMMA ParseControlInv == ASSUME NEW fd \in Fds PROVE Inv /\ parse_control(fd) => Inv'
<1> SUFFICES ASSUME Inv, parse_control(fd) PROVE Inv'
  OBVIOUS
<1>1. /\ Serves(fd, <<"control">>) /\ <<"control">> \notin Text /\ <<"control">>[1] # "off"
      /\ SameView(fd) /\ KeepsMessages /\ settings' = settings
      /\ UNCHANGED <<max_gid, sockets, gone, max_fd, fd_uid>>
  BY DEF parse_control, KeepsSettings, Text, DataLines
<1>2. settings[fd_uid[fd]].notification \subseteq view[fd_uid[fd]].wants
  BY <1>1, ServedWants
<1>3. settings' \in [Uids -> Settings]
  BY <1>1 DEF Inv, TypeOK
<1> QED
  BY <1>1, <1>2, <1>3, PlainCommand

\* SET all RATE changes no notification.
LEMMA SetRateAllInv == ASSUME NEW fd \in Fds PROVE Inv /\ set_rate_all(fd) => Inv'
<1> SUFFICES ASSUME Inv, set_rate_all(fd) PROVE Inv'
  OBVIOUS
<1>1. /\ Serves(fd, <<"all_fast">>) /\ <<"all_fast">> \notin Text /\ <<"all_fast">>[1] # "off"
      /\ SameView(fd) /\ KeepsMessages
      /\ UNCHANGED <<max_gid, sockets, gone, max_fd, fd_uid>>
  BY DEF set_rate_all, Text, DataLines
<1>2. /\ settings' \in [Uids -> Settings]
      /\ \A w \in Uids : settings'[w].notification = settings[w].notification
  <2>1. \A w \in Uids : settings[w] \in Settings
    BY DEF Inv, TypeOK
  <2>2. settings' = [w \in Uids |->
          IF \E i \in Fds : i <= max_fd /\ fd_uid[i] = w
          THEN [settings[w] EXCEPT !.rate = "fast"] ELSE settings[w]]
    BY DEF set_rate_all
  <2> QED
    BY <2>1, <2>2 DEF Settings
<1>3. settings[fd_uid[fd]].notification \subseteq view[fd_uid[fd]].wants
  BY <1>1, ServedWants
<1>4. fd_uid[fd] \in Uids
  BY <1>1, ServedLine
<1> QED
  BY <1>1, <1>2, <1>3, <1>4, PlainCommand

\* SET self NOTIFICATION t on, or off, which switches every type off.
LEMMA SetNotificationSelfInv ==
  ASSUME NEW fd \in Fds PROVE Inv /\ set_notification_self(fd) => Inv'
<1> SUFFICES ASSUME Inv, set_notification_self(fd) PROVE Inv'
  OBVIOUS
<1> DEFINE u == fd_uid[fd]
<1>1. /\ SameView(fd) /\ KeepsMessages
      /\ UNCHANGED <<max_gid, sockets, gone, max_fd, fd_uid>>
  BY DEF set_notification_self
<1>2. settings \in [Uids -> Settings] /\ \A w \in Uids : settings[w] \in Settings
  BY DEF Inv, TypeOK
<1>3. PICK t \in Types :
       \/ /\ Serves(fd, <<"on", t>>)
          /\ settings' = [settings EXCEPT ![u].notification = @ \cup {t}]
       \/ /\ Serves(fd, <<"off", t>>)
          /\ settings' = [settings EXCEPT ![u].notification = {}]
  BY DEF set_notification_self
<1>4. CASE /\ Serves(fd, <<"on", t>>)
           /\ settings' = [settings EXCEPT ![u].notification = @ \cup {t}]
  <2>1. <<"on", t>> \notin Text /\ <<"on", t>>[1] = "on" /\ <<"on", t>>[2] = t
    BY DEF Text, DataLines
  <2>2. settings[u].notification \subseteq view[u].wants /\ t \in view[u].wants /\ u \in Uids
    BY <1>4, <2>1, ServedWants, ServedLine
  <2>3. /\ settings' \in [Uids -> Settings]
        /\ settings'[u].notification = settings[u].notification \cup {t}
        /\ \A w \in Uids : w # u => settings'[w] = settings[w]
    BY <1>2, <1>4, <2>2 DEF Settings
  <2> QED
    BY <1>1, <1>4, <2>1, <2>2, <2>3, PlainCommand
<1>5. CASE /\ Serves(fd, <<"off", t>>)
           /\ settings' = [settings EXCEPT ![u].notification = {}]
  <2>1. <<"off", t>> \notin Text
    BY DEF Text, DataLines
  <2>2. u \in Uids
    BY <1>5, ServedLine
  <2>3. /\ settings' \in [Uids -> Settings] /\ settings'[u].notification = {}
        /\ \A w \in Uids : w # u => settings'[w] = settings[w]
    BY <1>2, <1>5, <2>2 DEF Settings
  <2> QED
    BY <1>1, <1>5, <2>1, <2>2, <2>3, PlainCommand
<1> QED
  BY <1>3, <1>4, <1>5

\* BLOCK BEGIN gives the connection a number that nobody has, BLOCK END takes
\* it away; out of place they change nothing.
LEMMA ParseBlockInv == ASSUME NEW fd \in Fds PROVE Inv /\ parse_block(fd) => Inv'
<1> SUFFICES ASSUME Inv, parse_block(fd) PROVE Inv'
  OBVIOUS
<1> DEFINE u == fd_uid[fd]
<1>1. KeepsMessages /\ UNCHANGED <<max_fd, fd_uid, settings, gone>> /\ CommandMode(fd)
  BY DEF parse_block, KeepsSettings
<1>2. <<"begin">> \notin Text /\ <<"begin">>[1] # "off" /\ <<"end">> \notin Text /\ <<"end">>[1] # "off"
  BY DEF Text, DataLines
<1>3. CASE /\ \/ Serves(fd, <<"begin">>)
              \/ Serves(fd, <<"end">>)
           /\ SameView(fd) /\ UNCHANGED <<max_gid, sockets>>
  <2>1. settings[u].notification \subseteq view[u].wants
    BY <1>2, <1>3, ServedWants
  <2>2. settings' \in [Uids -> Settings]
    BY <1>1 DEF Inv, TypeOK
  <2> QED
    BY <1>1, <1>2, <1>3, <2>1, <2>2, PlainCommand
<1>4. ASSUME NEW line, Serves(fd, line), line \notin Text, line[1] # "off",
             NEW gid \in Nat, NEW block \in BOOLEAN, block <=> gid > 0,
             sockets' = [sockets EXCEPT ![fd].inside_block = gid],
             Answers(fd, FALSE, block),
             \/ gid = 0 /\ max_gid' = max_gid
             \/ gid = max_gid + 1 /\ max_gid' = max_gid + 1
      PROVE  Inv'
  <2>1. u \in Uids /\ Connected(fd)
    BY <1>4, ServedLine
  <2>2. settings[u].notification \subseteq view[u].wants
    BY <1>4, ServedWants
  <2>3. /\ view' \in [Uids -> Views] /\ waiting' \in [Uids -> BOOLEAN]
        /\ inbox' \in [Uids -> Seq(AllLines)]
        /\ view'[u].data = FALSE /\ view'[u].block = block
        /\ \A w \in Uids : w # u => view'[w] = view[w]
        /\ \A w \in Uids : LinesInOrder(w)' /\ WantsCover(w)'
    <3>1. gone' \in [Uids -> BOOLEAN]
      BY <1>1 DEF Inv, TypeOK
    <3> QED
      BY <1>1, <1>4, <2>2, <3>1, AnsweredLines
  <2>4. /\ sockets' \in [Fds -> Sockets] /\ \A f \in Fds : f # fd => sockets'[f] = sockets[f]
        /\ sockets'[fd].inside_block = gid
        /\ sockets'[fd].awaiting_data = FALSE
    <3>1. sockets \in [Fds -> Sockets] /\ sockets[fd] \in Sockets
      BY DEF Inv, TypeOK
    <3>2. sockets'[fd] = [sockets[fd] EXCEPT !.inside_block = gid]
      BY <1>4, <3>1
    <3>3. sockets[fd].awaiting_data = FALSE
      BY <1>1, <3>1 DEF CommandMode, Sockets
    <3> QED
      BY <1>4, <3>1, <3>2, <3>3 DEF Sockets
  <2>5. testfds' \subseteq Fds \cup {server_socket} /\ Tables' /\ MaxFdCovers'
    BY <1>1, <1>4, ServedTables
  <2>6. UNCHANGED <<max_uid, heard, reporting, connected, half, lines, messages, blocks>>
    BY <1>1, <1>4 DEF Serves, KeepsMessages
  <2>7. Accounts'
    BY <1>1, <1>4, <2>1, <2>3, <2>4, <2>6, ServedAccounts
  <2>8. /\ max_gid \in Nat /\ max_gid' \in Nat /\ max_gid <= max_gid' /\ gid <= max_gid'
        /\ \A f \in Fds : sockets[f].inside_block \in Nat
        /\ gid > 0 => gid > max_gid
    BY <1>4 DEF Inv, TypeOK, Sockets
  <2>9. Blocks'
    <3>1. \A f \in Fds : Connected(f) => sockets'[f].inside_block <= max_gid'
      <4>1. ASSUME NEW f \in Fds, Connected(f) PROVE sockets'[f].inside_block <= max_gid'
        <5>1. sockets[f].inside_block <= max_gid
          BY <4>1 DEF Inv, Blocks
        <5>2. CASE f = fd
          BY <2>4, <2>8, <5>2
        <5>3. CASE f # fd
          BY <2>4, <2>8, <5>1, <5>3
        <5> QED
          BY <5>2, <5>3
      <4> QED
        BY <4>1
    <3>2. \A b \in blocks : b[1] \in Nat /\ b[1] <= max_gid
      BY DEF Inv, TypeOK, Blocks
    <3>3. ASSUME NEW a \in Fds, NEW b \in Fds, Connected(a), Connected(b),
                 sockets'[a].inside_block > 0,
                 sockets'[a].inside_block = sockets'[b].inside_block
          PROVE  a = b
      <4>1. \A f \in Fds : Connected(f) => sockets[f].inside_block <= max_gid
        BY DEF Inv, Blocks
      <4>2. CASE a = fd
        BY <2>4, <2>8, <3>3, <4>1, <4>2
      <4>3. CASE b = fd
        BY <2>4, <2>8, <3>3, <4>1, <4>3
      <4>4. CASE a # fd /\ b # fd
        BY <2>4, <3>3, <4>4 DEF Inv, Blocks
      <4> QED
        BY <4>2, <4>3, <4>4
    <3>4. ASSUME NEW b \in blocks, NEW f \in Fds, Connected(f), b[1] > 0,
                 b[1] = sockets'[f].inside_block
          PROVE  b[2] = fd_uid[f]
      <4>1. f # fd
        BY <2>4, <2>8, <3>2, <3>4
      <4> QED
        BY <2>4, <3>4, <4>1 DEF Inv, Blocks
    <3>5. \A b \in blocks : b[1] <= max_gid'
      BY <2>8, <3>2
    <3> QED
      BY <1>1, <2>6, <3>1, <3>3, <3>4, <3>5 DEF Blocks, Connected
  <2>10. Addressed' /\ BlocksAreOwn' /\ EventsAreAsked'
    BY <1>1, <2>6 DEF Inv, Addressed, BlocksAreOwn, EventsAreAsked
  <2>11. TypeOK'
    BY <1>1, <2>3, <2>4, <2>5, <2>6, <2>8 DEF Inv, TypeOK
  <2> QED
    BY <2>3, <2>5, <2>7, <2>9, <2>10, <2>11 DEF Inv
<1>5. max_gid \in Nat
  BY DEF Inv, TypeOK
<1>6. CASE /\ Serves(fd, <<"begin">>) /\ sockets[fd].inside_block = 0
           /\ max_gid' = max_gid + 1
           /\ sockets' = [sockets EXCEPT ![fd].inside_block = max_gid + 1]
           /\ Answers(fd, FALSE, TRUE)
  <2>1. max_gid + 1 \in Nat /\ (TRUE <=> max_gid + 1 > 0)
    BY <1>5
  <2> QED
    BY <1>2, <1>4, <1>6, <2>1
<1>7. CASE /\ Serves(fd, <<"end">>) /\ sockets[fd].inside_block > 0
           /\ sockets' = [sockets EXCEPT ![fd].inside_block = 0]
           /\ Answers(fd, FALSE, FALSE) /\ UNCHANGED max_gid
  <2>1. 0 \in Nat /\ (FALSE <=> 0 > 0)
    OBVIOUS
  <2> QED
    BY <1>2, <1>4, <1>7, <2>1
<1> QED
  BY <1>3, <1>6, <1>7 DEF parse_block

\* QUIT: the client is gone when its connection is destroyed.
LEMMA ParseQuitInv == ASSUME NEW fd \in Fds PROVE Inv /\ parse_quit(fd) => Inv'
<1> SUFFICES ASSUME Inv, parse_quit(fd) PROVE Inv'
  OBVIOUS
<1> DEFINE u == fd_uid[fd]
           line == <<"quit">>
<1>1. /\ Serves(fd, line) /\ line \notin Text /\ line[1] # "off"
      /\ gone' = [gone EXCEPT ![u] = TRUE] /\ connection_destroy(fd) /\ SameView(fd)
      /\ UNCHANGED <<messages, blocks, max_gid, sockets>>
  BY DEF parse_quit, KeepsMessages, Text, DataLines
<1>2. u \in Uids /\ view[u] \in Views
  BY <1>1, ServedLine DEF Inv, TypeOK
<1>3. fd \in testfds \ {server_socket} /\ testfds' = testfds \ {fd}
  BY <1>1 DEF Serves, Visits
<1>4. UNCHANGED <<max_uid, heard, reporting, connected, half, lines>>
  BY <1>1 DEF Serves
<1>5. gone' \in [Uids -> BOOLEAN] /\ gone'[u] /\ \A w \in Uids : gone[w] => gone'[w]
  BY <1>1, <1>2 DEF Inv, TypeOK
<1>5a. \A w \in Uids : w # u => gone'[w] = gone[w]
  BY <1>1 DEF Inv, TypeOK
<1>6. \A w \in Uids : view'[w].data = view[w].data /\ view'[w].block = view[w].block
  <2>1. view \in [Uids -> Views]
    BY DEF Inv, TypeOK
  <2>2. view' = [view EXCEPT ![u].data = view[u].data, ![u].block = view[u].block]
    BY <1>1 DEF SameView, Answers
  <2> QED
    BY <1>2, <2>1, <2>2 DEF Views
<1>7. /\ fd_uid' \in [Fds -> {0} \cup Uids] /\ settings' \in [Uids -> Settings]
      /\ max_fd' \in Int /\ testfds' \subseteq Fds \cup {server_socket}
      /\ \A w \in Uids : settings'[w].notification = settings[w].notification
      /\ MaxFdCovers' /\ Tables' /\ Accounts' /\ BlocksAreOwn' /\ Blocks'
      /\ Addressed' /\ EventsAreAsked'
  BY <1>1, <1>3, <1>4, <1>5, <1>6, Destroyed
<1>8. settings[u].notification \subseteq view[u].wants
  BY <1>1, ServedWants
<1>9. /\ view' \in [Uids -> Views] /\ waiting' \in [Uids -> BOOLEAN]
      /\ inbox' \in [Uids -> Seq(AllLines)]
      /\ \A w \in Uids : LinesInOrder(w)' /\ WantsCover(w)'
  <2>1. view[u].data \in BOOLEAN /\ view[u].block \in BOOLEAN
    BY <1>2 DEF Views
  <2>2. settings'[u].notification \subseteq view[u].wants
    BY <1>2, <1>7, <1>8
  <2>3. Answers(fd, view[u].data, view[u].block)
    BY <1>1 DEF SameView
  <2>4. \A w \in Uids : w # u =>
          gone'[w] = gone[w] /\ settings'[w].notification = settings[w].notification
    BY <1>7, <1>5a
  <2>5. gone' \in [Uids -> BOOLEAN] /\ Serves(fd, line) /\ line \notin Text
    BY <1>1, <1>5
  <2> HIDE DEF line
  <2> QED
    BY <2>5, <2>1, <2>2, <2>3, <2>4, AnsweredLines
<1>10. TypeOK'
  BY <1>1, <1>4, <1>5, <1>7, <1>9 DEF Inv, TypeOK
<1> QED
  BY <1>7, <1>9, <1>10 DEF Inv

LEMMA ServeInv == ASSUME NEW fd \in Fds PROVE Inv /\ serve(fd) => Inv'
<1> QED
  BY ParseSpeakInv, ParseDataInv, ParseEndOfDataInv, ParseGeneralEventInv, ParseBlockInv,
     ParseControlInv, SetRateAllInv, SetNotificationSelfInv, ParseQuitInv DEF serve

-----------------------------------------------------------------------------
(***************************************************************************)
(* The speaking thread.                                                    *)
(***************************************************************************)

LEMMA TakesMessageInv == Inv /\ TakesMessage => Inv'
<1> SUFFICES ASSUME Inv, TakesMessage PROVE Inv'
  OBVIOUS
<1> USE DEF TakesMessage, server, clients, ghosts
<1>1. TypeOK'
  BY DEF Inv, TypeOK
<1>2. MaxFdCovers' /\ BlocksAreOwn' /\ EventsAreAsked'
  BY DEF Inv, MaxFdCovers, BlocksAreOwn, EventsAreAsked
<1>3. Tables' /\ Accounts' /\ Blocks'
  BY DEF Inv, Tables, Accounts, Blocks, Connected
<1>4. Addressed'
  BY DEF Inv, Addressed
<1>5. \A u \in Uids : LinesInOrder(u)' /\ WantsCover(u)'
  BY SameLines
<1> QED
  BY <1>1, <1>2, <1>3, <1>4, <1>5 DEF Inv

\* The event goes to whoever holds the descriptor now.
LEMMA ReportStateInv == Inv /\ report_state => Inv'
<1> SUFFICES ASSUME Inv, report_state PROVE Inv'
  OBVIOUS
<1> DEFINE m == Head(messages)
           event == Head(reporting)
           e0 == [to |-> fd_uid[m.fd], from |-> m.uid, asked |-> event \in m.wants]
<1> USE DEF report_state, server, clients
<1>1. /\ messages \in Seq(Messages) /\ messages # <<>> /\ Len(messages) \in Nat \ {0}
      /\ m = messages[1] /\ 1 \in 1..Len(messages) /\ m \in Messages
  <2>1. messages \in Seq(Messages) /\ messages # <<>>
    BY DEF Inv, TypeOK, Addressed
  <2> QED
    BY <2>1
<1>2. reporting \in Seq({"begin", "end"}) /\ reporting # <<>>
  BY DEF Inv, TypeOK
<1>3. heard' = IF event \in m.notification /\ fd_uid[m.fd] # 0
               THEN heard \cup {e0} ELSE heard
  OBVIOUS
<1>4. m.fd \in Fds /\ m.uid \in Uids /\ m.notification \subseteq m.wants
      /\ (fd_uid[m.fd] = m.uid \/ gone[m.uid])
  BY <1>1 DEF Inv, Addressed, Messages
<1>5. heard' \subseteq [to : Uids, from : Uids, asked : BOOLEAN] /\ EventsAreAsked'
  <2>1. fd_uid[m.fd] \in {0} \cup Uids
    BY <1>4 DEF Inv, TypeOK
  <2> HIDE DEF m, event
  <2>2. fd_uid[m.fd] # 0 => e0 \in [to : Uids, from : Uids, asked : BOOLEAN]
    BY <1>4, <2>1
  <2>3. event \in m.notification => e0.asked /\ (e0.to = e0.from \/ gone[e0.from])
    BY <1>4
  <2>4. heard \subseteq [to : Uids, from : Uids, asked : BOOLEAN] /\ EventsAreAsked
    BY DEF Inv, TypeOK
  <2> HIDE DEF e0
  <2> QED
    BY <1>3, <2>2, <2>3, <2>4 DEF EventsAreAsked
<1>6. reporting' \in Seq({"begin", "end"}) /\ (Len(reporting) = 1 => reporting' = <<>>)
  BY <1>2
<1>7. /\ messages' \in Seq(Messages)
      /\ reporting' # <<>> => messages' # <<>>
      /\ \A i \in 1..Len(messages') : \E j \in 1..Len(messages) : messages'[i] = messages[j]
  <2>1. CASE Len(reporting) = 1
    <3>1. messages' = Tail(messages)
      BY <2>1
    <3>2. /\ Tail(messages) \in Seq(Messages) /\ Len(Tail(messages)) = Len(messages) - 1
          /\ \A i \in 1..Len(Tail(messages)) :
               i + 1 \in 1..Len(messages) /\ Tail(messages)[i] = messages[i + 1]
      BY <1>1
    <3> QED
      BY <1>6, <2>1, <3>1, <3>2
  <2>2. CASE Len(reporting) # 1
    BY <1>1, <2>2
  <2> QED
    BY <2>1, <2>2
<1>8. Addressed'
  BY <1>7 DEF Inv, Addressed
<1>9. TypeOK'
  BY <1>5, <1>6, <1>7 DEF Inv, TypeOK
<1>10. MaxFdCovers' /\ BlocksAreOwn'
  BY DEF Inv, MaxFdCovers, BlocksAreOwn
<1>11. Tables' /\ Accounts' /\ Blocks'
  BY DEF Inv, Tables, Accounts, Blocks, Connected
<1>12. \A u \in Uids : LinesInOrder(u)' /\ WantsCover(u)'
  BY SameLines
<1> QED
  BY <1>5, <1>8, <1>9, <1>10, <1>11, <1>12 DEF Inv

-----------------------------------------------------------------------------
(***************************************************************************)
(* The theorems.                                                           *)
(***************************************************************************)

LEMMA StepInv == Inv /\ [Next]_vars => Inv'
<1> SUFFICES ASSUME Inv, [Next]_vars PROVE Inv'
  OBVIOUS
<1>1. CASE Next
  <2>1. CASE Server
    BY <2>1, SelectInv, ConnectionNewInv, ClientHasGoneInv, EndOfFileInv, ServeInv DEF Server
  <2>2. CASE Speaker
    BY <2>2, TakesMessageInv, ReportStateInv DEF Speaker
  <2>3. CASE Connects
    BY <2>3, ConnectsInv
  <2>4. ASSUME NEW u \in Uids,
               \/ BeginsLine(u) \/ Closes(u)
               \/ \E line \in Lines \cup DataLines : EndsLine(u, line)
        PROVE  Inv'
    BY <2>4, BeginsLineInv, ClosesInv, EndsLineInv DEF AllLines
  <2> QED
    BY <1>1, <2>1, <2>2, <2>3, <2>4 DEF Next
<1>2. CASE UNCHANGED vars
  <2> USE <1>2 DEF vars, server, speaker, clients, ghosts
  <2>1. TypeOK'
    BY DEF Inv, TypeOK
  <2>2. MaxFdCovers' /\ BlocksAreOwn' /\ EventsAreAsked'
    BY DEF Inv, MaxFdCovers, BlocksAreOwn, EventsAreAsked
  <2>3. Tables' /\ Accounts' /\ Blocks' /\ Addressed'
    BY DEF Inv, Tables, Accounts, Blocks, Addressed, Connected
  <2>4. \A u \in Uids : LinesInOrder(u)' /\ WantsCover(u)'
    BY SameLines
  <2> QED
    BY <2>1, <2>2, <2>3, <2>4 DEF Inv
<1> QED
  BY <1>1, <1>2

\* The inductive invariant holds in every reachable state.
THEOREM SessionsInvariant == Spec => []Inv
<1> QED
  BY InitInv, StepInv, PTL DEF Spec

\* The main loop, which looks at the descriptors up to status.max_fd, finds
\* every connection, although max_fd only goes down by one when the last one
\* of the descriptors is closed.
THEOREM EveryConnectionIsServed == Spec => []MaxFdCovers
<1>1. Inv => MaxFdCovers
  BY DEF Inv
<1> QED
  BY <1>1, SessionsInvariant, PTL

\* Whatever the clients send and wherever they close their connections, a
\* message is put into a block exactly if its client believes to be in one,
\* and no two clients share a block, also when they use one descriptor.
THEOREM BlocksOfOneClient == Spec => []BlocksAreOwn
<1>1. Inv => BlocksAreOwn
  BY DEF Inv
<1> QED
  BY <1>1, SessionsInvariant, PTL

\* The speaking thread writes an event to a descriptor long after the message
\* came from it: the event was asked for, and it reaches another client only
\* if the sender has left.
THEOREM EventsGoToTheSender == Spec => []EventsAreAsked
<1>1. Inv => EventsAreAsked
  BY DEF Inv
<1> QED
  BY <1>1, SessionsInvariant, PTL
=============================================================================
