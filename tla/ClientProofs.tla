---------------------------- MODULE ClientProofs ----------------------------
(***************************************************************************)
(* Every call of the C client library gets its own reply and its message   *)
(* the priority it asked for, for any number of threads of the program, of *)
(* calls and of events, in both modes, whenever the server refuses a       *)
(* request or closes the connection: provided the program keeps other      *)
(* calls away from those that read a list.                                 *)
(***************************************************************************)
EXTENDS Client, SequenceTheorems, TLAPS

-----------------------------------------------------------------------------
(* The inductive invariant.                                                *)

Message == [by : Callers, want : Levels, level : Levels]

Speak    == <<"speak", "data", "dot">>
Data     == <<"data", "dot">>
Dot      == <<"dot">>

\* what a call that set the priority of its message has left to send
SayRest == {Speak, Data, Dot}
Alone   == {Programs.open, spd_list}            \* calls without ssip_mutex
Plans   == {spd_say, spd_char, spd_command, spd_set, spd_set_notification,
            <<"notify">>} \cup SayRest \cup Alone

Places == {"out", "lock", "check", "send", "wait", "read", "ack", "reply",
           "next", "leave", "join"}

TypeOK ==
  /\ mode \in {"single", "threaded"} /\ stream \in {"none", "open", "null"}
  /\ reply \in Reply \cup {NULL} /\ ssip_mutex \in Callers \cup {NULL}
  /\ ready_waiters \in SUBSET Callers /\ ack_waiting \in BOOLEAN
  /\ pc \in [Callers -> Places]
  /\ todo \in [Callers -> Plans \cup {<<>>}]
  /\ want \in [Callers -> Levels] /\ buffer \in Levels
  /\ got \in [Callers -> Reply \cup {NULL}]
  /\ rpc \in {"none", "get", "event", "hand", "wait", "broken", "signal", "gone"}
  /\ item \in Reply \cup {NULL}
  /\ alive \in BOOLEAN
  /\ requests \in Seq(Request) /\ replies \in Seq(Reply)
  /\ level \in Levels /\ queued \in Seq(Message)

\* One call at a time is between its first and its last request.
Inside(c) == pc[c] \notin {"out", "lock"}

Calls ==
  /\ \A c \in Callers : todo[c] = <<>> <=> pc[c] \in {"out", "join"}
  /\ \A c \in Callers : pc[c] = "lock" => todo[c] \notin Alone \cup SayRest
  /\ \A c \in Callers : pc[c] \in {"wait", "reply", "read", "ack"}
                          => todo[c] # Data

Locks ==
  /\ \A c, d \in Callers : Inside(c) /\ Inside(d) => c = d
  /\ \A c \in Callers : ssip_mutex = c
       <=> Inside(c) /\ pc[c] # "join" /\ todo[c] \notin Alone
  /\ \A c, d \in Callers : pc[c] = "join" \/ todo[c] \in Alone
                             => c = d \/ pc[d] = "out"

\* What the connection looks like when there is none, or no thread reads it.
Connection ==
  /\ stream = "none" => /\ rpc = "none" /\ requests = <<>> /\ replies = <<>>
                        /\ ready_waiters = {} /\ \A c \in Callers : pc[c] = "out"
  /\ rpc \in {"broken", "signal", "gone"} => stream = "null"
  /\ stream = "null" => ~alive /\ replies = <<>>
  /\ ~alive => requests = <<>>
  /\ mode = "single" => rpc = "none" /\ \A i \in DOMAIN replies : replies[i] # Event
  /\ rpc = "signal" => reply = NULL

\* Who waits for a reply, to which request, and what holds of a reply.
Waiting(c) == pc[c] = "reply" \/ (pc[c] = "wait" /\ c \in ready_waiters)
Own(c)     == [cmd |-> Head(todo[c]), by |-> c, level |-> want[c]]
Fits(r, c) == /\ r \in Reply /\ r.for = Own(c)
              /\ r.ok /\ r.for.cmd = "priority" => level = r.for.level
Answers(r) == /\ r.for # NULL
              /\ Waiting(r.for.by) /\ Fits(r, r.for.by)

\* At most one request is not answered; "data" before it has no answer.
DataSent(c) == \/ todo[c] = Data /\ pc[c] = "next"
               \/ todo[c] = Dot /\ (pc[c] \in {"check", "send"} \/ Waiting(c))
Due(r) == r.cmd # "data" /\ Waiting(r.by) /\ r = Own(r.by)

Requested ==
  \A i \in DOMAIN requests :
    \/ i = Len(requests) /\ Due(requests[i])
    \/ /\ i = 1 /\ requests[i].cmd = "data" /\ DataSent(requests[i].by)
       /\ Len(requests) = IF Waiting(requests[i].by) THEN 2 ELSE 1

Answered ==
  /\ \A i \in DOMAIN replies : replies[i] # Event =>
       /\ Answers(replies[i]) /\ requests = <<>> /\ rpc # "hand"
       /\ \A j \in DOMAIN replies : replies[j] # Event => j = i
  /\ rpc = "hand" => item \in Reply /\ Answers(item) /\ requests = <<>>

\* What a caller was woken for, and what it has read.
Woke(c) == pc[c] = "read" \/ (pc[c] = "wait" /\ c \notin ready_waiters)

HandedOver ==
  /\ \A c \in ready_waiters : pc[c] = "wait"
  /\ \A c \in Callers : pc[c] = "reply" => mode = "single"
  /\ \A c \in Callers : Woke(c) =>
       \/ reply = NULL /\ rpc = "gone"
       \/ Fits(reply, c) /\ rpc = "wait" /\ ack_waiting
  /\ \A c \in Callers : pc[c] = "ack" => Fits(got[c], c) /\ rpc = "wait" /\ ack_waiting
  /\ \A c \in Callers : pc[c] = "next" /\ Head(todo[c]) # "data" => Fits(got[c], c)

\* The priority of the connection is what the call that set it wants.
Priority ==
  /\ \A c \in Callers : todo[c] \in SayRest => level = want[c]
  /\ \A i \in DOMAIN queued : queued[i].level = queued[i].want

Inv == TypeOK /\ Calls /\ Locks /\ Connection /\ Requested /\ Answered
       /\ HandedOver /\ Priority

-----------------------------------------------------------------------------
(* What a call has left to send.                                           *)

LEMMA PlanFacts ==
  ASSUME NEW p \in Plans
  PROVE  /\ p # <<>> /\ p \in Seq(Commands) /\ Head(p) \in Commands
         /\ Len(p) # 1 => Tail(p) \in Plans \ Alone
         /\ Head(p) = "data" <=> p = Data
         /\ p \in SayRest => Head(p) # "priority" /\ p \notin Alone
         /\ Len(p) # 1 /\ Tail(p) \in SayRest => p \in SayRest \/ Head(p) = "priority"
         /\ Len(p) # 1 /\ Tail(p) = Data => p = Speak
         /\ Len(p) # 1 /\ Tail(p) = Dot => p = Data
         /\ p = Data => Len(p) # 1 /\ Tail(p) = Dot
         /\ p \in Alone => Len(p) = 1
         /\ Head(p) = "dot" => p \in SayRest
         /\ Len(p) \in Nat
<1> USE DEF Plans, SayRest, Alone, Programs, spd_say, spd_char, spd_command,
            spd_set, spd_set_notification, spd_list, Commands, Speak, Data, Dot
<1>1. CASE p = spd_say
  BY <1>1, SMTT(30)
<1>2. CASE p = spd_char
  BY <1>2, SMTT(30)
<1>3. CASE p = spd_command
  BY <1>3, SMTT(30)
<1>4. CASE p = spd_set
  BY <1>4, SMTT(30)
<1>5. CASE p = spd_set_notification
  BY <1>5, SMTT(30)
<1>6. CASE p = <<"notify">>
  BY <1>6, SMTT(30)
<1>7. CASE p = Speak
  BY <1>7, SMTT(30)
<1>8. CASE p = Data
  BY <1>8, SMTT(30)
<1>9. CASE p = Dot
  BY <1>9, SMTT(30)
<1>10. CASE p = Programs.open
  BY <1>10, SMTT(30)
<1>11. CASE p = spd_list
  BY <1>11, SMTT(30)
<1> QED
  BY <1>1, <1>2, <1>3, <1>4, <1>5, <1>6,
     <1>7, <1>8, <1>9, <1>10, <1>11

LEMMA ProgramFacts ==
  ASSUME NEW k \in {"command", "set", "char", "say", "notify", "list"}
  PROVE  /\ Programs[k] \in Plans \ SayRest /\ Programs[k] # <<>>
         /\ Programs[k] # Data /\ Programs[k] # Programs.open
         /\ Programs[k] \in Alone <=> k = "list"
<1> USE DEF Plans, SayRest, Alone, Programs, spd_say, spd_char, spd_command,
            spd_set, spd_set_notification, spd_list, Speak, Data, Dot
<1>1. CASE k \in {"command", "set"}
  BY <1>1, SMTT(30)
<1>2. CASE k = "char"
  BY <1>2, SMTT(30)
<1>3. CASE k = "say"
  BY <1>3, SMTT(30)
<1>4. CASE k = "notify"
  BY <1>4, SMTT(30)
<1>5. CASE k = "list"
  BY <1>5, SMTT(30)
<1> QED
  BY <1>1, <1>2, <1>3, <1>4, <1>5

-----------------------------------------------------------------------------
(* Sequences.                                                              *)

LEMMA AppendFacts ==
  ASSUME NEW S, NEW s \in Seq(S), NEW e \in S, NEW t, t = Append(s, e)
  PROVE  /\ t \in Seq(S) /\ Len(s) \in Nat /\ Len(t) = Len(s) + 1
         /\ DOMAIN s = 1..Len(s) /\ DOMAIN t = 1..(Len(s) + 1)
         /\ \A i \in 1..Len(s) : t[i] = s[i]
         /\ t[Len(s) + 1] = e
OBVIOUS

LEMMA TailFacts ==
  ASSUME NEW S, NEW s \in Seq(S), s # <<>>, NEW t, t = Tail(s)
  PROVE  /\ t \in Seq(S) /\ Len(s) \in Nat \ {0} /\ Len(t) = Len(s) - 1
         /\ DOMAIN s = 1..Len(s) /\ DOMAIN t = 1..(Len(s) - 1)
         /\ \A i \in 1..(Len(s) - 1) : t[i] = s[i + 1]
         /\ Head(s) = s[1] /\ s[1] \in S /\ 1 \in DOMAIN s
         /\ Len(s) = 1 => t = <<>>
OBVIOUS

-----------------------------------------------------------------------------
(* What is under way, when a step leaves it alone.                         *)

LEMMA LineFacts ==
  ASSUME TypeOK
  PROVE  /\ DOMAIN requests = 1..Len(requests) /\ Len(requests) \in Nat
         /\ \A i \in DOMAIN requests :
              /\ requests[i] \in Request /\ requests[i].by \in Callers
              /\ requests[i].cmd \in Commands /\ requests[i].level \in Levels
         /\ DOMAIN replies = 1..Len(replies) /\ Len(replies) \in Nat
         /\ \A i \in DOMAIN replies : replies[i] \in Reply
         /\ \A r \in Reply : r.for \in Request => r.for.by \in Callers
<1>1. /\ DOMAIN requests = 1..Len(requests) /\ Len(requests) \in Nat
      /\ \A i \in DOMAIN requests : requests[i] \in Request
  BY DEF TypeOK
<1>2. /\ DOMAIN replies = 1..Len(replies) /\ Len(replies) \in Nat
      /\ \A i \in DOMAIN replies : replies[i] \in Reply
  BY DEF TypeOK
<1>3. \A r \in Request : r.by \in Callers /\ r.cmd \in Commands /\ r.level \in Levels
  BY DEF Request
<1> QED
  BY <1>1, <1>2, <1>3

\* When nobody waits, nothing is under way but events and "data".
LEMMA NothingDue ==
  ASSUME TypeOK, Requested, Answered, ClientAssumption,
         \A d \in Callers : ~Waiting(d)
  PROVE  /\ \A i \in DOMAIN replies : replies[i] = Event
         /\ rpc # "hand"
         /\ \A i \in DOMAIN requests :
              /\ i = 1 /\ Len(requests) = 1 /\ requests[i].cmd = "data"
              /\ DataSent(requests[i].by) /\ requests[i].by \in Callers
<1>1. \A r \in Reply : ~Answers(r)
  BY LineFacts DEF Answers, Reply
<1> QED
  BY <1>1, LineFacts DEF Answered, Requested, Due

\* Whoever waits waits on, for the same reply.
Waits == \A d \in Callers : Waiting(d) => Waiting(d)' /\ Own(d)' = Own(d)

LEMMA RequestedStays ==
  ASSUME TypeOK, Requested, UNCHANGED requests, Waits,
         \A d \in Callers : DataSent(d) => DataSent(d)' /\ Waiting(d)' = Waiting(d)
  PROVE  Requested'
<1> SUFFICES ASSUME NEW i \in DOMAIN requests
    PROVE  \/ i = Len(requests) /\ Due(requests[i])'
           \/ /\ i = 1 /\ requests[i].cmd = "data" /\ DataSent(requests[i].by)'
              /\ Len(requests) = IF Waiting(requests[i].by)' THEN 2 ELSE 1
  BY DEF Requested, Due
<1> QED
  BY LineFacts DEF Requested, Due, Waits

LEMMA AnsweredStays ==
  ASSUME TypeOK, ClientAssumption, Answered, Waits, UNCHANGED <<requests, replies, level>>,
         rpc' = "hand" => rpc = "hand" /\ item' = item
  PROVE  Answered'
<1>1. ASSUME NEW r \in Reply, Answers(r)
      PROVE  Answers(r)'
  BY <1>1, LineFacts DEF Answers, Fits, Waits, Reply
<1> QED
  BY <1>1, LineFacts DEF Answered, Reply, Event, ClientAssumption

\* A call goes on and keeps the mutex it has.
LEMMA LocksStay ==
  ASSUME NEW c \in Callers, Locks, UNCHANGED ssip_mutex,
         Inside(c), pc[c] # "join", Inside(c)', pc'[c] # "join",
         todo'[c] \in Alone <=> todo[c] \in Alone,
         \A d \in Callers : d # c => pc'[d] = pc[d] /\ todo'[d] = todo[d]
  PROVE  Locks'
<1>1. \A d \in Callers : d # c => ~Inside(d) /\ ~Inside(d)'
  BY DEF Locks, Inside
<1>2. \A d \in Callers : ssip_mutex' = d
        <=> Inside(d)' /\ pc'[d] # "join" /\ todo'[d] \notin Alone
  BY <1>1 DEF Locks
<1>3. \A d, e \in Callers : pc'[d] = "join" \/ todo'[d] \in Alone
        => d = e \/ pc'[e] = "out"
  BY <1>1 DEF Locks, Inside
<1> QED
  BY <1>1, <1>2, <1>3 DEF Locks

-----------------------------------------------------------------------------
(* The callers.                                                            *)

LEMMA spd_openInv ==
  ASSUME ClientAssumption, Inv, NEW c \in Callers, spd_open(c)
  PROVE  Inv'
<1> USE DEF callVars, readerVars, serverVars, Goto
<1>a. stream = "none" /\ \A d \in Callers : pc[d] = "out" /\ todo[d] = <<>>
  BY DEF Inv, TypeOK, Calls, spd_open
<1>c. UNCHANGED <<mode, reply, ssip_mutex, ready_waiters, ack_waiting, want,
                  buffer, got, item, requests, replies, level, queued, sent,
                  called>>
  BY DEF spd_open
<1>e. /\ rpc = "none" /\ requests = <<>> /\ replies = <<>> /\ ready_waiters = {}
      /\ \A d \in Callers : ssip_mutex # d
      /\ <<>> \notin Alone /\ Programs.open \in Alone /\ Programs.open \in Plans
      /\ Programs.open \notin SayRest /\ Programs.open # <<>> /\ <<>> \notin SayRest
  BY <1>a, PlanFacts DEF Inv, Connection, Locks, Inside, Plans, Alone
<1>f. /\ pc' \in [Callers -> Places] /\ todo' \in [Callers -> Plans \cup {<<>>}]
      /\ \A d \in Callers : d # c => pc'[d] = "out" /\ todo'[d] = <<>>
      /\ \/ pc'[c] = "out" /\ todo'[c] = <<>> /\ stream' = "none" /\ rpc' = "none"
         \/ /\ pc'[c] = "check" /\ todo'[c] = Programs.open /\ stream' = "open" /\ alive'
            /\ rpc' = IF mode = "threaded" THEN "get" ELSE "none"
      /\ alive' \in BOOLEAN
  BY <1>a, <1>e DEF Inv, TypeOK, spd_open, Places
<1>1. TypeOK'
  BY <1>a, <1>c, <1>e, <1>f DEF Inv, TypeOK
<1>2. Calls'
  BY <1>f, <1>e DEF Calls
<1>3. Locks'
  BY <1>c, <1>e, <1>f DEF Locks, Inside
<1>4. Connection'
  BY <1>c, <1>e, <1>f DEF Inv, TypeOK, Connection
<1>5. Requested'
  BY <1>c, <1>e DEF Requested
<1>6. Answered'
  BY <1>c, <1>e, <1>f DEF Answered
<1>7. HandedOver'
  BY <1>c, <1>e, <1>f DEF HandedOver, Woke
<1>8. Priority'
  BY <1>c, <1>e, <1>f DEF Inv, Priority
<1> QED
  BY <1>1, <1>2, <1>3, <1>4, <1>5, <1>6, <1>7, <1>8 DEF Inv

LEMMA CallInv ==
  ASSUME ClientAssumption, ListsAlone, Inv, NEW c \in Callers, Call(c)
  PROVE  Inv'
<1> USE DEF callVars, readerVars, serverVars, Goto
<1>a. stream # "none" /\ pc[c] = "out" /\ todo[c] = <<>>
  BY DEF Inv, TypeOK, Calls, Call, MayCall
<1>c. UNCHANGED <<mode, stream, reply, ssip_mutex, ready_waiters, ack_waiting,
                  got, rpc, item, alive, requests, replies, level, queued, sent,
                  called>>
  BY DEF Call
<1>p. PICK k \in Kinds : \E l \in Asked(c, k) :
        /\ MayCall(c, k) /\ Formats(k, l)
        /\ todo' = [todo EXCEPT ![c] = Programs[k]]
        /\ want' = [want EXCEPT ![c] = l]
        /\ pc' = [pc EXCEPT ![c] = IF k = "list" THEN "check" ELSE "lock"]
  BY DEF Call
<1>e. PICK l \in Asked(c, k) :
        /\ MayCall(c, k) /\ Formats(k, l)
        /\ todo' = [todo EXCEPT ![c] = Programs[k]]
        /\ want' = [want EXCEPT ![c] = l]
        /\ pc' = [pc EXCEPT ![c] = IF k = "list" THEN "check" ELSE "lock"]
  BY <1>p
<1>f. /\ Programs[k] \in Plans \ SayRest /\ Programs[k] # <<>>
      /\ Programs[k] # Data /\ Programs[k] # Programs.open
      /\ Programs[k] \in Alone <=> k = "list"
  BY ProgramFacts DEF ClientAssumption
<1>g. l \in Levels /\ buffer' \in Levels
  BY <1>e DEF Inv, TypeOK, Asked, Formats
<1>h. /\ pc' \in [Callers -> Places] /\ todo' \in [Callers -> Plans \cup {<<>>}]
      /\ want' \in [Callers -> Levels]
      /\ \A d \in Callers : d # c => pc'[d] = pc[d] /\ todo'[d] = todo[d] /\ want'[d] = want[d]
      /\ pc'[c] = IF k = "list" THEN "check" ELSE "lock"
      /\ todo'[c] = Programs[k]
  BY <1>e, <1>f, <1>g DEF Inv, TypeOK, Places
<1>i. /\ \A d \in Callers : todo[d] \notin Alone /\ pc[d] # "join"
      /\ k = "list" => \A d \in Callers : pc[d] = "out" /\ todo[d] = <<>>
  BY <1>e DEF Inv, Calls, MayCall, Alone
<1>k. \A d \in Callers : Own(d)' = Own(d) \/ d = c
  BY <1>h DEF Own
<1>w. Waits
  BY <1>a, <1>c, <1>h, <1>k DEF Inv, HandedOver, Waits, Waiting
<1>s. \A d \in Callers : DataSent(d) => DataSent(d)' /\ Waiting(d)' = Waiting(d)
  <2>1. ~DataSent(c)
    BY <1>a DEF Inv, HandedOver, Waiting, DataSent
  <2>2. \A d \in Callers : d # c => DataSent(d)' = DataSent(d) /\ Waiting(d)' = Waiting(d)
    BY <1>c, <1>h DEF Waiting, DataSent
  <2> QED
    BY <2>1, <2>2
<1>1. TypeOK'
  BY <1>c, <1>g, <1>h DEF Inv, TypeOK
<1>2. Calls'
  BY <1>f, <1>h DEF Inv, Calls
<1>3. Locks'
  <2>1. CASE k = "list"
    <3>1. \A d \in Callers : ssip_mutex # d
      BY <1>i, <2>1 DEF Inv, Locks, Inside
    <3>2. \A d \in Callers : d # c => pc'[d] = "out" /\ todo'[d] \notin Alone
      BY <1>h, <1>i, <2>1
    <3> QED
      BY <1>c, <1>f, <1>h, <2>1, <3>1, <3>2 DEF Locks, Inside
  <2>2. CASE k # "list"
    BY <1>a, <1>c, <1>f, <1>h, <1>i, <2>2 DEF Inv, Locks, Inside
  <2> QED
    BY <2>1, <2>2
<1>4. Connection'
  BY <1>a, <1>c DEF Inv, Connection
<1>5. Requested'
  BY <1>c, <1>w, <1>s, RequestedStays DEF Inv
<1>6. Answered'
  BY <1>c, <1>w, AnsweredStays DEF Inv
<1>7. HandedOver'
  <2>1. \A d \in ready_waiters : pc'[d] = "wait"
    BY <1>a, <1>h DEF Inv, TypeOK, HandedOver
  <2>2. \A r : \A d \in Callers : d # c => (Fits(r, d)' <=> Fits(r, d))
    BY <1>c, <1>k DEF Fits
  <2>3. ~Woke(c)' /\ \A d \in Callers : d # c => Woke(d)' = Woke(d)
    BY <1>c, <1>h DEF Woke
  <2>4. \A d \in Callers : pc'[d] \in {"ack", "next", "reply"} => d # c /\ pc[d] = pc'[d]
    BY <1>h
  <2> QED
    BY <1>c, <1>h, <2>1, <2>2, <2>3, <2>4 DEF Inv, HandedOver, Fits
<1>8. Priority'
  BY <1>c, <1>f, <1>h DEF Inv, Priority
<1> QED
  BY <1>1, <1>2, <1>3, <1>4, <1>5, <1>6, <1>7, <1>8 DEF Inv

LEMMA LockSsipInv ==
  ASSUME ClientAssumption, Inv, NEW c \in Callers, LockSsip(c)
  PROVE  Inv'
<1> USE DEF callVars, readerVars, serverVars, Goto
<1>a. pc[c] = "lock" /\ ssip_mutex = NULL /\ ssip_mutex' = c
  BY DEF Inv, TypeOK, Calls, LockSsip
<1>b. /\ pc' \in [Callers -> Places] /\ pc'[c] = "check"
      /\ \A d \in Callers : d # c => pc'[d] = pc[d]
  BY DEF Inv, TypeOK, Places, LockSsip
<1>c. UNCHANGED <<mode, stream, reply, ready_waiters, ack_waiting, todo, want,
                  buffer, got, rpc, item, calls, alive, requests, replies,
                  level, queued, sent, called>>
  BY DEF LockSsip
<1>d. \A d \in Callers : Own(d)' = Own(d)
  BY <1>c DEF Own
<1>w. Waits
  BY <1>a, <1>b, <1>c, <1>d, PlanFacts DEF Inv, TypeOK, Calls, Locks,
     HandedOver, Inside, Waits, Waiting
<1>s. \A d \in Callers : DataSent(d) => DataSent(d)' /\ Waiting(d)' = Waiting(d)
  BY <1>a, <1>b, <1>c, <1>d, PlanFacts DEF Inv, TypeOK, Calls, Locks,
     HandedOver, Inside, Waiting, DataSent
<1>1. TypeOK'
  BY <1>a, <1>b, <1>c DEF Inv, TypeOK
<1>2. Calls'
  BY <1>a, <1>b, <1>c DEF Inv, TypeOK, Calls
<1>3. Locks'
  <2>1. \A d \in Callers : ~Inside(d)
    BY <1>a, ClientAssumption DEF Inv, Locks, Inside, ClientAssumption
  <2> QED
    BY <1>a, <1>b, <1>c, <2>1, ClientAssumption DEF Inv, Calls, Locks, Inside
<1>4. Connection'
  BY <1>a, <1>b, <1>c DEF Inv, TypeOK, Calls, Locks, Connection, Inside
<1>5. Requested'
  BY <1>c, <1>w, <1>s, RequestedStays DEF Inv
<1>6. Answered'
  BY <1>a, <1>c, <1>w, AnsweredStays DEF Inv
<1>7. HandedOver'
  BY <1>a, <1>b, <1>c, <1>d, PlanFacts DEF Inv, TypeOK, Calls, Locks,
     HandedOver, Inside, Waiting, Fits, Woke
<1>8. Priority'
  BY <1>a, <1>b, <1>c, <1>d, PlanFacts DEF Inv, TypeOK, Calls, Priority
<1> QED
  BY <1>1, <1>2, <1>3, <1>4, <1>5, <1>6, <1>7, <1>8 DEF Inv

LEMMA CheckStreamInv ==
  ASSUME ClientAssumption, Inv, NEW c \in Callers, CheckStream(c)
  PROVE  Inv'
<1> USE DEF callVars, readerVars, serverVars, Goto
<1>a. pc[c] = "check" /\ todo[c] \in Plans /\ stream # "none"
  BY DEF Inv, TypeOK, Calls, CheckStream, Connection
<1>b. /\ pc' \in [Callers -> Places] /\ pc'[c] \in {"send", "leave"}
      /\ \A d \in Callers : d # c => pc'[d] = pc[d]
  BY DEF Inv, TypeOK, Places, CheckStream
<1>i. \A d \in Callers : d # c => pc[d] \in {"out", "lock"}
  BY <1>a DEF Inv, Locks, Inside
<1>c. UNCHANGED <<mode, stream, reply, ssip_mutex, ready_waiters, ack_waiting,
                  todo, buffer, got, rpc, item, calls, alive, requests, replies,
                  level, queued, sent, called>>
  BY DEF CheckStream
<1>e. pc'[c] = "send" \/ (pc'[c] = "leave" /\ stream = "null")
  BY <1>a DEF Inv, TypeOK, CheckStream
<1>f. /\ want' \in [Callers -> Levels] /\ \A d \in Callers : d # c => want'[d] = want[d]
      /\ todo[c] \in SayRest => want'[c] = want[c]
  BY <1>a, PlanFacts DEF Inv, TypeOK, CheckStream, SayRest, Speak, Data, Dot
<1>w. Waits
  BY <1>a, <1>i, <1>b, <1>c, <1>e, <1>f, PlanFacts DEF Inv, TypeOK, Calls, Locks,
     HandedOver, Inside, Waits, Waiting, Own
<1>1. TypeOK'
  BY <1>a, <1>b, <1>c, <1>e, <1>f DEF Inv, TypeOK
<1>2. Calls'
  BY <1>a, <1>i, <1>b, <1>c, <1>e, <1>f DEF Inv, TypeOK, Calls
<1>3. Locks'
  BY <1>a, <1>i, <1>b, <1>c, LocksStay DEF Inv, Inside
<1>4. Connection'
  BY <1>a, <1>i, <1>b, <1>c, <1>e, <1>f DEF Inv, TypeOK, Calls, Locks, Connection,
     Inside
<1>5. Requested'
  <2>1. CASE stream = "null"
    BY <1>c, <2>1, LineFacts DEF Inv, Connection, Requested
  <2>2. CASE stream = "open"
    <3>1. \A d \in Callers : DataSent(d) => DataSent(d)' /\ Waiting(d)' = Waiting(d)
      BY <1>a, <1>b, <1>c, <1>e, <1>i, <2>2 DEF Inv, TypeOK, HandedOver, DataSent, Waiting
    <3> QED
      BY <1>c, <1>w, <3>1, RequestedStays DEF Inv
  <2> QED
    BY <1>a, <2>1, <2>2 DEF Inv, TypeOK
<1>6. Answered'
  BY <1>a, <1>i, <1>c, <1>w, AnsweredStays DEF Inv
<1>7. HandedOver'
  <2>1. \A d \in Callers : ~Woke(d)' /\ pc'[d] \notin {"ack", "next", "reply"}
    BY <1>a, <1>b, <1>c, <1>i DEF Inv, HandedOver, Woke
  <2> QED
    BY <1>a, <1>b, <1>c, <1>i, <2>1 DEF Inv, TypeOK, HandedOver
<1>8. Priority'
  BY <1>a, <1>i, <1>b, <1>c, <1>e, <1>f, PlanFacts DEF Inv, TypeOK, Calls, Priority,
     Own
<1> QED
  BY <1>1, <1>2, <1>3, <1>4, <1>5, <1>6, <1>7, <1>8 DEF Inv

LEMMA spd_send_data_wo_mutexInv ==
  ASSUME ClientAssumption, Inv, NEW c \in Callers, spd_send_data_wo_mutex(c)
  PROVE  Inv'
<1> USE DEF callVars, readerVars, serverVars, Goto
<1>a. pc[c] = "send" /\ todo[c] \in Plans /\ stream # "none"
  BY DEF Inv, TypeOK, Calls, spd_send_data_wo_mutex, Connection
<1>b. /\ pc' \in [Callers -> Places] /\ pc'[c] \in {"next", "wait", "reply"}
      /\ \A d \in Callers : d # c => pc'[d] = pc[d]
  BY DEF Inv, TypeOK, Places, spd_send_data_wo_mutex
<1>i. \A d \in Callers : d # c => pc[d] \in {"out", "lock"}
  BY <1>a DEF Inv, Locks, Inside
<1>c. UNCHANGED <<mode, stream, reply, ssip_mutex, ack_waiting, todo, want,
                  buffer, got, rpc, item, calls, alive, replies, level, queued,
                  sent, called>>
  BY DEF spd_send_data_wo_mutex
<1>d. \A d \in Callers : Own(d)' = Own(d)
  BY <1>c DEF Own
<1>e. /\ pc'[c] = "next" <=> todo[c] = Data
      /\ pc'[c] = "wait" => mode = "threaded" /\ ready_waiters' = ready_waiters \cup {c}
      /\ pc'[c] # "wait" => UNCHANGED ready_waiters
  BY <1>a, PlanFacts DEF Inv, TypeOK, spd_send_data_wo_mutex
<1>f. /\ requests' = IF alive THEN Append(requests, Own(c)) ELSE requests
      /\ Own(c) \in Request
  BY <1>a, PlanFacts DEF Inv, TypeOK, spd_send_data_wo_mutex, Own, Request
<1>g. requests' \in Seq(Request) /\ ready_waiters' \in SUBSET Callers
  BY <1>e, <1>f DEF Inv, TypeOK
<1>w. Waits
  BY <1>a, <1>i, <1>b, <1>c, <1>e, <1>f, <1>g, <1>d, PlanFacts DEF Inv, TypeOK,
     Calls, Locks, HandedOver, Inside, Waits, Waiting
<1>n. /\ \A d \in Callers : ~Waiting(d)
      /\ \A i \in DOMAIN replies : replies[i] = Event
      /\ rpc # "hand"
      /\ \A i \in DOMAIN requests :
           /\ i = 1 /\ Len(requests) = 1 /\ requests[i].cmd = "data"
           /\ requests[i].by = c /\ DataSent(c)
  <2>1. \A d \in Callers : ~Waiting(d)
    BY <1>a, <1>i DEF Inv, HandedOver, Waiting
  <2>2. \A d \in Callers : DataSent(d) => d = c
    BY <1>i, <2>1 DEF DataSent
  <2> QED
    BY <2>1, <2>2, NothingDue DEF Inv
<1>m. pc'[c] = "reply" => mode = "single"
  BY <1>a DEF Inv, TypeOK, spd_send_data_wo_mutex
<1>1. TypeOK'
  BY <1>a, <1>b, <1>c, <1>e, <1>f, <1>g DEF Inv, TypeOK
<1>2. Calls'
  BY <1>a, <1>i, <1>b, <1>c, <1>e, <1>f, <1>g DEF Inv, TypeOK, Calls
<1>3. Locks'
  BY <1>a, <1>i, <1>b, <1>c, LocksStay DEF Inv, Inside
<1>4. Connection'
  BY <1>a, <1>i, <1>b, <1>c, <1>e, <1>f, <1>g DEF Inv, TypeOK, Calls, Locks,
     Connection, Inside
<1>5. Requested'
  <2>1. CASE requests = <<>> /\ ~alive
    BY <1>f, <2>1 DEF Requested
  <2>2. CASE requests = <<>> /\ alive
    <3>1. requests' = <<Own(c)>> /\ Own(c)' = Own(c)
      BY <1>c, <1>f, <2>2 DEF Own
    <3>2. Own(c).by = c /\ (Own(c).cmd = "data" <=> todo[c] = Data)
      BY <1>a, PlanFacts DEF Own
    <3>3. CASE todo[c] = Data
      <4>1. DataSent(c)' /\ ~Waiting(c)'
        BY <1>c, <1>e, <3>3 DEF DataSent, Waiting
      <4> QED
        BY <3>1, <3>2, <3>3, <4>1 DEF Requested
    <3>4. CASE todo[c] # Data
      <4>1. Waiting(c)'
        BY <1>b, <1>e, <3>4 DEF Waiting
      <4> QED
        BY <3>1, <3>2, <3>4, <4>1 DEF Requested, Due
    <3> QED
      BY <3>3, <3>4
  <2>3. CASE requests # <<>>
    <3>1. alive /\ Len(requests) = 1 /\ requests[1].cmd = "data" /\ requests[1].by = c
          /\ DataSent(c)
      BY <1>n, <2>3, LineFacts DEF Inv, Connection
    <3>2. todo[c] = Dot
      BY <1>a, <3>1 DEF DataSent
    <3>3. todo[c] # Data /\ Waiting(c)'
      BY <1>b, <1>e, <3>2 DEF Waiting, Data, Dot
    <3>4. Own(c).by = c /\ Own(c).cmd # "data" /\ Own(c)' = Own(c)
      BY <1>a, <1>c, <3>3, PlanFacts DEF Own
    <3>5. /\ Len(requests') = 2 /\ DOMAIN requests' = 1..2
          /\ requests'[1] = requests[1] /\ requests'[2] = Own(c)
      <4>1. requests \in Seq(Request) /\ requests' = Append(requests, Own(c))
        BY <1>f, <3>1 DEF Inv, TypeOK
      <4>0. Own(c) \in Request
        BY <1>f
      <4>2. /\ Len(requests') = Len(requests) + 1 /\ requests'[1] = requests[1]
            /\ requests'[Len(requests) + 1] = Own(c)
            /\ DOMAIN requests' = 1..(Len(requests) + 1)
        BY <3>1, <4>0, <4>1, AppendFacts
      <4> QED
        BY <3>1, <4>2
    <3>6. DataSent(c)'
      BY <1>c, <3>2, <3>3 DEF DataSent
    <3> QED
      BY <3>1, <3>3, <3>4, <3>5, <3>6 DEF Requested, Due
  <2> QED
    BY <2>1, <2>2, <2>3 DEF Inv, TypeOK
<1>6. Answered'
  BY <1>c, <1>n DEF Answered
<1>7. HandedOver'
  <2>1. \A d \in ready_waiters' : pc'[d] = "wait"
    BY <1>a, <1>b, <1>e DEF Inv, TypeOK, HandedOver
  <2>2. \A d \in Callers : ~Woke(d)' /\ pc'[d] # "ack"
    BY <1>b, <1>e, <1>i DEF Woke
  <2>3. \A d \in Callers : pc'[d] = "next" => d = c /\ Head(todo[d]) = "data"
    BY <1>a, <1>b, <1>e, <1>i, PlanFacts
  <2>4. \A d \in Callers : pc'[d] = "reply" => mode = "single"
    BY <1>b, <1>c, <1>e, <1>i, <1>m
  <2> QED
    BY <1>c, <2>1, <2>2, <2>3, <2>4 DEF HandedOver
<1>8. Priority'
  BY <1>a, <1>i, <1>b, <1>c, <1>e, <1>f, <1>g, <1>d, PlanFacts DEF Inv, TypeOK,
     Calls, Priority
<1> QED
  BY <1>1, <1>2, <1>3, <1>4, <1>5, <1>6, <1>7, <1>8 DEF Inv

LEMMA WokenInv ==
  ASSUME ClientAssumption, Inv, NEW c \in Callers, Woken(c)
  PROVE  Inv'
<1> USE DEF callVars, readerVars, serverVars, Goto
<1>a. pc[c] = "wait" /\ c \notin ready_waiters
  BY DEF Inv, TypeOK, Calls, Woken
<1>b. /\ pc' \in [Callers -> Places] /\ pc'[c] = "read"
      /\ \A d \in Callers : d # c => pc'[d] = pc[d]
  BY DEF Inv, TypeOK, Places, Woken
<1>i. \A d \in Callers : d # c => pc[d] \in {"out", "lock"}
  BY <1>a DEF Inv, Locks, Inside
<1>c. UNCHANGED <<mode, stream, reply, ssip_mutex, ready_waiters, ack_waiting,
                  todo, want, buffer, got, rpc, item, calls, alive, requests,
                  replies, level, queued, sent, called>>
  BY DEF Woken
<1>d. \A d \in Callers : Own(d)' = Own(d)
  BY <1>c DEF Own
<1>w. Waits
  BY <1>a, <1>i, <1>b, <1>c, <1>d, PlanFacts DEF Inv, TypeOK, Calls, Locks,
     HandedOver, Inside, Waits, Waiting
<1>s. \A d \in Callers : DataSent(d) => DataSent(d)' /\ Waiting(d)' = Waiting(d)
  BY <1>a, <1>i, <1>b, <1>c, <1>d, PlanFacts DEF Inv, TypeOK, Calls, Locks,
     HandedOver, Inside, Waiting, DataSent
<1>1. TypeOK'
  BY <1>a, <1>b, <1>c DEF Inv, TypeOK
<1>2. Calls'
  BY <1>a, <1>i, <1>b, <1>c DEF Inv, TypeOK, Calls
<1>3. Locks'
  BY <1>a, <1>i, <1>b, <1>c, LocksStay DEF Inv, Inside
<1>4. Connection'
  BY <1>a, <1>i, <1>b, <1>c DEF Inv, TypeOK, Calls, Locks, Connection, Inside
<1>5. Requested'
  BY <1>c, <1>w, <1>s, RequestedStays DEF Inv
<1>6. Answered'
  BY <1>a, <1>i, <1>c, <1>w, AnsweredStays DEF Inv
<1>7. HandedOver'
  BY <1>a, <1>i, <1>b, <1>c, <1>d, PlanFacts DEF Inv, TypeOK, Calls, Locks,
     HandedOver, Inside, Waiting, Fits, Woke
<1>8. Priority'
  BY <1>a, <1>i, <1>b, <1>c, <1>d, PlanFacts DEF Inv, TypeOK, Calls, Priority
<1> QED
  BY <1>1, <1>2, <1>3, <1>4, <1>5, <1>6, <1>7, <1>8 DEF Inv

LEMMA CopyReplyInv ==
  ASSUME ClientAssumption, Inv, NEW c \in Callers, CopyReply(c)
  PROVE  Inv'
<1> USE DEF callVars, readerVars, serverVars, Goto
<1>a. pc[c] = "read"
  BY DEF Inv, TypeOK, Calls, CopyReply
<1>b. /\ pc' \in [Callers -> Places] /\ pc'[c] \in {"leave", "ack"}
      /\ \A d \in Callers : d # c => pc'[d] = pc[d]
  BY DEF Inv, TypeOK, Places, CopyReply
<1>i. \A d \in Callers : d # c => pc[d] \in {"out", "lock"}
  BY <1>a DEF Inv, Locks, Inside
<1>c. UNCHANGED <<mode, stream, ssip_mutex, ready_waiters, ack_waiting, todo,
                  want, buffer, rpc, item, calls, alive, requests, replies,
                  level, queued, sent, called>>
  BY DEF CopyReply
<1>d. \A d \in Callers : Own(d)' = Own(d)
  BY <1>c DEF Own
<1>e. \/ pc'[c] = "leave" /\ reply = NULL /\ UNCHANGED <<reply, got>>
      \/ /\ pc'[c] = "ack" /\ reply # NULL /\ reply' = Freed
         /\ got' \in [Callers -> Reply \cup {NULL}] /\ got'[c] = reply
         /\ \A d \in Callers : d # c => got'[d] = got[d]
  <2>1. CASE reply = NULL
    BY <1>a, <2>1 DEF Inv, TypeOK, CopyReply
  <2>2. CASE reply # NULL
    BY <1>a, <2>2 DEF Inv, TypeOK, CopyReply
  <2> QED
    BY <2>1, <2>2
<1>f. Freed \in Reply
  BY DEF Freed, Reply
<1>n. /\ \A d \in Callers : ~Waiting(d)
      /\ \A i \in DOMAIN replies : replies[i] = Event
      /\ rpc # "hand"
      /\ \A i \in DOMAIN requests :
           /\ i = 1 /\ Len(requests) = 1 /\ requests[i].cmd = "data"
           /\ requests[i].by = c /\ DataSent(c)
  <2>1. \A d \in Callers : ~Waiting(d)
    BY <1>a, <1>i DEF Inv, HandedOver, Waiting
  <2>2. \A d \in Callers : DataSent(d) => d = c
    BY <1>i, <2>1 DEF DataSent
  <2> QED
    BY <2>1, <2>2, NothingDue DEF Inv
<1>r. requests = <<>>
  <2>1. ~DataSent(c)
    BY <1>a, PlanFacts DEF Inv, HandedOver, Waiting, DataSent
  <2> QED
    BY <1>n, <2>1, LineFacts DEF Inv
<1>1. TypeOK'
  BY <1>a, <1>b, <1>c, <1>e, <1>f DEF Inv, TypeOK
<1>2. Calls'
  BY <1>a, <1>b, <1>c DEF Inv, TypeOK, Calls
<1>3. Locks'
  BY <1>a, <1>i, <1>b, <1>c, LocksStay DEF Inv, Inside
<1>4. Connection'
  BY <1>a, <1>i, <1>b, <1>c, <1>e, <1>f DEF Inv, TypeOK, Calls, Locks, Connection,
     Inside
<1>5. Requested'
  BY <1>c, <1>r DEF Requested
<1>6. Answered'
  BY <1>c, <1>n DEF Answered
<1>7. HandedOver'
  <2>1. reply # NULL => Fits(reply, c) /\ rpc = "wait" /\ ack_waiting
    BY <1>a DEF Inv, HandedOver, Woke
  <2>2. pc'[c] = "ack" => Fits(got[c], c)' /\ rpc = "wait" /\ ack_waiting
    BY <1>c, <1>d, <1>e, <2>1 DEF Fits
  <2>3. \A d \in Callers : ~Woke(d)'
    BY <1>b, <1>c, <1>i, <1>a DEF Inv, HandedOver, Woke
  <2> QED
    BY <1>a, <1>b, <1>c, <1>i, <2>2, <2>3 DEF Inv, TypeOK, HandedOver
<1>8. Priority'
  BY <1>a, <1>i, <1>b, <1>c, <1>e, <1>f, <1>d, PlanFacts DEF Inv, TypeOK, Calls,
     Priority
<1> QED
  BY <1>1, <1>2, <1>3, <1>4, <1>5, <1>6, <1>7, <1>8 DEF Inv

LEMMA AcknowledgeInv ==
  ASSUME ClientAssumption, Inv, NEW c \in Callers, Acknowledge(c)
  PROVE  Inv'
<1> USE DEF callVars, readerVars, serverVars, Goto
<1>a. pc[c] = "ack" /\ ack_waiting' = FALSE
  BY DEF Inv, TypeOK, Calls, Acknowledge
<1>b. /\ pc' \in [Callers -> Places] /\ pc'[c] = "next"
      /\ \A d \in Callers : d # c => pc'[d] = pc[d]
  BY DEF Inv, TypeOK, Places, Acknowledge
<1>i. \A d \in Callers : d # c => pc[d] \in {"out", "lock"}
  BY <1>a DEF Inv, Locks, Inside
<1>c. UNCHANGED <<mode, stream, reply, ssip_mutex, ready_waiters, todo, want,
                  buffer, got, rpc, item, calls, alive, requests, replies,
                  level, queued, sent, called>>
  BY DEF Acknowledge
<1>d. \A d \in Callers : Own(d)' = Own(d)
  BY <1>c DEF Own
<1>w. Waits
  BY <1>a, <1>i, <1>b, <1>c, <1>d, PlanFacts DEF Inv, TypeOK, Calls, Locks,
     HandedOver, Inside, Waits, Waiting
<1>s. \A d \in Callers : DataSent(d) => DataSent(d)' /\ Waiting(d)' = Waiting(d)
  BY <1>a, <1>i, <1>b, <1>c, <1>d, PlanFacts DEF Inv, TypeOK, Calls, Locks,
     HandedOver, Inside, Waiting, DataSent
<1>1. TypeOK'
  BY <1>a, <1>b, <1>c DEF Inv, TypeOK
<1>2. Calls'
  BY <1>a, <1>i, <1>b, <1>c DEF Inv, TypeOK, Calls
<1>3. Locks'
  BY <1>a, <1>i, <1>b, <1>c, LocksStay DEF Inv, Inside
<1>4. Connection'
  BY <1>a, <1>i, <1>b, <1>c DEF Inv, TypeOK, Calls, Locks, Connection, Inside
<1>5. Requested'
  BY <1>c, <1>w, <1>s, RequestedStays DEF Inv
<1>6. Answered'
  BY <1>a, <1>i, <1>c, <1>w, AnsweredStays DEF Inv
<1>7. HandedOver'
  <2>1. Fits(got[c], c)'
    BY <1>a, <1>c, <1>d DEF Inv, HandedOver, Fits
  <2> QED
    BY <1>a, <1>b, <1>c, <1>i, <2>1 DEF Inv, TypeOK, HandedOver, Woke
<1>8. Priority'
  BY <1>a, <1>i, <1>b, <1>c, <1>d, PlanFacts DEF Inv, TypeOK, Calls, Priority
<1> QED
  BY <1>1, <1>2, <1>3, <1>4, <1>5, <1>6, <1>7, <1>8 DEF Inv

LEMMA get_replyInv ==
  ASSUME ClientAssumption, Inv, NEW c \in Callers, get_reply(c)
  PROVE  Inv'
<1> USE DEF callVars, readerVars, serverVars, Goto
<1>a. pc[c] = "reply" /\ mode = "single"
  BY DEF Inv, TypeOK, Calls, get_reply, HandedOver
<1>b. /\ pc' \in [Callers -> Places] /\ pc'[c] \in {"next", "leave"}
      /\ \A d \in Callers : d # c => pc'[d] = pc[d]
  BY DEF Inv, TypeOK, Places, get_reply
<1>i. \A d \in Callers : d # c => pc[d] \in {"out", "lock"}
  BY <1>a DEF Inv, Locks, Inside
<1>c. UNCHANGED <<mode, reply, ssip_mutex, ready_waiters, ack_waiting, todo,
                  want, buffer, rpc, item, calls, alive, requests, level,
                  queued, sent, called>>
  BY DEF get_reply
<1>d. \A d \in Callers : Own(d)' = Own(d)
  BY <1>c DEF Own
<1>e. \/ /\ pc'[c] = "leave" /\ replies = <<>> /\ ~alive /\ stream' = "null"
         /\ UNCHANGED <<replies, got>>
      \/ /\ pc'[c] = "next" /\ replies # <<>> /\ UNCHANGED stream
         /\ replies' = Tail(replies) /\ got'[c] = Head(replies)
         /\ got' \in [Callers -> Reply \cup {NULL}]
         /\ \A d \in Callers : d # c => got'[d] = got[d]
  <2>1. CASE replies = <<>>
    BY <1>a, <2>1 DEF Inv, TypeOK, get_reply
  <2>2. CASE replies # <<>>
    <3>1. Head(replies) \in Reply
      BY <2>2, TailFacts DEF Inv, TypeOK
    <3>2. /\ got' = [got EXCEPT ![c] = Head(replies)] /\ replies' = Tail(replies)
          /\ pc' = [pc EXCEPT ![c] = "next"] /\ UNCHANGED stream
      BY <2>2 DEF get_reply
    <3> QED
      BY <2>2, <3>1, <3>2 DEF Inv, TypeOK
  <2> QED
    BY <2>1, <2>2
<1>f. replies' \in Seq(Reply)
  <2>1. replies \in Seq(Reply)
    BY DEF Inv, TypeOK
  <2> QED
    BY <1>e, <2>1, TailFacts
<1>g. /\ requests = <<>> /\ replies' = <<>> /\ rpc # "hand"
      /\ pc'[c] = "next" => Fits(got'[c], c)
  <2>1. CASE replies = <<>>
    BY <1>a, <1>e, <2>1 DEF Inv, Connection
  <2>2. CASE replies # <<>>
    <3>1. /\ 1 \in DOMAIN replies /\ Len(replies) \in Nat /\ Head(replies) = replies[1]
          /\ DOMAIN replies = 1..Len(replies)
      BY <2>2, TailFacts DEF Inv, TypeOK
    <3>2. \A j \in DOMAIN replies : replies[j] # Event
      BY <1>a DEF Inv, Connection
    <3>3. Answers(replies[1]) /\ requests = <<>> /\ \A j \in DOMAIN replies : j = 1
      BY <3>1, <3>2 DEF Inv, Answered
    <3>4. Len(replies) = 1 /\ Tail(replies) = <<>>
      <4>1. Len(replies) = 1
        BY <3>1, <3>3
      <4>2. replies \in Seq(Reply)
        BY DEF Inv, TypeOK
      <4>3. Tail(replies) \in Seq(Reply) /\ Len(Tail(replies)) = 0
        BY <2>2, <4>1, <4>2, TailFacts
      <4> QED
        BY <4>1, <4>3, EmptySeq
    <3>5. replies[1].for.by = c
      BY <1>a, <1>i, <3>1, <3>3, LineFacts DEF Inv, HandedOver, Answers, Waiting, Reply
    <3> QED
      BY <1>a, <1>e, <2>2, <3>1, <3>3, <3>4, <3>5 DEF Inv, Connection, Answers
  <2> QED
    BY <2>1, <2>2
<1>1. TypeOK'
  BY <1>a, <1>b, <1>c, <1>e, <1>f, <1>g DEF Inv, TypeOK
<1>2. Calls'
  BY <1>a, <1>i, <1>b, <1>c, <1>e, <1>f, <1>g DEF Inv, TypeOK, Calls
<1>3. Locks'
  BY <1>a, <1>i, <1>b, <1>c, LocksStay DEF Inv, Inside
<1>4. Connection'
  BY <1>a, <1>i, <1>b, <1>c, <1>e, <1>f, <1>g DEF Inv, TypeOK, Calls, Locks,
     Connection, Inside
<1>5. Requested'
  BY <1>c, <1>g DEF Requested
<1>6. Answered'
  BY <1>a, <1>c, <1>g DEF Inv, Connection, Answered
<1>7. HandedOver'
  <2>1. pc'[c] = "next" => Fits(got[c], c)'
    BY <1>c, <1>d, <1>g DEF Fits
  <2>2. \A d \in Callers : ~Woke(d)'
    BY <1>b, <1>c, <1>i DEF Woke
  <2> QED
    BY <1>a, <1>b, <1>c, <1>i, <2>1, <2>2 DEF Inv, TypeOK, HandedOver
<1>8. Priority'
  BY <1>a, <1>i, <1>b, <1>c, <1>e, <1>f, <1>g, <1>d, PlanFacts DEF Inv, TypeOK,
     Calls, Priority
<1> QED
  BY <1>1, <1>2, <1>3, <1>4, <1>5, <1>6, <1>7, <1>8 DEF Inv

LEMMA NextRequestInv ==
  ASSUME ClientAssumption, Inv, NEW c \in Callers, NextRequest(c)
  PROVE  Inv'
<1> USE DEF callVars, readerVars, serverVars, Goto
<1>a. pc[c] = "next" /\ todo[c] \in Plans
  BY DEF Inv, TypeOK, Calls, NextRequest
<1>b. /\ pc' \in [Callers -> Places] /\ pc'[c] \in {"leave", "check"}
      /\ \A d \in Callers : d # c => pc'[d] = pc[d]
  BY DEF Inv, TypeOK, Places, NextRequest
<1>i. \A d \in Callers : d # c => pc[d] \in {"out", "lock"}
  BY <1>a DEF Inv, Locks, Inside
<1>c. UNCHANGED <<mode, stream, reply, ssip_mutex, ready_waiters, ack_waiting,
                  want, buffer, got, rpc, item, calls, alive, requests, replies,
                  level, queued, sent, called>>
  BY DEF NextRequest
<1>e. \/ pc'[c] = "leave" /\ UNCHANGED todo /\ todo[c] # Data
      \/ /\ pc'[c] = "check" /\ ~Refuses(c) /\ Len(todo[c]) # 1
         /\ todo'[c] = Tail(todo[c]) /\ \A d \in Callers : d # c => todo'[d] = todo[d]
  BY <1>a, PlanFacts DEF Inv, TypeOK, NextRequest, Refuses
<1>f. todo' \in [Callers -> Plans \cup {<<>>}]
  BY <1>a, PlanFacts DEF Inv, TypeOK, NextRequest
<1>g. todo'[c] \in Plans /\ (todo'[c] \in Alone <=> todo[c] \in Alone)
  BY <1>a, <1>e, PlanFacts
<1>n. /\ \A d \in Callers : ~Waiting(d)
      /\ \A i \in DOMAIN replies : replies[i] = Event
      /\ rpc # "hand"
      /\ \A i \in DOMAIN requests :
           /\ i = 1 /\ Len(requests) = 1 /\ requests[i].cmd = "data"
           /\ requests[i].by = c /\ DataSent(c)
  <2>1. \A d \in Callers : ~Waiting(d)
    BY <1>a, <1>i DEF Inv, HandedOver, Waiting
  <2>2. \A d \in Callers : DataSent(d) => d = c
    BY <1>i, <2>1 DEF DataSent
  <2> QED
    BY <2>1, <2>2, NothingDue DEF Inv
<1>1. TypeOK'
  BY <1>a, <1>b, <1>c, <1>e, <1>f, <1>g DEF Inv, TypeOK
<1>2. Calls'
  BY <1>a, <1>i, <1>b, <1>c, <1>e, <1>f, <1>g, PlanFacts DEF Inv, TypeOK, Calls
<1>3. Locks'
  BY <1>a, <1>b, <1>c, <1>e, <1>g, LocksStay DEF Inv, Inside
<1>4. Connection'
  BY <1>a, <1>i, <1>b, <1>c, <1>e, <1>f, <1>g, PlanFacts DEF Inv, TypeOK, Calls,
     Locks, Connection, Inside
<1>5. Requested'
  <2>1. CASE requests = <<>>
    BY <1>c, <2>1 DEF Requested
  <2>2. CASE requests # <<>>
    <3>1. /\ 1 \in DOMAIN requests /\ Len(requests) = 1 /\ DOMAIN requests = {1}
          /\ requests[1].cmd = "data" /\ requests[1].by = c /\ DataSent(c)
      BY <1>n, <2>2, LineFacts DEF Inv
    <3>2. todo[c] = Data
      BY <1>a, <1>n, <3>1 DEF DataSent
    <3>3. pc'[c] = "check" /\ todo'[c] = Dot
      BY <1>a, <1>e, <3>2, PlanFacts
    <3>4. DataSent(c)' /\ ~Waiting(c)'
      BY <3>3 DEF DataSent, Waiting
    <3> QED
      BY <1>c, <3>1, <3>4 DEF Requested
  <2> QED
    BY <2>1, <2>2
<1>6. Answered'
  BY <1>c, <1>n DEF Answered
<1>7. HandedOver'
  <2>1. \A d \in Callers : ~Woke(d)' /\ pc'[d] \notin {"ack", "next", "reply"}
    BY <1>a, <1>b, <1>c, <1>i DEF Inv, HandedOver, Woke
  <2> QED
    BY <1>a, <1>b, <1>c, <1>i, <2>1 DEF Inv, TypeOK, HandedOver
<1>8. Priority'
  <2>1. todo'[c] \in SayRest => level = want[c]
    <3>1. CASE todo[c] \in SayRest
      BY <3>1 DEF Inv, Priority
    <3>2. CASE Head(todo[c]) = "priority" /\ ~Refuses(c)
      <4>1. Fits(got[c], c)
        BY <1>a, <3>2 DEF Inv, HandedOver
      <4> QED
        BY <3>2, <4>1 DEF Fits, Own, Refuses
    <3> QED
      BY <1>a, <1>e, <3>1, <3>2, PlanFacts
  <2> QED
    BY <1>c, <1>e, <2>1 DEF Inv, Priority
<1> QED
  BY <1>1, <1>2, <1>3, <1>4, <1>5, <1>6, <1>7, <1>8 DEF Inv

LEMMA LeaveInv ==
  ASSUME ClientAssumption, Inv, NEW c \in Callers, Leave(c)
  PROVE  Inv'
<1> USE DEF callVars, readerVars, serverVars, Goto
<1>a. pc[c] = "leave" /\ todo[c] \in Plans
  BY DEF Inv, TypeOK, Calls, Leave
<1>b. /\ pc' \in [Callers -> Places] /\ pc'[c] \in {"out", "join"}
      /\ \A d \in Callers : d # c => pc'[d] = pc[d]
  BY DEF Inv, TypeOK, Places, Leave
<1>i. \A d \in Callers : d # c => pc[d] \in {"out", "lock"}
  BY <1>a DEF Inv, Locks, Inside
<1>c. UNCHANGED <<mode, stream, reply, ready_waiters, ack_waiting, want, buffer,
                  rpc, item, calls, alive, requests, replies, level, queued,
                  sent, called>>
  BY DEF Leave
<1>e. /\ todo' \in [Callers -> Plans \cup {<<>>}] /\ todo'[c] = <<>>
      /\ \A d \in Callers : d # c => todo'[d] = todo[d]
      /\ got' \in [Callers -> Reply \cup {NULL}] /\ got'[c] = NULL
      /\ \A d \in Callers : d # c => got'[d] = got[d]
  BY <1>a DEF Inv, TypeOK, Leave
<1>f. /\ ssip_mutex' = IF ssip_mutex = c THEN NULL ELSE ssip_mutex
      /\ ssip_mutex' \in Callers \cup {NULL}
      /\ pc'[c] = "join" => todo[c] \in Alone
  BY <1>a DEF Inv, TypeOK, Leave, Alone
<1>g. <<>> \notin Plans
  BY PlanFacts
<1>n. /\ \A d \in Callers : ~Waiting(d)
      /\ \A i \in DOMAIN replies : replies[i] = Event
      /\ rpc # "hand"
      /\ \A i \in DOMAIN requests :
           /\ i = 1 /\ Len(requests) = 1 /\ requests[i].cmd = "data"
           /\ requests[i].by = c /\ DataSent(c)
  <2>1. \A d \in Callers : ~Waiting(d)
    BY <1>a, <1>i DEF Inv, HandedOver, Waiting
  <2>2. \A d \in Callers : DataSent(d) => d = c
    BY <1>i, <2>1 DEF DataSent
  <2> QED
    BY <2>1, <2>2, NothingDue DEF Inv
<1>r. requests = <<>>
  <2>1. ~DataSent(c)
    BY <1>a, PlanFacts DEF Inv, HandedOver, Waiting, DataSent
  <2> QED
    BY <1>n, <2>1, LineFacts DEF Inv
<1>1. TypeOK'
  BY <1>a, <1>b, <1>c, <1>e, <1>f, <1>g DEF Inv, TypeOK
<1>2. Calls'
  BY <1>a, <1>i, <1>b, <1>c, <1>e, <1>f, <1>g DEF Inv, TypeOK, Calls
<1>3. Locks'
  <2>1. \A d \in Callers : d # c => ~Inside(d) /\ ~Inside(d)' /\ ssip_mutex # d
    BY <1>b, <1>i DEF Inv, Locks, Inside
  <2>2. pc'[c] = "join" => \A d \in Callers : d # c => pc'[d] = "out"
    BY <1>b, <1>f DEF Inv, Locks
  <2>3. \A d \in Callers : d # c /\ todo'[d] \in Alone => \A e \in Callers : d = e \/ pc'[e] = "out"
    <3>1. \A d \in Callers : d # c => todo[d] \notin Alone
      BY <1>a DEF Inv, Locks
    <3> QED
      BY <1>e, <3>1
  <2>4. todo'[c] \notin Alone /\ NULL \notin Callers
    BY <1>e, <1>g, ClientAssumption DEF Plans, ClientAssumption
  <2>5. \A d \in Callers : ssip_mutex' # d
    BY <1>f, <2>1, <2>4
  <2> QED
    BY <1>b, <2>1, <2>2, <2>3, <2>4, <2>5 DEF Locks, Inside
<1>4. Connection'
  BY <1>a, <1>i, <1>b, <1>c, <1>e, <1>f, <1>g DEF Inv, TypeOK, Calls, Locks,
     Connection, Inside
<1>5. Requested'
  BY <1>c, <1>r DEF Requested
<1>6. Answered'
  BY <1>c, <1>n DEF Answered
<1>7. HandedOver'
  <2>1. \A d \in Callers : ~Woke(d)' /\ pc'[d] \notin {"ack", "next", "reply"}
    BY <1>a, <1>b, <1>c, <1>i DEF Inv, HandedOver, Woke
  <2> QED
    BY <1>a, <1>b, <1>c, <1>i, <2>1 DEF Inv, TypeOK, HandedOver
<1>8. Priority'
  BY <1>c, <1>e, <1>g DEF Inv, Priority, Plans
<1> QED
  BY <1>1, <1>2, <1>3, <1>4, <1>5, <1>6, <1>7, <1>8 DEF Inv

LEMMA spd_closeInv ==
  ASSUME ClientAssumption, Inv, NEW c \in Callers, spd_close(c)
  PROVE  Inv'
<1> USE DEF callVars, readerVars, serverVars, Goto
<1>a. stream # "none" /\ \A d \in Callers : pc[d] = "out"
  BY DEF Inv, TypeOK, Calls, spd_close
<1>b. /\ pc' \in [Callers -> Places] /\ pc'[c] = "join"
      /\ \A d \in Callers : d # c => pc'[d] = pc[d]
  BY DEF Inv, TypeOK, Places, spd_close
<1>c. UNCHANGED <<mode, stream, reply, ssip_mutex, ready_waiters, ack_waiting,
                  todo, want, buffer, got, rpc, item, calls, alive, requests,
                  replies, level, queued, sent, called>>
  BY DEF spd_close
<1>d. \A d \in Callers : Own(d)' = Own(d)
  BY <1>c DEF Own
<1>w. Waits
  BY <1>a, <1>b, <1>c, <1>d, PlanFacts DEF Inv, TypeOK, Calls, Locks,
     HandedOver, Inside, Waits, Waiting
<1>s. \A d \in Callers : DataSent(d) => DataSent(d)' /\ Waiting(d)' = Waiting(d)
  BY <1>a, <1>b, <1>c, <1>d, PlanFacts DEF Inv, TypeOK, Calls, Locks,
     HandedOver, Inside, Waiting, DataSent
<1>1. TypeOK'
  BY <1>a, <1>b, <1>c DEF Inv, TypeOK
<1>2. Calls'
  BY <1>a, <1>b, <1>c DEF Inv, TypeOK, Calls
<1>3. Locks'
  <2>1. \A d \in Callers : ~Inside(d) /\ todo[d] = <<>> /\ ssip_mutex # d
    BY <1>a DEF Inv, Calls, Locks, Inside
  <2>2. \A d \in Callers : Inside(d)' => d = c
    BY <1>a, <1>b, <2>1 DEF Inside
  <2>3. <<>> \notin Alone
    BY PlanFacts DEF Plans
  <2> QED
    BY <1>a, <1>b, <1>c, <2>1, <2>2, <2>3 DEF Locks, Inside
<1>4. Connection'
  BY <1>a, <1>b, <1>c DEF Inv, TypeOK, Calls, Locks, Connection, Inside
<1>5. Requested'
  BY <1>c, <1>w, <1>s, RequestedStays DEF Inv
<1>6. Answered'
  BY <1>a, <1>c, <1>w, AnsweredStays DEF Inv
<1>7. HandedOver'
  BY <1>a, <1>b, <1>c, <1>d, PlanFacts DEF Inv, TypeOK, Calls, Locks,
     HandedOver, Inside, Waiting, Fits, Woke
<1>8. Priority'
  BY <1>a, <1>b, <1>c, <1>d, PlanFacts DEF Inv, TypeOK, Calls, Priority
<1> QED
  BY <1>1, <1>2, <1>3, <1>4, <1>5, <1>6, <1>7, <1>8 DEF Inv

LEMMA JoinInv ==
  ASSUME ClientAssumption, Inv, NEW c \in Callers, Join(c)
  PROVE  Inv'
<1> USE DEF callVars, readerVars, serverVars, Goto
<1>a. pc[c] = "join" /\ todo[c] = <<>>
  BY DEF Inv, TypeOK, Calls, Join
<1>b. /\ pc' \in [Callers -> Places] /\ pc'[c] = "out"
      /\ \A d \in Callers : d # c => pc'[d] = pc[d]
  BY DEF Inv, TypeOK, Places, Join
<1>c. UNCHANGED <<mode, ssip_mutex, todo, want, buffer, got, calls, alive,
                  level, queued, sent, called>>
  BY DEF Join
<1>d. \A d \in Callers : Own(d)' = Own(d)
  BY <1>c DEF Own
<1>e. /\ stream' = "none" /\ reply' = NULL /\ rpc' = "none" /\ item' = NULL
      /\ ready_waiters' = {} /\ ack_waiting' = FALSE
      /\ requests' = <<>> /\ replies' = <<>>
  BY DEF Join
<1>f. \A d \in Callers : pc'[d] = "out"
  BY <1>a, <1>b DEF Inv, Locks
<1>g. \A d \in Callers : ssip_mutex # d
  BY <1>a, <1>f, <1>b DEF Inv, Locks, Inside
<1>1. TypeOK'
  <2>1. <<>> \in Seq(Request) /\ <<>> \in Seq(Reply)
    OBVIOUS
  <2>2. TypeOK
    BY DEF Inv
  <2> QED
    BY <1>b, <1>c, <1>e, <2>1, <2>2, Zenon DEF TypeOK
<1>2. Calls'
  <2>1. \A d \in Callers : todo'[d] = <<>>
    BY <1>a, <1>b, <1>c, <1>f DEF Inv, Calls
  <2> QED
    BY <1>f, <2>1 DEF Calls
<1>3. Locks'
  <2>1. <<>> \notin Alone
    BY PlanFacts DEF Plans
  <2>2. \A d \in Callers : todo'[d] = <<>>
    BY <1>a, <1>b, <1>c, <1>f DEF Inv, Calls
  <2> QED
    BY <1>c, <1>f, <1>g, <2>1, <2>2 DEF Locks, Inside
<1>4. Connection'
  BY <1>c, <1>e, <1>f DEF Connection
<1>5. Requested'
  BY <1>e DEF Requested
<1>6. Answered'
  BY <1>e DEF Answered
<1>7. HandedOver'
  BY <1>e, <1>f DEF HandedOver, Woke
<1>8. Priority'
  BY <1>c DEF Inv, Priority
<1> QED
  BY <1>1, <1>2, <1>3, <1>4, <1>5, <1>6, <1>7, <1>8 DEF Inv

-----------------------------------------------------------------------------
(* The reading thread.                                                     *)

LEMMA ReaderGetsInv ==
  ASSUME ClientAssumption, Inv, ReaderGets
  PROVE  Inv'
<1> USE DEF callVars, readerVars, serverVars, Goto
<1>a. rpc = "get" /\ mode = "threaded"
  BY DEF Inv, TypeOK, Calls, ReaderGets, Connection
<1>c. UNCHANGED <<mode, reply, ssip_mutex, ready_waiters, ack_waiting, pc, todo,
                  want, buffer, got, calls, alive, requests, level, queued,
                  sent, called>>
  BY DEF ReaderGets
<1>d. \A d \in Callers : Own(d)' = Own(d)
  BY <1>c DEF Own
<1>e. \/ /\ replies # <<>> /\ item' = Head(replies) /\ replies' = Tail(replies)
         /\ rpc' = IF item' = Event THEN "event" ELSE "hand"
         /\ UNCHANGED stream
      \/ /\ replies = <<>> /\ ~alive /\ stream' = "null" /\ rpc' = "broken"
         /\ UNCHANGED <<item, replies>>
  BY <1>a DEF ReaderGets
<1>f. replies' \in Seq(Reply) /\ item' \in Reply \cup {NULL}
  <2>1. replies \in Seq(Reply) /\ item \in Reply \cup {NULL}
    BY DEF Inv, TypeOK
  <2> QED
    BY <1>e, <2>1, TailFacts
<1>w. Waits
  BY <1>c, <1>d DEF Waits, Waiting
<1>s. \A d \in Callers : DataSent(d) => DataSent(d)' /\ Waiting(d)' = Waiting(d)
  BY <1>c DEF Waiting, DataSent
<1>1. TypeOK'
  BY <1>a, <1>c, <1>e, <1>f DEF Inv, TypeOK
<1>2. Calls'
  BY <1>a, <1>c, <1>e, <1>f DEF Inv, TypeOK, Calls
<1>3. Locks'
  BY <1>a, <1>c, <1>e, <1>f DEF Inv, TypeOK, Calls, Locks, Inside
<1>4. Connection'
  BY <1>a, <1>c, <1>e DEF Inv, Connection
<1>5. Requested'
  BY <1>c, <1>w, <1>s, RequestedStays DEF Inv
<1>6. Answered'
  <2>1. ASSUME NEW r \in Reply, Answers(r) PROVE Answers(r)'
    BY <1>c, <1>w, <2>1, ClientAssumption, LineFacts
       DEF Inv, Answers, Fits, Waits, Reply, ClientAssumption
  <2>2. CASE replies = <<>>
    BY <1>e, <2>2 DEF Answered
  <2>3. CASE replies # <<>>
    <3>1. /\ Len(replies) \in Nat \ {0} /\ DOMAIN replies = 1..Len(replies)
          /\ DOMAIN replies' = 1..(Len(replies) - 1) /\ 1 \in DOMAIN replies
          /\ \A i \in 1..(Len(replies) - 1) : replies'[i] = replies[i + 1]
          /\ item' = replies[1] /\ replies' = Tail(replies)
      BY <1>e, <2>3, TailFacts DEF Inv, TypeOK
    <3>2. \A i \in DOMAIN replies : replies[i] \in Reply
      BY LineFacts DEF Inv
    <3>3. \A i \in DOMAIN replies' : i + 1 \in DOMAIN replies /\ replies'[i] = replies[i + 1]
      BY <3>1
    <3>4. \A i \in DOMAIN replies : replies[i] # Event =>
            /\ \E q \in Reply : q = replies[i] /\ Answers(q)'
            /\ requests = <<>>
            /\ \A j \in DOMAIN replies : replies[j] # Event => j = i
      BY <2>1, <3>2 DEF Inv, Answered
    <3>5. ASSUME NEW i \in DOMAIN replies', replies'[i] # Event
          PROVE  /\ \E q \in Reply : q = replies'[i] /\ Answers(q)'
                 /\ requests = <<>> /\ replies[1] = Event
                 /\ \A j \in DOMAIN replies' : replies'[j] # Event => j = i
      <4>1. i + 1 \in DOMAIN replies /\ replies'[i] = replies[i + 1] /\ i \in Nat /\ i # 0
        BY <3>1, <3>3
      <4>2. /\ \E q \in Reply : q = replies[i + 1] /\ Answers(q)'
            /\ requests = <<>>
            /\ \A j \in DOMAIN replies : replies[j] # Event => j = i + 1
        BY <3>4, <3>5, <4>1
      <4>3. replies[1] = Event
        BY <3>1, <4>1, <4>2
      <4>4. ASSUME NEW j \in DOMAIN replies', replies'[j] # Event PROVE j = i
        <5>1. j + 1 \in DOMAIN replies /\ replies[j + 1] # Event /\ j \in Nat
          BY <3>1, <3>3, <4>4
        <5> QED
          BY <4>1, <4>2, <5>1
      <4> QED
        BY <4>1, <4>2, <4>3, <4>4
    <3>6. CASE item' = Event
      BY <1>c, <1>e, <2>3, <3>5, <3>6 DEF Answered
    <3>7. CASE item' # Event
      <4>1. \A i \in DOMAIN replies' : replies'[i] = Event
        BY <3>1, <3>5, <3>7
      <4>2. item' \in Reply /\ Answers(item') /\ requests = <<>>
        BY <3>1, <3>2, <3>7 DEF Inv, Answered
      <4>3. Answers(item)'
        BY <1>c, <1>w, <4>2, LineFacts DEF Inv, Answers, Fits, Waits, Reply
      <4> QED
        BY <1>c, <4>1, <4>2, <4>3 DEF Answered
    <3> QED
      BY <3>6, <3>7
  <2> QED
    BY <2>2, <2>3
<1>7. HandedOver'
  <2>1. \A d \in Callers : ~Woke(d) /\ pc[d] # "ack"
    BY <1>a DEF Inv, HandedOver
  <2>2. \A r : \A d \in Callers : Fits(r, d)' <=> Fits(r, d)
    BY <1>c, <1>d DEF Fits
  <2> QED
    BY <1>c, <2>1, <2>2 DEF Inv, HandedOver, Woke, Fits
<1>8. Priority'
  BY <1>a, <1>c, <1>e, <1>f, <1>d, PlanFacts DEF Inv, TypeOK, Calls, Priority
<1> QED
  BY <1>1, <1>2, <1>3, <1>4, <1>5, <1>6, <1>7, <1>8 DEF Inv

LEMMA ReaderCallsBackInv ==
  ASSUME ClientAssumption, Inv, ReaderCallsBack
  PROVE  Inv'
<1> USE DEF callVars, readerVars, serverVars, Goto
<1>a. rpc = "event" /\ rpc' = "get"
  BY DEF Inv, TypeOK, Calls, ReaderCallsBack
<1>c. UNCHANGED <<mode, stream, reply, ssip_mutex, ready_waiters, ack_waiting,
                  pc, todo, want, buffer, got, item, calls, alive, requests,
                  replies, level, queued, sent>>
  BY DEF ReaderCallsBack
<1>d. \A d \in Callers : Own(d)' = Own(d)
  BY <1>c DEF Own
<1>w. Waits
  BY <1>a, <1>c, <1>d, PlanFacts DEF Inv, TypeOK, Calls, Locks, HandedOver,
     Inside, Waits, Waiting
<1>s. \A d \in Callers : DataSent(d) => DataSent(d)' /\ Waiting(d)' = Waiting(d)
  BY <1>a, <1>c, <1>d, PlanFacts DEF Inv, TypeOK, Calls, Locks, HandedOver,
     Inside, Waiting, DataSent
<1>1. TypeOK'
  BY <1>a, <1>c DEF Inv, TypeOK
<1>2. Calls'
  BY <1>a, <1>c DEF Inv, TypeOK, Calls
<1>3. Locks'
  BY <1>a, <1>c DEF Inv, TypeOK, Calls, Locks, Inside
<1>4. Connection'
  BY <1>a, <1>c DEF Inv, TypeOK, Calls, Locks, Connection, Inside
<1>5. Requested'
  BY <1>c, <1>w, <1>s, RequestedStays DEF Inv
<1>6. Answered'
  BY <1>a, <1>c, <1>w, AnsweredStays DEF Inv
<1>7. HandedOver'
  BY <1>a, <1>c, <1>d, PlanFacts DEF Inv, TypeOK, Calls, Locks, HandedOver,
     Inside, Waiting, Fits, Woke
<1>8. Priority'
  BY <1>a, <1>c, <1>d, PlanFacts DEF Inv, TypeOK, Calls, Priority
<1> QED
  BY <1>1, <1>2, <1>3, <1>4, <1>5, <1>6, <1>7, <1>8 DEF Inv

LEMMA ReaderHandsOverInv ==
  ASSUME ClientAssumption, Inv, ReaderHandsOver
  PROVE  Inv'
<1> USE DEF callVars, readerVars, serverVars, Goto
<1>a. rpc = "hand" /\ mode = "threaded"
  BY DEF Inv, TypeOK, Calls, ReaderHandsOver, Connection
<1>c. UNCHANGED <<mode, stream, ssip_mutex, pc, todo, want, buffer, got, item,
                  calls, alive, requests, replies, level, queued, sent, called>>
  BY DEF ReaderHandsOver
<1>d. \A d \in Callers : Own(d)' = Own(d)
  BY <1>c DEF Own
<1>e. reply' = item /\ ack_waiting' = TRUE /\ rpc' = "wait"
  BY DEF ReaderHandsOver
<1>f. /\ item \in Reply /\ item.for.by \in ready_waiters /\ item.for.by \in Callers
      /\ pc[item.for.by] = "wait" /\ Fits(item, item.for.by)
      /\ requests = <<>> /\ \A i \in DOMAIN replies : replies[i] = Event
  BY <1>a, LineFacts DEF Inv, Answered, Answers, HandedOver, Waiting, Reply
<1>g. \A d \in Callers : d # item.for.by => pc[d] \in {"out", "lock"} /\ d \notin ready_waiters
  BY <1>f DEF Inv, Locks, Inside, HandedOver
<1>h. ready_waiters' = {}
  <2>1. ready_waiters = {item.for.by}
    BY <1>f, <1>g DEF Inv, TypeOK
  <2> QED
    BY <1>f, <2>1 DEF ReaderHandsOver, SignalReady
<1>1. TypeOK'
  BY <1>a, <1>c, <1>e, <1>f, <1>g, <1>h DEF Inv, TypeOK
<1>2. Calls'
  BY <1>a, <1>c, <1>e, <1>f, <1>g, <1>h DEF Inv, TypeOK, Calls
<1>3. Locks'
  BY <1>a, <1>c, <1>e, <1>f, <1>g, <1>h DEF Inv, TypeOK, Calls, Locks, Inside
<1>4. Connection'
  BY <1>a, <1>c, <1>e, <1>h DEF Inv, Connection
<1>5. Requested'
  BY <1>c, <1>f DEF Requested
<1>6. Answered'
  BY <1>c, <1>e, <1>f DEF Answered
<1>7. HandedOver'
  <2>1. Fits(reply, item.for.by)'
    BY <1>c, <1>d, <1>e, <1>f DEF Fits
  <2>2. \A d \in Callers : Woke(d)' => d = item.for.by
    BY <1>c, <1>g DEF Woke
  <2> QED
    BY <1>c, <1>e, <1>f, <1>g, <1>h, <2>1, <2>2 DEF HandedOver
<1>8. Priority'
  BY <1>a, <1>c, <1>e, <1>f, <1>g, <1>h, <1>d, PlanFacts DEF Inv, TypeOK,
     Calls, Priority
<1> QED
  BY <1>1, <1>2, <1>3, <1>4, <1>5, <1>6, <1>7, <1>8 DEF Inv

LEMMA ReaderGoesOnInv ==
  ASSUME ClientAssumption, Inv, ReaderGoesOn
  PROVE  Inv'
<1> USE DEF callVars, readerVars, serverVars, Goto
<1>a. rpc = "wait" /\ ~ack_waiting /\ rpc' = "get"
  BY DEF Inv, TypeOK, Calls, ReaderGoesOn
<1>c. UNCHANGED <<mode, stream, reply, ssip_mutex, ready_waiters, ack_waiting,
                  pc, todo, want, buffer, got, item, calls, alive, requests,
                  replies, level, queued, sent, called>>
  BY DEF ReaderGoesOn
<1>d. \A d \in Callers : Own(d)' = Own(d)
  BY <1>c DEF Own
<1>w. Waits
  BY <1>a, <1>c, <1>d, PlanFacts DEF Inv, TypeOK, Calls, Locks, HandedOver,
     Inside, Waits, Waiting
<1>s. \A d \in Callers : DataSent(d) => DataSent(d)' /\ Waiting(d)' = Waiting(d)
  BY <1>a, <1>c, <1>d, PlanFacts DEF Inv, TypeOK, Calls, Locks, HandedOver,
     Inside, Waiting, DataSent
<1>1. TypeOK'
  BY <1>a, <1>c DEF Inv, TypeOK
<1>2. Calls'
  BY <1>a, <1>c DEF Inv, TypeOK, Calls
<1>3. Locks'
  BY <1>a, <1>c DEF Inv, TypeOK, Calls, Locks, Inside
<1>4. Connection'
  BY <1>a, <1>c DEF Inv, TypeOK, Calls, Locks, Connection, Inside
<1>5. Requested'
  BY <1>c, <1>w, <1>s, RequestedStays DEF Inv
<1>6. Answered'
  BY <1>a, <1>c, <1>w, AnsweredStays DEF Inv
<1>7. HandedOver'
  BY <1>a, <1>c, <1>d, PlanFacts DEF Inv, TypeOK, Calls, Locks, HandedOver,
     Inside, Waiting, Fits, Woke
<1>8. Priority'
  BY <1>a, <1>c, <1>d, PlanFacts DEF Inv, TypeOK, Calls, Priority
<1> QED
  BY <1>1, <1>2, <1>3, <1>4, <1>5, <1>6, <1>7, <1>8 DEF Inv

LEMMA ReaderBrokenInv ==
  ASSUME ClientAssumption, Inv, ReaderBroken
  PROVE  Inv'
<1> USE DEF callVars, readerVars, serverVars, Goto
<1>a. rpc = "broken" /\ reply' = NULL /\ rpc' = "signal"
  BY DEF Inv, TypeOK, Calls, ReaderBroken
<1>c. UNCHANGED <<mode, stream, ssip_mutex, ready_waiters, ack_waiting, pc,
                  todo, want, buffer, got, item, calls, alive, requests,
                  replies, level, queued, sent, called>>
  BY DEF ReaderBroken
<1>d. \A d \in Callers : Own(d)' = Own(d)
  BY <1>c DEF Own
<1>w. Waits
  BY <1>a, <1>c, <1>d, PlanFacts DEF Inv, TypeOK, Calls, Locks, HandedOver,
     Inside, Waits, Waiting
<1>s. \A d \in Callers : DataSent(d) => DataSent(d)' /\ Waiting(d)' = Waiting(d)
  BY <1>a, <1>c, <1>d, PlanFacts DEF Inv, TypeOK, Calls, Locks, HandedOver,
     Inside, Waiting, DataSent
<1>1. TypeOK'
  BY <1>a, <1>c DEF Inv, TypeOK
<1>2. Calls'
  BY <1>a, <1>c DEF Inv, TypeOK, Calls
<1>3. Locks'
  BY <1>a, <1>c DEF Inv, TypeOK, Calls, Locks, Inside
<1>4. Connection'
  BY <1>a, <1>c DEF Inv, TypeOK, Calls, Locks, Connection, Inside
<1>5. Requested'
  BY <1>c, <1>w, <1>s, RequestedStays DEF Inv
<1>6. Answered'
  BY <1>a, <1>c, <1>w, AnsweredStays DEF Inv
<1>7. HandedOver'
  BY <1>a, <1>c, <1>d, PlanFacts DEF Inv, TypeOK, Calls, Locks, HandedOver,
     Inside, Waiting, Fits, Woke
<1>8. Priority'
  BY <1>a, <1>c, <1>d, PlanFacts DEF Inv, TypeOK, Calls, Priority
<1> QED
  BY <1>1, <1>2, <1>3, <1>4, <1>5, <1>6, <1>7, <1>8 DEF Inv

LEMMA ReaderSignalsInv ==
  ASSUME ClientAssumption, Inv, ReaderSignals
  PROVE  Inv'
<1> USE DEF callVars, readerVars, serverVars, Goto
<1>a. rpc = "signal" /\ reply = NULL /\ stream = "null"
  BY DEF Inv, TypeOK, Calls, ReaderSignals, Connection
<1>c. UNCHANGED <<mode, stream, reply, ssip_mutex, ack_waiting, pc, todo, want,
                  buffer, got, item, calls, alive, requests, replies, level,
                  queued, sent, called>>
  BY DEF ReaderSignals
<1>d. \A d \in Callers : Own(d)' = Own(d)
  BY <1>c DEF Own
<1>e. rpc' = "gone" /\ ready_waiters' \subseteq ready_waiters
  BY DEF ReaderSignals, SignalReady
<1>f. requests = <<>> /\ replies = <<>>
  BY <1>a DEF Inv, Connection
<1>1. TypeOK'
  BY <1>a, <1>c, <1>e, <1>f DEF Inv, TypeOK
<1>2. Calls'
  BY <1>a, <1>c, <1>e, <1>f DEF Inv, TypeOK, Calls
<1>3. Locks'
  BY <1>a, <1>c, <1>e, <1>f DEF Inv, TypeOK, Calls, Locks, Inside
<1>4. Connection'
  BY <1>a, <1>c, <1>e DEF Inv, Connection
<1>5. Requested'
  BY <1>c, <1>f DEF Requested
<1>6. Answered'
  BY <1>c, <1>e, <1>f DEF Answered
<1>7. HandedOver'
  <2>1. \A d \in Callers : pc[d] # "ack"
    BY <1>a DEF Inv, HandedOver
  <2>2. \A r : \A d \in Callers : Fits(r, d)' <=> Fits(r, d)
    BY <1>c, <1>d DEF Fits
  <2> QED
    BY <1>a, <1>c, <1>e, <2>1, <2>2 DEF Inv, HandedOver, Woke, Fits
<1>8. Priority'
  BY <1>a, <1>c, <1>e, <1>f, <1>d, PlanFacts DEF Inv, TypeOK, Calls, Priority
<1> QED
  BY <1>1, <1>2, <1>3, <1>4, <1>5, <1>6, <1>7, <1>8 DEF Inv

-----------------------------------------------------------------------------
(* The server.                                                             *)

LEMMA ServeInv ==
  ASSUME ClientAssumption, Inv, Serve
  PROVE  Inv'
<1> USE DEF callVars, readerVars, serverVars, Goto
<1>a. alive /\ requests # <<>> /\ requests' = Tail(requests)
  BY DEF Inv, TypeOK, Calls, Serve
<1>c. UNCHANGED <<mode, stream, reply, ssip_mutex, ready_waiters, ack_waiting,
                  pc, todo, want, buffer, got, rpc, item, calls, alive, sent,
                  called>>
  BY DEF Serve
<1>d. \A d \in Callers : Own(d)' = Own(d)
  BY <1>c DEF Own
<1>r. PICK r \in Request : r = Head(requests)
  <2>1. requests \in Seq(Request)
    BY DEF Inv, TypeOK
  <2> QED
    BY <1>a, <2>1, TailFacts
<1>e. /\ requests \in Seq(Request) /\ requests' \in Seq(Request) /\ Len(requests) \in Nat \ {0}
      /\ DOMAIN requests = 1..Len(requests) /\ DOMAIN requests' = 1..(Len(requests) - 1)
      /\ \A i \in 1..(Len(requests) - 1) : requests'[i] = requests[i + 1]
      /\ r = requests[1] /\ r \in Request /\ 1 \in DOMAIN requests
      /\ Len(requests) = 1 => requests' = <<>>
  <2>1. requests \in Seq(Request)
    BY DEF Inv, TypeOK
  <2> QED
    BY <1>a, <1>r, <2>1, TailFacts
<1>f. /\ r.by \in Callers /\ r.level \in Levels /\ r.cmd \in Commands
      /\ \A ok \in BOOLEAN : [ok |-> ok, for |-> r] \in Reply
      /\ [by |-> r.by, want |-> r.level, level |-> level] \in Message
  BY <1>e DEF Inv, TypeOK, Request, Reply, Message
<1>g. \/ r.cmd = "data" /\ UNCHANGED <<replies, level, queued>>
      \/ /\ r.cmd # "data"
         /\ \E a \in Reply : /\ a.for = r /\ replies' = Append(replies, a)
                             /\ a.ok /\ r.cmd = "priority" => level' = r.level
         /\ level' = level \/ (r.cmd = "priority" /\ level' = r.level)
         /\ \/ UNCHANGED queued
            \/ /\ r.cmd = "dot" /\ level' = level
               /\ \E m \in Message : /\ m.want = r.level /\ m.level = level
                                     /\ queued' = Append(queued, m)
  <2>1. CASE r.cmd = "data"
    BY <1>r, <2>1 DEF Serve
  <2>2. CASE r.cmd # "data"
    <3>1. \/ /\ replies' = Append(replies, [ok |-> TRUE, for |-> r])
             /\ level' = IF r.cmd = "priority" THEN r.level ELSE level
             /\ queued' = IF r.cmd = "dot"
                          THEN Append(queued, [by |-> r.by, want |-> r.level,
                                               level |-> level])
                          ELSE queued
          \/ /\ replies' = Append(replies, [ok |-> FALSE, for |-> r])
             /\ UNCHANGED <<level, queued>>
      BY <1>r, <2>2 DEF Serve
    <3>2. /\ [ok |-> TRUE, for |-> r] \in Reply /\ [ok |-> FALSE, for |-> r] \in Reply
          /\ [by |-> r.by, want |-> r.level, level |-> level] \in Message
      BY <1>f
    <3>3. \E a \in Reply : /\ a.for = r /\ replies' = Append(replies, a)
                           /\ a.ok /\ r.cmd = "priority" => level' = r.level
      <4>1. CASE replies' = Append(replies, [ok |-> TRUE, for |-> r])
                 /\ (r.cmd = "priority" => level' = r.level)
        BY <3>2, <4>1
      <4>2. CASE replies' = Append(replies, [ok |-> FALSE, for |-> r])
        BY <3>2, <4>2
      <4> QED
        BY <3>1, <4>1, <4>2
    <3>4. UNCHANGED queued
          \/ /\ r.cmd = "dot" /\ level' = level
             /\ \E m \in Message : /\ m.want = r.level /\ m.level = level
                                   /\ queued' = Append(queued, m)
      <4>1. CASE UNCHANGED queued
        BY <4>1
      <4>2. CASE /\ r.cmd = "dot" /\ level' = level
                 /\ queued' = Append(queued, [by |-> r.by, want |-> r.level,
                                              level |-> level])
        BY <3>2, <4>2
      <4> QED
        BY <3>1, <4>1, <4>2
    <3> QED
      BY <2>2, <3>1, <3>3, <3>4
  <2> QED
    BY <2>1, <2>2
<1>h. r.cmd # "data" => /\ Due(r) /\ Len(requests) = 1 /\ requests' = <<>>
                        /\ \A d \in Callers : d # r.by => pc[d] \in {"out", "lock"}
                        /\ pc[r.by] \in {"reply", "wait"} /\ ~Woke(r.by)
  <2>1. r.cmd # "data" => Due(r) /\ Len(requests) = 1
    BY <1>e DEF Inv, Requested
  <2>2. Waiting(r.by) => /\ pc[r.by] \in {"reply", "wait"} /\ ~Woke(r.by)
                         /\ \A d \in Callers : d # r.by => pc[d] \in {"out", "lock"}
    BY <1>f DEF Inv, Locks, Inside, Waiting, Woke
  <2> QED
    BY <1>e, <2>1, <2>2 DEF Due
<1>w. Waits /\ \A d \in Callers : Waiting(d)' = Waiting(d) /\ DataSent(d)' = DataSent(d)
  BY <1>c, <1>d DEF Waits, Waiting, DataSent
<1>1. TypeOK'
  <2>1. level' \in Levels
    BY <1>f, <1>g DEF Inv, TypeOK
  <2>2. replies' \in Seq(Reply)
    <3>1. replies \in Seq(Reply)
      BY DEF Inv, TypeOK
    <3>2. ASSUME NEW a \in Reply, replies' = Append(replies, a) PROVE replies' \in Seq(Reply)
      BY <3>1, <3>2, AppendFacts
    <3> QED
      BY <1>g, <3>1, <3>2
  <2>3. queued' \in Seq(Message)
    <3>1. queued \in Seq(Message)
      BY DEF Inv, TypeOK
    <3>2. ASSUME NEW m \in Message, queued' = Append(queued, m) PROVE queued' \in Seq(Message)
      BY <3>1, <3>2, AppendFacts
    <3> QED
      BY <1>g, <3>1, <3>2
  <2> QED
    BY <1>c, <1>e, <2>1, <2>2, <2>3 DEF Inv, TypeOK
<1>2. Calls'
  BY <1>a, <1>c, <1>e, <1>f, <1>g, <1>h DEF Inv, TypeOK, Calls
<1>3. Locks'
  BY <1>a, <1>c, <1>e, <1>f, <1>g, <1>h DEF Inv, TypeOK, Calls, Locks, Inside
<1>4. Connection'
  <2>1. CASE mode = "single"
    <3>1. rpc = "none" /\ stream = "open" /\ \A i \in DOMAIN replies : replies[i] # Event
      BY <1>a, <2>1 DEF Inv, TypeOK, Connection
    <3>2. \A a \in Reply : a.for = r => a # Event
      BY <1>r, ClientAssumption DEF Event, ClientAssumption
    <3>3. \A i \in DOMAIN replies' : replies'[i] # Event
      <4>1. replies \in Seq(Reply)
        BY DEF Inv, TypeOK
      <4>2. ASSUME NEW a \in Reply, a # Event, replies' = Append(replies, a)
            PROVE  \A i \in DOMAIN replies' : replies'[i] # Event
        BY <3>1, <4>1, <4>2, AppendFacts
      <4> QED
        BY <1>g, <3>1, <3>2, <4>2
    <3> QED
      BY <1>a, <1>c, <3>1, <3>3 DEF Connection
  <2>2. CASE mode # "single"
    <3>1. stream = "open"
      BY <1>a DEF Inv, TypeOK, Connection
    <3> QED
      BY <1>a, <1>c, <2>2, <3>1 DEF Inv, Connection
  <2> QED
    BY <2>1, <2>2
<1>5. Requested'
  <2>1. CASE requests' = <<>>
    BY <2>1 DEF Requested
  <2>2. CASE requests' # <<>>
    <3>1. r.cmd = "data" /\ Len(requests) = 2 /\ 2 \in DOMAIN requests
      <4>1. Len(requests) \in {1, 2}
        BY <1>e DEF Inv, Requested
      <4> QED
        BY <1>e, <1>h, <2>2, <4>1
    <3>2. Due(requests[2])
      BY <1>e, <3>1 DEF Inv, Requested
    <3>3. requests[2].by \in Callers
      BY <3>1, LineFacts DEF Inv
    <3>4. PICK q \in Request : q = requests[2] /\ Due(q)'
      BY <1>c, <1>w, <3>1, <3>2, <3>3, LineFacts DEF Inv, Due, Waits
    <3>5. DOMAIN requests' = {1} /\ requests'[1] = q /\ Len(requests') = 1
      BY <1>e, <3>1, <3>4
    <3> QED
      BY <3>4, <3>5 DEF Requested, Due
  <2> QED
    BY <2>1, <2>2
<1>6. Answered'
  <2>1. (\A i \in DOMAIN replies : replies[i] = Event) /\ rpc # "hand"
    BY <1>a DEF Inv, Answered
  <2>2. CASE r.cmd = "data"
    BY <1>c, <1>g, <2>1, <2>2 DEF Answered
  <2>3. CASE r.cmd # "data"
    <3>1. PICK a \in Reply : /\ a.for = r /\ replies' = Append(replies, a)
                             /\ a.ok /\ r.cmd = "priority" => level' = r.level
      BY <1>g, <2>3
    <3>2. Answers(a)'
      <4>1. Waiting(r.by)' /\ r = Own(r.by)' /\ r # NULL
        BY <1>f, <1>h, <1>r, <1>w, <2>3, ClientAssumption DEF Due, Waits, ClientAssumption
      <4> QED
        BY <1>c, <3>1, <4>1 DEF Answers, Fits
    <3>3. replies \in Seq(Reply)
      BY DEF Inv, TypeOK
    <3>4. /\ DOMAIN replies' = 1..(Len(replies) + 1) /\ DOMAIN replies = 1..Len(replies)
          /\ Len(replies) \in Nat /\ replies'[Len(replies) + 1] = a
          /\ \A i \in DOMAIN replies : replies'[i] = replies[i]
      BY <3>1, <3>3, AppendFacts
    <3>5. \A i \in DOMAIN replies' : replies'[i] # Event => i = Len(replies) + 1
      BY <2>1, <3>4
    <3> QED
      BY <1>c, <1>h, <2>1, <2>3, <3>2, <3>4, <3>5 DEF Answered
  <2> QED
    BY <2>2, <2>3
<1>7. HandedOver'
  <2>1. CASE r.cmd = "data"
    <3>1. \A q : \A d \in Callers : Fits(q, d)' <=> Fits(q, d)
      BY <1>c, <1>d, <1>g, <2>1 DEF Fits
    <3> QED
      BY <1>c, <3>1 DEF Inv, HandedOver, Woke, Fits
  <2>2. CASE r.cmd # "data"
    <3>1. \A d \in Callers : ~Woke(d)' /\ pc'[d] \notin {"ack", "next"}
      BY <1>c, <1>h, <2>2 DEF Woke
    <3> QED
      BY <1>c, <3>1 DEF Inv, HandedOver
  <2> QED
    BY <2>1, <2>2
<1>8. Priority'
  <2>1. \A d \in Callers : todo[d] \in SayRest => level' = want[d]
    <3>1. CASE level' = level
      BY <3>1 DEF Inv, Priority
    <3>2. CASE r.cmd = "priority"
      <4>1. \A d \in Callers : todo[d] \in SayRest => d = r.by
        <5>1. <<>> \notin SayRest
          BY PlanFacts DEF Plans
        <5> QED
          BY <1>h, <3>2, <5>1 DEF Inv, Calls
      <4>2. todo[r.by] \notin SayRest
        BY <1>f, <1>h, <3>2, PlanFacts DEF Inv, TypeOK, Due, Own, Plans
      <4> QED
        BY <4>1, <4>2
    <3> QED
      BY <1>g, <3>1, <3>2
  <2>2. \A i \in DOMAIN queued' : queued'[i].level = queued'[i].want
    <3>1. CASE UNCHANGED queued
      BY <3>1 DEF Inv, Priority
    <3>2. CASE /\ r.cmd = "dot"
               /\ \E m \in Message : /\ m.want = r.level /\ m.level = level
                                     /\ queued' = Append(queued, m)
      <4>1. r.level = level
        <5>1. Due(r) /\ todo[r.by] \in Plans
          <6>1. r.cmd # "data"
            BY <3>2
          <6>2. Due(r) /\ pc[r.by] \notin {"out", "join"}
            BY <1>h, <6>1
          <6> QED
            BY <1>f, <6>2 DEF Inv, TypeOK, Calls
        <5>2. Head(todo[r.by]) = "dot" /\ r.level = want[r.by]
          BY <3>2, <5>1 DEF Due, Own
        <5> QED
          BY <1>f, <5>1, <5>2, PlanFacts DEF Inv, Priority
      <4>2. queued \in Seq(Message)
        BY DEF Inv, TypeOK
      <4>3. PICK m \in Message : /\ m.want = r.level /\ m.level = level
                                 /\ queued' = Append(queued, m)
        BY <3>2
      <4>4. /\ DOMAIN queued' = 1..(Len(queued) + 1) /\ DOMAIN queued = 1..Len(queued)
            /\ Len(queued) \in Nat /\ queued'[Len(queued) + 1] = m
            /\ \A i \in DOMAIN queued : queued'[i] = queued[i]
        BY <4>2, <4>3, AppendFacts
      <4> QED
        BY <4>1, <4>3, <4>4 DEF Inv, Priority
    <3> QED
      BY <1>g, <3>1, <3>2
  <2> QED
    BY <1>c, <2>1, <2>2 DEF Priority
<1> QED
  BY <1>1, <1>2, <1>3, <1>4, <1>5, <1>6, <1>7, <1>8 DEF Inv

LEMMA SendEventInv ==
  ASSUME ClientAssumption, Inv, SendEvent
  PROVE  Inv'
<1> USE DEF callVars, readerVars, serverVars, Goto
<1>a. mode = "threaded" /\ stream = "open"
  BY DEF Inv, TypeOK, Calls, SendEvent
<1>c. UNCHANGED <<mode, stream, reply, ssip_mutex, ready_waiters, ack_waiting,
                  pc, todo, want, buffer, got, rpc, item, calls, alive,
                  requests, level, queued, called>>
  BY DEF SendEvent
<1>d. \A d \in Callers : Own(d)' = Own(d)
  BY <1>c DEF Own
<1>e. replies' = Append(replies, Event) /\ Event \in Reply /\ replies \in Seq(Reply)
  BY DEF Inv, TypeOK, SendEvent, Event, Reply
<1>f. /\ replies' \in Seq(Reply) /\ Len(replies) \in Nat
      /\ DOMAIN replies = 1..Len(replies) /\ DOMAIN replies' = 1..(Len(replies) + 1)
      /\ \A i \in 1..Len(replies) : replies'[i] = replies[i]
      /\ replies'[Len(replies) + 1] = Event
  BY <1>e, AppendFacts
<1>w. Waits
  BY <1>c, <1>d DEF Waits, Waiting
<1>s. \A d \in Callers : DataSent(d) => DataSent(d)' /\ Waiting(d)' = Waiting(d)
  BY <1>c DEF Waiting, DataSent
<1>1. TypeOK'
  BY <1>a, <1>c, <1>e, <1>f DEF Inv, TypeOK
<1>2. Calls'
  BY <1>a, <1>c, <1>e, <1>f DEF Inv, TypeOK, Calls
<1>3. Locks'
  BY <1>a, <1>c, <1>e, <1>f DEF Inv, TypeOK, Calls, Locks, Inside
<1>4. Connection'
  BY <1>a, <1>c DEF Inv, Connection
<1>5. Requested'
  BY <1>c, <1>w, <1>s, RequestedStays DEF Inv
<1>6. Answered'
  <2>1. \A i \in DOMAIN replies' : replies'[i] # Event
        => i \in DOMAIN replies /\ replies'[i] = replies[i]
    BY <1>f
  <2>2. ASSUME NEW r \in Reply, Answers(r) PROVE Answers(r)'
    BY <1>c, <1>w, <2>2, ClientAssumption, LineFacts
       DEF Inv, Answers, Fits, Waits, Reply, ClientAssumption
  <2>3. \A i \in DOMAIN replies : replies[i] \in Reply
    BY LineFacts DEF Inv
  <2> QED
    BY <1>c, <2>1, <2>2, <2>3 DEF Inv, Answered
<1>7. HandedOver'
  <2>1. \A r : \A d \in Callers : Fits(r, d)' <=> Fits(r, d)
    BY <1>c, <1>d DEF Fits
  <2> QED
    BY <1>c, <2>1 DEF Inv, HandedOver, Woke, Fits
<1>8. Priority'
  BY <1>a, <1>c, <1>e, <1>f, <1>d, PlanFacts DEF Inv, TypeOK, Calls, Priority
<1> QED
  BY <1>1, <1>2, <1>3, <1>4, <1>5, <1>6, <1>7, <1>8 DEF Inv

LEMMA CloseSocketInv ==
  ASSUME ClientAssumption, Inv, CloseSocket
  PROVE  Inv'
<1> USE DEF callVars, readerVars, serverVars, Goto
<1>a. alive' = FALSE /\ requests' = <<>>
  BY DEF Inv, TypeOK, Calls, CloseSocket
<1>c. UNCHANGED <<mode, stream, reply, ssip_mutex, ready_waiters, ack_waiting,
                  pc, todo, want, buffer, got, rpc, item, calls, replies, level,
                  queued, sent, called>>
  BY DEF CloseSocket
<1>d. \A d \in Callers : Own(d)' = Own(d)
  BY <1>c DEF Own
<1>w. Waits
  BY <1>c, <1>d DEF Waits, Waiting
<1>s. \A d \in Callers : DataSent(d) => DataSent(d)' /\ Waiting(d)' = Waiting(d)
  BY <1>c DEF Waiting, DataSent
<1>1. TypeOK'
  <2>1. <<>> \in Seq(Request) /\ FALSE \in BOOLEAN
    OBVIOUS
  <2>2. TypeOK
    BY DEF Inv
  <2> QED
    BY <1>a, <1>c, <2>1, <2>2, Zenon DEF TypeOK
<1>2. Calls'
  BY <1>a, <1>c DEF Inv, TypeOK, Calls
<1>3. Locks'
  BY <1>a, <1>c DEF Inv, TypeOK, Calls, Locks, Inside
<1>4. Connection'
  BY <1>a, <1>c DEF Inv, Connection
<1>5. Requested'
  BY <1>a DEF Requested
<1>6. Answered'
  <2>1. ASSUME NEW r \in Reply, Answers(r) PROVE Answers(r)'
    BY <1>c, <1>w, <2>1, ClientAssumption, LineFacts
       DEF Inv, Answers, Fits, Waits, Reply, ClientAssumption
  <2>2. \A i \in DOMAIN replies : replies[i] \in Reply
    BY LineFacts DEF Inv
  <2> QED
    BY <1>a, <1>c, <2>1, <2>2 DEF Inv, Answered
<1>7. HandedOver'
  <2>1. \A r : \A d \in Callers : Fits(r, d)' <=> Fits(r, d)
    BY <1>c, <1>d DEF Fits
  <2> QED
    BY <1>c, <2>1 DEF Inv, HandedOver, Woke, Fits
<1>8. Priority'
  BY <1>a, <1>c, <1>d, PlanFacts DEF Inv, TypeOK, Calls, Priority
<1> QED
  BY <1>1, <1>2, <1>3, <1>4, <1>5, <1>6, <1>7, <1>8 DEF Inv
-----------------------------------------------------------------------------
(* The theorems.                                                           *)

LEMMA InitInv == ASSUME ClientAssumption, Init PROVE Inv
<1>1. TypeOK
  <2>1. /\ <<>> \in Seq(Request) /\ <<>> \in Seq(Reply) /\ <<>> \in Seq(Message)
        /\ FALSE \in BOOLEAN
    OBVIOUS
  <2> QED
    BY <2>1 DEF Init, TypeOK, Places
<1>2. Calls /\ Locks
  <2>1. <<>> \notin Alone /\ <<>> \notin SayRest
    BY PlanFacts DEF Plans
  <2> QED
    BY <2>1, ClientAssumption DEF Init, Calls, Locks, Inside, ClientAssumption
<1>3. Connection
  BY DEF Init, Connection
<1>4. Requested /\ Answered
  BY DEF Init, Requested, Answered
<1>5. HandedOver
  BY DEF Init, HandedOver, Woke
<1>6. Priority
  <2>1. <<>> \notin SayRest
    BY PlanFacts DEF Plans
  <2> QED
    BY <2>1 DEF Init, Priority
<1> QED
  BY <1>1, <1>2, <1>3, <1>4, <1>5, <1>6 DEF Inv

LEMMA StutterInv == ASSUME Inv, UNCHANGED vars PROVE Inv'
<1> USE DEF vars, callVars, readerVars, serverVars
<1>1. TypeOK' /\ Calls' /\ Locks'
  BY DEF Inv, TypeOK, Calls, Locks, Inside
<1>2. Connection' /\ Priority'
  BY DEF Inv, Connection, Priority
<1>3. Requested'
  BY DEF Inv, Requested, Due, DataSent, Waiting, Own
<1>4. Answered'
  BY DEF Inv, Answered, Answers, Fits, Waiting, Own
<1>5. HandedOver'
  BY DEF Inv, HandedOver, Woke, Fits, Own
<1> QED
  BY <1>1, <1>2, <1>3, <1>4, <1>5 DEF Inv

LEMMA NextInv ==
  ASSUME ClientAssumption, ListsAlone, Inv, [Next]_vars PROVE Inv'
<1>1. CASE \E c \in Callers : spd_open(c) \/ Call(c) \/ spd_close(c)
  BY <1>1, spd_openInv, CallInv, spd_closeInv
<1>2. CASE \E c \in Callers : Library(c)
  BY <1>2, LockSsipInv, CheckStreamInv, spd_send_data_wo_mutexInv, WokenInv,
     CopyReplyInv, AcknowledgeInv, get_replyInv, NextRequestInv, LeaveInv,
     JoinInv DEF Library
<1>3. CASE Reader
  BY <1>3, ReaderGetsInv, ReaderCallsBackInv, ReaderHandsOverInv, ReaderGoesOnInv,
     ReaderBrokenInv, ReaderSignalsInv DEF Reader
<1>4. CASE Server
  BY <1>4, ServeInv, SendEventInv, CloseSocketInv DEF Server
<1>5. CASE Quiet \/ UNCHANGED vars
  BY <1>5, StutterInv DEF Quiet
<1> QED
  BY <1>1, <1>2, <1>3, <1>4, <1>5 DEF Next

\* At most one request of the program's threads is not answered, the reply to
\* it is on its way to the thread that sent it and to no other, and the
\* priority of the connection is what the call that set it wants.
THEOREM ClientInvariant == ASSUME ListsAlone PROVE Spec => []Inv
<1>1. Init => Inv
  BY InitInv, ClientAssumption
<1>2. Inv /\ [Next]_vars => Inv'
  BY NextInv, ClientAssumption
<1> QED
  BY <1>1, <1>2, PTL DEF Spec

\* A caller looks only at the reply to its own request, its message is queued
\* with the priority it asked for, and nobody reads a reply that was freed.
THEOREM RepliesReachTheirCallers == ASSUME ListsAlone PROVE Spec => []CallsAreOwn
<1>1. Inv => CallsAreOwn
  <2> SUFFICES ASSUME Inv PROVE CallsAreOwn
    OBVIOUS
  <2>1. ASSUME NEW c \in Callers, pc[c] = "next", Head(todo[c]) # "data"
        PROVE  got[c] # NULL /\ got[c].for.by = c /\ got[c].for.cmd = Head(todo[c])
    <3>1. Fits(got[c], c)
      BY <2>1 DEF Inv, HandedOver
    <3> QED
      BY <3>1, ClientAssumption DEF Fits, Own, ClientAssumption
  <2>2. ASSUME NEW c \in Callers, pc[c] = "read" PROVE reply # Freed
    <3>1. reply = NULL \/ Fits(reply, c)
      BY <2>2 DEF Inv, HandedOver, Woke
    <3>2. Freed \in Reply
      BY DEF Freed, Reply
    <3>3. Own(c) \in Request
      <4>1. todo[c] \in Plans
        BY <2>2 DEF Inv, TypeOK, Calls
      <4> QED
        BY <4>1, PlanFacts DEF Inv, TypeOK, Own, Request
    <3>4. reply = NULL \/ reply.for = Own(c)
      BY <3>1 DEF Fits
    <3>5. Freed # NULL /\ Freed.for = NULL /\ Own(c) # NULL
      <4>1. Freed.for = NULL
        BY DEF Freed
      <4> QED
        BY <3>2, <3>3, <4>1, ClientAssumption DEF ClientAssumption
    <3> QED
      BY <3>4, <3>5
  <2> QED
    BY <2>1, <2>2 DEF Inv, Priority, CallsAreOwn
<1> QED
  BY <1>1, ClientInvariant, PTL
=============================================================================
