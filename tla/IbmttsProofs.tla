---------------------------- MODULE IbmttsProofs ----------------------------
(***************************************************************************)
(* What the server is told by the ibmtts module comes in order, for any    *)
(* number of messages, entries and requests, if a thread that was woken    *)
(* runs before the next command comes: whenever STOP, PAUSE and QUIT come  *)
(* and however the four threads take turns.                                *)
(***************************************************************************)
EXTENDS Ibmtts, SequenceTheorems, TLAPS

-----------------------------------------------------------------------------
(* The inductive invariant.                                                *)

Kinds   == {"begin", "audio", "mark", "icon", "end"}
Entries == [kind : Kinds, msg : Nat]
Stops   == {"STOP", "PAUSE"}
Events  == {"BEGIN", "MARK"} \cup Terminal

Sleeping  == {"try", "suspend", "suspended", "resumed", "awake", "ended"}
Making    == {"icon", "icon_end", "parts", "synchronize", "wake"}
Cleaning  == {"clear", "table", "tell", "reset"}
StopsMade == {"wait_play"} \cup Cleaning
Carrying  == {"wait_synth"} \cup StopsMade
Labels    == Sleeping \cup Making \cup {"wake_last", "handle", "marked"} \cup Carrying

TypeInv ==
  /\ thread_exit_requested \in BOOLEAN
  /\ stop_synth_requested \in BOOLEAN /\ stop_play_requested \in BOOLEAN
  /\ pause_requested \in BOOLEAN /\ speaking \in BOOLEAN
  /\ semaphore \in [Threads -> Nat]
  /\ pc \in [Threads -> Labels]
  /\ pc["synth"] \in Sleeping \cup Making \cup {"wake_last"}
  /\ pc["play"] \in Sleeping \cup {"handle", "marked"}
  /\ pc["stop"] \in Sleeping \cup Carrying
  /\ quitting \in {"no", "closing", "joining"}
  /\ thread_exit_requested <=> quitting = "joining"
  /\ playback_queue \in Seq(Entries)
  /\ entry \in [kind : Kinds \cup {"none"}, msg : Nat]
  /\ accepted \in Nat /\ refused \in Nat /\ accepted + refused <= MaxMessages
  /\ told \in [MessageIds -> Seq(Events)]

\* what is told of one message
IsOver(t)    == \E i \in 1..Len(t) : t[i] \in Terminal
IsStopped(t) == \E i \in 1..Len(t) : t[i] \in Stops
Ordered(t)   == \A i \in 1..Len(t) :
                  /\ t[i] = "BEGIN" <=> i = 1 /\ t \notin {<<"STOP">>, <<"PAUSE">>}
                  /\ i < Len(t) /\ t[i] \in Terminal
                       => t[i] = "END" /\ t[i + 1] \in Stops /\ i + 1 = Len(t)

Told == IF accepted = 0 THEN <<>> ELSE told[accepted]

Order ==
  /\ \A m \in MessageIds : Ordered(told[m])
  /\ \A m \in MessageIds : m > accepted => told[m] = <<>>
  /\ \A m \in MessageIds : \A i \in 1..Len(told[m]) :
       /\ told[m][i] = "STOP"  => <<"stop", m>> \in asked \/ quitting # "no"
       /\ told[m][i] = "PAUSE" => <<"pause", m>> \in asked
  /\ speaking <=> accepted > 0 /\ ~IsOver(Told)

Handling == pc["play"] = "handle"

\* What is queued or handled is of the message accepted last.  BEGIN is the
\* first entry, and the only one of its kind, "end" is the last.
Queue ==
  /\ Handling \/ playback_queue # <<>>
       => accepted > 0 /\ index_mark_ht = accepted /\ ~IsOver(Told)
  /\ \A i \in 1..Len(playback_queue) :
       /\ playback_queue[i].msg = accepted
       /\ playback_queue[i].kind = "begin" => i = 1 /\ ~Handling /\ Told = <<>>
       /\ playback_queue[i].kind = "end" => i = Len(playback_queue)
  /\ Handling => /\ entry.msg = accepted
                 /\ entry.kind # "none"
                 /\ entry.kind = "begin" <=> Told = <<>>
                 /\ entry.kind = "end" => playback_queue = <<>>
  /\ playback_queue # <<>> /\ ~Handling /\ Told = <<>>
       => playback_queue[1].kind = "begin"

\* The thread sleeps, and nobody has woken it but to end it.
Asleep(t) ==
  \/ ~thread_exit_requested /\ pc[t] = "suspended" /\ semaphore[t] = 0
  \/ /\ thread_exit_requested
     /\ \/ pc[t] \in {"suspended", "resumed", "ended"}
        \/ t = "play" /\ pc[t] \in {"awake", "try"}

\* A message was accepted, and its synthesis has not begun.
Fresh == \/ pc["synth"] = "awake"
         \/ ~thread_exit_requested /\ pc["synth"] = "resumed"
         \/ ~thread_exit_requested /\ pc["synth"] = "suspended" /\ semaphore["synth"] > 0

Synthesis ==
  /\ ~thread_exit_requested => \/ semaphore["synth"] = 0
                               \/ semaphore["synth"] = 1 /\ pc["synth"] = "suspended"
  /\ Fresh => accepted > 0 /\ ~Handling /\ playback_queue = <<>> /\ Told = <<>>
  /\ pc["synth"] \in Making =>
       /\ accepted > 0 /\ index_mark_ht = accepted /\ ~IsOver(Told)
       /\ Told # <<>> \/ Handling \/ playback_queue # <<>>
       /\ \A i \in 1..Len(playback_queue) : playback_queue[i].kind # "end"
       /\ ~(Handling /\ entry.kind = "end")

Halting == stop_synth_requested \/ pause_requested

\* Whoever stops waits for the synthesis, then for the play thread, and clears
\* the queue.  What was requested was asked for the message accepted last.
Stopping ==
  /\ pc["stop"] \in StopsMade => Asleep("synth")
  /\ pc["stop"] \in Cleaning => Asleep("play")
  /\ pc["stop"] \in Cleaning \ {"clear"} => playback_queue = <<>>
  /\ pc["stop"] \in Carrying => Halting
  /\ Halting /\ ~thread_exit_requested
       => semaphore["stop"] > 0 \/ pc["stop"] \in {"resumed", "awake"} \cup Carrying
  /\ Halting /\ pc["stop"] # "reset" => ~IsStopped(Told)
  /\ stop_synth_requested => <<"stop", accepted>> \in asked \/ quitting # "no"
  /\ pause_requested => <<"pause", accepted>> \in asked
  /\ IsStopped(Told) => Asleep("synth") /\ Asleep("play")

Inv == TypeInv /\ Order /\ Queue /\ Synthesis /\ Stopping

-----------------------------------------------------------------------------
(* What is told of one message.                                            *)

\* One more event.
LEMMA TellsOneMore ==
  ASSUME NEW t \in Seq(Events), NEW e \in Events
  PROVE  /\ Append(t, e) \in Seq(Events) /\ Append(t, e) # <<>>
         /\ Len(t) \in Nat /\ Len(Append(t, e)) = Len(t) + 1
         /\ \A i \in 1..Len(t) : Append(t, e)[i] = t[i]
         /\ Append(t, e)[Len(t) + 1] = e
OBVIOUS

\* Before anything is told.
LEMMA NothingTold == ~IsOver(<<>>) /\ ~IsStopped(<<>>) /\ Ordered(<<>>)
BY DEF IsOver, IsStopped, Ordered

\* A message begins with BEGIN, unless it is stopped before.
LEMMA OrderedBegin ==
  ASSUME NEW t \in Seq(Events), t = <<>>
  PROVE  /\ Ordered(Append(t, "BEGIN"))
         /\ ~IsOver(Append(t, "BEGIN")) /\ ~IsStopped(Append(t, "BEGIN"))
<1> DEFINE u == Append(t, "BEGIN")
<1>1. u \in Seq(Events) /\ Len(u) = 1 /\ u[1] = "BEGIN"
  BY TellsOneMore DEF Events
<1>2. u \notin {<<"STOP">>, <<"PAUSE">>}
  BY <1>1
<1> HIDE DEF u
<1>3. Ordered(u) /\ ~IsOver(u) /\ ~IsStopped(u)
  BY <1>1, <1>2 DEF Ordered, IsOver, IsStopped, Terminal, Stops
<1> QED
  BY <1>3 DEF u

\* What comes after BEGIN.
LEMMA OrderedNext ==
  ASSUME NEW t \in Seq(Events), t # <<>>, Ordered(t), ~IsOver(t),
         NEW e \in {"MARK", "END"}
  PROVE  /\ Ordered(Append(t, e)) /\ ~IsStopped(Append(t, e))
         /\ IsOver(Append(t, e)) <=> e = "END"
<1> DEFINE u == Append(t, e)
           n == Len(t)
<1>1. /\ n \in Nat /\ Len(u) = n + 1
      /\ \A i \in 1..n : u[i] = t[i]
      /\ u[n + 1] = e
  BY TellsOneMore DEF Events, Terminal
<1>2. n > 0
  OBVIOUS
<1>3. /\ \A i \in 1..n : t[i] \notin Terminal
      /\ \A i \in 1..n : t[i] = "BEGIN" <=> i = 1 /\ t \notin {<<"STOP">>, <<"PAUSE">>}
  BY DEF IsOver, Ordered
<1>4. t \notin {<<"STOP">>, <<"PAUSE">>}
  BY <1>3 DEF Terminal
<1>5. u \notin {<<"STOP">>, <<"PAUSE">>}
  <2>1. Len(u) # 1
    BY <1>1, <1>2
  <2>2. Len(<<"STOP">>) = 1 /\ Len(<<"PAUSE">>) = 1
    OBVIOUS
  <2> HIDE DEF u
  <2> QED
    BY <2>1, <2>2
<1> HIDE DEF u, n
<1>6. Ordered(u)
  <2> SUFFICES ASSUME NEW i \in 1..Len(u)
               PROVE  /\ u[i] = "BEGIN" <=> i = 1 /\ u \notin {<<"STOP">>, <<"PAUSE">>}
                      /\ ~(i < Len(u) /\ u[i] \in Terminal)
    BY DEF Ordered
  <2>1. CASE i \in 1..n
    BY <1>1, <1>3, <1>4, <1>5, <2>1
  <2>2. CASE i = n + 1
    BY <1>1, <1>2, <1>5, <2>2
  <2> QED
    BY <1>1, <2>1, <2>2
<1>7. ~IsStopped(u)
  BY <1>1, <1>3 DEF IsStopped, Stops, Terminal
<1>8. IsOver(u) <=> e = "END"
  BY <1>1, <1>3 DEF IsOver, Terminal
<1> QED
  BY <1>6, <1>7, <1>8 DEF u

\* STOP and PAUSE may come before BEGIN, and after END.
LEMMA OrderedStop ==
  ASSUME NEW t \in Seq(Events), Ordered(t), ~IsStopped(t), NEW e \in Stops
  PROVE  Ordered(Append(t, e)) /\ IsOver(Append(t, e)) /\ IsStopped(Append(t, e))
<1> DEFINE u == Append(t, e)
           n == Len(t)
<1>1. /\ n \in Nat /\ Len(u) = n + 1
      /\ \A i \in 1..n : u[i] = t[i]
      /\ u[n + 1] = e
  BY TellsOneMore DEF Events, Terminal, Stops
<1>2. /\ \A i \in 1..n : t[i] \notin Stops
      /\ \A i \in 1..n : t[i] = "BEGIN" <=> i = 1 /\ t \notin {<<"STOP">>, <<"PAUSE">>}
      /\ \A i \in 1..n : i < n /\ t[i] \in Terminal => t[i + 1] \in Stops
  BY DEF IsStopped, Ordered
<1>3. CASE t = <<>>
  <2>1. u = <<e>> /\ u \in {<<"STOP">>, <<"PAUSE">>} /\ n = 0
    BY <1>3 DEF Stops
  <2> HIDE DEF u, n
  <2>2. Ordered(u)
    BY <1>1, <2>1 DEF Ordered, Stops
  <2>3. IsOver(u) /\ IsStopped(u)
    BY <1>1, <2>1 DEF IsOver, IsStopped, Stops, Terminal
  <2> QED
    BY <2>2, <2>3 DEF u
<1>4. CASE t # <<>>
  <2>1. n > 0
    BY <1>4
  <2>2. t \notin {<<"STOP">>, <<"PAUSE">>}
    BY <1>2 DEF Stops
  <2>3. u \notin {<<"STOP">>, <<"PAUSE">>}
    <3>1. Len(u) # 1
      BY <1>1, <2>1
    <3>2. Len(<<"STOP">>) = 1 /\ Len(<<"PAUSE">>) = 1
      OBVIOUS
    <3> HIDE DEF u
    <3> QED
      BY <3>1, <3>2
  <2> HIDE DEF u, n
  <2>4. \A i \in 1..n : i < n => t[i] \notin Terminal
    BY <1>1, <1>2
  <2>5. Ordered(u)
    <3> SUFFICES ASSUME NEW i \in 1..Len(u)
                 PROVE  /\ u[i] = "BEGIN" <=> i = 1 /\ u \notin {<<"STOP">>, <<"PAUSE">>}
                        /\ i < Len(u) /\ u[i] \in Terminal
                             => u[i] = "END" /\ u[i + 1] \in Stops /\ i + 1 = Len(u)
      BY DEF Ordered
    <3>1. CASE i \in 1..n /\ i < n
      BY <1>1, <1>2, <2>2, <2>3, <2>4, <3>1
    <3>2. CASE i = n
      BY <1>1, <1>2, <2>1, <2>2, <2>3, <3>2 DEF Terminal, Stops
    <3>3. CASE i = n + 1
      BY <1>1, <2>1, <2>3, <3>3 DEF Stops
    <3> QED
      BY <1>1, <3>1, <3>2, <3>3
  <2>6. IsOver(u) /\ IsStopped(u)
    BY <1>1 DEF IsOver, IsStopped, Stops, Terminal
  <2> QED
    BY <2>5, <2>6 DEF u
<1> QED
  BY <1>3, <1>4

-----------------------------------------------------------------------------
(* Types.                                                                  *)

\* Where a thread sleeps.
LEMMA Places ==
  \A at \in {"try", "suspend", "suspended", "resumed", "awake", "ended"} : at \in Labels
BY DEF Labels, Sleeping

\* A thread goes on.
LEMMA GotoFacts ==
  ASSUME TypeInv, NEW t \in Threads, NEW at \in Labels, Goto(t, at)
  PROVE  /\ pc' \in [Threads -> Labels] /\ pc'[t] = at
         /\ \A u \in Threads : u # t => pc'[u] = pc[u]
BY DEF TypeInv, Goto

\* A semaphore is posted.
LEMMA PostFacts ==
  ASSUME TypeInv, NEW t \in Threads, sem_post(t)
  PROVE  /\ semaphore' \in [Threads -> Nat] /\ semaphore'[t] = semaphore[t] + 1
         /\ \A u \in Threads : u # t => semaphore'[u] = semaphore[u]
BY DEF TypeInv, sem_post

\* An entry comes to the end of the queue.
LEMMA PushFacts ==
  ASSUME TypeInv, NEW kind \in Kinds, Push(kind)
  PROVE  /\ playback_queue' \in Seq(Entries) /\ playback_queue' # <<>>
         /\ Len(playback_queue) \in Nat
         /\ Len(playback_queue') = Len(playback_queue) + 1
         /\ \A i \in 1..Len(playback_queue) : playback_queue'[i] = playback_queue[i]
         /\ playback_queue'[Len(playback_queue) + 1].kind = kind
         /\ playback_queue'[Len(playback_queue) + 1].msg = accepted
<1> DEFINE q == playback_queue
           e == [kind |-> kind, msg |-> accepted]
<1>1. q \in Seq(Entries) /\ e \in Entries /\ playback_queue' = Append(q, e)
  BY DEF TypeInv, Push, Entries
<1>2. e.kind = kind /\ e.msg = accepted
  OBVIOUS
<1> HIDE DEF q, e
<1>3. /\ Append(q, e) \in Seq(Entries) /\ Append(q, e) # <<>> /\ Len(q) \in Nat
      /\ Len(Append(q, e)) = Len(q) + 1
      /\ \A i \in 1..Len(q) : Append(q, e)[i] = q[i]
      /\ Append(q, e)[Len(q) + 1] = e
  BY <1>1
<1> QED
  BY <1>1, <1>2, <1>3 DEF q

\* The first entry is taken from the queue.
LEMMA PopFacts ==
  ASSUME TypeInv, playback_queue # <<>>
  PROVE  /\ Tail(playback_queue) \in Seq(Entries)
         /\ Head(playback_queue) = playback_queue[1]
         /\ playback_queue[1] \in Entries
         /\ Len(playback_queue) \in Nat /\ Len(playback_queue) > 0
         /\ Len(Tail(playback_queue)) = Len(playback_queue) - 1
         /\ \A i \in 1..Len(Tail(playback_queue)) :
              Tail(playback_queue)[i] = playback_queue[i + 1]
<1> DEFINE q == playback_queue
<1>1. q \in Seq(Entries) /\ q # <<>>
  BY DEF TypeInv
<1> HIDE DEF q
<1>2. /\ Tail(q) \in Seq(Entries) /\ Head(q) = q[1] /\ q[1] \in Entries
      /\ Len(q) \in Nat /\ Len(q) > 0 /\ Len(Tail(q)) = Len(q) - 1
      /\ \A i \in 1..Len(Tail(q)) : Tail(q)[i] = q[i + 1]
  BY <1>1
<1> QED
  BY <1>2 DEF q

\* An event is told of the message accepted last.
LEMMA TellFacts ==
  ASSUME TypeInv, NEW m, m = accepted, NEW e \in Events, Tell(m, e)
  PROVE  /\ told' \in [MessageIds -> Seq(Events)]
         /\ accepted = 0 => told' = told
         /\ accepted > 0 => told'[m] = Append(told[m], e)
         /\ \A x \in MessageIds : x # m => told'[x] = told[x]
         /\ speaking' = (speaking /\ e \notin Terminal)
         /\ UNCHANGED <<accepted, refused, asked>>
<1>1. /\ told \in [MessageIds -> Seq(Events)]
      /\ told' = [told EXCEPT ![m] = Append(@, e)]
      /\ speaking' = (speaking /\ e \notin Terminal)
      /\ UNCHANGED <<accepted, refused, asked>>
  BY DEF TypeInv, Tell
<1>2. m \in Nat /\ m <= MaxMessages /\ MaxMessages \in Nat
  BY IbmttsAssumption DEF TypeInv
<1>3. CASE m = 0
  <2>1. m \notin MessageIds
    BY <1>3 DEF MessageIds
  <2>2. told' = told
    BY <1>1, <2>1
  <2>3. ~(accepted > 0)
    BY <1>3
  <2> QED
    BY <1>1, <2>2, <2>3, Zenon
<1>4. CASE m > 0
  <2>1. m \in MessageIds
    BY <1>2, <1>4 DEF MessageIds
  <2>2. told[m] \in Seq(Events)
    BY <1>1, <2>1
  <2>3. Append(told[m], e) \in Seq(Events)
    BY <2>2, TellsOneMore
  <2> QED
    BY <1>1, <1>4, <2>1, <2>3
<1> QED
  BY <1>2, <1>3, <1>4

\* What is told of the message accepted last.
LEMMA ToldFacts ==
  ASSUME TypeInv
  PROVE  /\ Told \in Seq(Events)
         /\ accepted > 0 => accepted \in MessageIds /\ Told = told[accepted]
         /\ accepted = 0 => Told = <<>>
<1>1. /\ accepted \in Nat /\ accepted <= MaxMessages /\ MaxMessages \in Nat
      /\ told \in [MessageIds -> Seq(Events)]
  BY IbmttsAssumption DEF TypeInv
<1>2. accepted > 0 => accepted \in MessageIds
  BY <1>1 DEF MessageIds
<1>3. <<>> \in Seq(Events)
  OBVIOUS
<1> QED
  BY <1>1, <1>2, <1>3 DEF Told

\* The threads that sleep.
LEMMA SleepsFacts ==
  ASSUME TypeInv, NEW t \in Threads, Sleeps(t)
  PROVE  /\ pc' \in [Threads -> Labels] /\ semaphore' \in [Threads -> Nat]
         /\ \A u \in Threads : u # t => pc'[u] = pc[u] /\ semaphore'[u] = semaphore[u]
         /\ \/ /\ pc[t] = "try" /\ thread_exit_requested /\ pc'[t] = "ended"
               /\ semaphore'[t] = semaphore[t]
            \/ /\ pc[t] = "try" /\ ~thread_exit_requested /\ semaphore[t] > 0
               /\ pc'[t] = "awake"
            \/ /\ pc[t] = "try" /\ ~thread_exit_requested /\ semaphore[t] = 0
               /\ pc'[t] = "suspend" /\ semaphore'[t] = semaphore[t]
            \/ /\ pc[t] = "suspend" /\ pc'[t] = "suspended"
               /\ semaphore'[t] = semaphore[t]
            \/ /\ pc[t] = "suspended" /\ semaphore[t] > 0 /\ pc'[t] = "resumed"
               /\ semaphore'[t] = semaphore[t] - 1
            \/ /\ pc[t] = "resumed" /\ thread_exit_requested /\ t # "play"
               /\ pc'[t] = "ended" /\ semaphore'[t] = semaphore[t]
            \/ /\ pc[t] = "resumed" /\ (~thread_exit_requested \/ t = "play")
               /\ pc'[t] = "awake" /\ semaphore'[t] = semaphore[t]
         /\ UNCHANGED <<thread_exit_requested, flags, quitting, playback_queue, entry,
                        index_mark_ht, made, server>>
<1>1. /\ pc \in [Threads -> Labels] /\ semaphore \in [Threads -> Nat]
      /\ thread_exit_requested \in BOOLEAN
  BY DEF TypeInv
<1>2. UNCHANGED <<thread_exit_requested, flags, quitting, playback_queue, entry,
                  index_mark_ht, made, server>>
  BY DEF Sleeps
<1>8. /\ pc' \in [Threads -> Labels] /\ semaphore' \in [Threads -> Nat]
      /\ \A u \in Threads : u # t => pc'[u] = pc[u] /\ semaphore'[u] = semaphore[u]
      /\ \/ /\ pc[t] = "try" /\ thread_exit_requested /\ pc'[t] = "ended"
            /\ semaphore'[t] = semaphore[t]
         \/ /\ pc[t] = "try" /\ ~thread_exit_requested /\ semaphore[t] > 0
            /\ pc'[t] = "awake"
         \/ /\ pc[t] = "try" /\ ~thread_exit_requested /\ semaphore[t] = 0
            /\ pc'[t] = "suspend" /\ semaphore'[t] = semaphore[t]
         \/ /\ pc[t] = "suspend" /\ pc'[t] = "suspended"
            /\ semaphore'[t] = semaphore[t]
         \/ /\ pc[t] = "suspended" /\ semaphore[t] > 0 /\ pc'[t] = "resumed"
            /\ semaphore'[t] = semaphore[t] - 1
         \/ /\ pc[t] = "resumed" /\ thread_exit_requested /\ t # "play"
            /\ pc'[t] = "ended" /\ semaphore'[t] = semaphore[t]
         \/ /\ pc[t] = "resumed" /\ (~thread_exit_requested \/ t = "play")
            /\ pc'[t] = "awake" /\ semaphore'[t] = semaphore[t]
  <2>1. \A at \in Labels : Goto(t, at) =>
          /\ pc' \in [Threads -> Labels] /\ pc'[t] = at
          /\ \A u \in Threads : u # t => pc'[u] = pc[u]
    BY GotoFacts
  <2>2. semaphore[t] > 0 /\ semaphore' = [semaphore EXCEPT ![t] = @ - 1] =>
          /\ semaphore' \in [Threads -> Nat] /\ semaphore'[t] = semaphore[t] - 1
          /\ \A u \in Threads : u # t => semaphore'[u] = semaphore[u]
    <3> SUFFICES ASSUME semaphore[t] > 0, semaphore' = [semaphore EXCEPT ![t] = @ - 1]
                 PROVE  /\ semaphore' \in [Threads -> Nat]
                        /\ semaphore'[t] = semaphore[t] - 1
                        /\ \A u \in Threads : u # t => semaphore'[u] = semaphore[u]
      OBVIOUS
    <3>1. semaphore[t] - 1 \in Nat
      BY <1>1
    <3> QED
      BY <1>1, <3>1
  <2>3. CASE pc[t] = "try" /\ thread_exit_requested /\ Goto(t, "ended")
             /\ UNCHANGED semaphore
    BY <1>1, <2>1, <2>3, Places
  <2>4. CASE /\ pc[t] = "try" /\ ~thread_exit_requested
             /\ IF semaphore[t] > 0
                THEN Goto(t, "awake") /\ semaphore' = [semaphore EXCEPT ![t] = @ - 1]
                ELSE Goto(t, "suspend") /\ UNCHANGED semaphore
    <3>1. CASE semaphore[t] > 0
      BY <1>1, <2>1, <2>2, <2>4, <3>1, Places
    <3>2. CASE ~(semaphore[t] > 0)
      <4>1. semaphore[t] = 0
        BY <1>1, <3>2
      <4> QED
        BY <1>1, <2>1, <2>4, <3>2, <4>1, Places
    <3> QED
      BY <3>1, <3>2
  <2>5. CASE pc[t] = "suspend" /\ Goto(t, "suspended") /\ UNCHANGED semaphore
    BY <1>1, <2>1, <2>5, Places
  <2>6. CASE /\ pc[t] = "suspended" /\ semaphore[t] > 0
             /\ semaphore' = [semaphore EXCEPT ![t] = @ - 1]
             /\ Goto(t, "resumed")
    BY <1>1, <2>1, <2>2, <2>6, Places
  <2>7. CASE /\ pc[t] = "resumed"
             /\ Goto(t, IF thread_exit_requested /\ t # "play" THEN "ended" ELSE "awake")
             /\ UNCHANGED semaphore
    <3>1. CASE thread_exit_requested /\ t # "play"
      BY <1>1, <2>1, <2>7, <3>1, Places
    <3>2. CASE ~(thread_exit_requested /\ t # "play")
      BY <1>1, <2>1, <2>7, <3>2, Places
    <3> QED
      BY <3>1, <3>2
  <2> QED
    BY <2>3, <2>4, <2>5, <2>6, <2>7 DEF Sleeps
<1> QED
  BY <1>2, <1>8

\* What is over or stopped, after one more event.
LEMMA OverNext ==
  ASSUME NEW t \in Seq(Events), NEW e \in Events
  PROVE  /\ IsOver(Append(t, e)) <=> IsOver(t) \/ e \in Terminal
         /\ IsStopped(Append(t, e)) <=> IsStopped(t) \/ e \in Stops
<1> DEFINE u == Append(t, e)
           n == Len(t)
<1>1. /\ n \in Nat /\ Len(u) = n + 1
      /\ \A i \in 1..n : u[i] = t[i]
      /\ u[n + 1] = e
  BY TellsOneMore
<1> HIDE DEF u
<1>2. IsOver(t) <=> \E i \in 1..n : t[i] \in Terminal
  BY DEF IsOver
<1>3. IsStopped(t) <=> \E i \in 1..n : t[i] \in Stops
  BY DEF IsStopped
<1> HIDE DEF n
<1>4. IsOver(u) <=> IsOver(t) \/ e \in Terminal
  BY <1>1, <1>2 DEF IsOver
<1>5. IsStopped(u) <=> IsStopped(t) \/ e \in Stops
  BY <1>1, <1>3 DEF IsStopped
<1> QED
  BY <1>4, <1>5 DEF u

\* The order is kept, if the next event is one that may come.
LEMMA TellKeepsOrder ==
  ASSUME TypeInv, Order, NEW e \in Events, Tell(accepted, e), UNCHANGED quitting,
         accepted > 0 => Ordered(Append(Told, e)),
         e = "STOP"  => <<"stop", accepted>> \in asked \/ quitting # "no",
         e = "PAUSE" => <<"pause", accepted>> \in asked
  PROVE  /\ Order'
         /\ told' \in [MessageIds -> Seq(Events)] /\ speaking' \in BOOLEAN
         /\ Told' = IF accepted = 0 THEN Told ELSE Append(Told, e)
         /\ UNCHANGED <<accepted, refused, asked>>
<1>1. /\ told' \in [MessageIds -> Seq(Events)]
      /\ accepted = 0 => told' = told
      /\ accepted > 0 => told'[accepted] = Append(told[accepted], e)
      /\ \A x \in MessageIds : x # accepted => told'[x] = told[x]
      /\ speaking' = (speaking /\ e \notin Terminal)
      /\ UNCHANGED <<accepted, refused, asked>>
  BY TellFacts
<1>2. /\ Told \in Seq(Events) /\ accepted \in Nat
      /\ accepted > 0 => accepted \in MessageIds /\ Told = told[accepted]
      /\ accepted = 0 => Told = <<>>
  BY ToldFacts DEF TypeInv
<1>3. Told' = IF accepted = 0 THEN Told ELSE Append(Told, e)
  <2>1. CASE accepted = 0
    BY <1>1, <1>2, <2>1 DEF Told
  <2>2. CASE accepted > 0
    <3>1. Told' = told'[accepted]
      BY <1>1, <2>2 DEF Told
    <3> QED
      BY <1>1, <1>2, <2>2, <3>1
  <2> QED
    BY <1>2, <2>1, <2>2
<1>4. speaking' \in BOOLEAN
  <2>1. CASE speaking /\ e \notin Terminal
    BY <1>1, <2>1
  <2>2. CASE ~(speaking /\ e \notin Terminal)
    BY <1>1, <2>2
  <2> QED
    BY <2>1, <2>2
<1>5. CASE accepted = 0
  <2>1. told' = told /\ ~speaking
    BY <1>1, <1>5 DEF Order
  <2>2. ~speaking'
    BY <1>1, <2>1
  <2>3. Order'
    BY <1>1, <1>2, <1>5, <2>1, <2>2 DEF Order, Told
  <2> QED
    BY <1>1, <1>3, <1>4, <2>3
<1>6. CASE accepted > 0
  <2> DEFINE u == Append(Told, e)
  <2>1. /\ u \in Seq(Events) /\ Len(Told) \in Nat /\ Len(u) = Len(Told) + 1
        /\ \A i \in 1..Len(Told) : u[i] = Told[i]
        /\ u[Len(Told) + 1] = e
    BY <1>2, TellsOneMore
  <2>2. /\ IsOver(u) <=> IsOver(Told) \/ e \in Terminal
        /\ Ordered(u)
    BY <1>2, <1>6, OverNext
  <2>3. /\ told'[accepted] = u /\ accepted \in MessageIds
        /\ Told = told[accepted] /\ Told' = u
    BY <1>1, <1>2, <1>3, <1>6
  <2> HIDE DEF u
  <2>4. \A m \in MessageIds : Ordered(told'[m])
    BY <1>1, <2>2, <2>3 DEF Order
  <2>5. \A m \in MessageIds : m > accepted => told'[m] = <<>>
    BY <1>1, <1>2 DEF Order, MessageIds
  <2>6. \A m \in MessageIds : \A i \in 1..Len(told'[m]) :
          /\ told'[m][i] = "STOP"  => <<"stop", m>> \in asked \/ quitting # "no"
          /\ told'[m][i] = "PAUSE" => <<"pause", m>> \in asked
    <3>1. SUFFICES ASSUME NEW m \in MessageIds, NEW i \in 1..Len(told'[m])
                   PROVE  /\ told'[m][i] = "STOP"
                               => <<"stop", m>> \in asked \/ quitting # "no"
                          /\ told'[m][i] = "PAUSE" => <<"pause", m>> \in asked
      OBVIOUS
    <3>2. CASE m # accepted
      BY <1>1, <3>1, <3>2 DEF Order
    <3>3. CASE m = accepted /\ i \in 1..Len(Told)
      BY <2>1, <2>3, <3>3 DEF Order
    <3>4. CASE m = accepted /\ i = Len(Told) + 1
      BY <2>1, <2>3, <3>4
    <3> QED
      BY <2>1, <2>3, <3>1, <3>2, <3>3, <3>4
  <2>7. speaking' <=> accepted > 0 /\ ~IsOver(u)
    BY <1>1, <1>6, <2>2 DEF Order
  <2>8. Order'
    BY <1>1, <2>3, <2>4, <2>5, <2>6, <2>7 DEF Order
  <2> QED
    BY <1>1, <1>3, <1>4, <2>8
<1> QED
  BY <1>2, <1>5, <1>6

-----------------------------------------------------------------------------
(* The synthesis thread queues what it makes.                              *)

LEMMA PushKeepsInv ==
  ASSUME Inv, NEW kind \in Kinds \ {"begin"}, Push(kind), pc["synth"] \in Making,
         kind = "end" => pc'["synth"] = "wake_last",
         pc'["synth"] \in Making \cup {"wake_last"},
         pc'["play"] = pc["play"], pc'["stop"] = pc["stop"], pc' \in [Threads -> Labels],
         UNCHANGED <<thread_exit_requested, stop_synth_requested,
                     stop_play_requested, pause_requested, semaphore, quitting,
                     entry, index_mark_ht, accepted, refused, told, speaking,
                     asked>>
  PROVE  Inv'
<1>i. TypeInv /\ Order /\ Queue /\ Synthesis /\ Stopping
  BY DEF Inv
<1>a. /\ playback_queue' \in Seq(Entries) /\ playback_queue' # <<>>
      /\ Len(playback_queue) \in Nat
      /\ Len(playback_queue') = Len(playback_queue) + 1
      /\ \A i \in 1..Len(playback_queue) : playback_queue'[i] = playback_queue[i]
      /\ playback_queue'[Len(playback_queue) + 1].kind = kind
      /\ playback_queue'[Len(playback_queue) + 1].msg = accepted
  BY <1>i, PushFacts
<1>b. /\ accepted > 0 /\ index_mark_ht = accepted /\ ~IsOver(Told)
      /\ Told # <<>> \/ Handling \/ playback_queue # <<>>
      /\ \A i \in 1..Len(playback_queue) : playback_queue[i].kind # "end"
      /\ ~(Handling /\ entry.kind = "end")
  BY <1>i DEF Synthesis
<1>c. Told' = Told /\ (Handling' <=> Handling)
  BY DEF Told, Handling
<1>d. pc["synth"] \notin {"suspended", "resumed", "ended", "awake", "try"}
  BY DEF Making
<1>1. TypeInv'
  BY <1>i, <1>a DEF TypeInv
<1>2. Order'
  BY <1>i, <1>c DEF Order
<1>3. Queue'
  <2>1. \A i \in 1..Len(playback_queue') :
          /\ playback_queue'[i].msg = accepted
          /\ playback_queue'[i].kind = "begin" => i = 1 /\ ~Handling /\ Told = <<>>
          /\ playback_queue'[i].kind = "end" => i = Len(playback_queue')
    <3> SUFFICES ASSUME NEW i \in 1..Len(playback_queue')
                 PROVE  /\ playback_queue'[i].msg = accepted
                        /\ playback_queue'[i].kind = "begin"
                             => i = 1 /\ ~Handling /\ Told = <<>>
                        /\ playback_queue'[i].kind = "end" => i = Len(playback_queue')
      OBVIOUS
    <3>1. CASE i \in 1..Len(playback_queue)
      BY <1>i, <1>a, <1>b, <3>1 DEF Queue
    <3>2. CASE i = Len(playback_queue) + 1
      BY <1>a, <3>2
    <3> QED
      BY <1>a, <3>1, <3>2
  <2>2. playback_queue' # <<>> /\ ~Handling /\ Told = <<>>
          => playback_queue'[1].kind = "begin"
    <3>1. SUFFICES ASSUME ~Handling, Told = <<>>
                   PROVE  playback_queue'[1].kind = "begin"
      OBVIOUS
    <3>2. playback_queue # <<>> /\ playback_queue[1].kind = "begin"
      BY <1>i, <1>b, <3>1 DEF Queue
    <3>3. Len(playback_queue) > 0
      BY <1>i, <3>2 DEF TypeInv
    <3> QED
      BY <1>a, <3>2, <3>3
  <2>3. Handling => kind # "begin" /\ entry.kind # "end" /\ entry.msg = accepted
                    /\ entry.kind # "none" /\ (entry.kind = "begin" <=> Told = <<>>)
    BY <1>i, <1>b DEF Queue
  <2> QED
    BY <1>b, <1>c, <2>1, <2>2, <2>3 DEF Queue
<1>4. Synthesis'
  <2>1. pc'["synth"] \in Making =>
          \A i \in 1..Len(playback_queue') : playback_queue'[i].kind # "end"
    <3>1. SUFFICES ASSUME pc'["synth"] \in Making, NEW i \in 1..Len(playback_queue')
                   PROVE  playback_queue'[i].kind # "end"
      OBVIOUS
    <3>2. kind # "end"
      BY <3>1 DEF Making
    <3>3. CASE i \in 1..Len(playback_queue)
      BY <1>a, <1>b, <3>3
    <3>4. CASE i = Len(playback_queue) + 1
      BY <1>a, <3>2, <3>4
    <3> QED
      BY <1>a, <3>1, <3>3, <3>4
  <2>2. ~Fresh' /\ pc'["synth"] \notin {"suspended", "resumed", "awake"}
    BY DEF Fresh, Making
  <2>3. ~thread_exit_requested' => semaphore'["synth"] = 0
    BY <1>i, <1>d DEF Synthesis
  <2> QED
    BY <1>a, <1>b, <1>c, <2>1, <2>2, <2>3 DEF Synthesis
<1>5. Stopping'
  BY <1>i, <1>c, <1>d DEF Stopping, Asleep, Halting, Carrying, StopsMade, Cleaning
<1> QED
  BY <1>1, <1>2, <1>3, <1>4, <1>5 DEF Inv

\* A sound icon and its end are queued.
LEMMA SynthIconInv ==
  ASSUME Inv, SynthIcon PROVE Inv'
<1>i. TypeInv /\ UNCHANGED <<thread_exit_requested, stop_synth_requested,
                   stop_play_requested, pause_requested, semaphore, quitting,
                   entry, index_mark_ht, accepted, refused, told, speaking,
                   asked>>
  BY DEF Inv, SynthIcon, SynthUnchanged, flags, server
<1>1. CASE pc["synth"] = "icon" /\ Push("icon") /\ Goto("synth", "icon_end")
  <2>1. /\ pc' \in [Threads -> Labels] /\ pc'["synth"] = "icon_end"
        /\ pc'["play"] = pc["play"] /\ pc'["stop"] = pc["stop"]
    BY <1>i, <1>1, GotoFacts DEF Threads, Labels, Making
  <2> QED
    BY <1>i, <1>1, <2>1, PushKeepsInv DEF Kinds, Making
<1>2. CASE pc["synth"] = "icon_end" /\ Push("end") /\ Goto("synth", "wake_last")
  <2>1. /\ pc' \in [Threads -> Labels] /\ pc'["synth"] = "wake_last"
        /\ pc'["play"] = pc["play"] /\ pc'["stop"] = pc["stop"]
    BY <1>i, <1>2, GotoFacts DEF Threads, Labels, Making
  <2> QED
    BY <1>i, <1>2, <2>1, PushKeepsInv DEF Kinds, Making
<1> QED
  BY <1>1, <1>2 DEF SynthIcon

\* Audio, a mark or the end is queued, or the synthesis is abandoned.
LEMMA eciCallbackInv ==
  ASSUME Inv, eciCallback PROVE Inv'
<1>i. TypeInv /\ Order /\ Queue /\ Synthesis /\ Stopping
  BY DEF Inv
<1>a. UNCHANGED <<thread_exit_requested, stop_synth_requested,
                   stop_play_requested, pause_requested, semaphore, quitting,
                   entry, index_mark_ht, accepted, refused, told, speaking,
                   asked>>
  BY DEF eciCallback, SynthUnchanged, flags, server
<1>b. pc["synth"] = "synchronize" /\ pc["synth"] \in Making
  BY DEF eciCallback, Making
<1>1. CASE Goto("synth", "try") /\ UNCHANGED playback_queue
  <2>a. /\ pc' \in [Threads -> Labels] /\ pc'["synth"] = "try"
        /\ pc'["play"] = pc["play"] /\ pc'["stop"] = pc["stop"]
    BY <1>i, <1>1, GotoFacts DEF Threads, Labels, Sleeping
  <2>1. TypeInv'
    BY <1>i, <1>a, <1>1, <2>a DEF TypeInv, Sleeping
  <2>2. Order'
    BY <1>i, <1>a DEF Order, Told
  <2>3. Queue'
    BY <1>i, <1>a, <1>1, <2>a DEF Queue, Told, Handling
  <2>4. Synthesis'
    BY <1>i, <1>a, <1>b, <1>1, <2>a DEF Synthesis, Told, Handling, Fresh, Making
  <2>5. Stopping'
    BY <1>i, <1>a, <1>b, <2>a DEF Stopping, Told, Asleep, Halting, Carrying,
       StopsMade, Cleaning
  <2> QED
    BY <2>1, <2>2, <2>3, <2>4, <2>5 DEF Inv
<1>2. ASSUME NEW kind \in {"audio", "mark"}, Push(kind), Goto("synth", "wake") PROVE Inv'
  <2>1. /\ pc' \in [Threads -> Labels] /\ pc'["synth"] = "wake"
        /\ pc'["play"] = pc["play"] /\ pc'["stop"] = pc["stop"]
    BY <1>i, <1>2, GotoFacts DEF Threads, Labels, Making
  <2>2. kind \in Kinds \ {"begin"} /\ kind # "end" /\ pc'["synth"] \in Making
    BY <2>1 DEF Kinds, Making
  <2> QED
    BY <1>a, <1>b, <1>2, <2>1, <2>2, PushKeepsInv
<1>3. CASE Push("end") /\ Goto("synth", "wake_last")
  <2>1. /\ pc' \in [Threads -> Labels] /\ pc'["synth"] = "wake_last"
        /\ pc'["play"] = pc["play"] /\ pc'["stop"] = pc["stop"]
    BY <1>i, <1>3, GotoFacts DEF Threads, Labels
  <2> QED
    BY <1>a, <1>b, <1>3, <2>1, PushKeepsInv DEF Kinds, Making
<1> QED
  BY <1>1, <1>2, <1>3 DEF eciCallback

\* The stop thread begins only when something was requested.
LEMMA StopStartsInv ==
  ASSUME Inv, StopStarts PROVE Inv'
<1>i. TypeInv /\ Order /\ Queue /\ Synthesis /\ Stopping
  BY DEF Inv
<1>a. UNCHANGED <<thread_exit_requested, stop_synth_requested,
                   stop_play_requested, pause_requested, semaphore, quitting,
                   playback_queue, entry, index_mark_ht, accepted, refused,
                   told, speaking, asked>>
  BY DEF StopStarts, StopUnchanged, flags, server
<1>b. /\ pc["stop"] = "awake" /\ pc'["stop"] \in {"wait_synth", "try"}
      /\ pc' \in [Threads -> Labels]
      /\ pc'["synth"] = pc["synth"] /\ pc'["play"] = pc["play"]
  BY <1>i, GotoFacts DEF StopStarts, Threads, Labels, Sleeping, Making, Carrying,
     StopsMade, Cleaning
<1>c. pc'["stop"] = "wait_synth" <=> Halting
  BY <1>i, <1>b DEF StopStarts, Goto, TypeInv, Halting, Threads
<1>1. TypeInv'
  BY <1>i, <1>a, <1>b, <1>c DEF TypeInv, Sleeping, Making, Carrying, StopsMade,
     Cleaning
<1>2. Order'
  BY <1>i, <1>a, <1>b, <1>c DEF TypeInv, Order, Told
<1>3. Queue'
  BY <1>i, <1>a, <1>b, <1>c DEF TypeInv, Queue, Told, Handling
<1>4. Synthesis'
  BY <1>i, <1>a, <1>b, <1>c DEF TypeInv, Queue, Synthesis, Told, Handling, Fresh,
     Making
<1>5. Stopping'
  BY <1>i, <1>a, <1>b, <1>c DEF TypeInv, Stopping, Told, Asleep, Halting, Carrying,
     StopsMade, Cleaning
<1> QED
  BY <1>1, <1>2, <1>3, <1>4, <1>5 DEF Inv

\* The queue is cleared while the others sleep.
LEMMA ClearInv ==
  ASSUME Inv, ibmtts_clear_playback_queue PROVE Inv'
<1>i. TypeInv /\ Order /\ Queue /\ Synthesis /\ Stopping
  BY DEF Inv
<1>a. UNCHANGED <<thread_exit_requested, stop_synth_requested,
                   stop_play_requested, pause_requested, semaphore, quitting,
                   entry, index_mark_ht, accepted, refused, told, speaking,
                   asked>>
  BY DEF ibmtts_clear_playback_queue, StopUnchanged, flags, server
<1>b. /\ pc["stop"] = "clear" /\ pc'["stop"] = "table"
      /\ pc' \in [Threads -> Labels]
      /\ pc'["synth"] = pc["synth"] /\ pc'["play"] = pc["play"]
  BY <1>i, GotoFacts DEF ibmtts_clear_playback_queue, Threads, Labels, Sleeping,
     Making, Carrying, StopsMade, Cleaning
<1>c. playback_queue' = <<>> /\ playback_queue' \in Seq(Entries)
  BY DEF ibmtts_clear_playback_queue
<1>d. pc["synth"] \notin Making
  BY <1>i, <1>b DEF Stopping, Asleep, Cleaning, StopsMade, Making
<1>1. TypeInv'
  BY <1>i, <1>a, <1>b, <1>c, <1>d DEF TypeInv, Sleeping, Making, Carrying,
     StopsMade, Cleaning
<1>2. Order'
  BY <1>i, <1>a, <1>b, <1>c, <1>d DEF TypeInv, Order, Told
<1>3. Queue'
  BY <1>i, <1>a, <1>b, <1>c, <1>d DEF TypeInv, Queue, Told, Handling
<1>4. Synthesis'
  BY <1>i, <1>a, <1>b, <1>c, <1>d DEF TypeInv, Queue, Synthesis, Told, Handling,
     Fresh, Making
<1>5. Stopping'
  BY <1>i, <1>a, <1>b, <1>c, <1>d DEF TypeInv, Stopping, Told, Asleep, Halting,
     Carrying, StopsMade, Cleaning
<1> QED
  BY <1>1, <1>2, <1>3, <1>4, <1>5 DEF Inv

\* So is the table of the index marks.
LEMMA StopDropsTableInv ==
  ASSUME Inv, StopDropsTable PROVE Inv'
<1>i. TypeInv /\ Order /\ Queue /\ Synthesis /\ Stopping
  BY DEF Inv
<1>a. UNCHANGED <<thread_exit_requested, stop_synth_requested,
                   stop_play_requested, pause_requested, semaphore, quitting,
                   playback_queue, entry, accepted, refused, told, speaking,
                   asked>>
  BY DEF StopDropsTable, StopUnchanged, flags, server
<1>b. /\ pc["stop"] = "table" /\ pc'["stop"] = "tell"
      /\ pc' \in [Threads -> Labels]
      /\ pc'["synth"] = pc["synth"] /\ pc'["play"] = pc["play"]
  BY <1>i, GotoFacts DEF StopDropsTable, Threads, Labels, Sleeping, Making, Carrying,
     StopsMade, Cleaning
<1>c. /\ playback_queue = <<>> /\ pc["play"] # "handle"
      /\ pc["synth"] \notin Making
  BY <1>i, <1>b DEF Stopping, Asleep, Cleaning, StopsMade, Making
<1>1. TypeInv'
  BY <1>i, <1>a, <1>b, <1>c DEF TypeInv, Sleeping, Making, Carrying, StopsMade,
     Cleaning
<1>2. Order'
  BY <1>i, <1>a, <1>b, <1>c DEF TypeInv, Order, Told
<1>3. Queue'
  BY <1>i, <1>a, <1>b, <1>c DEF TypeInv, Queue, Told, Handling
<1>4. Synthesis'
  BY <1>i, <1>a, <1>b, <1>c DEF TypeInv, Queue, Synthesis, Told, Handling, Fresh,
     Making
<1>5. Stopping'
  BY <1>i, <1>a, <1>b, <1>c DEF TypeInv, Stopping, Told, Asleep, Halting, Carrying,
     StopsMade, Cleaning
<1> QED
  BY <1>1, <1>2, <1>3, <1>4, <1>5 DEF Inv

\* At last the requests are reset.
LEMMA StopResetsInv ==
  ASSUME Inv, StopResets PROVE Inv'
<1>i. TypeInv /\ Order /\ Queue /\ Synthesis /\ Stopping
  BY DEF Inv
<1>a. UNCHANGED <<thread_exit_requested, semaphore, quitting, playback_queue,
                   entry, index_mark_ht, accepted, refused, told, speaking,
                   asked>>
  BY DEF StopResets, StopUnchanged, flags, server
<1>b. /\ pc["stop"] = "reset" /\ pc'["stop"] = "try"
      /\ pc' \in [Threads -> Labels]
      /\ pc'["synth"] = pc["synth"] /\ pc'["play"] = pc["play"]
  BY <1>i, GotoFacts DEF StopResets, Threads, Labels, Sleeping, Making, Carrying,
     StopsMade, Cleaning
<1>c. /\ stop_synth_requested' = FALSE /\ stop_play_requested' = FALSE
      /\ pause_requested' = FALSE
  BY DEF StopResets
<1>1. TypeInv'
  BY <1>i, <1>a, <1>b, <1>c DEF TypeInv, Sleeping, Making, Carrying, StopsMade,
     Cleaning
<1>2. Order'
  BY <1>i, <1>a, <1>b, <1>c DEF TypeInv, Order, Told
<1>3. Queue'
  BY <1>i, <1>a, <1>b, <1>c DEF TypeInv, Queue, Told, Handling
<1>4. Synthesis'
  BY <1>i, <1>a, <1>b, <1>c DEF TypeInv, Queue, Synthesis, Told, Handling, Fresh,
     Making
<1>5. Stopping'
  BY <1>i, <1>a, <1>b, <1>c DEF TypeInv, Stopping, Told, Asleep, Halting, Carrying,
     StopsMade, Cleaning
<1> QED
  BY <1>1, <1>2, <1>3, <1>4, <1>5 DEF Inv

\* The next part of the text goes to the synthesiser, or none.
LEMMA process_text_markInv ==
  ASSUME Inv, process_text_mark PROVE Inv'
<1>i. TypeInv /\ Order /\ Queue /\ Synthesis /\ Stopping
  BY DEF Inv
<1>a. UNCHANGED <<thread_exit_requested, stop_synth_requested,
                   stop_play_requested, pause_requested, semaphore, quitting,
                   playback_queue, entry, index_mark_ht, accepted, refused,
                   told, speaking, asked>>
  BY DEF process_text_mark, SynthUnchanged, flags, server
<1>b. /\ pc["synth"] = "parts" /\ pc'["synth"] \in {"synchronize", "try"}
      /\ pc' \in [Threads -> Labels]
      /\ pc'["play"] = pc["play"] /\ pc'["stop"] = pc["stop"]
  BY <1>i, GotoFacts DEF process_text_mark, Threads, Labels, Sleeping, Making,
     Carrying, StopsMade, Cleaning
<1>1. TypeInv'
  BY <1>i, <1>a, <1>b DEF TypeInv, Sleeping, Making, Carrying, StopsMade, Cleaning
<1>2. Order'
  BY <1>i, <1>a, <1>b DEF TypeInv, Order, Told
<1>3. Queue'
  BY <1>i, <1>a, <1>b DEF TypeInv, Queue, Told, Handling
<1>4. Synthesis'
  BY <1>i, <1>a, <1>b DEF TypeInv, Queue, Synthesis, Told, Handling, Fresh, Making
<1>5. Stopping'
  BY <1>i, <1>a, <1>b DEF TypeInv, Stopping, Told, Asleep, Halting, Carrying,
     StopsMade, Cleaning
<1> QED
  BY <1>1, <1>2, <1>3, <1>4, <1>5 DEF Inv

\* The play thread sees a request to pause at a mark.
LEMMA PlayPausesInv ==
  ASSUME Inv, PlayPauses PROVE Inv'
<1>i. TypeInv /\ Order /\ Queue /\ Synthesis /\ Stopping
  BY DEF Inv
<1>a. UNCHANGED <<thread_exit_requested, stop_synth_requested,
                   pause_requested, semaphore, quitting, playback_queue,
                   entry, index_mark_ht, accepted, refused, told, speaking,
                   asked>>
  BY DEF PlayPauses, PlayUnchanged, flags, server
<1>b. /\ pc["play"] = "marked" /\ pc'["play"] = "awake"
      /\ pc' \in [Threads -> Labels]
      /\ pc'["synth"] = pc["synth"] /\ pc'["stop"] = pc["stop"]
  BY <1>i, GotoFacts DEF PlayPauses, Threads, Labels, Sleeping, Making, Carrying,
     StopsMade, Cleaning
<1>c. stop_play_requested' \in BOOLEAN
  BY <1>i DEF TypeInv, PlayPauses
<1>1. TypeInv'
  BY <1>i, <1>a, <1>b, <1>c DEF TypeInv, Sleeping, Making, Carrying, StopsMade,
     Cleaning
<1>2. Order'
  BY <1>i, <1>a, <1>b, <1>c DEF TypeInv, Order, Told
<1>3. Queue'
  BY <1>i, <1>a, <1>b, <1>c DEF TypeInv, Queue, Told, Handling
<1>4. Synthesis'
  BY <1>i, <1>a, <1>b, <1>c DEF TypeInv, Queue, Synthesis, Told, Handling, Fresh,
     Making
<1>5. Stopping'
  BY <1>i, <1>a, <1>b, <1>c DEF TypeInv, Stopping, Told, Asleep, Halting, Carrying,
     StopsMade, Cleaning
<1> QED
  BY <1>1, <1>2, <1>3, <1>4, <1>5 DEF Inv

\* The play thread has played a piece of audio.
LEMMA PlayedInv ==
  ASSUME Inv, Played, Handling, entry.kind \in {"audio", "icon"} PROVE Inv'
<1>i. TypeInv /\ Order /\ Queue /\ Synthesis /\ Stopping
  BY DEF Inv
<1>a. UNCHANGED <<thread_exit_requested, stop_synth_requested,
                   stop_play_requested, pause_requested, semaphore, quitting,
                   playback_queue, entry, index_mark_ht, accepted, refused,
                   told, speaking, asked>>
  BY DEF Played, PlayUnchanged, flags, server
<1>b. /\ pc["play"] = "handle" /\ pc'["play"] = "awake"
      /\ pc' \in [Threads -> Labels]
      /\ pc'["synth"] = pc["synth"] /\ pc'["stop"] = pc["stop"]
  BY <1>i, GotoFacts DEF Played, Handling, Threads, Labels, Sleeping, Making,
     Carrying, StopsMade, Cleaning
<1>c. Told # <<>>
  BY <1>i DEF Queue
<1>1. TypeInv'
  BY <1>i, <1>a, <1>b, <1>c DEF TypeInv, Sleeping, Making, Carrying, StopsMade,
     Cleaning
<1>2. Order'
  BY <1>i, <1>a, <1>b, <1>c DEF TypeInv, Order, Told
<1>3. Queue'
  BY <1>i, <1>a, <1>b, <1>c DEF TypeInv, Queue, Told, Handling
<1>4. Synthesis'
  BY <1>i, <1>a, <1>b, <1>c DEF TypeInv, Queue, Synthesis, Told, Handling, Fresh,
     Making
<1>5. Stopping'
  BY <1>i, <1>a, <1>b, <1>c DEF TypeInv, Stopping, Told, Asleep, Halting, Carrying,
     StopsMade, Cleaning
<1> QED
  BY <1>1, <1>2, <1>3, <1>4, <1>5 DEF Inv

\* STOP or PAUSE is told while the others sleep.
LEMMA StopTellsInv ==
  ASSUME Inv, StopTells PROVE Inv'
<1>i. TypeInv /\ Order /\ Queue /\ Synthesis /\ Stopping
  BY DEF Inv
<1>a. UNCHANGED <<thread_exit_requested, stop_synth_requested,
                   stop_play_requested, pause_requested, semaphore, quitting,
                   playback_queue, entry, index_mark_ht>>
  BY DEF StopTells, StopUnchanged, Tell, flags, server
<1>b. /\ pc["stop"] = "tell" /\ pc'["stop"] = "reset"
      /\ pc' \in [Threads -> Labels]
      /\ pc'["synth"] = pc["synth"] /\ pc'["play"] = pc["play"]
  BY <1>i, GotoFacts DEF StopTells, Threads, Labels, Sleeping, Making, Carrying,
     StopsMade, Cleaning
<1>c. PICK e \in Stops :
      /\ Tell(accepted, e) /\ e \in Events
      /\ e = "STOP" => stop_synth_requested
      /\ e = "PAUSE" => pause_requested
  BY <1>i, <1>b DEF StopTells, Stops, Events, Terminal, Stopping, Halting,
     Carrying, StopsMade, Cleaning
<1>d. /\ Told \in Seq(Events) /\ ~IsStopped(Told)
      /\ Asleep("synth") /\ Asleep("play") /\ playback_queue = <<>>
      /\ accepted > 0 => Ordered(Told)
      /\ accepted > 0 => Ordered(Append(Told, e))
      /\ e = "STOP"  => <<"stop", accepted>> \in asked \/ quitting # "no"
      /\ e = "PAUSE" => <<"pause", accepted>> \in asked
  <2>1. /\ Told \in Seq(Events) /\ accepted \in Nat
        /\ accepted > 0 => Ordered(Told)
    BY <1>i, ToldFacts DEF Order, TypeInv
    <2>2. /\ ~IsStopped(Told)
          /\ Asleep("synth") /\ Asleep("play") /\ playback_queue = <<>>
          /\ e = "STOP"  => <<"stop", accepted>> \in asked \/ quitting # "no"
          /\ e = "PAUSE" => <<"pause", accepted>> \in asked
      BY <1>i, <1>b, <1>c DEF Stopping, Carrying, StopsMade, Cleaning
    <2> QED
      BY <1>c, <2>1, <2>2, OrderedStop
<1>e. /\ Order'
      /\ told' \in [MessageIds -> Seq(Events)] /\ speaking' \in BOOLEAN
      /\ Told' = IF accepted = 0 THEN Told ELSE Append(Told, e)
      /\ UNCHANGED <<accepted, refused, asked>>
  BY <1>i, <1>a, <1>c, <1>d, TellKeepsOrder
<1>1. TypeInv'
  BY <1>i, <1>a, <1>b, <1>e DEF TypeInv, Carrying, StopsMade, Cleaning
<1>2. Order'
  BY <1>e
<1>3. Queue'
  <2>1. ~Handling /\ ~Handling'
    BY <1>b, <1>d DEF Asleep, Handling
  <2>2. Len(playback_queue') = 0
    BY <1>a, <1>d
  <2> QED
    BY <1>a, <1>d, <2>1, <2>2 DEF Queue
<1>4. Synthesis'
  <2>1. ~Fresh /\ pc["synth"] \notin Making
    BY <1>d DEF Asleep, Fresh, Making
  <2>2. ~Fresh' /\ pc'["synth"] \notin Making
    BY <1>a, <1>b, <2>1 DEF Fresh
  <2> QED
    BY <1>i, <1>a, <1>b, <2>2 DEF Synthesis
<1>5. Stopping'
  <2>1. Asleep("synth")' /\ Asleep("play")'
    BY <1>a, <1>b, <1>d DEF Asleep
  <2> QED
    BY <1>i, <1>a, <1>b, <1>e, <1>d, <2>1 DEF Stopping, Halting, Carrying,
       StopsMade, Cleaning
<1> QED
  BY <1>1, <1>2, <1>3, <1>4, <1>5 DEF Inv

\* BEGIN and END are told of the message accepted last.
LEMMA PlayReportsInv ==
  ASSUME Inv, PlayReports PROVE Inv'
<1>i. TypeInv /\ Order /\ Queue /\ Synthesis /\ Stopping
  BY DEF Inv
<1>a. UNCHANGED <<thread_exit_requested, stop_synth_requested,
                   stop_play_requested, pause_requested, semaphore, quitting,
                   playback_queue, entry, index_mark_ht>>
  BY DEF PlayReports, PlayUnchanged, Tell, flags, server
<1>b. /\ pc["play"] = "handle" /\ pc'["play"] = "awake"
      /\ pc' \in [Threads -> Labels]
      /\ pc'["synth"] = pc["synth"] /\ pc'["stop"] = pc["stop"]
  BY <1>i, GotoFacts DEF PlayReports, Threads, Labels, Sleeping, Making, Carrying,
     StopsMade, Cleaning
<1>c. PICK e \in {"BEGIN", "END"} :
      /\ Tell(accepted, e) /\ e \in Events /\ e \notin Stops
      /\ entry.kind = IF e = "BEGIN" THEN "begin" ELSE "end"
  BY <1>i, <1>b DEF PlayReports, Stops, Events, Terminal, Queue, Handling
<1>d. /\ accepted > 0 /\ ~IsOver(Told) /\ index_mark_ht = accepted
      /\ Told \in Seq(Events) /\ Ordered(Told)
      /\ e = "BEGIN" <=> Told = <<>>
      /\ e = "END" => playback_queue = <<>> /\ pc["synth"] \notin Making
  BY <1>i, <1>b, <1>c, ToldFacts DEF Order, Queue, Synthesis, Handling
<1>g. Ordered(Append(Told, e))
  BY <1>c, <1>d, OrderedBegin, OrderedNext
<1>e. /\ Order'
      /\ told' \in [MessageIds -> Seq(Events)] /\ speaking' \in BOOLEAN
      /\ Told' = Append(Told, e)
      /\ UNCHANGED <<accepted, refused, asked>>
  BY <1>i, <1>a, <1>c, <1>d, <1>g, TellKeepsOrder
<1>f. /\ Told' # <<>>
      /\ IsStopped(Told') <=> IsStopped(Told)
      /\ IsOver(Told') <=> e = "END"
  BY <1>c, <1>d, <1>e, OverNext, TellsOneMore DEF Terminal
<1>h. Handling /\ ~Handling'
  BY <1>b DEF Handling
<1>1. TypeInv'
  BY <1>i, <1>a, <1>b, <1>e DEF TypeInv, Sleeping
<1>2. Order'
  BY <1>e
<1>3. Queue'
  <2>1. playback_queue = <<>> => Len(playback_queue) = 0
    OBVIOUS
  <2> QED
    BY <1>i, <1>a, <1>c, <1>d, <1>e, <1>f, <1>h, <2>1 DEF Queue
<1>4. Synthesis'
  BY <1>i, <1>a, <1>b, <1>d, <1>e, <1>f, <1>h, <1>c DEF Synthesis, Fresh, Making
<1>5. Stopping'
  BY <1>i, <1>a, <1>b, <1>e, <1>f DEF Stopping, Asleep, Halting, Carrying,
     StopsMade, Cleaning
<1> QED
  BY <1>1, <1>2, <1>3, <1>4, <1>5 DEF Inv

\* A mark is told between BEGIN and END.
LEMMA PlayReportsMarkInv ==
  ASSUME Inv, PlayReportsMark PROVE Inv'
<1>i. TypeInv /\ Order /\ Queue /\ Synthesis /\ Stopping
  BY DEF Inv
<1>a. UNCHANGED <<thread_exit_requested, stop_synth_requested,
             stop_play_requested, pause_requested, semaphore, quitting,
             playback_queue, entry, index_mark_ht>>
  BY DEF PlayReportsMark, PlayUnchanged, Tell, flags, server
<1>b. /\ pc["play"] = "handle" /\ pc'["play"] = "marked"
      /\ pc' \in [Threads -> Labels]
      /\ pc'["synth"] = pc["synth"] /\ pc'["stop"] = pc["stop"]
  BY <1>i, GotoFacts DEF PlayReportsMark, Queue, Handling, Threads, Labels
<1>c. /\ Tell(accepted, "MARK")
      /\ accepted > 0 /\ ~IsOver(Told) /\ index_mark_ht = accepted
      /\ Told \in Seq(Events) /\ Ordered(Told) /\ Told # <<>>
  BY <1>i, <1>b, ToldFacts DEF PlayReportsMark, Order, Queue, Handling
<1>d. /\ Ordered(Append(Told, "MARK"))
      /\ "MARK" \in Events /\ "MARK" \notin Terminal \cup Stops
  BY <1>c, OrderedNext DEF Events, Terminal, Stops
<1>e. /\ Order'
      /\ told' \in [MessageIds -> Seq(Events)] /\ speaking' \in BOOLEAN
      /\ Told' = Append(Told, "MARK")
      /\ UNCHANGED <<accepted, refused, asked>>
  BY <1>i, <1>a, <1>c, <1>d, TellKeepsOrder
<1>f. /\ Told' # <<>> /\ ~IsOver(Told')
      /\ IsStopped(Told') <=> IsStopped(Told)
  BY <1>c, <1>d, <1>e, OverNext, TellsOneMore
<1>h. Handling /\ ~Handling'
  BY <1>b DEF Handling
<1>1. TypeInv'
  BY <1>i, <1>a, <1>b, <1>e DEF TypeInv
<1>3. Queue'
  BY <1>i, <1>a, <1>c, <1>e, <1>f, <1>h DEF Queue
<1>4. Synthesis'
  BY <1>i, <1>a, <1>b, <1>c, <1>e, <1>f, <1>h DEF Synthesis, Fresh
<1>5. Stopping'
  BY <1>i, <1>a, <1>b, <1>e, <1>f DEF Stopping, Asleep, Halting, Carrying,
     StopsMade, Cleaning
<1> QED
  BY <1>1, <1>e, <1>3, <1>4, <1>5 DEF Inv

\* The play thread is woken by the synthesis.
LEMMA WakesPlayInv ==
  ASSUME Inv, WakesPlay PROVE Inv'
<1>i. TypeInv /\ Order /\ Queue /\ Synthesis /\ Stopping
  BY DEF Inv
<1>a. UNCHANGED <<thread_exit_requested, stop_synth_requested,
                   stop_play_requested, pause_requested, quitting,
                   playback_queue, entry, index_mark_ht, accepted, refused,
                   told, speaking, asked>>
  BY DEF WakesPlay, SynthUnchanged, flags, server
<1>b. /\ pc["synth"] \in {"wake", "wake_last"} /\ pc'["synth"] \in {"synchronize", "try"}
      /\ pc' \in [Threads -> Labels]
      /\ pc'["play"] = pc["play"] /\ pc'["stop"] = pc["stop"]
  BY <1>i, GotoFacts DEF WakesPlay, Threads, Labels, Sleeping, Making, Carrying,
     StopsMade, Cleaning
<1>c. /\ semaphore' \in [Threads -> Nat]
      /\ semaphore'["synth"] = semaphore["synth"]
      /\ semaphore'["stop"] = semaphore["stop"]
  BY <1>i, PostFacts DEF WakesPlay, Threads, TypeInv
<1>d. /\ pc["synth"] = "wake" <=> pc'["synth"] = "synchronize"
      /\ ~Asleep("synth") /\ pc["stop"] \notin StopsMade /\ ~IsStopped(Told)
  BY <1>i, <1>b DEF WakesPlay, Goto, TypeInv, Threads, Asleep, Stopping, StopsMade,
     Cleaning
<1>1. TypeInv'
  BY <1>i, <1>a, <1>b, <1>c, <1>d DEF TypeInv, Sleeping, Making, Carrying,
     StopsMade, Cleaning
<1>2. Order'
  BY <1>i, <1>a, <1>b, <1>c, <1>d DEF TypeInv, Order, Told
<1>3. Queue'
  BY <1>i, <1>a, <1>b, <1>c, <1>d DEF TypeInv, Queue, Told, Handling
<1>4. Synthesis'
  BY <1>i, <1>a, <1>b, <1>c, <1>d DEF TypeInv, Queue, Synthesis, Told, Handling,
     Fresh, Making
<1>5. Stopping'
  BY <1>i, <1>a, <1>b, <1>c, <1>d DEF Stopping, Told, Halting, Carrying, StopsMade,
     Cleaning
<1> QED
  BY <1>1, <1>2, <1>3, <1>4, <1>5 DEF Inv

\* The play thread takes an entry, if there is one and no request.
LEMMA PlayTakesInv ==
  ASSUME Inv, PlayTakes PROVE Inv'
<1>i. TypeInv /\ Order /\ Queue /\ Synthesis /\ Stopping
  BY DEF Inv
<1>a. UNCHANGED <<thread_exit_requested, stop_synth_requested,
             stop_play_requested, pause_requested, semaphore, quitting,
             index_mark_ht, accepted, refused, told, speaking, asked>>
  BY DEF PlayTakes, PlayUnchanged, flags, server
<1>b. /\ pc["play"] = "awake" /\ pc'["play"] \in {"try", "handle"}
      /\ pc' \in [Threads -> Labels]
      /\ pc'["synth"] = pc["synth"] /\ pc'["stop"] = pc["stop"]
  BY <1>i, GotoFacts DEF PlayTakes, Threads, Labels, Sleeping
<1>c. Told' = Told /\ ~Handling
  BY <1>a, <1>b DEF Told, Handling
<1>2. Order'
  BY <1>i, <1>a, <1>c DEF Order
<1>3. CASE pc'["play"] = "try" /\ UNCHANGED <<playback_queue, entry>>
  <2>1. TypeInv'
    BY <1>i, <1>a, <1>b, <1>3 DEF TypeInv, Sleeping
  <2>h. ~Handling'
    BY <1>3 DEF Handling
  <2>2. Queue'
    BY <1>i, <1>a, <1>c, <1>3, <2>h DEF Queue
  <2>3. Synthesis'
    BY <1>i, <1>a, <1>b, <1>c, <1>3, <2>h DEF Synthesis, Fresh
  <2>4. Stopping'
    BY <1>i, <1>a, <1>b, <1>c, <1>3 DEF Stopping, Asleep, Halting, Carrying,
       StopsMade, Cleaning
  <2> QED
    BY <1>2, <2>1, <2>2, <2>3, <2>4 DEF Inv
<1>4. CASE /\ pc'["play"] = "handle" /\ ~thread_exit_requested
           /\ playback_queue # <<>>
           /\ entry' = Head(playback_queue) /\ playback_queue' = Tail(playback_queue)
  <2>a. /\ playback_queue' \in Seq(Entries)
        /\ entry' = playback_queue[1] /\ entry' \in Entries
        /\ Len(playback_queue) \in Nat /\ Len(playback_queue) > 0
        /\ Len(playback_queue') = Len(playback_queue) - 1
        /\ \A i \in 1..Len(playback_queue') : playback_queue'[i] = playback_queue[i + 1]
        /\ playback_queue' # <<>> => Len(playback_queue') > 0
    BY <1>i, <1>4, PopFacts
  <2>h. Handling'
    BY <1>4 DEF Handling
  <2>e. /\ accepted > 0 /\ index_mark_ht = accepted /\ ~IsOver(Told)
        /\ entry'.msg = accepted
        /\ entry'.kind = "begin" <=> Told = <<>>
        /\ entry'.kind = "end" => Len(playback_queue) = 1
    <3>1. 1 \in 1..Len(playback_queue)
      BY <2>a
    <3>2. /\ playback_queue[1].msg = accepted
          /\ playback_queue[1].kind = "begin" => Told = <<>>
          /\ playback_queue[1].kind = "end" => 1 = Len(playback_queue)
      BY <1>i, <3>1 DEF Queue
    <3>3. /\ accepted > 0 /\ index_mark_ht = accepted /\ ~IsOver(Told)
          /\ Told = <<>> => playback_queue[1].kind = "begin"
      BY <1>i, <1>c, <1>4 DEF Queue
    <3> QED
      BY <2>a, <3>2, <3>3
  <2>f. \A i \in 1..Len(playback_queue') :
          /\ playback_queue'[i].msg = accepted
          /\ playback_queue'[i].kind # "begin"
          /\ playback_queue'[i].kind = "end" => i = Len(playback_queue')
    <3> SUFFICES ASSUME NEW i \in 1..Len(playback_queue')
                 PROVE  /\ playback_queue'[i].msg = accepted
                        /\ playback_queue'[i].kind # "begin"
                        /\ playback_queue'[i].kind = "end" => i = Len(playback_queue')
      OBVIOUS
    <3>1. i + 1 \in 1..Len(playback_queue) /\ i + 1 # 1
      BY <2>a
    <3>2. /\ playback_queue[i + 1].msg = accepted
          /\ playback_queue[i + 1].kind # "begin"
          /\ playback_queue[i + 1].kind = "end" => i + 1 = Len(playback_queue)
      BY <1>i, <3>1 DEF Queue
    <3> QED
      BY <2>a, <3>2
  <2>1. TypeInv'
    <3>1. entry' \in [kind : Kinds \cup {"none"}, msg : Nat]
      BY <2>a DEF Entries
    <3> QED
      BY <1>i, <1>a, <1>b, <1>4, <2>a, <3>1 DEF TypeInv
  <2>2. Queue'
    <3>1. entry'.kind # "none"
      BY <2>a DEF Entries, Kinds
    <3> QED
      BY <1>a, <1>c, <2>a, <2>e, <2>f, <2>h, <3>1 DEF Queue
  <2>3. Synthesis'
    <3>1. ~Fresh /\ ~Fresh'
      BY <1>i, <1>a, <1>b, <1>4 DEF Synthesis, Fresh
    <3>2. pc["synth"] \in Making =>
            /\ \A i \in 1..Len(playback_queue') : playback_queue'[i].kind # "end"
            /\ entry'.kind # "end"
      BY <1>i, <2>a DEF Synthesis
    <3> QED
      BY <1>i, <1>a, <1>b, <1>c, <2>e, <2>h, <3>1, <3>2 DEF Synthesis
  <2>4. Stopping'
    BY <1>i, <1>a, <1>b, <1>c, <1>4 DEF Stopping, Asleep, Halting, Carrying,
       StopsMade, Cleaning
  <2> QED
    BY <1>2, <2>1, <2>2, <2>3, <2>4 DEF Inv
<1> QED
  BY <1>i, <1>3, <1>4 DEF PlayTakes, Goto, TypeInv, Threads

\* A synthesis begins with an empty queue.
LEMMA SynthBeginsInv ==
  ASSUME Inv, SynthBegins PROVE Inv'
<1>i. TypeInv /\ Order /\ Queue /\ Synthesis /\ Stopping
  BY DEF Inv
<1>a. UNCHANGED <<thread_exit_requested, stop_synth_requested,
             stop_play_requested, pause_requested, semaphore, quitting,
             entry, accepted, refused, told, speaking, asked>>
  BY DEF SynthBegins, SynthUnchanged, flags, server
<1>b. /\ pc["synth"] = "awake" /\ pc'["synth"] \in {"icon", "parts"}
      /\ pc' \in [Threads -> Labels]
      /\ pc'["play"] = pc["play"] /\ pc'["stop"] = pc["stop"]
  BY <1>i, GotoFacts DEF SynthBegins, Threads, Labels, Making
<1>c. /\ accepted > 0 /\ ~Handling /\ playback_queue = <<>> /\ Told = <<>>
      /\ ~thread_exit_requested => semaphore["synth"] = 0
  BY <1>i, <1>b DEF Synthesis, Fresh
<1>d. /\ playback_queue' \in Seq(Entries) /\ playback_queue' # <<>>
      /\ Len(playback_queue') = 1
      /\ playback_queue'[1].kind = "begin" /\ playback_queue'[1].msg = accepted
      /\ index_mark_ht' = accepted
  <2>1. Push("begin") /\ "begin" \in Kinds /\ index_mark_ht' = accepted
    BY DEF SynthBegins, Kinds
  <2>2. Len(playback_queue) = 0
    BY <1>c
  <2> QED
    BY <1>i, <2>1, <2>2, PushFacts
<1>e. Told' = Told /\ ~Handling' /\ ~IsOver(Told) /\ ~IsStopped(Told)
  BY <1>a, <1>b, <1>c, NothingTold DEF Told, Handling
<1>1. TypeInv'
  BY <1>i, <1>a, <1>b, <1>d DEF TypeInv, Making
<1>2. Order'
  BY <1>i, <1>a, <1>e DEF Order
<1>3. Queue'
  BY <1>a, <1>c, <1>d, <1>e DEF Queue
<1>4. Synthesis'
  BY <1>a, <1>b, <1>c, <1>d, <1>e DEF Synthesis, Fresh
<1>5. Stopping'
  BY <1>i, <1>a, <1>b, <1>c, <1>e DEF Stopping, Asleep, Halting, Carrying,
     StopsMade, Cleaning
<1> QED
  BY <1>1, <1>2, <1>3, <1>4, <1>5 DEF Inv

\* The stop thread goes on when the one it waits for sleeps.
LEMMA StopWaitsInv ==
  ASSUME Prompt, Inv, StopWaits PROVE Inv'
<1>i. TypeInv /\ Order /\ Queue /\ Synthesis /\ Stopping
  BY DEF Inv
<1>a. UNCHANGED <<thread_exit_requested, stop_synth_requested,
             stop_play_requested, pause_requested, semaphore, quitting,
             playback_queue, entry, index_mark_ht, accepted, refused,
             told, speaking, asked>>
  BY DEF StopWaits, StopUnchanged, flags, server
<1>b. /\ pc["stop"] \in {"wait_synth", "wait_play"} /\ pc'["stop"] \in {"wait_play", "clear"}
      /\ pc' \in [Threads -> Labels]
      /\ pc'["synth"] = pc["synth"] /\ pc'["play"] = pc["play"]
  BY <1>i, GotoFacts DEF StopWaits, Threads, Labels, Carrying, StopsMade, Cleaning
<1>c. \/ pc'["stop"] = "wait_play" /\ Asleep("synth")
      \/ pc'["stop"] = "clear" /\ pc["stop"] = "wait_play" /\ Asleep("play")
  <2>1. \A t \in Threads : ~is_thread_busy(t) => Asleep(t)
    <3> SUFFICES ASSUME NEW t \in Threads, ~is_thread_busy(t) PROVE Asleep(t)
      OBVIOUS
    <3>1. pc[t] \in {"suspended", "resumed"}
      BY DEF is_thread_busy
    <3>2. pc[t] # "resumed" /\ ~(pc[t] = "suspended" /\ semaphore[t] > 0)
      BY DEF StopWaits, NobodyIsWaking
    <3>3. semaphore[t] \in Nat
      BY <1>i DEF TypeInv
    <3> QED
      BY <3>1, <3>2, <3>3 DEF Asleep
  <2> QED
    BY <1>i, <2>1 DEF StopWaits, Goto, TypeInv, Threads
<1>1. TypeInv'
  BY <1>i, <1>a, <1>b DEF TypeInv, Carrying, StopsMade, Cleaning
<1>2. Order'
  BY <1>i, <1>a DEF Order, Told
<1>3. Queue'
  BY <1>i, <1>a, <1>b DEF Queue, Told, Handling
<1>4. Synthesis'
  BY <1>i, <1>a, <1>b DEF Synthesis, Told, Handling, Fresh
<1>5. Stopping'
  BY <1>i, <1>a, <1>b, <1>c DEF Stopping, Told, Asleep, Halting, Carrying,
     StopsMade, Cleaning
<1> QED
  BY <1>1, <1>2, <1>3, <1>4, <1>5 DEF Inv

\* The threads fall asleep and are woken.
LEMMA SynthSleepsInv ==
  ASSUME Inv, Sleeps("synth") PROVE Inv'
<1>i. TypeInv /\ Order /\ Queue /\ Synthesis /\ Stopping
  BY DEF Inv
<1>a. UNCHANGED <<thread_exit_requested, stop_synth_requested,
             stop_play_requested, pause_requested, quitting,
             playback_queue, entry, index_mark_ht, accepted, refused,
             told, speaking, asked>>
  BY DEF Sleeps, flags, server
<1>b. /\ pc' \in [Threads -> Labels] /\ semaphore' \in [Threads -> Nat]
      /\ pc'["play"] = pc["play"] /\ semaphore'["play"] = semaphore["play"]
      /\ pc'["stop"] = pc["stop"] /\ semaphore'["stop"] = semaphore["stop"]
  BY <1>i, SleepsFacts DEF Threads
<1>c. \/ /\ pc["synth"] = "try" /\ thread_exit_requested /\ pc'["synth"] = "ended"
         /\ semaphore'["synth"] = semaphore["synth"]
      \/ /\ pc["synth"] = "try" /\ ~thread_exit_requested /\ semaphore["synth"] > 0
         /\ pc'["synth"] = "awake"
      \/ /\ pc["synth"] = "try" /\ ~thread_exit_requested /\ semaphore["synth"] = 0
         /\ pc'["synth"] = "suspend" /\ semaphore'["synth"] = semaphore["synth"]
      \/ /\ pc["synth"] = "suspend" /\ pc'["synth"] = "suspended"
         /\ semaphore'["synth"] = semaphore["synth"]
      \/ /\ pc["synth"] = "suspended" /\ semaphore["synth"] > 0 /\ pc'["synth"] = "resumed"
         /\ semaphore'["synth"] = semaphore["synth"] - 1
      \/ /\ pc["synth"] = "resumed" /\ thread_exit_requested /\ "synth" # "play"
         /\ pc'["synth"] = "ended" /\ semaphore'["synth"] = semaphore["synth"]
      \/ /\ pc["synth"] = "resumed" /\ (~thread_exit_requested \/ "synth" = "play")
         /\ pc'["synth"] = "awake" /\ semaphore'["synth"] = semaphore["synth"]
  BY <1>i, SleepsFacts DEF Threads
<1>1. TypeInv'
  BY <1>i, <1>a, <1>b, <1>c DEF TypeInv, Sleeping
<1>2. Order'
  BY <1>i, <1>a DEF Order, Told
<1>3. Queue'
  BY <1>i, <1>a, <1>b, <1>c DEF Queue, Told, Handling
<1>4. Synthesis'
  BY <1>i, <1>a, <1>b, <1>c DEF TypeInv, Synthesis, Told, Handling, Fresh, Making
<1>5. Stopping'
  BY <1>i, <1>a, <1>b, <1>c DEF TypeInv, Stopping, Told, Asleep, Halting, Carrying,
     StopsMade, Cleaning, Synthesis
<1> QED
  BY <1>1, <1>2, <1>3, <1>4, <1>5 DEF Inv

LEMMA PlaySleepsInv ==
  ASSUME Inv, Sleeps("play") PROVE Inv'
<1>i. TypeInv /\ Order /\ Queue /\ Synthesis /\ Stopping
  BY DEF Inv
<1>a. UNCHANGED <<thread_exit_requested, stop_synth_requested,
             stop_play_requested, pause_requested, quitting,
             playback_queue, entry, index_mark_ht, accepted, refused,
             told, speaking, asked>>
  BY DEF Sleeps, flags, server
<1>b. /\ pc' \in [Threads -> Labels] /\ semaphore' \in [Threads -> Nat]
      /\ pc'["synth"] = pc["synth"] /\ semaphore'["synth"] = semaphore["synth"]
      /\ pc'["stop"] = pc["stop"] /\ semaphore'["stop"] = semaphore["stop"]
  BY <1>i, SleepsFacts DEF Threads
<1>c. \/ /\ pc["play"] = "try" /\ thread_exit_requested /\ pc'["play"] = "ended"
         /\ semaphore'["play"] = semaphore["play"]
      \/ /\ pc["play"] = "try" /\ ~thread_exit_requested /\ semaphore["play"] > 0
         /\ pc'["play"] = "awake"
      \/ /\ pc["play"] = "try" /\ ~thread_exit_requested /\ semaphore["play"] = 0
         /\ pc'["play"] = "suspend" /\ semaphore'["play"] = semaphore["play"]
      \/ /\ pc["play"] = "suspend" /\ pc'["play"] = "suspended"
         /\ semaphore'["play"] = semaphore["play"]
      \/ /\ pc["play"] = "suspended" /\ semaphore["play"] > 0 /\ pc'["play"] = "resumed"
         /\ semaphore'["play"] = semaphore["play"] - 1
      \/ /\ pc["play"] = "resumed" /\ thread_exit_requested /\ "play" # "play"
         /\ pc'["play"] = "ended" /\ semaphore'["play"] = semaphore["play"]
      \/ /\ pc["play"] = "resumed" /\ (~thread_exit_requested \/ "play" = "play")
         /\ pc'["play"] = "awake" /\ semaphore'["play"] = semaphore["play"]
  BY <1>i, SleepsFacts DEF Threads
<1>1. TypeInv'
  BY <1>i, <1>a, <1>b, <1>c DEF TypeInv, Sleeping
<1>2. Order'
  BY <1>i, <1>a DEF Order, Told
<1>3. Queue'
  BY <1>i, <1>a, <1>b, <1>c DEF Queue, Told, Handling
<1>4. Synthesis'
  BY <1>i, <1>a, <1>b, <1>c DEF TypeInv, Synthesis, Told, Handling, Fresh, Making
<1>5. Stopping'
  BY <1>i, <1>a, <1>b, <1>c DEF TypeInv, Stopping, Told, Asleep, Halting, Carrying,
     StopsMade, Cleaning, Synthesis
<1> QED
  BY <1>1, <1>2, <1>3, <1>4, <1>5 DEF Inv

LEMMA StopSleepsInv ==
  ASSUME Inv, Sleeps("stop") PROVE Inv'
<1>i. TypeInv /\ Order /\ Queue /\ Synthesis /\ Stopping
  BY DEF Inv
<1>a. UNCHANGED <<thread_exit_requested, stop_synth_requested,
             stop_play_requested, pause_requested, quitting,
             playback_queue, entry, index_mark_ht, accepted, refused,
             told, speaking, asked>>
  BY DEF Sleeps, flags, server
<1>b. /\ pc' \in [Threads -> Labels] /\ semaphore' \in [Threads -> Nat]
      /\ pc'["synth"] = pc["synth"] /\ semaphore'["synth"] = semaphore["synth"]
      /\ pc'["play"] = pc["play"] /\ semaphore'["play"] = semaphore["play"]
  BY <1>i, SleepsFacts DEF Threads
<1>c. \/ /\ pc["stop"] = "try" /\ thread_exit_requested /\ pc'["stop"] = "ended"
         /\ semaphore'["stop"] = semaphore["stop"]
      \/ /\ pc["stop"] = "try" /\ ~thread_exit_requested /\ semaphore["stop"] > 0
         /\ pc'["stop"] = "awake"
      \/ /\ pc["stop"] = "try" /\ ~thread_exit_requested /\ semaphore["stop"] = 0
         /\ pc'["stop"] = "suspend" /\ semaphore'["stop"] = semaphore["stop"]
      \/ /\ pc["stop"] = "suspend" /\ pc'["stop"] = "suspended"
         /\ semaphore'["stop"] = semaphore["stop"]
      \/ /\ pc["stop"] = "suspended" /\ semaphore["stop"] > 0 /\ pc'["stop"] = "resumed"
         /\ semaphore'["stop"] = semaphore["stop"] - 1
      \/ /\ pc["stop"] = "resumed" /\ thread_exit_requested /\ "stop" # "play"
         /\ pc'["stop"] = "ended" /\ semaphore'["stop"] = semaphore["stop"]
      \/ /\ pc["stop"] = "resumed" /\ (~thread_exit_requested \/ "stop" = "play")
         /\ pc'["stop"] = "awake" /\ semaphore'["stop"] = semaphore["stop"]
  BY <1>i, SleepsFacts DEF Threads
<1>1. TypeInv'
  BY <1>i, <1>a, <1>b, <1>c DEF TypeInv, Sleeping
<1>2. Order'
  BY <1>i, <1>a DEF Order, Told
<1>3. Queue'
  BY <1>i, <1>a, <1>b, <1>c DEF Queue, Told, Handling
<1>4. Synthesis'
  BY <1>i, <1>a, <1>b, <1>c DEF TypeInv, Synthesis, Told, Handling, Fresh, Making
<1>5. Stopping'
  BY <1>i, <1>a, <1>b, <1>c DEF TypeInv, Stopping, Told, Asleep, Halting, Carrying,
     StopsMade, Cleaning, Synthesis
<1> QED
  BY <1>1, <1>2, <1>3, <1>4, <1>5 DEF Inv

\* All sleep when a message is accepted.
LEMMA NobodyBusy ==
  ASSUME Prompt, TypeInv, Arrives, NEW t \in Threads
  PROVE  /\ ~thread_exit_requested /\ quitting = "no"
         /\ ~is_thread_busy(t) => pc[t] = "suspended" /\ semaphore[t] = 0
<1>1. quitting = "no" /\ NobodyIsWaking
  BY DEF Arrives
<1>2. ~thread_exit_requested
  BY <1>1 DEF TypeInv
<1>3. ASSUME ~is_thread_busy(t) PROVE pc[t] = "suspended" /\ semaphore[t] = 0
  <2>1. pc[t] \in {"suspended", "resumed"}
    BY <1>3 DEF is_thread_busy
  <2>2. pc[t] # "resumed" /\ ~(pc[t] = "suspended" /\ semaphore[t] > 0)
    BY <1>1 DEF NobodyIsWaking
  <2>3. semaphore[t] \in Nat
    BY DEF TypeInv
  <2> QED
    BY <2>1, <2>2, <2>3
<1> QED
  BY <1>1, <1>2, <1>3

\* A message is accepted or refused.
LEMMA ibmtts_speakInv ==
  ASSUME Prompt, Inv, ibmtts_speak PROVE Inv'
<1>i. TypeInv /\ Order /\ Queue /\ Synthesis /\ Stopping
  BY DEF Inv
<1>a. UNCHANGED <<thread_exit_requested, stop_synth_requested,
             stop_play_requested, pause_requested, quitting,
             playback_queue, entry, index_mark_ht, told, asked>>
  BY DEF ibmtts_speak, MainUnchanged, flags, server
<1>b. UNCHANGED pc
  BY DEF ibmtts_speak, MainUnchanged
<1>n. /\ accepted \in Nat /\ refused \in Nat /\ MaxMessages \in Nat
      /\ accepted + refused < MaxMessages /\ ~speaking
  BY <1>i, IbmttsAssumption DEF TypeInv, ibmtts_speak
<1>1. CASE refused' = refused + 1 /\ UNCHANGED <<accepted, speaking, semaphore>>
  <2>1. TypeInv'
    BY <1>i, <1>a, <1>b, <1>n, <1>1 DEF TypeInv
  <2>2. Order'
    BY <1>i, <1>a, <1>1 DEF Order, Told
  <2>3. Queue'
    BY <1>i, <1>a, <1>b, <1>1 DEF Queue, Told, Handling
  <2>4. Synthesis'
    BY <1>i, <1>a, <1>b, <1>1 DEF Synthesis, Told, Handling, Fresh
  <2>5. Stopping'
    BY <1>i, <1>a, <1>b, <1>1 DEF Stopping, Told, Asleep, Halting
  <2> QED
    BY <2>1, <2>2, <2>3, <2>4, <2>5 DEF Inv
<1>2. CASE /\ \A t \in Threads : ~is_thread_busy(t)
           /\ accepted' = accepted + 1 /\ speaking' = TRUE /\ refused' = refused
           /\ sem_post("synth")
  <2>a. Arrives
    BY DEF ibmtts_speak
  <2>b. /\ ~thread_exit_requested /\ quitting = "no"
        /\ \A t \in Threads : pc[t] = "suspended" /\ semaphore[t] = 0
    <3>1. "synth" \in Threads
      BY DEF Threads
    <3> QED
      BY <1>i, <1>2, <2>a, <3>1, NobodyBusy
  <2>c. /\ pc["synth"] = "suspended" /\ semaphore["synth"] = 0
        /\ pc["play"] = "suspended" /\ pc["stop"] = "suspended" /\ semaphore["stop"] = 0
    BY <2>b DEF Threads
  <2>d. semaphore' \in [Threads -> Nat] /\ semaphore'["synth"] = 1
        /\ semaphore'["stop"] = 0
    BY <1>i, <1>2, <2>c, PostFacts DEF Threads
  <2>e. playback_queue = <<>> /\ ~Handling /\ ~Handling' /\ ~Halting /\ ~Halting'
    BY <1>i, <1>a, <1>b, <1>n, <2>b, <2>c DEF Order, Queue, Stopping, Handling,
       Halting, Carrying, StopsMade, Cleaning
  <2>f. accepted' \in MessageIds /\ accepted' > accepted
    BY <1>n, <1>2 DEF MessageIds
  <2>g. Told' = <<>>
    BY <1>i, <1>a, <1>n, <2>f DEF Order, Told
  <2>h. ~IsOver(Told') /\ ~IsStopped(Told')
    BY <2>g, NothingTold
  <2>1. TypeInv'
    <3>1. accepted' \in Nat /\ accepted' + refused' <= MaxMessages /\ speaking' \in BOOLEAN
      BY <1>n, <1>2
    <3> QED
      BY <1>i, <1>a, <1>b, <1>2, <2>d, <3>1 DEF TypeInv
  <2>2. Order'
    <3>1. \A m \in MessageIds : m > accepted' => m > accepted
      BY <1>n, <1>2 DEF MessageIds
    <3>2. speaking' /\ accepted' > 0
      BY <1>n, <1>2
    <3> QED
      BY <1>i, <1>a, <2>h, <3>1, <3>2 DEF Order
  <2>3. Queue'
    <3>1. Len(playback_queue') = 0
      BY <1>a, <2>e
    <3> QED
      BY <1>a, <2>e, <3>1 DEF Queue
  <2>4. Synthesis'
    BY <1>n, <1>2, <1>a, <1>b, <2>c, <2>d, <2>e, <2>g DEF Synthesis, Making
  <2>5. Stopping'
    BY <1>a, <1>b, <1>i, <2>b, <2>c, <2>e, <2>h DEF Stopping, Halting, Carrying,
       StopsMade, Cleaning
  <2> QED
    BY <2>1, <2>2, <2>3, <2>4, <2>5 DEF Inv
<1> QED
  BY <1>1, <1>2 DEF ibmtts_speak

\* STOP and QUIT: whoever is busy is stopped.
LEMMA StopRequested ==
  ASSUME Prompt, Inv, Arrives, RequestsStop, ~IsStopped(Told),
         UNCHANGED <<thread_exit_requested, pc, playback_queue, entry, index_mark_ht,
                     told, accepted, refused, speaking>>,
         <<"stop", accepted>> \in asked' \/ quitting' # "no",
         quitting' \in {"no", "closing"}, asked \subseteq asked'
  PROVE  Inv'
<1>i. TypeInv /\ Order /\ Queue /\ Synthesis /\ Stopping
  BY DEF Inv
<1>b. /\ ~thread_exit_requested /\ quitting = "no"
  BY <1>i, NobodyBusy DEF Threads
<1>c. /\ semaphore' \in [Threads -> Nat]
      /\ semaphore'["synth"] = semaphore["synth"]
      /\ semaphore'["play"] = semaphore["play"]
      /\ semaphore'["stop"] >= semaphore["stop"]
      /\ semaphore["stop"] \in Nat /\ pause_requested' = pause_requested
      /\ \/ /\ stop_synth_requested' = TRUE /\ stop_play_requested' = TRUE
            /\ semaphore'["stop"] > 0
         \/ /\ stop_synth_requested' = stop_synth_requested
            /\ stop_play_requested' = stop_play_requested
  <2>t. semaphore \in [Threads -> Nat]
    BY <1>i DEF TypeInv
  <2>1. CASE UNCHANGED <<flags, semaphore>>
    <3>1. /\ semaphore' = semaphore /\ pause_requested' = pause_requested
          /\ stop_synth_requested' = stop_synth_requested
          /\ stop_play_requested' = stop_play_requested
      BY <2>1 DEF flags
    <3>2. semaphore["stop"] \in Nat
      BY <2>t DEF Threads
    <3> QED
      BY <3>1, <3>2, <2>t
  <2>2. CASE /\ stop_synth_requested' = TRUE /\ stop_play_requested' = TRUE
             /\ sem_post("stop") /\ UNCHANGED pause_requested
    <3>1. semaphore["stop"] \in Nat
      BY <2>t DEF Threads
    <3>2. /\ semaphore' \in [Threads -> Nat]
          /\ semaphore'["stop"] = semaphore["stop"] + 1
          /\ semaphore'["synth"] = semaphore["synth"]
          /\ semaphore'["play"] = semaphore["play"]
      BY <1>i, <2>2, PostFacts DEF Threads
    <3>3. semaphore'["stop"] >= semaphore["stop"] /\ semaphore'["stop"] > 0
      BY <3>1, <3>2
    <3> QED
      BY <2>2, <3>1, <3>2, <3>3
  <2> QED
    BY <2>1, <2>2 DEF RequestsStop
<1>d. Told' = Told /\ (Handling' <=> Handling)
  BY DEF Told, Handling
<1>1. TypeInv'
  BY <1>i, <1>b, <1>c DEF TypeInv
<1>2. Order'
  <2>1. \A m \in MessageIds : \A i \in 1..Len(told[m]) :
          /\ told[m][i] = "STOP"  => <<"stop", m>> \in asked' \/ quitting' # "no"
          /\ told[m][i] = "PAUSE" => <<"pause", m>> \in asked'
    BY <1>i, <1>b DEF Order
  <2> QED
    BY <1>i, <1>d, <2>1 DEF Order
<1>3. Queue'
  BY <1>i, <1>d DEF Queue
<1>4. Synthesis'
  BY <1>i, <1>c, <1>d DEF Synthesis, Fresh
<1>5. Stopping'
  <2>1. (Asleep("synth") => Asleep("synth")') /\ (Asleep("play") => Asleep("play")')
    BY <1>c DEF Asleep
  <2>2. Halting' /\ ~thread_exit_requested
         => semaphore'["stop"] > 0 \/ pc["stop"] \in {"resumed", "awake"} \cup Carrying
    <3>1. CASE semaphore'["stop"] > 0
      BY <3>1
    <3>2. CASE ~(semaphore'["stop"] > 0)
      <4>1. ~(semaphore["stop"] > 0) /\ (Halting' => Halting)
        <5>1. ~(semaphore["stop"] > 0)
          <6>1. semaphore'["stop"] \in Nat
            BY <1>c DEF Threads
          <6> QED
            BY <1>c, <3>2, <6>1
        <5>2. /\ stop_synth_requested' = stop_synth_requested
              /\ pause_requested' = pause_requested
          BY <1>c, <3>2
        <5> QED
          BY <5>1, <5>2 DEF Halting
      <4> QED
        BY <1>i, <4>1 DEF Stopping
    <3> QED
      BY <3>1, <3>2
  <2>3. pc["stop"] \in Carrying => Halting'
    BY <1>i, <1>c DEF Stopping, Halting
  <2>4. pause_requested' => <<"pause", accepted>> \in asked'
    BY <1>i, <1>c DEF Stopping
  <2> QED
    BY <1>i, <1>d, <2>1, <2>2, <2>3, <2>4 DEF Stopping
<1> QED
  BY <1>1, <1>2, <1>3, <1>4, <1>5 DEF Inv

\* A message that is spoken was not stopped.
LEMMA SpeakingIsUnstopped ==
  ASSUME Inv, speaking PROVE accepted > 0 /\ ~IsOver(Told) /\ ~IsStopped(Told)
<1>1. accepted > 0 /\ ~IsOver(Told)
  BY DEF Inv, Order
<1> QED
  BY <1>1 DEF IsOver, IsStopped, Stops, Terminal

\* STOP.
LEMMA ibmtts_stopInv ==
  ASSUME Prompt, Inv, ibmtts_stop PROVE Inv'
<1>1. /\ Arrives /\ RequestsStop /\ speaking
      /\ asked' = asked \cup {<<"stop", accepted>>}
  BY DEF ibmtts_stop, Requested
<1>2. /\ UNCHANGED <<thread_exit_requested, pc, playback_queue, entry, index_mark_ht,
                     told, accepted, refused, speaking>>
      /\ quitting' = quitting /\ quitting = "no"
  BY <1>1 DEF ibmtts_stop, MainUnchanged, Arrives
<1>3. ~IsStopped(Told)
  BY <1>1, SpeakingIsUnstopped
<1> QED
  BY <1>1, <1>2, <1>3, StopRequested

\* QUIT stops what is spoken; a message stopped already leaves nobody busy.
LEMMA ibmtts_closeInv ==
  ASSUME Prompt, Inv, ibmtts_close PROVE Inv'
<1>i. TypeInv /\ Order /\ Queue /\ Synthesis /\ Stopping
  BY DEF Inv
<1>1. Arrives /\ RequestsStop /\ quitting' = "closing" /\ asked' = asked
  BY DEF ibmtts_close
<1>2. UNCHANGED <<thread_exit_requested, pc, playback_queue, entry, index_mark_ht,
                  told, accepted, refused, speaking>>
  BY DEF ibmtts_close, MainUnchanged
<1>3. CASE ~IsStopped(Told)
  BY <1>1, <1>2, <1>3, StopRequested
<1>4. CASE IsStopped(Told)
  <2>a. ~thread_exit_requested /\ quitting = "no"
    BY <1>i, <1>1, NobodyBusy DEF Threads
  <2>b. pc["synth"] = "suspended" /\ pc["play"] = "suspended"
    BY <1>i, <1>4, <2>a DEF Stopping, Asleep
  <2>c. UNCHANGED <<stop_synth_requested, stop_play_requested, pause_requested, semaphore>>
    BY <1>1, <2>b DEF RequestsStop, is_thread_busy, flags
  <2>d. Told' = Told /\ (Handling' <=> Handling)
    BY <1>2 DEF Told, Handling
  <2>1. TypeInv'
    BY <1>i, <1>1, <1>2, <2>a, <2>c DEF TypeInv
  <2>2. Order'
    BY <1>i, <1>1, <1>2, <2>d DEF Order
  <2>3. Queue'
    BY <1>i, <1>2, <2>d DEF Queue
  <2>4. Synthesis'
    BY <1>i, <1>2, <2>c, <2>d DEF Synthesis, Fresh
  <2>5. Stopping'
    BY <1>i, <1>1, <1>2, <2>c, <2>d DEF Stopping, Asleep, Halting
  <2> QED
    BY <2>1, <2>2, <2>3, <2>4, <2>5 DEF Inv
<1> QED
  BY <1>3, <1>4

\* PAUSE.
LEMMA ibmtts_pauseInv ==
  ASSUME Prompt, Inv, ibmtts_pause PROVE Inv'
<1>i. TypeInv /\ Order /\ Queue /\ Synthesis /\ Stopping
  BY DEF Inv
<1>a. UNCHANGED <<thread_exit_requested, stop_synth_requested, stop_play_requested,
                  pc, quitting, playback_queue, entry, index_mark_ht, told,
                  accepted, refused, speaking>>
  BY DEF ibmtts_pause, MainUnchanged
<1>b. /\ speaking /\ pause_requested' = TRUE
      /\ asked' = asked \cup {<<"pause", accepted>>}
  BY DEF ibmtts_pause, Requested
<1>c. /\ semaphore' \in [Threads -> Nat]
      /\ semaphore'["synth"] = semaphore["synth"]
      /\ semaphore'["play"] = semaphore["play"]
      /\ semaphore'["stop"] > 0
  <2>1. semaphore["stop"] \in Nat
    BY <1>i DEF TypeInv, Threads
  <2> QED
    BY <1>i, <2>1, PostFacts DEF ibmtts_pause, Threads
<1>d. Told' = Told /\ (Handling' <=> Handling) /\ ~IsStopped(Told)
  BY <1>a, <1>b, SpeakingIsUnstopped DEF Told, Handling
<1>1. TypeInv'
  BY <1>i, <1>a, <1>b, <1>c DEF TypeInv
<1>2. Order'
  BY <1>i, <1>a, <1>b, <1>d DEF Order
<1>3. Queue'
  BY <1>i, <1>a, <1>d DEF Queue
<1>4. Synthesis'
  BY <1>i, <1>a, <1>c, <1>d DEF Synthesis, Fresh
<1>5. Stopping'
  BY <1>i, <1>a, <1>b, <1>c, <1>d DEF Stopping, Asleep, Halting
<1> QED
  BY <1>1, <1>2, <1>3, <1>4, <1>5 DEF Inv

\* All threads are told to end: who was asleep, still is.
LEMMA EndsThreadsInv ==
  ASSUME Inv, EndsThreads PROVE Inv'
<1>i. TypeInv /\ Order /\ Queue /\ Synthesis /\ Stopping
  BY DEF Inv
<1>a. UNCHANGED <<stop_synth_requested, stop_play_requested, pause_requested,
                  pc, playback_queue, entry, index_mark_ht, told,
                  accepted, refused, speaking, asked>>
  BY DEF EndsThreads, flags, server
<1>b. /\ quitting = "closing" /\ quitting' = "joining" /\ thread_exit_requested' = TRUE
      /\ ~thread_exit_requested
  BY <1>i DEF EndsThreads, TypeInv
<1>c. semaphore' \in [Threads -> Nat]
  BY <1>i DEF EndsThreads, TypeInv
<1>d. Told' = Told /\ (Handling' <=> Handling)
  BY <1>a DEF Told, Handling
<1>1. TypeInv'
  BY <1>i, <1>a, <1>b, <1>c DEF TypeInv
<1>2. Order'
  BY <1>i, <1>a, <1>b, <1>d DEF Order
<1>3. Queue'
  BY <1>i, <1>a, <1>d DEF Queue
<1>4. Synthesis'
  BY <1>i, <1>a, <1>b, <1>d DEF Synthesis, Fresh
<1>5. Stopping'
  BY <1>i, <1>a, <1>b, <1>d DEF Stopping, Asleep, Halting
<1> QED
  BY <1>1, <1>2, <1>3, <1>4, <1>5 DEF Inv

-----------------------------------------------------------------------------
(* The invariant, and the order of the events.                             *)

\* At first.
LEMMA InitInv == ASSUME Init PROVE Inv
<1>1. MaxMessages \in Nat
  BY IbmttsAssumption
<1>2. /\ playback_queue = <<>> /\ Len(playback_queue) = 0
      /\ told = [m \in MessageIds |-> <<>>] /\ accepted = 0 /\ Told = <<>>
  BY DEF Init, Told
<1>3. TypeInv
  <2>1. <<>> \in Seq(Entries) /\ <<>> \in Seq(Events)
    OBVIOUS
  <2>2. pc = [t \in Threads |-> "try"] /\ semaphore = [t \in Threads |-> 0]
    BY DEF Init
  <2>3. pc \in [Threads -> Labels] /\ semaphore \in [Threads -> Nat]
    BY <2>2, Places
  <2>4. told \in [MessageIds -> Seq(Events)]
    BY <1>2, <2>1
  <2>5. entry \in [kind : Kinds \cup {"none"}, msg : Nat]
    BY DEF Init, NoEntry
  <2>6. /\ pc["synth"] \in Sleeping \cup Making \cup {"wake_last"}
        /\ pc["play"] \in Sleeping \cup {"handle", "marked"}
        /\ pc["stop"] \in Sleeping \cup Carrying
    BY <2>2 DEF Sleeping, Threads
  <2>7. /\ thread_exit_requested = FALSE /\ quitting = "no"
        /\ stop_synth_requested = FALSE /\ stop_play_requested = FALSE
        /\ pause_requested = FALSE /\ speaking = FALSE
        /\ accepted = 0 /\ refused = 0
    BY DEF Init
  <2>8. accepted \in Nat /\ refused \in Nat /\ accepted + refused <= MaxMessages
    BY <1>1, <2>7
  <2>9. /\ thread_exit_requested \in BOOLEAN /\ stop_synth_requested \in BOOLEAN
        /\ stop_play_requested \in BOOLEAN /\ pause_requested \in BOOLEAN
        /\ speaking \in BOOLEAN /\ quitting \in {"no", "closing", "joining"}
        /\ thread_exit_requested <=> quitting = "joining"
    BY <2>7
  <2>10. playback_queue \in Seq(Entries)
    BY <1>2, <2>1
  <2> QED
    BY <2>3, <2>4, <2>5, <2>6, <2>8, <2>9, <2>10 DEF TypeInv
<1>4. Order
  <2>1. \A m \in MessageIds : told[m] = <<>> /\ Len(told[m]) = 0
    BY <1>2
  <2> QED
    BY <1>2, <2>1, NothingTold DEF Init, Order
<1>5. Queue
  BY <1>2 DEF Init, Queue, Handling, Threads
<1>6. Synthesis
  BY DEF Init, Synthesis, Fresh, Threads, Making
<1>7. Stopping
  BY <1>2, NothingTold DEF Init, Stopping, Halting, Threads, Carrying, StopsMade,
     Cleaning
<1> QED
  BY <1>3, <1>4, <1>5, <1>6, <1>7 DEF Inv

LEMMA StutterInv == ASSUME Inv, UNCHANGED vars PROVE Inv'
<1>i. TypeInv /\ Order /\ Queue /\ Synthesis /\ Stopping
  BY DEF Inv
<1>a. UNCHANGED <<thread_exit_requested, stop_synth_requested, stop_play_requested,
                  pause_requested, semaphore, pc, quitting, playback_queue, entry,
                  index_mark_ht, accepted, refused, told, speaking, asked>>
  BY DEF vars, flags, server
<1>1. TypeInv'
  BY <1>i, <1>a DEF TypeInv
<1>2. Order'
  BY <1>i, <1>a DEF Order, Told
<1>3. Queue'
  BY <1>i, <1>a DEF Queue, Told, Handling
<1>4. Synthesis'
  BY <1>i, <1>a DEF Synthesis, Told, Handling, Fresh
<1>5. Stopping'
  BY <1>i, <1>a DEF Stopping, Told, Asleep, Halting
<1> QED
  BY <1>1, <1>2, <1>3, <1>4, <1>5 DEF Inv

\* Every step.
LEMMA NextInv == ASSUME Prompt, Inv, [Next]_vars PROVE Inv'
<1>1. CASE Main
  BY <1>1, ibmtts_speakInv, ibmtts_stopInv, ibmtts_pauseInv, ibmtts_closeInv DEF Main
<1>2. CASE EndsThreads
  BY <1>2, EndsThreadsInv
<1>3. CASE Synth
  BY <1>3, SynthSleepsInv, SynthBeginsInv, SynthIconInv, process_text_markInv,
     eciCallbackInv, WakesPlayInv DEF Synth
<1>4. CASE Play
  <2>1. ASSUME ibmtts_send_to_audio \/ ibmtts_play_file PROVE Inv'
    BY <2>1, PlayedInv DEF ibmtts_send_to_audio, ibmtts_play_file, Handling
  <2> QED
    BY <1>4, <2>1, PlaySleepsInv, PlayTakesInv, PlayReportsInv, PlayReportsMarkInv,
       PlayPausesInv DEF Play
<1>5. CASE StopOrPause
  BY <1>5, StopSleepsInv, StopStartsInv, StopWaitsInv, StopDropsTableInv, ClearInv,
     StopTellsInv, StopResetsInv DEF StopOrPause
<1>6. CASE UNCHANGED vars
  BY <1>6, StutterInv
<1> QED
  BY <1>1, <1>2, <1>3, <1>4, <1>5, <1>6 DEF Next

\* However the threads take turns, if one that was woken runs before the next
\* command comes: what is queued is of the message accepted last, a synthesis
\* begins with an empty queue, the stop thread clears the queue and the table
\* while the others sleep, and what was requested is used up by the message it
\* was sent for.
THEOREM IbmttsInvariant == ASSUME Prompt PROVE Spec => []Inv
<1>1. Init => Inv
  BY InitInv
<1>2. Inv /\ [Next]_vars => Inv'
  BY NextInv
<1> QED
  BY <1>1, <1>2, PTL DEF Spec

\* What the invariant says of the order.
LEMMA InvOrder == ASSUME Inv PROVE EventsInOrder
<1>i. TypeInv /\ Order /\ Queue
  BY DEF Inv
<1>1. \A m \in MessageIds : DOMAIN told[m] = 1..Len(told[m])
  BY <1>i DEF TypeInv
<1>2. DOMAIN playback_queue = 1..Len(playback_queue)
  BY <1>i DEF TypeInv
<1>3. \A m \in MessageIds : \A i \in DOMAIN told[m] :
       /\ told[m][i] = "BEGIN" <=> i = 1 /\ told[m] \notin {<<"STOP">>, <<"PAUSE">>}
       /\ i < Len(told[m]) /\ told[m][i] \in Terminal
            => told[m][i] = "END" /\ told[m][i + 1] # "END" /\ i + 1 = Len(told[m])
       /\ told[m][i] = "STOP"  => <<"stop", m>> \in asked \/ quitting # "no"
       /\ told[m][i] = "PAUSE" => <<"pause", m>> \in asked
  <2> SUFFICES ASSUME NEW m \in MessageIds, NEW i \in DOMAIN told[m]
      PROVE
       /\ told[m][i] = "BEGIN" <=> i = 1 /\ told[m] \notin {<<"STOP">>, <<"PAUSE">>}
       /\ i < Len(told[m]) /\ told[m][i] \in Terminal
            => told[m][i] = "END" /\ told[m][i + 1] # "END" /\ i + 1 = Len(told[m])
       /\ told[m][i] = "STOP"  => <<"stop", m>> \in asked \/ quitting # "no"
       /\ told[m][i] = "PAUSE" => <<"pause", m>> \in asked
    OBVIOUS
  <2>1. i \in 1..Len(told[m]) /\ Ordered(told[m])
    BY <1>i, <1>1 DEF Order
  <2>2. /\ told[m][i] = "STOP"  => <<"stop", m>> \in asked \/ quitting # "no"
        /\ told[m][i] = "PAUSE" => <<"pause", m>> \in asked
    BY <1>i, <2>1 DEF Order
  <2>3. /\ told[m][i] = "BEGIN" <=> i = 1 /\ told[m] \notin {<<"STOP">>, <<"PAUSE">>}
        /\ i < Len(told[m]) /\ told[m][i] \in Terminal
             => told[m][i] = "END" /\ told[m][i + 1] # "END" /\ i + 1 = Len(told[m])
    BY <2>1 DEF Ordered, Stops
  <2> QED
    BY <2>2, <2>3
<1>4. Sounding => told[entry.msg] # <<>> /\ ~Over(entry.msg)
  <2> SUFFICES ASSUME Sounding PROVE told[entry.msg] # <<>> /\ ~Over(entry.msg)
    OBVIOUS
  <2>1. Handling /\ entry.kind # "begin"
    BY DEF Sounding, Handling
  <2>2. accepted > 0 /\ entry.msg = accepted /\ Told # <<>> /\ ~IsOver(Told)
    BY <1>i, <2>1 DEF Queue
  <2>3. accepted \in MessageIds /\ Told = told[accepted]
    BY <1>i, <2>2, ToldFacts
  <2> QED
    BY <1>1, <2>2, <2>3 DEF Over, IsOver
<1>5. \A i \in DOMAIN playback_queue : playback_queue[i].msg = accepted
  BY <1>i, <1>2 DEF Queue
<1>6. pc["play"] = "handle" /\ entry.kind = "mark" => index_mark_ht = entry.msg
  BY <1>i DEF Queue, Handling
<1> QED
  BY <1>3, <1>4, <1>5, <1>6 DEF EventsInOrder

\* What the server is told of each message comes in order, and a message is
\* stopped or paused only by a request that was sent for it.
THEOREM IbmttsEventsInOrder == ASSUME Prompt PROVE Spec => []EventsInOrder
<1>1. Inv => EventsInOrder
  BY InvOrder
<1>2. Spec => []Inv
  BY IbmttsInvariant
<1> QED
  BY <1>1, <1>2, PTL
=============================================================================
