------------------------- MODULE EspeakFestivalProofs -------------------------
(***************************************************************************)
(* Theorems about the espeak module, in the first part, and the festival   *)
(* module, in the second.                                                  *)
(*                                                                         *)
(* Espeak: what the server is told comes in order, for any number of       *)
(* messages, entries and requests: whenever STOP, PAUSE and QUIT come and  *)
(* however the four threads take turns.                                    *)
(*                                                                         *)
(* Festival: for any languages, voices and rates, for any texts and sizes, *)
(* and whatever the keys of the cache tell apart, what is heard is what    *)
(* was asked for, a connection that breaks costs one message, and the      *)
(* books of the cache are right and within its limit.                      *)
(***************************************************************************)
EXTENDS Espeak, Festival, SequenceTheorems, FiniteSetTheorems,
        WellFoundedInduction, TLAPS

-----------------------------------------------------------------------------
(* The inductive invariant.                                                *)

Kinds  == {"begin", "audio", "mark", "icon", "end"}
Reports == {"BEGIN", "MARK"} \cup Terminal

TypeOK ==
  /\ espeak_state \in {"IDLE", "BEFORE_SYNTH", "BEFORE_PLAY", "SPEAKING"}
  /\ espeak_pause_state \in {"OFF", "REQUESTED", "MARK_REPORTED"}
  /\ espeak_stop_requested \in BOOLEAN /\ espeak_close_requested \in BOOLEAN
  /\ espeak_state_mutex_kept \in BOOLEAN
  /\ playback_queue \in Seq([kind : Kinds, msg : Nat])
  /\ ppc \in {"try", "suspend", "suspended", "resumed", "awake", "pop",
              "handle", "tell_begin", "mark", "tell_end", "ended"}
  /\ entry \in [kind : Kinds \cup {"none"}, msg : Nat]
  /\ spc \in {"try", "suspend", "suspended", "resumed", "awake", "broadcast",
              "wait_play", "cancel", "clear", "reset", "tell", "ended"}
  /\ report \in [event : {"none", "STOP", "PAUSE"}, msg : Nat]
  /\ cpc \in {"none", "queued", "check", "room", "push", "mark"}
  /\ accepted \in Nat /\ refused \in Nat /\ accepted + refused <= MaxMessages
  /\ told \in [MessageIds -> Seq(Reports)]

\* what is told of one message
Ended(t)   == \E i \in DOMAIN t : t[i] \in Terminal
EndIsLast(t) == /\ t # <<>> /\ t[Len(t)] = "END"
                /\ \A i \in 1..(Len(t) - 1) : t[i] \notin Terminal
AtMark(t)  == t # <<>> /\ t[Len(t)] = "MARK" /\ ~Ended(t)
Ordered(t) == \A i \in DOMAIN t :
                /\ t[i] = "BEGIN" <=> i = 1 /\ t # <<"STOP">>
                /\ i < Len(t) /\ t[i] \in Terminal
                     => t[i] = "END" /\ t[i + 1] = "STOP" /\ i + 1 = Len(t)
                /\ t[i] = "PAUSE" => i > 1 /\ t[i - 1] = "MARK"
MayStop(t)  == ~Ended(t) \/ EndIsLast(t)
MayTell(t, e) == (e = "STOP" /\ MayStop(t)) \/ (e = "PAUSE" /\ AtMark(t))

Told == told[accepted]     \* of the message accepted last, if there is one

\* Nothing is being made or played, or ever will be: the mutex is kept.
Idle     == espeak_state = "IDLE" \/ espeak_state_mutex_kept
Calling  == cpc \in {"check", "room", "push", "mark"}
Handling == ppc \in {"handle", "mark", "tell_begin"}
Stopping == spc \in {"broadcast", "wait_play", "cancel", "clear", "reset"}
Begins   == ppc = "handle" /\ entry.kind = "begin"

Order ==
  /\ \A m \in MessageIds : Ordered(told[m])
  /\ \A m \in MessageIds : m > accepted => told[m] = <<>>

\* What the state says of the synthesiser, the queue and the events.
States ==
  /\ espeak_state_mutex_kept => espeak_state = "BEFORE_SYNTH"
  /\ Idle => cpc = "none" /\ playback_queue = <<>> /\ ~Handling
  /\ ~Idle => accepted > 0 /\ MayStop(Told)
  /\ ~Idle /\ espeak_state = "BEFORE_SYNTH"
       => ~Calling /\ playback_queue = <<>> /\ ~Handling /\ Told = <<>>
  /\ espeak_state = "BEFORE_PLAY"
       => Told = <<>> /\ ppc \notin {"mark", "tell_begin"} /\ cpc # "queued"
  /\ espeak_state = "SPEAKING"
       => /\ cpc # "queued"
          /\ ppc \notin {"tell_begin", "ended"} => Told # <<>>
          /\ Ended(Told) => /\ espeak_stop_requested /\ playback_queue = <<>>
                            /\ cpc = "none" /\ ~Handling
                            /\ ppc # "tell_end"

\* BEGIN is the first entry for a message, and the only one; "end" is the last.
Queue ==
  /\ \A i \in 1..Len(playback_queue) : playback_queue[i].msg = accepted
  /\ \A i \in 1..Len(playback_queue) :
       playback_queue[i].kind = "begin"
         => i = 1 /\ espeak_state = "BEFORE_PLAY" /\ ~Begins
  /\ Calling \/ playback_queue # <<>>
       => \/ espeak_state = "SPEAKING"
          \/ /\ espeak_state = "BEFORE_PLAY"
             /\ Begins \/ (playback_queue # <<>> /\ playback_queue[1].kind = "begin")
  /\ \A i \in 1..Len(playback_queue) :
       playback_queue[i].kind = "end" => i = Len(playback_queue) /\ cpc = "none"

\* What the play thread has taken from the queue.
Playing ==
  /\ Handling => entry.msg = accepted
  /\ ppc = "handle" => entry.kind # "none"
  /\ ppc = "handle" /\ entry.kind = "begin" => espeak_state = "BEFORE_PLAY"
  /\ ppc = "handle" /\ entry.kind # "begin" => espeak_state = "SPEAKING"
  /\ ppc = "handle" /\ entry.kind = "end" => playback_queue = <<>> /\ cpc = "none"
  /\ ppc \in {"tell_begin", "mark"} => espeak_state = "SPEAKING"
  /\ ppc = "tell_begin" => Told = <<>>
  /\ ppc = "mark" => AtMark(Told)
  /\ ppc = "tell_end" => /\ entry.msg \in 1..accepted
                         /\ told[entry.msg] # <<>> /\ ~Ended(told[entry.msg])
                         /\ entry.msg = accepted
                              => /\ playback_queue = <<>> /\ cpc = "none"
                                 /\ Idle \/ espeak_stop_requested
                         /\ espeak_state = "SPEAKING" => entry.msg = accepted

\* Whoever stops waits for the play thread, then for the callback, and clears
\* the queue; the message is over before the next one is told of.
Stops ==
  /\ Stopping => espeak_stop_requested /\ ~Idle
  /\ ~espeak_close_requested /\ espeak_stop_requested => ~Idle
  /\ spc \in {"cancel", "clear", "reset"} => ~Handling /\ ppc # "tell_end"
  /\ spc \in {"clear", "reset"} => cpc = "none"
  /\ spc = "reset" => /\ playback_queue = <<>>
                      /\ report.msg = accepted /\ MayTell(Told, report.event)
  /\ spc = "tell" => /\ report.msg \in 1..accepted
                     /\ MayTell(told[report.msg], report.event)
                     /\ report.msg = accepted => Idle /\ ppc # "tell_end"
                     /\ Handling \/ ppc = "tell_end" => entry.msg > report.msg
  /\ espeak_pause_state = "MARK_REPORTED"
       => /\ espeak_state = "SPEAKING" /\ espeak_stop_requested
          /\ ~Handling /\ ppc # "tell_end" /\ AtMark(Told)

Inv == TypeOK /\ Order /\ States /\ Queue /\ Playing /\ Stops

-----------------------------------------------------------------------------
(* What is told of one message.                                            *)

LEMMA TellsOneMore ==
  ASSUME NEW t \in Seq(Reports), NEW e \in Reports
  PROVE  /\ Append(t, e) \in Seq(Reports) /\ DOMAIN t = 1..Len(t)
         /\ DOMAIN Append(t, e) = 1..(Len(t) + 1) /\ Len(Append(t, e)) = Len(t) + 1
         /\ \A i \in 1..Len(t) : Append(t, e)[i] = t[i]
         /\ Append(t, e)[Len(t) + 1] = e
         /\ Append(t, e) # <<>>
OBVIOUS

LEMMA NothingTold == ~Ended(<<>>) /\ MayStop(<<>>) /\ Ordered(<<>>)
BY DEF Ended, MayStop, Ordered

\* A message that is not over begins with BEGIN.
LEMMA OrderedBegin ==
  ASSUME NEW t \in Seq(Reports), t = <<>>
  PROVE  /\ Ordered(Append(t, "BEGIN")) /\ ~Ended(Append(t, "BEGIN"))
         /\ MayStop(Append(t, "BEGIN"))
<1> DEFINE u == Append(t, "BEGIN")
<1>1. u \in Seq(Reports) /\ Len(u) = 1 /\ u[1] = "BEGIN" /\ DOMAIN u = 1..1
  BY TellsOneMore DEF Reports
<1>2. u # <<"STOP">>
  BY <1>1
<1> HIDE DEF u
<1>3. Ordered(u) /\ ~Ended(u)
  BY <1>1, <1>2 DEF Ordered, Ended, Terminal
<1> QED
  BY <1>3 DEF MayStop, u

LEMMA NotTheStop ==
  ASSUME NEW t \in Seq(Reports), t # <<>>, ~Ended(t) \/ EndIsLast(t)
  PROVE  t # <<"STOP">> /\ \A e \in Reports : Append(t, e) # <<"STOP">>
<1>1. t # <<"STOP">>
  BY DEF Ended, EndIsLast, Terminal
<1>2. ASSUME NEW e \in Reports PROVE Append(t, e) # <<"STOP">>
  <2>1. Len(Append(t, e)) = Len(t) + 1 /\ Len(t) \in Nat /\ Len(t) > 0
    BY TellsOneMore
  <2> QED
    BY <2>1, SMTT(30)
<1> QED
  BY <1>1, <1>2

\* what is told next, when it is not over
LEMMA OrderedNext ==
  ASSUME NEW t \in Seq(Reports), t # <<>>, Ordered(t), ~Ended(t),
         NEW e \in Reports \ {"BEGIN"}, e = "PAUSE" => AtMark(t)
  PROVE  Ordered(Append(t, e))
<1> DEFINE u == Append(t, e)
<1>1. /\ DOMAIN t = 1..Len(t) /\ DOMAIN u = 1..(Len(t) + 1) /\ Len(u) = Len(t) + 1
      /\ \A i \in 1..Len(t) : u[i] = t[i]
      /\ u[Len(t) + 1] = e
  BY TellsOneMore
<1>2. t # <<"STOP">> /\ u # <<"STOP">>
  BY NotTheStop
<1>3. Len(t) \in Nat /\ Len(t) > 0
  OBVIOUS
<1> HIDE DEF u
<1>4. ASSUME NEW i \in DOMAIN u
      PROVE  /\ u[i] = "BEGIN" <=> i = 1 /\ u # <<"STOP">>
             /\ i < Len(u) /\ u[i] \in Terminal
                  => u[i] = "END" /\ u[i + 1] = "STOP" /\ i + 1 = Len(u)
             /\ u[i] = "PAUSE" => i > 1 /\ u[i - 1] = "MARK"
  <2>1. CASE i \in 1..Len(t)
    <3>1. u[i] = t[i] /\ u[i] \notin Terminal
      BY <1>1, <2>1 DEF Ended
    <3> QED
      BY <1>1, <1>2, <2>1, <3>1 DEF Ordered, Terminal
  <2>2. CASE i = Len(t) + 1
    <3>1. u[i] = e /\ i # 1 /\ ~(i < Len(u))
      BY <1>1, <1>3, <2>2
    <3>2. u[i] = "PAUSE" => i > 1 /\ u[i - 1] = "MARK"
      BY <1>1, <1>3, <2>2, <3>1 DEF AtMark
    <3> QED
      BY <3>1, <3>2
  <2> QED
    BY <1>1, <1>3, <2>1, <2>2
<1> QED
  BY <1>4 DEF Ordered, u

LEMMA MarkIsLast ==
  ASSUME NEW t \in Seq(Reports), ~Ended(t)
  PROVE  /\ ~Ended(Append(t, "MARK")) /\ AtMark(Append(t, "MARK"))
         /\ MayStop(Append(t, "MARK"))
<1> DEFINE u == Append(t, "MARK")
<1>1. /\ DOMAIN t = 1..Len(t) /\ DOMAIN u = 1..(Len(t) + 1) /\ Len(u) = Len(t) + 1
      /\ \A i \in 1..Len(t) : u[i] = t[i]
      /\ u[Len(t) + 1] = "MARK" /\ u # <<>>
  BY TellsOneMore DEF Reports
<1>2. Len(t) \in Nat
  OBVIOUS
<1> HIDE DEF u
<1>3. ~Ended(u)
  BY <1>1, <1>2 DEF Ended, Terminal
<1> QED
  BY <1>1, <1>3 DEF AtMark, MayStop, u

LEMMA EndsLast ==
  ASSUME NEW t \in Seq(Reports), ~Ended(t)
  PROVE  EndIsLast(Append(t, "END")) /\ MayStop(Append(t, "END"))
<1> DEFINE u == Append(t, "END")
<1>1. /\ DOMAIN t = 1..Len(t) /\ Len(u) = Len(t) + 1
      /\ \A i \in 1..Len(t) : u[i] = t[i]
      /\ u[Len(t) + 1] = "END" /\ u # <<>>
  BY TellsOneMore DEF Reports, Terminal
<1>2. Len(t) \in Nat
  OBVIOUS
<1> HIDE DEF u
<1>3. EndIsLast(u)
  BY <1>1, <1>2 DEF EndIsLast, Ended
<1> QED
  BY <1>3 DEF MayStop, u

\* the STOP of a message that has not begun, and the one that comes after END
LEMMA OrderedStop ==
  ASSUME NEW t \in Seq(Reports), Ordered(t), MayStop(t)
  PROVE  Ordered(Append(t, "STOP"))
<1>0. "STOP" \in Reports \ {"BEGIN"}
  BY DEF Reports, Terminal
<1>1. CASE t = <<>>
  <2> DEFINE u == Append(t, "STOP")
  <2>1. u \in Seq(Reports) /\ Len(u) = 1 /\ u[1] = "STOP" /\ DOMAIN u = 1..1
    BY <1>0, <1>1, TellsOneMore
  <2>2. u = <<"STOP">>
    BY <1>1
  <2> HIDE DEF u
  <2>3. Ordered(u)
    BY <2>1, <2>2 DEF Ordered
  <2> QED
    BY <2>3 DEF u
<1>2. CASE t # <<>> /\ ~Ended(t)
  BY <1>0, <1>2, OrderedNext
<1>3. CASE EndIsLast(t)
  <2> DEFINE u == Append(t, "STOP")
             n == Len(t)
  <2>1. /\ DOMAIN t = 1..n /\ DOMAIN u = 1..(n + 1) /\ Len(u) = n + 1
        /\ \A i \in 1..n : u[i] = t[i]
        /\ u[n + 1] = "STOP"
    BY <1>0, TellsOneMore
  <2>2. t # <<>> /\ t # <<"STOP">> /\ u # <<"STOP">>
    BY <1>0, <1>3, NotTheStop DEF EndIsLast
  <2>3. n \in Nat /\ n > 0 /\ t[n] = "END" /\ \A i \in 1..(n - 1) : t[i] \notin Terminal
    BY <1>3, <2>2 DEF EndIsLast
  <2>4. \A i \in 1..n : /\ t[i] = "BEGIN" <=> i = 1
                        /\ t[i] = "PAUSE" => i > 1 /\ t[i - 1] = "MARK"
    BY <2>1, <2>2 DEF Ordered
  <2> HIDE DEF u, n
  <2>5. ASSUME NEW i \in DOMAIN u
        PROVE  /\ u[i] = "BEGIN" <=> i = 1 /\ u # <<"STOP">>
               /\ i < Len(u) /\ u[i] \in Terminal
                    => u[i] = "END" /\ u[i + 1] = "STOP" /\ i + 1 = Len(u)
               /\ u[i] = "PAUSE" => i > 1 /\ u[i - 1] = "MARK"
    <3>1. CASE i \in 1..(n - 1)
      BY <2>1, <2>2, <2>3, <2>4, <3>1
    <3>2. CASE i = n
      BY <2>1, <2>2, <2>3, <2>4, <3>2
    <3>3. CASE i = n + 1
      BY <2>1, <2>2, <2>3, <3>3
    <3> QED
      BY <2>1, <2>3, <3>1, <3>2, <3>3
  <2> QED
    BY <2>5 DEF Ordered, u
<1> QED
  BY <1>1, <1>2, <1>3 DEF MayStop

-----------------------------------------------------------------------------
(* Telling, and the playback queue.                                        *)

LEMMA TellFacts ==
  ASSUME TypeOK, NEW m \in MessageIds, NEW e \in Reports, Tell(m, e)
  PROVE  /\ told' \in [MessageIds -> Seq(Reports)]
         /\ told'[m] = Append(told[m], e) /\ told'[m] # <<>>
         /\ \A x \in MessageIds : x # m => told'[x] = told[x]
         /\ UNCHANGED <<accepted, refused>>
<1>1. told[m] \in Seq(Reports) /\ told \in [MessageIds -> Seq(Reports)]
  BY DEF TypeOK
<1>2. Append(told[m], e) \in Seq(Reports) /\ Append(told[m], e) # <<>>
  BY <1>1, TellsOneMore
<1> QED
  BY <1>1, <1>2 DEF Tell

LEMMA PushFacts ==
  ASSUME TypeOK, NEW kind \in Kinds, Push(kind)
  PROVE  /\ playback_queue' \in Seq([kind : Kinds, msg : Nat])
         /\ playback_queue' # <<>> /\ Len(playback_queue) \in Nat
         /\ Len(playback_queue') = Len(playback_queue) + 1
         /\ \A i \in 1..Len(playback_queue) : playback_queue'[i] = playback_queue[i]
         /\ playback_queue'[Len(playback_queue) + 1] = [kind |-> kind, msg |-> accepted]
<1> DEFINE S == [kind : Kinds, msg : Nat]
           q == playback_queue
           e == [kind |-> kind, msg |-> accepted]
<1>1. q \in Seq(S) /\ e \in S /\ playback_queue' = Append(q, e)
  BY DEF TypeOK, Push
<1> HIDE DEF S, q, e
<1>2. /\ Append(q, e) \in Seq(S) /\ Append(q, e) # <<>> /\ Len(q) \in Nat
      /\ Len(Append(q, e)) = Len(q) + 1
      /\ \A i \in 1..Len(q) : Append(q, e)[i] = q[i]
      /\ Append(q, e)[Len(q) + 1] = e
  BY <1>1
<1> QED
  BY <1>1, <1>2 DEF S, q, e

LEMMA PopFacts ==
  ASSUME TypeOK, playback_queue # <<>>
  PROVE  /\ Tail(playback_queue) \in Seq([kind : Kinds, msg : Nat])
         /\ Head(playback_queue) = playback_queue[1]
         /\ playback_queue[1] \in [kind : Kinds, msg : Nat]
         /\ Len(playback_queue) \in Nat /\ Len(playback_queue) > 0
         /\ Len(Tail(playback_queue)) = Len(playback_queue) - 1
         /\ Len(playback_queue) = 1 => Tail(playback_queue) = <<>>
         /\ \A i \in 1..(Len(playback_queue) - 1) :
              Tail(playback_queue)[i] = playback_queue[i + 1]
<1> DEFINE S == [kind : Kinds, msg : Nat]
           q == playback_queue
<1>1. q \in Seq(S) /\ q # <<>>
  BY DEF TypeOK
<1> HIDE DEF S, q
<1>2. /\ Tail(q) \in Seq(S) /\ Head(q) = q[1] /\ q[1] \in S
      /\ Len(q) \in Nat /\ Len(q) > 0 /\ Len(Tail(q)) = Len(q) - 1
      /\ \A i \in 1..(Len(q) - 1) : Tail(q)[i] = q[i + 1]
  BY <1>1
<1>3. Len(q) = 1 => Tail(q) = <<>>
  <2>1. Len(q) = 1 => Tail(q) \in Seq(S) /\ Len(Tail(q)) = 0
    BY <1>2
  <2> QED
    BY <2>1, EmptySeq
<1> QED
  BY <1>2, <1>3 DEF S, q

-----------------------------------------------------------------------------
(* The main thread.                                                        *)

LEMMA espeak_speakInv ==
  ASSUME EspeakAssumption, Inv, espeak_speak PROVE Inv'
<1> USE DEF stateVars, lastingVars, playVars, stopVars, synthVars, serverVars,
            Idle, Calling, Handling, Stopping, Begins, Told, MessageIds
<1>a. /\ accepted' \in Nat /\ refused' \in Nat /\ accepted' + refused' <= MaxMessages
      /\ accepted' \in MessageIds
      /\ espeak_state' = "BEFORE_SYNTH" /\ espeak_pause_state' = "OFF"
      /\ espeak_stop_requested' = FALSE /\ cpc' = "queued"
  BY DEF Inv, TypeOK, espeak_speak, EspeakAssumption
<1>b. Told' = <<>>
  BY <1>a DEF Inv, TypeOK, Order, espeak_speak
<1>c. UNCHANGED <<espeak_close_requested, espeak_state_mutex_kept, playback_queue,
                  ppc, entry, spc, report, told>>
  BY DEF espeak_speak
<1>1. TypeOK'
  BY <1>a, <1>c, ZenonT(40) DEF Inv, TypeOK
<1>2. Order'
  BY <1>a DEF Inv, TypeOK, Order, espeak_speak
<1>3. States'
  BY <1>a, <1>b, NothingTold DEF Inv, TypeOK, Order, States, Queue, Playing,
     Stops, espeak_speak
<1>4. Queue'
  BY <1>a, <1>b, NothingTold DEF Inv, TypeOK, Order, States, Queue, Playing,
     Stops, espeak_speak
<1>5. Playing'
  BY <1>a, <1>b, NothingTold DEF Inv, TypeOK, Order, States, Queue, Playing,
     Stops, espeak_speak
<1>6. Stops'
  BY <1>a, <1>b, NothingTold DEF Inv, TypeOK, Order, States, Queue, Playing,
     Stops, espeak_speak
<1> QED
  BY <1>1, <1>2, <1>3, <1>4, <1>5, <1>6 DEF Inv

LEMMA espeak_speak_refusedInv ==
  ASSUME EspeakAssumption, Inv, espeak_speak_refused PROVE Inv'
<1> USE DEF stateVars, lastingVars, playVars, stopVars, synthVars, serverVars,
            Idle, Calling, Handling, Stopping, Begins, Told, MessageIds
<1>1. TypeOK'
  BY DEF Inv, TypeOK, EspeakAssumption, espeak_speak_refused
<1>2. Order'
  BY DEF Inv, TypeOK, Order, espeak_speak_refused
<1>3. States'
  BY DEF Inv, TypeOK, Order, States, Queue, Playing, Stops, espeak_speak_refused
<1>4. Queue'
  BY DEF Inv, TypeOK, Order, States, Queue, Playing, Stops, espeak_speak_refused
<1>5. Playing'
  BY DEF Inv, TypeOK, Order, States, Queue, Playing, Stops, espeak_speak_refused
<1>6. Stops'
  BY DEF Inv, TypeOK, Order, States, Queue, Playing, Stops, espeak_speak_refused
<1> QED
  BY <1>1, <1>2, <1>3, <1>4, <1>5, <1>6 DEF Inv

LEMMA espeak_synth_failsInv ==
  ASSUME EspeakAssumption, Inv, espeak_synth_fails PROVE Inv'
<1> USE DEF stateVars, lastingVars, playVars, stopVars, synthVars, serverVars,
            Idle, Calling, Handling, Stopping, Begins, Told, MessageIds
<1>a. accepted' \in Nat /\ refused' \in Nat /\ accepted' + refused' <= MaxMessages
  BY DEF Inv, TypeOK, espeak_synth_fails, EspeakAssumption
<1>1. TypeOK'
  BY <1>a, ZenonT(40) DEF Inv, TypeOK, espeak_synth_fails
<1>2. Order'
  BY <1>a DEF Inv, TypeOK, Order, espeak_synth_fails
<1>3. States'
  BY <1>a DEF Inv, TypeOK, Order, States, Queue, Playing, Stops,
     espeak_synth_fails
<1>4. Queue'
  BY <1>a DEF Inv, TypeOK, Order, States, Queue, Playing, Stops,
     espeak_synth_fails
<1>5. Playing'
  BY <1>a DEF Inv, TypeOK, Order, States, Queue, Playing, Stops,
     espeak_synth_fails
<1>6. Stops'
  BY <1>a DEF Inv, TypeOK, Order, States, Queue, Playing, Stops,
     espeak_synth_fails
<1> QED
  BY <1>1, <1>2, <1>3, <1>4, <1>5, <1>6 DEF Inv

LEMMA espeak_stopInv ==
  ASSUME EspeakAssumption, Inv, espeak_stop PROVE Inv'
<1> USE DEF stateVars, lastingVars, playVars, stopVars, synthVars, serverVars,
            Idle, Calling, Handling, Stopping, Begins, Told, MessageIds
<1>a. espeak_stop_requested' \in BOOLEAN
  BY DEF Inv, TypeOK, espeak_stop
<1>b. UNCHANGED <<espeak_state, espeak_pause_state, espeak_close_requested,
                  espeak_state_mutex_kept, playback_queue, ppc, entry, spc, report,
                  cpc, accepted, refused, told>>
  BY DEF espeak_stop
<1>1. TypeOK'
  BY <1>a, <1>b DEF Inv, TypeOK
<1>2. Order'
  BY DEF Inv, TypeOK, Order, espeak_stop
<1>3. States'
  BY DEF Inv, TypeOK, Order, States, Queue, Playing, Stops, espeak_stop
<1>4. Queue'
  BY DEF Inv, TypeOK, Order, States, Queue, Playing, Stops, espeak_stop
<1>5. Playing'
  BY DEF Inv, TypeOK, Order, States, Queue, Playing, Stops, espeak_stop
<1>6. Stops'
  BY DEF Inv, TypeOK, Order, States, Queue, Playing, Stops, espeak_stop
<1> QED
  BY <1>1, <1>2, <1>3, <1>4, <1>5, <1>6 DEF Inv

LEMMA espeak_pauseInv ==
  ASSUME EspeakAssumption, Inv, espeak_pause PROVE Inv'
<1> USE DEF stateVars, lastingVars, playVars, stopVars, synthVars, serverVars,
            Idle, Calling, Handling, Stopping, Begins, Told, MessageIds
<1>1. TypeOK'
  BY DEF Inv, TypeOK, EspeakAssumption, espeak_pause
<1>2. Order'
  BY DEF Inv, TypeOK, Order, espeak_pause
<1>3. States'
  BY DEF Inv, TypeOK, Order, States, Queue, Playing, Stops, espeak_pause
<1>4. Queue'
  BY DEF Inv, TypeOK, Order, States, Queue, Playing, Stops, espeak_pause
<1>5. Playing'
  BY DEF Inv, TypeOK, Order, States, Queue, Playing, Stops, espeak_pause
<1>6. Stops'
  BY DEF Inv, TypeOK, Order, States, Queue, Playing, Stops, espeak_pause
<1> QED
  BY <1>1, <1>2, <1>3, <1>4, <1>5, <1>6 DEF Inv

LEMMA espeak_closeInv ==
  ASSUME EspeakAssumption, Inv, espeak_close PROVE Inv'
<1> USE DEF stateVars, lastingVars, playVars, stopVars, synthVars, serverVars,
            Idle, Calling, Handling, Stopping, Begins, Told, MessageIds
<1>1. TypeOK'
  BY DEF Inv, TypeOK, EspeakAssumption, espeak_close
<1>2. Order'
  BY DEF Inv, TypeOK, Order, espeak_close
<1>3. States'
  BY DEF Inv, TypeOK, Order, States, Queue, Playing, Stops, espeak_close
<1>4. Queue'
  BY DEF Inv, TypeOK, Order, States, Queue, Playing, Stops, espeak_close
<1>5. Playing'
  BY DEF Inv, TypeOK, Order, States, Queue, Playing, Stops, espeak_close
<1>6. Stops'
  BY DEF Inv, TypeOK, Order, States, Queue, Playing, Stops, espeak_close
<1> QED
  BY <1>1, <1>2, <1>3, <1>4, <1>5, <1>6 DEF Inv

LEMMA espeak_exitInv ==
  ASSUME EspeakAssumption, Inv, espeak_exit PROVE Inv'
<1> USE DEF stateVars, lastingVars, playVars, stopVars, synthVars, serverVars,
            Idle, Calling, Handling, Stopping, Begins, Told, MessageIds
<1>1. TypeOK'
  BY DEF Inv, TypeOK, EspeakAssumption, espeak_exit
<1>2. Order'
  BY DEF Inv, TypeOK, Order, espeak_exit
<1>3. States'
  BY DEF Inv, TypeOK, Order, States, Queue, Playing, Stops, espeak_exit
<1>4. Queue'
  BY DEF Inv, TypeOK, Order, States, Queue, Playing, Stops, espeak_exit
<1>5. Playing'
  BY DEF Inv, TypeOK, Order, States, Queue, Playing, Stops, espeak_exit
<1>6. Stops'
  BY DEF Inv, TypeOK, Order, States, Queue, Playing, Stops, espeak_exit
<1> QED
  BY <1>1, <1>2, <1>3, <1>4, <1>5, <1>6 DEF Inv


-----------------------------------------------------------------------------
(* The synthesiser's thread.                                               *)

LEMMA CallbackFirstInv ==
  ASSUME EspeakAssumption, Inv, CallbackFirst PROVE Inv'
<1> USE DEF stateVars, lastingVars, playVars, stopVars, synthVars, serverVars,
            Idle, Calling, Handling, Stopping, Begins, Told, MessageIds
<1>a. /\ playback_queue' \in Seq([kind : Kinds, msg : Nat])
      /\ playback_queue' # <<>> /\ Len(playback_queue) \in Nat
      /\ Len(playback_queue') = Len(playback_queue) + 1
      /\ \A i \in 1..Len(playback_queue) : playback_queue'[i] = playback_queue[i]
      /\ playback_queue'[Len(playback_queue) + 1] = [kind |-> "begin", msg |-> accepted]
  BY PushFacts DEF Inv, Kinds, CallbackFirst
<1>b. UNCHANGED <<espeak_pause_state, espeak_stop_requested, espeak_close_requested,
                  espeak_state_mutex_kept, ppc, entry, spc, report, accepted,
                  refused, told>>
  BY DEF CallbackFirst
<1>c. espeak_state' = "BEFORE_PLAY" /\ cpc' = "check"
  BY DEF CallbackFirst
<1>1. TypeOK'
  BY <1>a, <1>b, <1>c DEF Inv, TypeOK
<1>2. Order'
  BY <1>a DEF Inv, TypeOK, Order, CallbackFirst
<1>3. States'
  BY <1>a DEF Inv, TypeOK, Order, States, Queue, Playing, Stops, CallbackFirst
<1>4. Queue'
  BY <1>a, SMTT(30) DEF Inv, TypeOK, Order, States, Queue, Playing, Stops, CallbackFirst
<1>5. Playing'
  BY <1>a DEF Inv, TypeOK, Order, States, Queue, Playing, Stops, CallbackFirst
<1>6. Stops'
  BY <1>a DEF Inv, TypeOK, Order, States, Queue, Playing, Stops, CallbackFirst
<1> QED
  BY <1>1, <1>2, <1>3, <1>4, <1>5, <1>6 DEF Inv

LEMMA CallbackStopsInv ==
  ASSUME EspeakAssumption, Inv, CallbackStops PROVE Inv'
<1> USE DEF stateVars, lastingVars, playVars, stopVars, synthVars, serverVars,
            Idle, Calling, Handling, Stopping, Begins, Told, MessageIds
<1>1. TypeOK'
  BY DEF Inv, TypeOK, EspeakAssumption, CallbackStops
<1>2. Order'
  BY DEF Inv, TypeOK, Order, CallbackStops
<1>3. States'
  BY DEF Inv, TypeOK, Order, States, Queue, Playing, Stops, CallbackStops
<1>4. Queue'
  BY DEF Inv, TypeOK, Order, States, Queue, Playing, Stops, CallbackStops
<1>5. Playing'
  BY DEF Inv, TypeOK, Order, States, Queue, Playing, Stops, CallbackStops
<1>6. Stops'
  BY DEF Inv, TypeOK, Order, States, Queue, Playing, Stops, CallbackStops
<1> QED
  BY <1>1, <1>2, <1>3, <1>4, <1>5, <1>6 DEF Inv

LEMMA CallbackNextInv ==
  ASSUME EspeakAssumption, Inv, CallbackNext PROVE Inv'
<1> USE DEF stateVars, lastingVars, playVars, stopVars, synthVars, serverVars,
            Idle, Calling, Handling, Stopping, Begins, Told, MessageIds
<1>1. TypeOK'
  BY DEF Inv, TypeOK, EspeakAssumption, CallbackNext
<1>2. Order'
  BY DEF Inv, TypeOK, Order, CallbackNext
<1>3. States'
  BY DEF Inv, TypeOK, Order, States, Queue, Playing, Stops, CallbackNext
<1>4. Queue'
  BY DEF Inv, TypeOK, Order, States, Queue, Playing, Stops, CallbackNext
<1>5. Playing'
  BY DEF Inv, TypeOK, Order, States, Queue, Playing, Stops, CallbackNext
<1>6. Stops'
  BY DEF Inv, TypeOK, Order, States, Queue, Playing, Stops, CallbackNext
<1> QED
  BY <1>1, <1>2, <1>3, <1>4, <1>5, <1>6 DEF Inv

LEMMA CallbackWaitsInv ==
  ASSUME EspeakAssumption, Inv, CallbackWaits PROVE Inv'
<1> USE DEF stateVars, lastingVars, playVars, stopVars, synthVars, serverVars,
            Idle, Calling, Handling, Stopping, Begins, Told, MessageIds
<1>1. TypeOK'
  BY DEF Inv, TypeOK, EspeakAssumption, CallbackWaits
<1>2. Order'
  BY DEF Inv, TypeOK, Order, CallbackWaits
<1>3. States'
  BY DEF Inv, TypeOK, Order, States, Queue, Playing, Stops, CallbackWaits
<1>4. Queue'
  BY DEF Inv, TypeOK, Order, States, Queue, Playing, Stops, CallbackWaits
<1>5. Playing'
  BY DEF Inv, TypeOK, Order, States, Queue, Playing, Stops, CallbackWaits
<1>6. Stops'
  BY DEF Inv, TypeOK, Order, States, Queue, Playing, Stops, CallbackWaits
<1> QED
  BY <1>1, <1>2, <1>3, <1>4, <1>5, <1>6 DEF Inv

LEMMA CallbackAudioInv ==
  ASSUME EspeakAssumption, Inv, CallbackAudio PROVE Inv'
<1> USE DEF stateVars, lastingVars, playVars, stopVars, synthVars, serverVars,
            Idle, Calling, Handling, Stopping, Begins, Told, MessageIds
<1>a. /\ playback_queue' \in Seq([kind : Kinds, msg : Nat])
      /\ playback_queue' # <<>> /\ Len(playback_queue) \in Nat
      /\ Len(playback_queue') = Len(playback_queue) + 1
      /\ \A i \in 1..Len(playback_queue) : playback_queue'[i] = playback_queue[i]
      /\ playback_queue'[Len(playback_queue) + 1] = [kind |-> "audio", msg |-> accepted]
  BY PushFacts DEF Inv, Kinds, CallbackAudio
<1>1. TypeOK'
  BY <1>a DEF Inv, TypeOK, CallbackAudio
<1>2. Order'
  BY <1>a DEF Inv, TypeOK, Order, CallbackAudio
<1>3. States'
  BY <1>a DEF Inv, TypeOK, Order, States, Queue, Playing, Stops, CallbackAudio
<1>4. Queue'
  <2>1. Len(playback_queue') = Len(playback_queue) + 1 /\ Len(playback_queue) \in Nat
    BY <1>a
  <2>2. \A i \in 1..Len(playback_queue) :
          /\ playback_queue[i].msg = accepted /\ playback_queue[i].kind # "end"
          /\ playback_queue[i].kind = "begin"
               => i = 1 /\ espeak_state = "BEFORE_PLAY" /\ ~Begins
    BY <1>a DEF Inv, Queue, CallbackAudio
  <2>3. UNCHANGED <<espeak_state, accepted, ppc, entry>>
    BY <1>a DEF CallbackAudio
  <2>4. \A i \in 1..Len(playback_queue') :
          /\ playback_queue'[i].msg = accepted
          /\ playback_queue'[i].kind = "begin"
               => i = 1 /\ espeak_state = "BEFORE_PLAY" /\ ~Begins
          /\ playback_queue'[i].kind = "end"
               => FALSE
    BY <1>a, <2>1, <2>2
  <2>5. \/ espeak_state = "SPEAKING"
        \/ /\ espeak_state = "BEFORE_PLAY"
           /\ Begins \/ playback_queue'[1].kind = "begin"
    BY <1>a, <2>1 DEF Inv, Queue, CallbackAudio
  <2> QED
    BY <1>a, <2>3, <2>4, <2>5 DEF Queue
<1>5. Playing'
  BY <1>a DEF Inv, TypeOK, Order, States, Queue, Playing, Stops, CallbackAudio
<1>6. Stops'
  BY <1>a DEF Inv, TypeOK, Order, States, Queue, Playing, Stops, CallbackAudio
<1> QED
  BY <1>1, <1>2, <1>3, <1>4, <1>5, <1>6 DEF Inv

LEMMA CallbackGivesUpInv ==
  ASSUME EspeakAssumption, Inv, CallbackGivesUp PROVE Inv'
<1> USE DEF stateVars, lastingVars, playVars, stopVars, synthVars, serverVars,
            Idle, Calling, Handling, Stopping, Begins, Told, MessageIds
<1>1. TypeOK'
  BY DEF Inv, TypeOK, EspeakAssumption, CallbackGivesUp
<1>2. Order'
  BY DEF Inv, TypeOK, Order, CallbackGivesUp
<1>3. States'
  BY DEF Inv, TypeOK, Order, States, Queue, Playing, Stops, CallbackGivesUp
<1>4. Queue'
  BY DEF Inv, TypeOK, Order, States, Queue, Playing, Stops, CallbackGivesUp
<1>5. Playing'
  BY DEF Inv, TypeOK, Order, States, Queue, Playing, Stops, CallbackGivesUp
<1>6. Stops'
  BY DEF Inv, TypeOK, Order, States, Queue, Playing, Stops, CallbackGivesUp
<1> QED
  BY <1>1, <1>2, <1>3, <1>4, <1>5, <1>6 DEF Inv

LEMMA CallbackPushInv ==
  ASSUME EspeakAssumption, Inv, CallbackPush PROVE Inv'
<1> USE DEF stateVars, lastingVars, playVars, stopVars, synthVars, serverVars,
            Idle, Calling, Handling, Stopping, Begins, Told, MessageIds
<1>a. PICK kind \in {"mark", "icon", "end"} :
       /\ Push(kind)
       /\ IF kind = "end" THEN cpc = "push" ELSE TRUE
       /\ IF kind = "end" THEN cpc' = "none" ELSE cpc' = "check"
  BY DEF CallbackPush
<1>b. /\ playback_queue' \in Seq([kind : Kinds, msg : Nat])
      /\ playback_queue' # <<>> /\ Len(playback_queue) \in Nat
      /\ Len(playback_queue') = Len(playback_queue) + 1
      /\ \A i \in 1..Len(playback_queue) : playback_queue'[i] = playback_queue[i]
      /\ playback_queue'[Len(playback_queue) + 1] = [kind |-> kind, msg |-> accepted]
  BY <1>a, PushFacts DEF Inv, Kinds
<1>c. /\ cpc \in {"push", "mark"}
      /\ UNCHANGED <<stateVars, lastingVars, play_semaphore, stop_semaphore,
                     playVars, stopVars, serverVars, told>>
  BY DEF CallbackPush
<1>1. TypeOK'
  BY <1>a, <1>b, <1>c DEF Inv, TypeOK
<1>2. Order'
  BY <1>a, <1>b, <1>c DEF Inv, TypeOK, Order, CallbackPush
<1>3. States'
  BY <1>a, <1>b, <1>c DEF Inv, TypeOK, Order, States, Queue, Playing, Stops,
     CallbackPush
<1>4. Queue'
  <2>1. Len(playback_queue') = Len(playback_queue) + 1 /\ Len(playback_queue) \in Nat
    BY <1>a, <1>b, <1>c
  <2>2. \A i \in 1..Len(playback_queue) :
          /\ playback_queue[i].msg = accepted /\ playback_queue[i].kind # "end"
          /\ playback_queue[i].kind = "begin"
               => i = 1 /\ espeak_state = "BEFORE_PLAY" /\ ~Begins
    BY <1>a, <1>b, <1>c DEF Inv, Queue, CallbackPush
  <2>3. UNCHANGED <<espeak_state, accepted, ppc, entry>>
    BY <1>a, <1>b, <1>c DEF CallbackPush
  <2>4. \A i \in 1..Len(playback_queue') :
          /\ playback_queue'[i].msg = accepted
          /\ playback_queue'[i].kind = "begin"
               => i = 1 /\ espeak_state = "BEFORE_PLAY" /\ ~Begins
          /\ playback_queue'[i].kind = "end"
               => i = Len(playback_queue') /\ cpc' = "none"
    BY <1>a, <1>b, <1>c, <2>1, <2>2
  <2>5. \/ espeak_state = "SPEAKING"
        \/ /\ espeak_state = "BEFORE_PLAY"
           /\ Begins \/ playback_queue'[1].kind = "begin"
    BY <1>a, <1>b, <1>c, <2>1 DEF Inv, Queue, CallbackPush
  <2> QED
    BY <1>a, <1>b, <1>c, <2>3, <2>4, <2>5 DEF Queue
<1>5. Playing'
  BY <1>a, <1>b, <1>c DEF Inv, TypeOK, Order, States, Queue, Playing, Stops,
     CallbackPush
<1>6. Stops'
  BY <1>a, <1>b, <1>c DEF Inv, TypeOK, Order, States, Queue, Playing, Stops,
     CallbackPush
<1> QED
  BY <1>1, <1>2, <1>3, <1>4, <1>5, <1>6 DEF Inv


-----------------------------------------------------------------------------
(* The play thread.                                                        *)

LEMMA PlaySleepInv ==
  ASSUME EspeakAssumption, Inv, PlaySleep PROVE Inv'
<1> USE DEF stateVars, lastingVars, playVars, stopVars, synthVars, serverVars,
            Idle, Calling, Handling, Stopping, Begins, Told, MessageIds
<1>1. TypeOK'
  BY DEF Inv, TypeOK, EspeakAssumption, PlaySleep, PlayUnchanged
<1>2. Order'
  BY DEF Inv, TypeOK, Order, PlaySleep, PlayUnchanged
<1>3. States'
  BY DEF Inv, TypeOK, Order, States, Queue, Playing, Stops, PlaySleep,
     PlayUnchanged
<1>4. Queue'
  BY DEF Inv, TypeOK, Order, States, Queue, Playing, Stops, PlaySleep,
     PlayUnchanged
<1>5. Playing'
  BY DEF Inv, TypeOK, Order, States, Queue, Playing, Stops, PlaySleep,
     PlayUnchanged
<1>6. Stops'
  BY DEF Inv, TypeOK, Order, States, Queue, Playing, Stops, PlaySleep,
     PlayUnchanged
<1> QED
  BY <1>1, <1>2, <1>3, <1>4, <1>5, <1>6 DEF Inv

LEMMA PlayAwakeInv ==
  ASSUME EspeakAssumption, Inv, PlayAwake PROVE Inv'
<1> USE DEF stateVars, lastingVars, playVars, stopVars, synthVars, serverVars,
            Idle, Calling, Handling, Stopping, Begins, Told, MessageIds
<1>1. TypeOK'
  BY DEF Inv, TypeOK, EspeakAssumption, PlayAwake, PlayUnchanged
<1>2. Order'
  BY DEF Inv, TypeOK, Order, PlayAwake, PlayUnchanged
<1>3. States'
  BY DEF Inv, TypeOK, Order, States, Queue, Playing, Stops, PlayAwake,
     PlayUnchanged
<1>4. Queue'
  BY DEF Inv, TypeOK, Order, States, Queue, Playing, Stops, PlayAwake,
     PlayUnchanged
<1>5. Playing'
  BY DEF Inv, TypeOK, Order, States, Queue, Playing, Stops, PlayAwake,
     PlayUnchanged
<1>6. Stops'
  BY DEF Inv, TypeOK, Order, States, Queue, Playing, Stops, PlayAwake,
     PlayUnchanged
<1> QED
  BY <1>1, <1>2, <1>3, <1>4, <1>5, <1>6 DEF Inv

LEMMA playback_queue_popInv ==
  ASSUME EspeakAssumption, Inv, playback_queue_pop PROVE Inv'
<1> USE DEF stateVars, lastingVars, playVars, stopVars, synthVars, serverVars,
            Idle, Calling, Handling, Stopping, Begins, Told, MessageIds
<1>1. /\ ppc = "pop"
      /\ UNCHANGED <<espeak_state, espeak_pause_state, espeak_stop_requested,
                     espeak_close_requested, espeak_state_mutex_kept, spc, report,
                     cpc, accepted, refused, told>>
  BY DEF playback_queue_pop, PlayUnchanged
<1>2. CASE /\ espeak_stop_requested /\ ppc' = "try" /\ entry' = NoEntry
           /\ UNCHANGED playback_queue
  <2>1. TypeOK'
    BY <1>1, <1>2 DEF Inv, TypeOK, NoEntry, Kinds
  <2>2. Order' /\ Stops'
    BY <1>1, <1>2 DEF Inv, Order, Stops
  <2>3. States' /\ Queue' /\ Playing'
    BY <1>1, <1>2 DEF Inv, States, Queue, Playing
  <2> QED
    BY <2>1, <2>2, <2>3 DEF Inv
<1>3. CASE UNCHANGED <<playback_queue, ppc, entry>>
  <2>1. TypeOK'
    BY <1>1, <1>3 DEF Inv, TypeOK
  <2>2. Order' /\ Stops'
    BY <1>1, <1>3 DEF Inv, Order, Stops
  <2>3. States' /\ Queue' /\ Playing'
    BY <1>1, <1>3 DEF Inv, States, Queue, Playing
  <2> QED
    BY <2>1, <2>2, <2>3 DEF Inv
<1>4. CASE /\ ~espeak_stop_requested /\ playback_queue # <<>> /\ ppc' = "handle"
           /\ entry' = Head(playback_queue) /\ playback_queue' = Tail(playback_queue)
  <2> DEFINE n == Len(playback_queue)
  <2>1. /\ playback_queue' \in Seq([kind : Kinds, msg : Nat])
        /\ entry' = playback_queue[1] /\ playback_queue[1] \in [kind : Kinds, msg : Nat]
        /\ n \in Nat /\ n > 0 /\ Len(playback_queue') = n - 1
        /\ n = 1 => playback_queue' = <<>>
        /\ \A i \in 1..(n - 1) : playback_queue'[i] = playback_queue[i + 1]
    BY <1>4, PopFacts DEF Inv
  <2>a. /\ \A i \in 1..n :
             /\ playback_queue[i].msg = accepted
             /\ playback_queue[i].kind = "begin"
                  => i = 1 /\ espeak_state = "BEFORE_PLAY"
             /\ playback_queue[i].kind = "end" => i = n /\ cpc = "none"
        /\ \/ espeak_state = "SPEAKING"
           \/ espeak_state = "BEFORE_PLAY" /\ playback_queue[1].kind = "begin"
    BY <1>1, <1>4 DEF Inv, Queue
  <2> HIDE DEF n
  <2>2. /\ entry'.kind \in Kinds /\ entry'.kind # "none" /\ entry'.msg = accepted
        /\ entry'.kind = "end" => n = 1 /\ cpc = "none"
    BY <2>1, <2>a DEF Kinds
  <2>3. /\ entry'.kind = "begin" => espeak_state = "BEFORE_PLAY"
        /\ entry'.kind # "begin" => espeak_state = "SPEAKING"
    BY <2>1, <2>a
  <2>4. ~Idle /\ ~Stopping /\ espeak_pause_state # "MARK_REPORTED"
    BY <1>4 DEF Inv, States, Stops
  <2>5. TypeOK'
    BY <1>1, <1>4, <2>1 DEF Inv, TypeOK
  <2>6. Order' /\ States'
    BY <1>1, <1>4, <2>3, <2>4 DEF Inv, Order, States
  <2>7. Queue'
    <3>1. \A i \in 1..Len(playback_queue') :
            /\ playback_queue'[i].msg = accepted /\ playback_queue'[i].kind # "begin"
            /\ playback_queue'[i].kind = "end" => i = n - 1 /\ cpc = "none"
      <4> SUFFICES ASSUME NEW i \in 1..Len(playback_queue')
                   PROVE  /\ playback_queue'[i].msg = accepted
                          /\ playback_queue'[i].kind # "begin"
                          /\ playback_queue'[i].kind = "end" => i = n - 1 /\ cpc = "none"
        OBVIOUS
      <4>1. /\ i \in 1..(n - 1) /\ i + 1 \in 1..n /\ i + 1 # 1
            /\ i + 1 = n => i = n - 1
        BY <2>1
      <4>2. playback_queue'[i] = playback_queue[i + 1]
        BY <2>1, <4>1
      <4> QED
        BY <2>a, <4>1, <4>2
    <3> QED
      BY <1>1, <1>4, <2>1, <2>3, <3>1 DEF Queue
  <2>8. Playing'
    BY <1>1, <1>4, <2>1, <2>2, <2>3 DEF Playing
  <2>9. Stops'
    <3>1. spc = "tell" => report.msg \in 1..accepted /\ report.msg # accepted
      BY <2>4 DEF Inv, Stops
    <3> QED
      BY <1>1, <1>4, <2>2, <2>4, <3>1 DEF Inv, TypeOK, Stops
  <2> QED
    BY <2>5, <2>6, <2>7, <2>8, <2>9 DEF Inv
<1> QED
  BY <1>2, <1>3, <1>4 DEF playback_queue_pop

LEMMA PlaySoundInv ==
  ASSUME EspeakAssumption, Inv, PlaySound PROVE Inv'
<1> USE DEF stateVars, lastingVars, playVars, stopVars, synthVars, serverVars,
            Idle, Calling, Handling, Stopping, Begins, Told, MessageIds
<1>1. TypeOK'
  BY DEF Inv, TypeOK, EspeakAssumption, PlaySound, PlayUnchanged
<1>2. Order'
  BY DEF Inv, TypeOK, Order, PlaySound, PlayUnchanged
<1>3. States'
  BY DEF Inv, TypeOK, Order, States, Queue, Playing, Stops, PlaySound,
     PlayUnchanged
<1>4. Queue'
  BY DEF Inv, TypeOK, Order, States, Queue, Playing, Stops, PlaySound,
     PlayUnchanged
<1>5. Playing'
  BY DEF Inv, TypeOK, Order, States, Queue, Playing, Stops, PlaySound,
     PlayUnchanged
<1>6. Stops'
  BY DEF Inv, TypeOK, Order, States, Queue, Playing, Stops, PlaySound,
     PlayUnchanged
<1> QED
  BY <1>1, <1>2, <1>3, <1>4, <1>5, <1>6 DEF Inv

LEMMA PlayBeginInv ==
  ASSUME EspeakAssumption, Inv, PlayBegin PROVE Inv'
<1> USE DEF stateVars, lastingVars, playVars, stopVars, synthVars, serverVars,
            Idle, Calling, Handling, Stopping, Begins, Told, MessageIds
<1>1. /\ espeak_state = "BEFORE_PLAY" /\ espeak_state' = "SPEAKING"
      /\ ppc = "handle" /\ entry.kind = "begin" /\ ppc' = "tell_begin"
      /\ Told = <<>> /\ ~Idle
  BY DEF Inv, States, Playing, PlayBegin
<1>2. UNCHANGED <<espeak_pause_state, espeak_stop_requested, espeak_close_requested,
                  espeak_state_mutex_kept, playback_queue, entry, spc, report,
                  cpc, accepted, refused, told>>
  BY DEF PlayBegin, PlayUnchanged
<1>3. TypeOK'
  BY <1>1, <1>2 DEF Inv, TypeOK
<1>4. Order' /\ States'
  BY <1>1, <1>2, NothingTold DEF Inv, Order, States
<1>5. Queue'
  BY <1>1, <1>2 DEF Inv, Queue
<1>6. Playing' /\ Stops'
  BY <1>1, <1>2 DEF Inv, Playing, Stops
<1> QED
  BY <1>3, <1>4, <1>5, <1>6 DEF Inv

LEMMA PlayTellBeginInv ==
  ASSUME EspeakAssumption, Inv, PlayTellBegin PROVE Inv'
<1> USE DEF stateVars, lastingVars, playVars, stopVars, synthVars, serverVars,
            Idle, Calling, Handling, Stopping, Begins, Told, MessageIds
<1>1. /\ ppc = "tell_begin" /\ ppc' = "pop" /\ espeak_state = "SPEAKING" /\ ~Idle
      /\ Told = <<>> /\ entry.msg = accepted /\ accepted \in MessageIds
  BY DEF Inv, TypeOK, States, Playing, PlayTellBegin, EspeakAssumption
<1>2. UNCHANGED <<espeak_state, espeak_pause_state, espeak_stop_requested,
                  espeak_close_requested, espeak_state_mutex_kept, playback_queue,
                  entry, spc, report, cpc>>
  BY DEF PlayTellBegin
<1>3. /\ told' \in [MessageIds -> Seq(Reports)] /\ Told' = Append(Told, "BEGIN")
      /\ \A x \in MessageIds : x # accepted => told'[x] = told[x]
      /\ UNCHANGED <<accepted, refused>> /\ Told' # <<>>
  BY <1>1, TellFacts DEF Inv, PlayTellBegin, Reports
<1>4. Ordered(Told') /\ ~Ended(Told') /\ MayStop(Told')
  <2>1. Told \in Seq(Reports)
    BY <1>1 DEF Inv, TypeOK
  <2> HIDE DEF Told
  <2> QED
    BY <1>1, <1>3, <2>1, OrderedBegin
<1>5. TypeOK'
  BY <1>1, <1>2, <1>3 DEF Inv, TypeOK
<1>6. Order'
  <2>1. \A x \in MessageIds : Ordered(told'[x])
    BY <1>3, <1>4 DEF Inv, Order
  <2>2. \A x \in MessageIds : x > accepted => told'[x] = <<>>
    BY <1>1, <1>3 DEF Inv, TypeOK, Order
  <2> QED
    BY <1>3, <2>1, <2>2 DEF Order
<1>7. States'
  BY <1>1, <1>2, <1>3, <1>4 DEF Inv, States
<1>8. Queue' /\ Playing'
  BY <1>1, <1>2, <1>3 DEF Inv, Queue, Playing
<1>9. Stops'
  <2>1. spc = "tell" => report.msg \in MessageIds /\ report.msg # accepted
    BY <1>1 DEF Inv, Stops, TypeOK
  <2>2. espeak_pause_state # "MARK_REPORTED" /\ spc \notin {"cancel", "clear", "reset"}
    BY <1>1 DEF Inv, Stops
  <2> QED
    BY <1>1, <1>2, <1>3, <2>1, <2>2 DEF Inv, Stops
<1> QED
  BY <1>5, <1>6, <1>7, <1>8, <1>9 DEF Inv

LEMMA PlayTellMarkInv ==
  ASSUME EspeakAssumption, Inv, PlayTellMark PROVE Inv'
<1> USE DEF stateVars, lastingVars, playVars, stopVars, synthVars, serverVars,
            Idle, Calling, Handling, Stopping, Begins, Told, MessageIds
<1>1. /\ ppc = "handle" /\ ppc' = "mark" /\ espeak_state = "SPEAKING" /\ ~Idle
      /\ Told # <<>> /\ ~Ended(Told)
      /\ entry.msg = accepted /\ accepted \in MessageIds
  BY DEF Inv, TypeOK, States, Playing, PlayTellMark, EspeakAssumption
<1>2. UNCHANGED <<espeak_state, espeak_pause_state, espeak_stop_requested,
                  espeak_close_requested, espeak_state_mutex_kept, playback_queue,
                  entry, spc, report, cpc>>
  BY DEF PlayTellMark
<1>3. /\ told' \in [MessageIds -> Seq(Reports)] /\ Told' = Append(Told, "MARK")
      /\ \A x \in MessageIds : x # accepted => told'[x] = told[x]
      /\ UNCHANGED <<accepted, refused>> /\ Told' # <<>>
  BY <1>1, TellFacts DEF Inv, PlayTellMark, Reports
<1>4. Ordered(Told') /\ ~Ended(Told') /\ AtMark(Told') /\ MayStop(Told')
  <2>1. Told \in Seq(Reports) /\ Ordered(Told)
    BY <1>1 DEF Inv, TypeOK, Order
  <2>2. "MARK" \in Reports \ {"BEGIN"} /\ "MARK" # "PAUSE"
    BY DEF Reports
  <2>3. Ordered(Append(Told, "MARK"))
    BY <1>1, <2>1, <2>2, OrderedNext
  <2> QED
    BY <1>1, <1>3, <2>1, <2>3, MarkIsLast
<1>5. TypeOK'
  BY <1>1, <1>2, <1>3 DEF Inv, TypeOK
<1>6. Order'
  <2>1. \A x \in MessageIds : Ordered(told'[x])
    BY <1>3, <1>4 DEF Inv, Order
  <2>2. \A x \in MessageIds : x > accepted => told'[x] = <<>>
    BY <1>1, <1>3 DEF Inv, TypeOK, Order
  <2> QED
    BY <1>3, <2>1, <2>2 DEF Order
<1>7. States'
  BY <1>1, <1>2, <1>3, <1>4 DEF Inv, States
<1>8. Queue'
  BY <1>1, <1>2, <1>3 DEF Inv, Queue, PlayTellMark
<1>9. Playing'
  BY <1>1, <1>2, <1>3, <1>4 DEF Inv, Playing
<1>10. Stops'
  <2>1. spc = "tell" => report.msg \in MessageIds /\ report.msg # accepted
    BY <1>1 DEF Inv, Stops, TypeOK
  <2>2. espeak_pause_state # "MARK_REPORTED" /\ spc \notin {"cancel", "clear", "reset"}
    BY <1>1 DEF Inv, Stops
  <2> QED
    BY <1>1, <1>2, <1>3, <2>1, <2>2 DEF Inv, Stops
<1> QED
  BY <1>5, <1>6, <1>7, <1>8, <1>9, <1>10 DEF Inv

LEMMA PlayPausesInv ==
  ASSUME EspeakAssumption, Inv, PlayPauses PROVE Inv'
<1> USE DEF stateVars, lastingVars, playVars, stopVars, synthVars, serverVars,
            Idle, Calling, Handling, Stopping, Begins, Told, MessageIds
<1>1. TypeOK'
  BY DEF Inv, TypeOK, EspeakAssumption, PlayPauses, PlayUnchanged
<1>2. Order'
  BY DEF Inv, TypeOK, Order, PlayPauses, PlayUnchanged
<1>3. States'
  BY DEF Inv, TypeOK, Order, States, Queue, Playing, Stops, PlayPauses,
     PlayUnchanged
<1>4. Queue'
  BY DEF Inv, TypeOK, Order, States, Queue, Playing, Stops, PlayPauses,
     PlayUnchanged
<1>5. Playing'
  BY DEF Inv, TypeOK, Order, States, Queue, Playing, Stops, PlayPauses,
     PlayUnchanged
<1>6. Stops'
  BY DEF Inv, TypeOK, Order, States, Queue, Playing, Stops, PlayPauses,
     PlayUnchanged
<1> QED
  BY <1>1, <1>2, <1>3, <1>4, <1>5, <1>6 DEF Inv

LEMMA PlayGoesOnInv ==
  ASSUME EspeakAssumption, Inv, PlayGoesOn PROVE Inv'
<1> USE DEF stateVars, lastingVars, playVars, stopVars, synthVars, serverVars,
            Idle, Calling, Handling, Stopping, Begins, Told, MessageIds
<1>1. TypeOK'
  BY DEF Inv, TypeOK, EspeakAssumption, PlayGoesOn, PlayUnchanged
<1>2. Order'
  BY DEF Inv, TypeOK, Order, PlayGoesOn, PlayUnchanged
<1>3. States'
  BY DEF Inv, TypeOK, Order, States, Queue, Playing, Stops, PlayGoesOn,
     PlayUnchanged
<1>4. Queue'
  BY DEF Inv, TypeOK, Order, States, Queue, Playing, Stops, PlayGoesOn,
     PlayUnchanged
<1>5. Playing'
  BY DEF Inv, TypeOK, Order, States, Queue, Playing, Stops, PlayGoesOn,
     PlayUnchanged
<1>6. Stops'
  BY DEF Inv, TypeOK, Order, States, Queue, Playing, Stops, PlayGoesOn,
     PlayUnchanged
<1> QED
  BY <1>1, <1>2, <1>3, <1>4, <1>5, <1>6 DEF Inv

LEMMA PlayEndInv ==
  ASSUME EspeakAssumption, Inv, PlayEnd PROVE Inv'
<1> USE DEF stateVars, lastingVars, playVars, stopVars, synthVars, serverVars,
            Idle, Calling, Handling, Stopping, Begins, Told, MessageIds
<1>1. TypeOK'
  BY DEF Inv, TypeOK, EspeakAssumption, PlayEnd, PlayUnchanged
<1>2. Order'
  BY DEF Inv, TypeOK, Order, PlayEnd, PlayUnchanged
<1>3. States'
  BY DEF Inv, TypeOK, Order, States, Queue, Playing, Stops, PlayEnd,
     PlayUnchanged
<1>4. Queue'
  BY DEF Inv, TypeOK, Order, States, Queue, Playing, Stops, PlayEnd,
     PlayUnchanged
<1>5. Playing'
  BY DEF Inv, TypeOK, Order, States, Queue, Playing, Stops, PlayEnd,
     PlayUnchanged
<1>6. Stops'
  BY DEF Inv, TypeOK, Order, States, Queue, Playing, Stops, PlayEnd,
     PlayUnchanged
<1> QED
  BY <1>1, <1>2, <1>3, <1>4, <1>5, <1>6 DEF Inv

\* END may be told of a message after the next one was accepted.
LEMMA PlayTellEndInv ==
  ASSUME EspeakAssumption, Inv, PlayTellEnd PROVE Inv'
<1> USE DEF stateVars, lastingVars, playVars, stopVars, synthVars, serverVars,
            Idle, Calling, Handling, Stopping, Begins, Told, MessageIds
<1> DEFINE m == entry.msg
<1>1. /\ ppc = "tell_end" /\ ppc' = "try" /\ m \in 1..accepted /\ m \in MessageIds
      /\ told[m] # <<>> /\ ~Ended(told[m])
      /\ espeak_state = "SPEAKING" => m = accepted
      /\ m = accepted => playback_queue = <<>> /\ cpc = "none"
                         /\ (Idle \/ espeak_stop_requested)
  BY DEF Inv, TypeOK, Playing, PlayTellEnd, EspeakAssumption
<1>2. UNCHANGED <<espeak_state, espeak_pause_state, espeak_stop_requested,
                  espeak_close_requested, espeak_state_mutex_kept, playback_queue,
                  entry, spc, report, cpc>>
  BY DEF PlayTellEnd
<1>3. /\ told' \in [MessageIds -> Seq(Reports)] /\ told'[m] = Append(told[m], "END")
      /\ \A x \in MessageIds : x # m => told'[x] = told[x]
      /\ UNCHANGED <<accepted, refused>> /\ told'[m] # <<>>
  BY <1>1, TellFacts DEF Inv, PlayTellEnd, Reports, Terminal
<1>4. Ordered(told'[m]) /\ MayStop(told'[m])
  <2>1. told[m] \in Seq(Reports) /\ Ordered(told[m])
    BY <1>1 DEF Inv, TypeOK, Order
  <2>2. "END" \in Reports \ {"BEGIN"} /\ "END" # "PAUSE"
    BY DEF Reports, Terminal
  <2>3. Ordered(Append(told[m], "END"))
    BY <1>1, <2>1, <2>2, OrderedNext
  <2> QED
    BY <1>1, <1>3, <2>1, <2>3, EndsLast
<1>5. /\ m = accepted => espeak_state \notin {"BEFORE_SYNTH", "BEFORE_PLAY"} \/ Idle
      /\ m # accepted => Told' = Told \/ accepted \notin MessageIds
      /\ ~Idle => accepted \in MessageIds
  <2>1. m = accepted => espeak_state \notin {"BEFORE_SYNTH", "BEFORE_PLAY"} \/ Idle
    BY <1>1 DEF Inv, States
  <2>2. ~Idle => accepted \in MessageIds
    BY DEF Inv, TypeOK, States, EspeakAssumption
  <2>3. m # accepted => Told' = Told \/ accepted \notin MessageIds
    BY <1>3
  <2> QED
    BY <2>1, <2>2, <2>3
<1> HIDE DEF m
<1>6. TypeOK'
  BY <1>1, <1>2, <1>3 DEF Inv, TypeOK
<1>7. Order'
  <2>1. \A x \in MessageIds : Ordered(told'[x])
    BY <1>3, <1>4 DEF Inv, Order
  <2>2. \A x \in MessageIds : x > accepted => told'[x] = <<>>
    BY <1>1, <1>3 DEF Inv, TypeOK, Order
  <2> QED
    BY <1>3, <2>1, <2>2 DEF Order
<1>8. States'
  BY <1>1, <1>2, <1>3, <1>4, <1>5 DEF Inv, TypeOK, States
<1>9. Queue' /\ Playing'
  BY <1>1, <1>2, <1>3 DEF Inv, Queue, Playing
<1>10. Stops'
  <2>1. spc = "tell" => report.msg \in MessageIds /\ report.msg # m
    BY <1>1 DEF Inv, Stops, TypeOK, m
  <2>2. espeak_pause_state # "MARK_REPORTED" /\ spc \notin {"cancel", "clear", "reset"}
    BY <1>1 DEF Inv, Stops
  <2> QED
    BY <1>1, <1>2, <1>3, <2>1, <2>2 DEF Inv, Stops
<1> QED
  BY <1>6, <1>7, <1>8, <1>9, <1>10 DEF Inv


-----------------------------------------------------------------------------
(* The stop thread.                                                        *)

LEMMA StopSleepInv ==
  ASSUME EspeakAssumption, Inv, StopSleep PROVE Inv'
<1> USE DEF stateVars, lastingVars, playVars, stopVars, synthVars, serverVars,
            Idle, Calling, Handling, Stopping, Begins, Told, MessageIds
<1>1. TypeOK'
  BY DEF Inv, TypeOK, EspeakAssumption, StopSleep, StopUnchanged
<1>2. Order'
  BY DEF Inv, TypeOK, Order, StopSleep, StopUnchanged
<1>3. States'
  BY DEF Inv, TypeOK, Order, States, Queue, Playing, Stops, StopSleep,
     StopUnchanged
<1>4. Queue'
  BY DEF Inv, TypeOK, Order, States, Queue, Playing, Stops, StopSleep,
     StopUnchanged
<1>5. Playing'
  BY DEF Inv, TypeOK, Order, States, Queue, Playing, Stops, StopSleep,
     StopUnchanged
<1>6. Stops'
  BY DEF Inv, TypeOK, Order, States, Queue, Playing, Stops, StopSleep,
     StopUnchanged
<1> QED
  BY <1>1, <1>2, <1>3, <1>4, <1>5, <1>6 DEF Inv

LEMMA StopAwakeInv ==
  ASSUME EspeakAssumption, Inv, StopAwake PROVE Inv'
<1> USE DEF stateVars, lastingVars, playVars, stopVars, synthVars, serverVars,
            Idle, Calling, Handling, Stopping, Begins, Told, MessageIds
<1>1. TypeOK'
  BY DEF Inv, TypeOK, EspeakAssumption, StopAwake, StopUnchanged
<1>2. Order'
  BY DEF Inv, TypeOK, Order, StopAwake, StopUnchanged
<1>3. States'
  BY DEF Inv, TypeOK, Order, States, Queue, Playing, Stops, StopAwake,
     StopUnchanged
<1>4. Queue'
  BY DEF Inv, TypeOK, Order, States, Queue, Playing, Stops, StopAwake,
     StopUnchanged
<1>5. Playing'
  BY DEF Inv, TypeOK, Order, States, Queue, Playing, Stops, StopAwake,
     StopUnchanged
<1>6. Stops'
  BY DEF Inv, TypeOK, Order, States, Queue, Playing, Stops, StopAwake,
     StopUnchanged
<1> QED
  BY <1>1, <1>2, <1>3, <1>4, <1>5, <1>6 DEF Inv

LEMMA StopBroadcastInv ==
  ASSUME EspeakAssumption, Inv, StopBroadcast PROVE Inv'
<1> USE DEF stateVars, lastingVars, playVars, stopVars, synthVars, serverVars,
            Idle, Calling, Handling, Stopping, Begins, Told, MessageIds
<1>1. TypeOK'
  BY DEF Inv, TypeOK, EspeakAssumption, StopBroadcast, StopUnchanged
<1>2. Order'
  BY DEF Inv, TypeOK, Order, StopBroadcast, StopUnchanged
<1>3. States'
  BY DEF Inv, TypeOK, Order, States, Queue, Playing, Stops, StopBroadcast,
     StopUnchanged
<1>4. Queue'
  BY DEF Inv, TypeOK, Order, States, Queue, Playing, Stops, StopBroadcast,
     StopUnchanged
<1>5. Playing'
  BY DEF Inv, TypeOK, Order, States, Queue, Playing, Stops, StopBroadcast,
     StopUnchanged
<1>6. Stops'
  BY DEF Inv, TypeOK, Order, States, Queue, Playing, Stops, StopBroadcast,
     StopUnchanged
<1> QED
  BY <1>1, <1>2, <1>3, <1>4, <1>5, <1>6 DEF Inv

LEMMA StopWaitsForPlayInv ==
  ASSUME EspeakAssumption, Inv, StopWaitsForPlay PROVE Inv'
<1> USE DEF stateVars, lastingVars, playVars, stopVars, synthVars, serverVars,
            Idle, Calling, Handling, Stopping, Begins, Told, MessageIds
<1>1. TypeOK'
  BY DEF Inv, TypeOK, EspeakAssumption, StopWaitsForPlay, StopUnchanged,
     PlaySuspended
<1>2. Order'
  BY DEF Inv, TypeOK, Order, StopWaitsForPlay, StopUnchanged, PlaySuspended
<1>3. States'
  BY DEF Inv, TypeOK, Order, States, Queue, Playing, Stops, StopWaitsForPlay,
     StopUnchanged, PlaySuspended
<1>4. Queue'
  BY DEF Inv, TypeOK, Order, States, Queue, Playing, Stops, StopWaitsForPlay,
     StopUnchanged, PlaySuspended
<1>5. Playing'
  BY DEF Inv, TypeOK, Order, States, Queue, Playing, Stops, StopWaitsForPlay,
     StopUnchanged, PlaySuspended
<1>6. Stops'
  BY DEF Inv, TypeOK, Order, States, Queue, Playing, Stops, StopWaitsForPlay,
     StopUnchanged, PlaySuspended
<1> QED
  BY <1>1, <1>2, <1>3, <1>4, <1>5, <1>6 DEF Inv

LEMMA StopCancelsInv ==
  ASSUME EspeakAssumption, Inv, StopCancels PROVE Inv'
<1> USE DEF stateVars, lastingVars, playVars, stopVars, synthVars, serverVars,
            Idle, Calling, Handling, Stopping, Begins, Told, MessageIds
<1>1. TypeOK'
  BY DEF Inv, TypeOK, EspeakAssumption, StopCancels, StopUnchanged
<1>2. Order'
  BY DEF Inv, TypeOK, Order, StopCancels, StopUnchanged
<1>3. States'
  BY DEF Inv, TypeOK, Order, States, Queue, Playing, Stops, StopCancels,
     StopUnchanged
<1>4. Queue'
  BY DEF Inv, TypeOK, Order, States, Queue, Playing, Stops, StopCancels,
     StopUnchanged
<1>5. Playing'
  BY DEF Inv, TypeOK, Order, States, Queue, Playing, Stops, StopCancels,
     StopUnchanged
<1>6. Stops'
  BY DEF Inv, TypeOK, Order, States, Queue, Playing, Stops, StopCancels,
     StopUnchanged
<1> QED
  BY <1>1, <1>2, <1>3, <1>4, <1>5, <1>6 DEF Inv

LEMMA espeak_clear_playback_queueInv ==
  ASSUME EspeakAssumption, Inv, espeak_clear_playback_queue PROVE Inv'
<1> USE DEF stateVars, lastingVars, playVars, stopVars, synthVars, serverVars,
            Idle, Calling, Handling, Stopping, Begins, Told, MessageIds
<1>1. /\ spc = "clear" /\ spc' = "reset" /\ playback_queue' = <<>>
      /\ report'.msg = accepted /\ report'.event \in {"STOP", "PAUSE"}
      /\ report' \in [event : {"none", "STOP", "PAUSE"}, msg : Nat]
      /\ report'.event = "PAUSE" => espeak_pause_state = "MARK_REPORTED"
  BY DEF Inv, TypeOK, espeak_clear_playback_queue
<1>2. UNCHANGED <<espeak_state, espeak_pause_state, espeak_stop_requested,
                  espeak_close_requested, espeak_state_mutex_kept, ppc, entry,
                  cpc, accepted, refused, told>>
  BY DEF espeak_clear_playback_queue, StopUnchanged
<1>3. MayTell(Told, report'.event)
  BY <1>1 DEF Inv, States, Stops, MayTell
<1>4. TypeOK'
  BY <1>1, <1>2 DEF Inv, TypeOK
<1>5. Order' /\ States'
  BY <1>1, <1>2 DEF Inv, Order, States
<1>6. Queue' /\ Playing'
  BY <1>1, <1>2 DEF Inv, Queue, Playing, Stops
<1>7. Stops'
  BY <1>1, <1>2, <1>3 DEF Inv, Stops
<1> QED
  BY <1>4, <1>5, <1>6, <1>7 DEF Inv

LEMMA StopResetsInv ==
  ASSUME EspeakAssumption, Inv, StopResets PROVE Inv'
<1> USE DEF stateVars, lastingVars, playVars, stopVars, synthVars, serverVars,
            Idle, Calling, Handling, Stopping, Begins, Told, MessageIds
<1>1. TypeOK'
  BY DEF Inv, TypeOK, EspeakAssumption, StopResets, StopUnchanged,
     espeak_state_reset
<1>2. Order'
  BY DEF Inv, TypeOK, Order, StopResets, StopUnchanged, espeak_state_reset
<1>3. States'
  BY DEF Inv, TypeOK, Order, States, Queue, Playing, Stops, StopResets,
     StopUnchanged, espeak_state_reset
<1>4. Queue'
  BY DEF Inv, TypeOK, Order, States, Queue, Playing, Stops, StopResets,
     StopUnchanged, espeak_state_reset
<1>5. Playing'
  BY DEF Inv, TypeOK, Order, States, Queue, Playing, Stops, StopResets,
     StopUnchanged, espeak_state_reset
<1>6. Stops'
  BY DEF Inv, TypeOK, Order, States, Queue, Playing, Stops, StopResets,
     StopUnchanged, espeak_state_reset
<1> QED
  BY <1>1, <1>2, <1>3, <1>4, <1>5, <1>6 DEF Inv

LEMMA StopTellsInv ==
  ASSUME EspeakAssumption, Inv, StopTells PROVE Inv'
<1> USE DEF stateVars, lastingVars, playVars, stopVars, synthVars, serverVars,
            Idle, Calling, Handling, Stopping, Begins, Told, MessageIds
<1> DEFINE m == report.msg
           e == report.event
<1>1. /\ spc = "tell" /\ spc' = "try" /\ m \in 1..accepted /\ m \in MessageIds
      /\ MayTell(told[m], e) /\ e \in Reports \ {"BEGIN"}
      /\ m = accepted => Idle /\ ppc # "tell_end"
      /\ Handling \/ ppc = "tell_end" => entry.msg > m
  BY DEF Inv, TypeOK, Stops, StopTells, EspeakAssumption, MayTell, Reports,
     Terminal
<1>2. UNCHANGED <<espeak_state, espeak_pause_state, espeak_stop_requested,
                  espeak_close_requested, espeak_state_mutex_kept, playback_queue,
                  ppc, entry, report, cpc>>
  BY DEF StopTells
<1>3. /\ told' \in [MessageIds -> Seq(Reports)] /\ told'[m] = Append(told[m], e)
      /\ \A x \in MessageIds : x # m => told'[x] = told[x]
      /\ UNCHANGED <<accepted, refused>> /\ told'[m] # <<>>
  BY <1>1, TellFacts DEF Inv, StopTells
<1>4. Ordered(told'[m])
  <2>1. told[m] \in Seq(Reports) /\ Ordered(told[m])
    BY <1>1 DEF Inv, TypeOK, Order
  <2>2. CASE e = "STOP" /\ MayStop(told[m])
    BY <1>3, <2>1, <2>2, OrderedStop
  <2>3. CASE e = "PAUSE" /\ AtMark(told[m])
    <3>1. told[m] # <<>> /\ ~Ended(told[m])
      BY <2>3 DEF AtMark
    <3> QED
      BY <1>1, <1>3, <2>1, <2>3, <3>1, OrderedNext
  <2> QED
    BY <1>1, <2>2, <2>3 DEF MayTell
<1>5. ~Idle => accepted \in MessageIds /\ m # accepted /\ Told' = Told
  BY <1>1, <1>3 DEF Inv, TypeOK, States, EspeakAssumption
<1> HIDE DEF m, e
<1>6. TypeOK'
  BY <1>1, <1>2, <1>3 DEF Inv, TypeOK
<1>7. Order'
  <2>1. \A x \in MessageIds : Ordered(told'[x])
    BY <1>3, <1>4 DEF Inv, Order
  <2>2. \A x \in MessageIds : x > accepted => told'[x] = <<>>
    BY <1>1, <1>3 DEF Inv, TypeOK, Order
  <2> QED
    BY <1>3, <2>1, <2>2 DEF Order
<1>8. States'
  BY <1>1, <1>2, <1>3, <1>5 DEF Inv, States
<1>9. Queue'
  BY <1>1, <1>2, <1>3 DEF Inv, Queue
<1>10. Playing'
  <2>1. Handling => ~Idle
    BY DEF Inv, States
  <2>2. ppc = "tell_end" => /\ entry.msg \in MessageIds /\ entry.msg # m
                            /\ told'[entry.msg] = told[entry.msg]
    BY <1>1, <1>3 DEF Inv, TypeOK, Playing, EspeakAssumption
  <2> QED
    BY <1>1, <1>2, <1>3, <1>5, <2>1, <2>2 DEF Inv, Playing
<1>11. Stops'
  <2>1. espeak_pause_state = "MARK_REPORTED" => ~Idle
    BY DEF Inv, States, Stops
  <2> QED
    BY <1>1, <1>2, <1>3, <1>5, <2>1 DEF Inv, Stops
<1> QED
  BY <1>6, <1>7, <1>8, <1>9, <1>10, <1>11 DEF Inv

-----------------------------------------------------------------------------
(* The theorems.                                                           *)

LEMMA InitInv == ASSUME EspeakAssumption, Init PROVE Inv
<1> USE DEF Init, Idle, Calling, Handling, Stopping, Begins, Told, MessageIds
<1>1. TypeOK
  <2>1. <<>> \in Seq([kind : Kinds, msg : Nat]) /\ <<>> \in Seq(Reports)
    OBVIOUS
  <2>2. told \in [MessageIds -> Seq(Reports)]
    BY <2>1
  <2>3. /\ entry \in [kind : Kinds \cup {"none"}, msg : Nat]
        /\ report \in [event : {"none", "STOP", "PAUSE"}, msg : Nat]
    BY DEF NoEntry, NoReport
  <2>4. accepted \in Nat /\ refused \in Nat /\ accepted + refused <= MaxMessages
    BY DEF EspeakAssumption
  <2> QED
    BY <2>1, <2>2, <2>3, <2>4, Zenon DEF TypeOK
<1>2. Order
  BY NothingTold DEF Order
<1>3. States /\ Queue /\ Playing /\ Stops
  BY DEF States, Queue, Playing, Stops
<1> QED
  BY <1>1, <1>2, <1>3 DEF Inv

LEMMA StutterInv == ASSUME Inv, UNCHANGED vars PROVE Inv'
<1> USE DEF vars, stateVars, lastingVars, playVars, stopVars, synthVars,
            serverVars, Idle, Calling, Handling, Stopping, Begins, Told, MessageIds
<1>1. TypeOK' /\ Order'
  BY DEF Inv, TypeOK, Order
<1>2. States' /\ Queue'
  BY DEF Inv, States, Queue
<1>3. Playing' /\ Stops'
  BY DEF Inv, Playing, Stops
<1> QED
  BY <1>1, <1>2, <1>3 DEF Inv

LEMMA NextInv == ASSUME EspeakAssumption, Inv, [Next]_vars PROVE Inv'
<1>1. CASE Server \/ espeak_close \/ espeak_exit
  BY <1>1, espeak_speakInv, espeak_speak_refusedInv, espeak_synth_failsInv,
     espeak_stopInv, espeak_pauseInv, espeak_closeInv, espeak_exitInv DEF Server
<1>2. CASE Synthesise
  BY <1>2, CallbackFirstInv, CallbackStopsInv, CallbackNextInv,
     CallbackWaitsInv,
     CallbackAudioInv, CallbackGivesUpInv, CallbackPushInv DEF Synthesise
<1>3. CASE Play
  BY <1>3, PlaySleepInv, PlayAwakeInv, playback_queue_popInv, PlaySoundInv,
     PlayBeginInv, PlayTellBeginInv, PlayTellMarkInv, PlayPausesInv,
     PlayGoesOnInv, PlayEndInv, PlayTellEndInv DEF Play
<1>4. CASE StopOrPause
  BY <1>4, StopSleepInv, StopAwakeInv, StopBroadcastInv, StopWaitsForPlayInv,
     StopCancelsInv, espeak_clear_playback_queueInv, StopResetsInv,
     StopTellsInv DEF StopOrPause
<1>5. CASE Exited \/ UNCHANGED vars
  BY <1>5, StutterInv DEF Exited
<1> QED
  BY <1>1, <1>2, <1>3, <1>4, <1>5 DEF Next

\* What the state of the module, the four threads, the playback queue and the
\* events told of every message have to do with each other.
THEOREM EspeakInvariant == Spec => []Inv
<1>1. Init => Inv
  BY EspeakAssumption, InitInv
<1>2. Inv /\ [Next]_vars => Inv'
  BY EspeakAssumption, NextInv
<1> QED
  BY <1>1, <1>2, PTL DEF Spec

LEMMA InvOrder == ASSUME EspeakAssumption, Inv PROVE EventsInOrder
<1>1. Sounding => told[entry.msg] # <<>> /\ ~Over(entry.msg)
  BY DEF Inv, States, Playing, Handling, Told, Sounding, Over, Ended
<1>2. \A i \in DOMAIN playback_queue :
        playback_queue[i].msg = accepted /\ ~Over(accepted)
  <2>1. playback_queue \in Seq([kind : Kinds, msg : Nat])
    BY DEF Inv, TypeOK
  <2>2. DOMAIN playback_queue = 1..Len(playback_queue)
    BY <2>1
  <2>3. playback_queue # <<>> => ~Ended(Told)
    <3>1. CASE espeak_state = "SPEAKING"
      BY <3>1 DEF Inv, States
    <3>2. CASE espeak_state = "BEFORE_PLAY"
      BY <3>2, NothingTold DEF Inv, States
    <3> QED
      BY <3>1, <3>2 DEF Inv, Queue
  <2>4. ASSUME NEW i \in DOMAIN playback_queue
        PROVE  playback_queue[i].msg = accepted /\ ~Over(accepted)
    <3>1. playback_queue # <<>> /\ i \in 1..Len(playback_queue)
      BY <2>1, <2>2
    <3> QED
      BY <2>3, <3>1 DEF Inv, Queue, Told, Over, Ended
  <2> QED
    BY <2>4
<1>3. \A m \in MessageIds : \A i \in DOMAIN told[m] :
        /\ told[m][i] = "BEGIN" <=> i = 1 /\ told[m] # <<"STOP">>
        /\ i < Len(told[m]) /\ told[m][i] \in Terminal
             => told[m][i] = "END" /\ told[m][i + 1] = "STOP" /\ i + 1 = Len(told[m])
        /\ told[m][i] = "PAUSE" => i > 1 /\ told[m][i - 1] = "MARK"
  BY DEF Inv, Order, Ordered
<1> QED
  BY <1>1, <1>2, <1>3 DEF EventsInOrder

\* EventsInOrder: BEGIN comes first, a sound is only heard between BEGIN and the
\* end, nothing of a message is left for the next one, what is paused is paused
\* at a mark, and only the STOP of a request that came too late follows END.
THEOREM EventsComeInOrder == Spec => []EventsInOrder
<1>1. Inv => EventsInOrder
  BY EspeakAssumption, InvOrder
<1> QED
  BY <1>1, EspeakInvariant, PTL

-----------------------------------------------------------------------------
(***************************************************************************)
(* Types, and what the module knows of the connection.                     *)
(***************************************************************************)
Parameters == {"language", "voice_type", "name", "rate"}

Wishes == [language : Languages \cup {NULL}, voice_type : Types \cup {NULL},
           name : Names \cup {NULL}, rate : Rates \cup {NULL}]

Tunings == [language : Languages \cup {NULL}, speaker : Types \cup Names \cup {NULL},
            rate : Rates \cup {NULL}]

\* Where a message is: its name, its rate and so on were compared already.
Spoken     == {"post", "begin", "fetch"}
Named      == {"rate"} \cup Spoken
Voiced     == {"name"} \cup Named
Translated == {"voice_type"} \cup Voiced
OnTheWay   == {"speak", "require", "language"} \cup Translated

TypeInv ==
  /\ distinguish \subseteq {"voice_type", "rate"}
  /\ msg_settings \in Wishes
  /\ old \in Wishes
  /\ tuned \in Tunings
  /\ pc \in {"set", "died"} \cup OnTheWay
  /\ pc \in OnTheWay => msg_settings \in Settings
  /\ festival_info \in {NULL, "configured", "default"}
  /\ crashed \in BOOLEAN
  /\ link \in {"up", "cut"}

\* The module only believes that the connection is broken when it is.
ConnectionInv ==
  /\ festival_info = NULL => crashed
  /\ crashed => link = "cut"

BaseInv == TypeInv /\ ConnectionInv

\* The settings of a message.
LEMMA SettingsAreWishes ==
  ASSUME NEW s \in Settings
  PROVE  /\ s \in Wishes
         /\ s.language # NULL /\ s.rate # NULL
         /\ ~MixedVoices => NULL \in {s.voice_type, s.name}
<1> QED
  BY FestivalAssumption DEF Settings, Wishes

\* What is remembered and sent of one parameter.
LEMMA Updates ==
  ASSUME TypeInv, NEW p \in Parameters, NEW next, UpdateParameter(p, next)
  PROVE  /\ pc = p /\ pc' = next /\ lost' = lost
         /\ UNCHANGED <<msg_settings, festival_info, link, cache, message, heard,
                        outside>>
         /\ old' \in Wishes
         /\ \A r \in Parameters : old'[r] = IF r = p THEN msg_settings[p] ELSE old[r]
         /\ \/ msg_settings[p] \notin {NULL, old[p]} /\ Sends(p)
            \/ msg_settings[p] \in {NULL, old[p]} /\ UNCHANGED <<crashed, tuned>>
<1>1. /\ pc = p /\ pc' = next /\ lost' = lost
      /\ UNCHANGED <<msg_settings, festival_info, link, cache, message, heard,
                     outside>>
      /\ old' = [old EXCEPT ![p] = msg_settings[p]]
      /\ \/ msg_settings[p] \notin {NULL, old[p]} /\ Sends(p)
         \/ msg_settings[p] \in {NULL, old[p]} /\ UNCHANGED <<crashed, tuned>>
  BY DEF UpdateParameter, Continues
<1>2. old \in Wishes /\ msg_settings \in Wishes
  BY DEF TypeInv
<1>3. /\ old' \in Wishes
      /\ \A r \in Parameters : old'[r] = IF r = p THEN msg_settings[p] ELSE old[r]
  BY <1>1, <1>2 DEF Wishes, Parameters
<1> QED
  BY <1>1, <1>3

\* A command reaches festival, or the break is seen.
LEMMA SendsOrSees ==
  ASSUME BaseInv, NEW p \in Parameters, msg_settings[p] # NULL, Sends(p)
  PROVE  /\ tuned' \in Tunings
         /\ crashed' \in BOOLEAN
         /\ festival_info = NULL => crashed'
         /\ crashed' => link = "cut"
         /\ link = "up" =>
              CASE p = "language" -> tuned' = [Untuned EXCEPT !.language = msg_settings[p]]
                [] p = "rate"     -> tuned' = [tuned EXCEPT !.rate = msg_settings[p]]
                [] OTHER          -> tuned' = [tuned EXCEPT !.speaker = msg_settings[p]]
<1>1. CASE Broken
  BY <1>1 DEF Sends, SeesBreak, Broken, BaseInv, TypeInv, ConnectionInv
<1>2. CASE ~Broken
  <2>1. /\ tuned' = CASE p = "language" -> [Untuned EXCEPT !.language = msg_settings[p]]
                      [] p = "rate"     -> [tuned EXCEPT !.rate = msg_settings[p]]
                      [] OTHER          -> [tuned EXCEPT !.speaker = msg_settings[p]]
        /\ crashed' = crashed
    BY <1>2 DEF Sends
  <2>2. /\ tuned \in Tunings /\ Untuned \in Tunings
        /\ msg_settings \in Wishes
    BY DEF BaseInv, TypeInv, Untuned, Tunings
  <2>3. CASE p = "language"
    BY <2>1, <2>2, <2>3 DEF Tunings, Wishes, BaseInv, TypeInv, ConnectionInv
  <2>4. CASE p = "rate"
    BY <2>1, <2>2, <2>4 DEF Tunings, Wishes, BaseInv, TypeInv, ConnectionInv
  <2>5. CASE p = "name" \/ p = "voice_type"
    BY <2>1, <2>2, <2>5 DEF Tunings, Wishes, BaseInv, TypeInv, ConnectionInv
  <2> QED
    BY <2>3, <2>4, <2>5 DEF Parameters
<1> QED
  BY <1>1, <1>2

\* The parameters are compared one after the other.
LEMMA UpdateSteps ==
  ASSUME TypeInv, NEW p \in Parameters,
         NEW next \in {"voice_type", "name", "rate", "post"},
         UpdateParameter(p, next), BaseInv
  PROVE  BaseInv'
<1>1. /\ pc = p /\ pc' = next
      /\ UNCHANGED <<msg_settings, festival_info, link, distinguish>>
      /\ old' \in Wishes
      /\ \/ msg_settings[p] # NULL /\ Sends(p)
         \/ UNCHANGED <<crashed, tuned>>
  BY Updates DEF outside
<1>2. /\ tuned' \in Tunings
      /\ crashed' \in BOOLEAN
      /\ festival_info = NULL => crashed'
      /\ crashed' => link = "cut"
  BY <1>1, SendsOrSees DEF BaseInv, TypeInv, ConnectionInv
<1>3. pc \in OnTheWay /\ pc' \in OnTheWay
  BY <1>1 DEF Parameters, OnTheWay, Translated, Voiced, Named, Spoken
<1> QED
  BY <1>1, <1>2, <1>3 DEF BaseInv, TypeInv, ConnectionInv

\* Every step.
LEMMA BaseKept == BaseInv /\ [FestivalNext]_festival_vars => BaseInv'
<1> SUFFICES ASSUME BaseInv, [FestivalNext]_festival_vars
             PROVE  BaseInv'
  OBVIOUS
<1> USE DEF settings, connection, outside
<1>1. Unset \in Wishes /\ Untuned \in Tunings
  BY DEF Unset, Untuned, Wishes, Tunings
<1>2. /\ distinguish \subseteq {"voice_type", "rate"}
      /\ msg_settings \in Wishes /\ old \in Wishes /\ tuned \in Tunings
      /\ pc \in {"set", "died"} \cup OnTheWay
      /\ pc \in OnTheWay => msg_settings \in Settings
      /\ festival_info \in {NULL, "configured", "default"}
      /\ crashed \in BOOLEAN /\ link \in {"up", "cut"}
      /\ festival_info = NULL => crashed
      /\ crashed => link = "cut"
  BY DEF BaseInv, TypeInv, ConnectionInv
<1>3. NULL \notin {"configured", "default"}
  BY FestivalAssumption
<1> USE DEF BaseInv, TypeInv, ConnectionInv
<1>4. CASE do_set
  <2>1. msg_settings' \in Settings
    BY <1>4 DEF do_set
  <2>2. msg_settings' \in Wishes
    BY <2>1, SettingsAreWishes
  <2>3. /\ pc' = "speak"
        /\ UNCHANGED <<old, tuned, festival_info, crashed, link, distinguish>>
    BY <1>4 DEF do_set, Continues
  <2> QED
    BY <1>2, <2>1, <2>2, <2>3 DEF OnTheWay
<1>5. CASE festivalOpen
  <2>1. /\ pc = "speak" /\ crashed /\ old' = Unset
        /\ UNCHANGED <<msg_settings, distinguish>>
    BY <1>5 DEF festivalOpen, clean_old_settings_table
  <2>2. \/ /\ festival_info' \in {"configured", "default"} /\ crashed' = FALSE
           /\ link' = "up" /\ tuned' = Untuned /\ pc' = "require"
        \/ /\ festival_info' = NULL /\ crashed' = TRUE
           /\ UNCHANGED <<link, tuned>> /\ pc' = "set"
    BY <1>2, <1>5 DEF festivalOpen, Continues, NotHeard
  <2> QED
    BY <1>1, <1>2, <1>3, <2>1, <2>2 DEF OnTheWay
<1>6. CASE OpensUp
  <2>1. /\ pc = "require"
        /\ UNCHANGED <<msg_settings, old, link, tuned, distinguish>>
    BY <1>6 DEF OpensUp
  <2>2. \/ /\ Broken /\ SeesBreak /\ pc' = "set"
           /\ festival_info' \in {NULL, festival_info}
        \/ UNCHANGED <<festival_info, crashed>> /\ pc' = "speak"
    BY <1>6 DEF OpensUp, Continues, NotHeard
  <2>3. Broken /\ SeesBreak => crashed' = TRUE /\ link = "cut"
    BY <1>2 DEF Broken, SeesBreak
  <2>4. /\ festival_info' \in {NULL, "configured", "default"}
        /\ crashed' \in BOOLEAN
        /\ festival_info' = NULL => crashed'
        /\ crashed' => link' = "cut"
    <3>1. link' = link
      BY <2>1
    <3>2. CASE Broken /\ SeesBreak /\ festival_info' \in {NULL, festival_info}
      BY <1>2, <2>3, <3>1, <3>2
    <3>3. CASE UNCHANGED <<festival_info, crashed>>
      BY <1>2, <3>1, <3>3
    <3> QED
      BY <2>2, <3>2, <3>3
  <2>5. /\ pc' \in {"set", "died"} \cup OnTheWay
        /\ msg_settings' \in Settings /\ msg_settings' \in Wishes
    BY <1>2, <2>1, <2>2 DEF OnTheWay
  <2>6. UNCHANGED <<old, link, tuned, distinguish>>
    BY <2>1
  <2> QED
    BY <1>2, <2>4, <2>5, <2>6
<1>7. CASE ComparesVoices
  <2>1. /\ pc = "speak" /\ pc' = "language" /\ old' \in {old, Unset}
        /\ UNCHANGED <<msg_settings, festival_info, crashed, link, tuned, distinguish>>
    BY <1>7 DEF ComparesVoices, Continues, clean_old_settings_table
  <2> QED
    BY <1>1, <1>2, <2>1 DEF OnTheWay
<1>8. CASE SetsLanguage
  BY <1>8, UpdateSteps DEF SetsLanguage, Parameters
<1>9. CASE \/ UpdateParameter("voice_type", "name")
           \/ UpdateParameter("name", "rate") \/ UpdateParameter("rate", "post")
  BY <1>9, UpdateSteps DEF Parameters
<1>10. CASE GetsVoices \/ Posts \/ PlaysCached
  <2>1. pc \in OnTheWay /\ pc' \in {"died", "set", "begin"}
    BY <1>10 DEF GetsVoices, Posts, PlaysCached, Continues, NotHeard, OnTheWay,
                 Translated, Voiced, Named, Spoken
  <2>2. UNCHANGED <<msg_settings, old, tuned, festival_info, crashed, link, distinguish>>
    BY <1>10 DEF GetsVoices, Posts, PlaysCached
  <2> QED
    BY <1>2, <2>1, <2>2 DEF OnTheWay, Translated, Voiced, Named, Spoken
<1>11. CASE Requests \/ GetsWave
  <2>1. pc \in OnTheWay /\ pc' \in {"set", "fetch"}
    BY <1>11 DEF Requests, GetsWave, Continues, NotHeard, OnTheWay,
                 Translated, Voiced, Named, Spoken
  <2>2. /\ UNCHANGED <<msg_settings, old, tuned, festival_info, link, distinguish>>
        /\ (Broken /\ SeesBreak) \/ UNCHANGED crashed
    BY <1>11 DEF Requests, GetsWave
  <2>3. Broken /\ SeesBreak => crashed' = TRUE /\ link = "cut"
    BY <1>2 DEF Broken, SeesBreak
  <2>4. /\ crashed' \in BOOLEAN
        /\ festival_info = NULL => crashed'
        /\ crashed' => link = "cut"
    <3>1. CASE Broken /\ SeesBreak
      BY <1>2, <2>3, <3>1
    <3>2. CASE UNCHANGED crashed
      BY <1>2, <3>2
    <3> QED
      BY <2>2, <3>1, <3>2
  <2>5. /\ pc' \in {"set", "died"} \cup OnTheWay
        /\ msg_settings \in Settings
    BY <1>2, <2>1 DEF OnTheWay, Translated, Voiced, Named, Spoken
  <2>6. UNCHANGED <<msg_settings, old, tuned, festival_info, link, distinguish>>
    BY <2>2
  <2> QED
    BY <1>2, <2>4, <2>5, <2>6
<1>12. CASE Breaks \/ ComesBack
  <2>1. /\ UNCHANGED <<msg_settings, old, tuned, festival_info, crashed, pc, distinguish>>
        /\ link' = "cut" \/ link' = link
    BY <1>12 DEF Breaks, ComesBack, ModuleUnchanged
  <2> QED
    BY <1>2, <2>1
<1>13. CASE Restarts
  <2>1. /\ pc' = "set" /\ old' = Unset /\ msg_settings' = Unset
        /\ festival_info' = "configured" /\ crashed' = FALSE
        /\ link' = "up" /\ tuned' = Untuned /\ UNCHANGED distinguish
    BY <1>13 DEF Restarts
  <2> QED
    BY <1>1, <1>2, <1>3, <2>1 DEF OnTheWay, Translated, Voiced, Named, Spoken
<1>14. CASE UNCHANGED festival_vars
  BY <1>2, <1>14 DEF festival_vars
<1> QED
  BY <1>4, <1>5, <1>6, <1>7, <1>8, <1>9, <1>10, <1>11, <1>12, <1>13, <1>14 DEF FestivalNext

\* The module's variables keep their types, and it believes that the connection
\* is broken only when it is.
THEOREM FestivalInvariant == FestivalSpec => []BaseInv
<1>1. FestivalInit => BaseInv
  <2> SUFFICES ASSUME FestivalInit PROVE BaseInv
    OBVIOUS
  <2>1. Unset \in Wishes /\ Untuned \in Tunings
    BY DEF Unset, Untuned, Wishes, Tunings
  <2>2. distinguish \subseteq {"voice_type", "rate"} /\ NULL # "configured"
    BY FestivalAssumption DEF FestivalInit
  <2> QED
    BY <2>1, <2>2 DEF FestivalInit, BaseInv, TypeInv, ConnectionInv, OnTheWay, Translated,
                      Voiced, Named, Spoken
<1> QED
  BY <1>1, BaseKept, PTL DEF FestivalSpec

-----------------------------------------------------------------------------
(***************************************************************************)
(* What a break costs.                                                     *)
(***************************************************************************)

\* Once a message was lost the connection is up again, or the next thing that is
\* done is to open it.
LostInv ==
  /\ lost \in {0, 1}
  /\ lost = 1 => \/ link = "up"
                 \/ crashed /\ pc \in {"set", "speak"}
                 \/ pc = "died"

\* The message that finds the connection broken is the first that is lost.
LEMMA FirstLost ==
  ASSUME BaseInv, LostInv, Broken, pc \notin {"set", "speak", "died"}
  PROVE  lost = 0
<1> QED
  BY DEF BaseInv, TypeInv, ConnectionInv, LostInv, Broken

\* Every step.
LEMMA LostKept ==
  ASSUME DefaultHost, BaseInv, LostInv, [FestivalNext]_festival_vars
  PROVE  LostInv'
<1> USE DEF settings, connection, outside
<1>1. /\ lost \in {0, 1}
      /\ lost = 1 => \/ link = "up"
                     \/ crashed /\ pc \in {"set", "speak"}
                     \/ pc = "died"
      /\ festival_info \in {NULL, "configured", "default"}
      /\ crashed \in BOOLEAN
      /\ festival_info = NULL => crashed
      /\ crashed => link = "cut"
  BY DEF BaseInv, TypeInv, ConnectionInv, LostInv
<1>2. CASE do_set
  BY <1>1, <1>2 DEF do_set, Continues, LostInv
<1>3. CASE festivalOpen
  <2>1. \/ link' = "up" /\ lost' = lost
        \/ ~reachable /\ NotHeard /\ crashed' = TRUE
    BY <1>1, <1>3 DEF festivalOpen, Continues
  <2>2. ~reachable /\ NotHeard => pc' = "set" /\ lost' = lost
    BY DEF NotHeard, Lost
  <2> QED
    BY <1>1, <2>1, <2>2 DEF LostInv
<1>4. CASE OpensUp \/ Requests \/ GetsWave
  <2>1. /\ pc \in {"require", "begin", "fetch"}
        /\ UNCHANGED link
        /\ \/ Broken /\ SeesBreak /\ NotHeard
           \/ lost' = lost /\ UNCHANGED crashed
    BY <1>4 DEF OpensUp, Requests, GetsWave, Continues
  <2>2. CASE Broken /\ SeesBreak /\ NotHeard
    <3>1. lost = 0
      BY <2>1, <2>2, FirstLost
    <3>2. crashed' = TRUE
      BY <1>1, <2>2 DEF SeesBreak, Broken
    <3>3. pc' = "set" /\ lost' \in {0, 1}
      BY <2>2, <3>1 DEF NotHeard, Lost
    <3> QED
      BY <3>2, <3>3 DEF LostInv
  <2>3. CASE lost' = lost /\ UNCHANGED crashed
    <3>1. lost = 1 => link = "up"
      BY <1>1, <2>1
    <3> QED
      BY <1>1, <2>1, <2>3, <3>1 DEF LostInv
  <2> QED
    BY <2>1, <2>2, <2>3
<1>5. CASE \/ SetsLanguage \/ UpdateParameter("voice_type", "name")
           \/ UpdateParameter("name", "rate") \/ UpdateParameter("rate", "post")
  <2>1. pc \in Parameters /\ UNCHANGED <<lost, link>>
    BY <1>5, Updates DEF SetsLanguage, Parameters, BaseInv
  <2>2. lost = 1 => link = "up"
    BY <1>1, <2>1 DEF Parameters
  <2> QED
    BY <1>1, <2>1, <2>2 DEF LostInv
<1>6. CASE ComparesVoices \/ PlaysCached
  <2>1. pc = "begin" \/ (pc = "speak" /\ ~crashed)
    BY <1>6 DEF ComparesVoices, PlaysCached
  <2>2. UNCHANGED <<lost, link>>
    BY <1>6 DEF ComparesVoices, PlaysCached, Continues
  <2>3. lost = 1 => link = "up"
    BY <1>1, <2>1
  <2> QED
    BY <1>1, <2>2, <2>3 DEF LostInv
<1>7. CASE GetsVoices
  <2>1. lost = 0
    BY <1>7, FirstLost DEF GetsVoices
  <2>2. pc' = "died" /\ lost' \in {0, 1}
    BY <1>7, <2>1 DEF GetsVoices, Lost
  <2> QED
    BY <2>2 DEF LostInv
<1>8. CASE Posts
  <2>1. pc = "post" /\ UNCHANGED <<link, crashed>>
    BY <1>8 DEF Posts
  <2>2. CASE crashed
    <3>1. lost = 0
      BY <1>1, <2>1, <2>2
    <3>2. pc' = "set" /\ lost' \in {0, 1}
      BY <1>8, <2>2, <3>1 DEF Posts, NotHeard, Lost
    <3> QED
      BY <2>1, <2>2, <3>2 DEF LostInv
  <2>3. CASE ~crashed
    <3>1. lost' = lost
      BY <1>8, <2>3 DEF Posts, Continues
    <3> QED
      BY <1>1, <2>1, <3>1 DEF LostInv
  <2> QED
    BY <2>2, <2>3
<1>9. CASE Breaks \/ Restarts
  <2>1. lost' = 0 \/ (lost' = lost /\ link' = "up")
    BY <1>9 DEF Breaks, Restarts
  <2> QED
    BY <1>1, <2>1 DEF LostInv
<1>10. CASE ComesBack \/ UNCHANGED festival_vars
  <2>1. UNCHANGED <<lost, link, crashed, pc>>
    BY <1>10 DEF ComesBack, ModuleUnchanged, festival_vars
  <2> QED
    BY <1>1, <2>1 DEF LostInv
<1> QED
  BY <1>2, <1>3, <1>4, <1>5, <1>6, <1>7, <1>8, <1>9, <1>10 DEF FestivalNext

\* If festival is at its default host, a connection that breaks costs one
\* message, the one that finds it broken: the next one opens a new one.
THEOREM BreaksCostOne ==
  ASSUME DefaultHost
  PROVE  FestivalSpec => []BreakCostsOne
<1>1. FestivalInit => LostInv
  BY DEF FestivalInit, LostInv
<1>2. BaseInv /\ LostInv /\ [FestivalNext]_festival_vars => LostInv'
  BY LostKept
<1>3. LostInv => BreakCostsOne
  BY DEF LostInv, BreakCostsOne
<1> QED
  BY <1>1, <1>2, <1>3, FestivalInvariant, PTL DEF FestivalSpec

-----------------------------------------------------------------------------
(***************************************************************************)
(* What the module believes festival to have.                              *)
(***************************************************************************)

\* On a connection that is up festival has the settings that were remembered.
TunedInv ==
  link = "up" =>
    /\ old.language # NULL => tuned.language = old.language
    /\ old.rate # NULL => tuned.rate = old.rate
    /\ old.name # NULL => tuned.speaker = old.name
    /\ old.voice_type # NULL /\ old.name = NULL => tuned.speaker = old.voice_type

\* The parameters that were compared are those of the message; what is compared
\* later was forgotten, if it takes a command that changes it.
ComparedInv ==
  /\ old.language = NULL => old = Unset
  /\ NULL \in {old.voice_type, old.name}
  /\ pc = "language" => msg_settings.language = old.language \/ old = Unset
  /\ pc \in {"language", "voice_type"} =>
       \/ msg_settings.voice_type = old.voice_type
       \/ old.voice_type = NULL /\ old.name = NULL
  /\ pc \in Translated => old.language = msg_settings.language
  /\ pc \in Voiced => old.voice_type = msg_settings.voice_type
  /\ pc \in Named => old.name = msg_settings.name
  /\ pc \in Spoken => old.rate = msg_settings.rate

BeliefInv == TunedInv /\ ComparedInv

\* What an update does on a connection that is up.
LEMMA UpdateTunes ==
  ASSUME BaseInv, NEW p \in Parameters, NEW next, UpdateParameter(p, next),
         link = "up"
  PROVE  \/ msg_settings[p] \in {NULL, old[p]} /\ tuned' = tuned
         \/ /\ msg_settings[p] \notin {NULL, old[p]}
            /\ CASE p = "language" -> tuned' = [Untuned EXCEPT !.language = msg_settings[p]]
                 [] p = "rate"     -> tuned' = [tuned EXCEPT !.rate = msg_settings[p]]
                 [] OTHER          -> tuned' = [tuned EXCEPT !.speaker = msg_settings[p]]
<1>1. \/ msg_settings[p] \notin {NULL, old[p]} /\ Sends(p)
      \/ msg_settings[p] \in {NULL, old[p]} /\ tuned' = tuned
  BY Updates DEF BaseInv
<1>2. CASE msg_settings[p] \notin {NULL, old[p]} /\ Sends(p)
  BY <1>2, SendsOrSees
<1> QED
  BY <1>1, <1>2

\* Every update.
LEMMA UpdatesBelieve ==
  ASSUME ~MixedVoices, BaseInv, BeliefInv,
         \/ SetsLanguage \/ UpdateParameter("voice_type", "name")
         \/ UpdateParameter("name", "rate") \/ UpdateParameter("rate", "post")
  PROVE  BeliefInv'
<1>1. /\ old \in Wishes /\ msg_settings \in Wishes
      /\ tuned \in Tunings /\ Untuned \in Tunings
      /\ pc \in OnTheWay => msg_settings \in Settings
  BY DEF BaseInv, TypeInv, Untuned, Tunings
<1>2. /\ old.language = NULL => old = Unset
      /\ NULL \in {old.voice_type, old.name}
      /\ pc = "language" => msg_settings.language = old.language \/ old = Unset
      /\ pc \in {"language", "voice_type"} =>
           \/ msg_settings.voice_type = old.voice_type
           \/ old.voice_type = NULL /\ old.name = NULL
      /\ pc \in Translated => old.language = msg_settings.language
      /\ pc \in Voiced => old.voice_type = msg_settings.voice_type
      /\ pc \in Named => old.name = msg_settings.name
  BY DEF BeliefInv, ComparedInv
<1>3. pc \in Parameters =>
        /\ msg_settings.language # NULL /\ msg_settings.rate # NULL
        /\ NULL \in {msg_settings.voice_type, msg_settings.name}
  BY <1>1, SettingsAreWishes DEF Parameters, OnTheWay, Translated, Voiced, Named
<1>4. /\ Unset.language = NULL /\ Unset.voice_type = NULL
      /\ Unset.name = NULL /\ Unset.rate = NULL
  BY DEF Unset
<1> DEFINE Kept(p) == /\ UNCHANGED <<msg_settings, link>>
                      /\ old' \in Wishes
                      /\ \A r \in Parameters :
                           old'[r] = IF r = p THEN msg_settings[p] ELSE old[r]
<1>5. CASE SetsLanguage
  <2>1. UpdateParameter("language", "voice_type")
    BY <1>5 DEF SetsLanguage
  <2>2. pc = "language" /\ pc' = "voice_type" /\ Kept("language")
    BY <2>1, Updates DEF Parameters, BaseInv
  <2>3. /\ old'.language = msg_settings.language /\ old'.voice_type = old.voice_type
        /\ old'.name = old.name /\ old'.rate = old.rate
    BY <2>2 DEF Parameters
  <2>4. ComparedInv'
    BY <1>2, <1>3, <2>2, <2>3
    DEF ComparedInv, Parameters, Translated, Voiced, Named, Spoken
  <2>5. ASSUME link = "up"
        PROVE  \/ msg_settings.language = old.language /\ tuned' = tuned
               \/ old = Unset /\ tuned' = [Untuned EXCEPT !.language = msg_settings.language]
    BY <1>2, <1>3, <2>1, <2>2, <2>5, UpdateTunes DEF Parameters
  <2>6. TunedInv'
    BY <1>1, <1>3, <1>4, <2>2, <2>3, <2>5 DEF BeliefInv, TunedInv, Tunings, Parameters
  <2> QED
    BY <2>4, <2>6 DEF BeliefInv
<1>6. CASE UpdateParameter("voice_type", "name")
  <2>2. pc = "voice_type" /\ pc' = "name" /\ Kept("voice_type")
    BY <1>6, Updates DEF Parameters, BaseInv
  <2>3. /\ old'.language = old.language /\ old'.voice_type = msg_settings.voice_type
        /\ old'.name = old.name /\ old'.rate = old.rate
    BY <2>2 DEF Parameters
  <2>4. ComparedInv'
    BY <1>2, <1>3, <2>2, <2>3
    DEF ComparedInv, Parameters, Translated, Voiced, Named, Spoken
  <2>5. ASSUME link = "up"
        PROVE  \/ msg_settings.voice_type \in {NULL, old.voice_type} /\ tuned' = tuned
               \/ /\ msg_settings.voice_type # old.voice_type
                  /\ tuned' = [tuned EXCEPT !.speaker = msg_settings.voice_type]
    BY <1>6, <2>5, UpdateTunes DEF Parameters
  <2>6. TunedInv'
    BY <1>1, <1>2, <2>2, <2>3, <2>5 DEF BeliefInv, TunedInv, Tunings
  <2> QED
    BY <2>4, <2>6 DEF BeliefInv
<1>7. CASE UpdateParameter("name", "rate")
  <2>2. pc = "name" /\ pc' = "rate" /\ Kept("name")
    BY <1>7, Updates DEF Parameters, BaseInv
  <2>3. /\ old'.language = old.language /\ old'.voice_type = old.voice_type
        /\ old'.name = msg_settings.name /\ old'.rate = old.rate
    BY <2>2 DEF Parameters
  <2>4. ComparedInv'
    BY <1>2, <1>3, <2>2, <2>3
    DEF ComparedInv, Parameters, Translated, Voiced, Named, Spoken
  <2>5. ASSUME link = "up"
        PROVE  \/ msg_settings.name \in {NULL, old.name} /\ tuned' = tuned
               \/ /\ msg_settings.name \notin {NULL, old.name}
                  /\ tuned' = [tuned EXCEPT !.speaker = msg_settings.name]
    BY <1>7, <2>5, UpdateTunes DEF Parameters
  <2>6. TunedInv'
    BY <1>1, <1>2, <1>3, <2>2, <2>3, <2>5
    DEF BeliefInv, TunedInv, Tunings, Parameters, Voiced, Named
  <2> QED
    BY <2>4, <2>6 DEF BeliefInv
<1>8. CASE UpdateParameter("rate", "post")
  <2>2. pc = "rate" /\ pc' = "post" /\ Kept("rate")
    BY <1>8, Updates DEF Parameters, BaseInv
  <2>3. /\ old'.language = old.language /\ old'.voice_type = old.voice_type
        /\ old'.name = old.name /\ old'.rate = msg_settings.rate
    BY <2>2 DEF Parameters
  <2>4. ComparedInv'
    BY <1>2, <1>3, <2>2, <2>3
    DEF ComparedInv, Parameters, Translated, Voiced, Named, Spoken
  <2>5. ASSUME link = "up"
        PROVE  \/ msg_settings.rate \in {NULL, old.rate} /\ tuned' = tuned
               \/ tuned' = [tuned EXCEPT !.rate = msg_settings.rate]
    BY <1>8, <2>5, UpdateTunes DEF Parameters
  <2>6. TunedInv'
    BY <1>1, <1>2, <1>3, <2>2, <2>3, <2>5 DEF BeliefInv, TunedInv, Tunings, Parameters
  <2> QED
    BY <2>4, <2>6 DEF BeliefInv
<1> QED
  BY <1>5, <1>6, <1>7, <1>8

\* Every step.
LEMMA BeliefKept ==
  ASSUME ~MixedVoices, BaseInv, BeliefInv, [FestivalNext]_festival_vars
  PROVE  BeliefInv'
<1> USE DEF settings, connection, outside
<1>1. /\ Unset.language = NULL /\ Unset.voice_type = NULL
      /\ Unset.name = NULL /\ Unset.rate = NULL
  BY DEF Unset
<1>2. /\ old.language = NULL => old = Unset
      /\ NULL \in {old.voice_type, old.name}
      /\ pc \in Translated => old.language = msg_settings.language
      /\ pc \in Voiced => old.voice_type = msg_settings.voice_type
      /\ pc \in Named => old.name = msg_settings.name
      /\ pc \in Spoken => old.rate = msg_settings.rate
  BY DEF BeliefInv, ComparedInv
\* A step between two messages, or before the comparisons.
<1>3. ASSUME old' \in {old, Unset},
             pc' \in {"set", "died", "speak", "require"},
             TunedInv'
      PROVE  BeliefInv'
  BY <1>1, <1>2, <1>3 DEF BeliefInv, ComparedInv, Translated, Voiced, Named, Spoken
\* The settings are the same on both sides.
<1>4. ASSUME UNCHANGED <<old, tuned>>, link' \in {link, "cut"}
      PROVE  TunedInv'
  BY <1>4 DEF BeliefInv, TunedInv
<1>5. ASSUME old' = Unset
      PROVE  TunedInv'
  BY <1>1, <1>5 DEF TunedInv
\* A message that was compared goes on.
<1>6. ASSUME UNCHANGED <<settings, tuned, link>>, pc \in Spoken, pc' \in Spoken
      PROVE  BeliefInv'
  BY <1>2, <1>4, <1>6 DEF BeliefInv, ComparedInv, Translated, Voiced, Named, Spoken
<1>7. CASE do_set
  <2>1. pc' = "speak" /\ UNCHANGED <<old, tuned, link>>
    BY <1>7 DEF do_set, Continues
  <2> QED
    BY <1>3, <1>4, <2>1
<1>8. CASE festivalOpen \/ Restarts
  <2>1. old' = Unset /\ pc' \in {"set", "require"}
    BY <1>8 DEF festivalOpen, Restarts, clean_old_settings_table, Continues, NotHeard
  <2> QED
    BY <1>3, <1>5, <2>1
<1>9. CASE OpensUp \/ GetsVoices
  <2>1. pc' \in {"set", "died", "speak"} /\ UNCHANGED <<old, tuned, link>>
    BY <1>9 DEF OpensUp, GetsVoices, Continues, NotHeard
  <2> QED
    BY <1>3, <1>4, <2>1
<1>10. CASE ComparesVoices
  <2>1. /\ pc' = "language" /\ UNCHANGED <<msg_settings, tuned, link>>
        /\ \/ old' = Unset
           \/ /\ old' = old
              /\ msg_settings.voice_type = old.voice_type
              /\ old.language = NULL \/ msg_settings.language = old.language
    BY <1>10 DEF ComparesVoices, Continues, clean_old_settings_table
  <2>2. TunedInv'
    BY <1>4, <1>5, <2>1
  <2> QED
    BY <1>1, <1>2, <2>1, <2>2
    DEF BeliefInv, ComparedInv, Translated, Voiced, Named, Spoken
<1>11. CASE \/ SetsLanguage \/ UpdateParameter("voice_type", "name")
            \/ UpdateParameter("name", "rate") \/ UpdateParameter("rate", "post")
  BY <1>11, UpdatesBelieve
<1>12. CASE Posts \/ PlaysCached \/ Requests \/ GetsWave
  <2>1. /\ pc \in Spoken /\ pc' \in Spoken \cup {"set"}
        /\ UNCHANGED <<settings, tuned, link>>
    BY <1>12 DEF Posts, PlaysCached, Requests, GetsWave, Continues, NotHeard, Spoken
  <2> QED
    BY <1>3, <1>4, <1>6, <2>1
<1>13. CASE Breaks \/ ComesBack \/ UNCHANGED festival_vars
  <2>1. UNCHANGED <<settings, tuned, pc>> /\ link' \in {link, "cut"}
    BY <1>13 DEF Breaks, ComesBack, ModuleUnchanged, festival_vars
  <2>2. TunedInv'
    BY <1>4, <2>1
  <2> QED
    BY <2>1, <2>2 DEF BeliefInv, ComparedInv
<1> QED
  BY <1>7, <1>8, <1>9, <1>10, <1>11, <1>12, <1>13 DEF FestivalNext

-----------------------------------------------------------------------------
(***************************************************************************)
(* The cache, and what is heard.                                           *)
(***************************************************************************)

\* An entry was made from its text, with what its table is told apart by.
CacheInv ==
  \A e \in caches :
    /\ e.wave.text = e.text
    /\ e.wave.made.language = e.table.language
    /\ "rate" \in distinguish => e.wave.made.rate = e.table.others["rate"]
    /\ "voice_type" \in distinguish /\ e.table.others["voice_type"] # NULL
         => e.wave.made.speaker = e.table.others["voice_type"]

\* What was heard stays known until the next message is set.
HeardInv == heard # NULL => pc = "set" /\ HeardAsAsked

\* At most the new entry comes to the cache.
LEMMA InsertAddsOne ==
  ASSUME NEW wave, cache_insert(wave)
  PROVE  caches' \subseteq caches \cup {[table |-> cache_gen_key,
                                         text |-> message.text, wave |-> wave]}
<1> QED
  BY DEF cache_insert

\* Festival makes a wave with the settings of the message.
LEMMA MadeAsAsked ==
  ASSUME BaseInv, BeliefInv, pc \in Spoken, link = "up"
  PROVE  /\ tuned.language = msg_settings.language
         /\ tuned.rate = msg_settings.rate
         /\ SpeaksAs(tuned, msg_settings)
         /\ msg_settings.voice_type # NULL => tuned.speaker = msg_settings.voice_type
<1>1. msg_settings.language # NULL /\ msg_settings.rate # NULL
  BY SettingsAreWishes DEF BaseInv, TypeInv, OnTheWay, Translated, Voiced, Named
<1>2. /\ old.language = msg_settings.language /\ old.voice_type = msg_settings.voice_type
      /\ old.name = msg_settings.name /\ old.rate = msg_settings.rate
      /\ NULL \in {old.voice_type, old.name}
  BY DEF BeliefInv, ComparedInv, Translated, Voiced, Named
<1> QED
  BY <1>1, <1>2 DEF BeliefInv, TunedInv, SpeaksAs

\* Every step keeps the entries, or adds one made as it was asked for.
LEMMA CacheKept ==
  ASSUME BaseInv, BeliefInv, CacheInv, [FestivalNext]_festival_vars
  PROVE  CacheInv'
<1> USE DEF settings, connection, cache, outside
<1>1. ASSUME caches' \subseteq caches, UNCHANGED distinguish
      PROVE  CacheInv'
  BY <1>1 DEF CacheInv
<1>2. CASE GetsWave
  <2>1. UNCHANGED distinguish
    BY <1>2 DEF GetsWave
  <2> DEFINE wave == [text |-> message.text, made |-> tuned]
  <2>2. CASE ~Broken /\ cache_insert(wave)
    <3>1. /\ tuned.language = msg_settings.language
          /\ tuned.rate = msg_settings.rate
          /\ msg_settings.voice_type # NULL => tuned.speaker = msg_settings.voice_type
      <4>1. pc \in Spoken /\ link = "up"
        BY <1>2, <2>2 DEF GetsWave, Broken, Spoken, BaseInv, TypeInv
      <4> QED
        BY <4>1, MadeAsAsked
    <3> DEFINE new == [table |-> cache_gen_key, text |-> message.text, wave |-> wave]
    <3>2. caches' \subseteq caches \cup {new}
      BY <2>2, InsertAddsOne
    <3>3. /\ new.wave.text = new.text
          /\ new.wave.made.language = new.table.language
          /\ "rate" \in distinguish => new.wave.made.rate = new.table.others["rate"]
          /\ "voice_type" \in distinguish /\ new.table.others["voice_type"] # NULL
               => new.wave.made.speaker = new.table.others["voice_type"]
      BY <3>1 DEF cache_gen_key
    <3> HIDE DEF new
    <3> QED
      BY <2>1, <3>2, <3>3 DEF CacheInv
  <2>3. CASE UNCHANGED caches
    BY <1>1, <2>1, <2>3
  <2> QED
    BY <1>2, <2>2, <2>3 DEF GetsWave
<1>3. CASE Restarts
  BY <1>1, <1>3 DEF Restarts
<1>4. CASE \/ SetsLanguage \/ UpdateParameter("voice_type", "name")
           \/ UpdateParameter("name", "rate") \/ UpdateParameter("rate", "post")
  BY <1>1, <1>4 DEF SetsLanguage, UpdateParameter
<1>5. CASE \/ do_set \/ festivalOpen \/ OpensUp \/ ComparesVoices \/ GetsVoices
           \/ Posts \/ PlaysCached \/ Requests
  BY <1>1, <1>5
  DEF do_set, festivalOpen, OpensUp, ComparesVoices, GetsVoices, Posts, PlaysCached,
      Requests
<1>6. CASE Breaks \/ ComesBack \/ UNCHANGED festival_vars
  BY <1>1, <1>6 DEF Breaks, ComesBack, ModuleUnchanged, festival_vars
<1> QED
  BY <1>2, <1>3, <1>4, <1>5, <1>6 DEF FestivalNext

\* What is heard was asked for, at every step.
LEMMA HeardKept ==
  ASSUME BaseInv, BeliefInv, CacheInv, HeardInv, [FestivalNext]_festival_vars
  PROVE  HeardInv'
<1> USE DEF settings, connection, cache, outside
<1>1. ASSUME heard' = NULL
      PROVE  HeardInv'
  BY <1>1 DEF HeardInv
<1>2. ASSUME pc # "set", UNCHANGED heard
      PROVE  HeardInv'
  BY <1>1, <1>2 DEF HeardInv
<1>3. CASE do_set \/ Restarts
  BY <1>1, <1>3 DEF do_set, Restarts
<1>4. CASE \/ SetsLanguage \/ UpdateParameter("voice_type", "name")
           \/ UpdateParameter("name", "rate") \/ UpdateParameter("rate", "post")
  BY <1>2, <1>4 DEF SetsLanguage, UpdateParameter
<1>5. CASE \/ festivalOpen \/ OpensUp \/ ComparesVoices \/ GetsVoices \/ Posts
           \/ Requests
  BY <1>2, <1>5 DEF festivalOpen, OpensUp, ComparesVoices, GetsVoices, Posts, Requests
<1>6. CASE PlaysCached
  <2>1. PICK e \in cache_lookup : heard' = [wave |-> e.wave, cached |-> TRUE]
    BY <1>6 DEF PlaysCached, Hears
  <2>2. e \in caches /\ e.table = cache_gen_key /\ e.text = message.text
    BY <2>1 DEF cache_lookup
  <2>3. /\ e.wave.text = message.text
        /\ e.wave.made.language = msg_settings.language
        /\ "rate" \in distinguish => e.wave.made.rate = msg_settings.rate
        /\ "voice_type" \in distinguish /\ msg_settings.voice_type # NULL
             => e.wave.made.speaker = msg_settings.voice_type
    BY <2>2 DEF CacheInv, cache_gen_key
  <2>4. pc' = "set" /\ UNCHANGED <<message, msg_settings, distinguish>>
    BY <1>6 DEF PlaysCached, Continues
  <2>5. heard'.wave = e.wave /\ heard'.cached = TRUE
    BY <2>1
  <2> QED
    BY <2>3, <2>4, <2>5 DEF HeardInv, HeardAsAsked, SpeaksAs
<1>7. CASE GetsWave
  <2>1. CASE Broken
    BY <1>2, <1>7, <2>1 DEF GetsWave
  <2>2. CASE ~Broken
    <3>1. /\ pc' = "set" /\ UNCHANGED <<message, msg_settings, distinguish>>
          /\ heard' = [wave |-> [text |-> message.text, made |-> tuned],
                       cached |-> FALSE]
      BY <1>7, <2>2 DEF GetsWave, Continues, Hears
    <3>2. pc \in Spoken /\ link = "up"
      BY <1>7, <2>2 DEF GetsWave, Broken, Spoken, BaseInv, TypeInv
    <3>3. /\ tuned.language = msg_settings.language
          /\ tuned.rate = msg_settings.rate
          /\ SpeaksAs(tuned, msg_settings)
      BY <3>2, MadeAsAsked
    <3>4. /\ heard'.wave.text = message.text /\ heard'.wave.made = tuned
          /\ heard'.cached = FALSE
      BY <3>1
    <3> QED
      BY <3>1, <3>3, <3>4 DEF HeardInv, HeardAsAsked, SpeaksAs
  <2> QED
    BY <2>1, <2>2
<1>8. CASE Breaks \/ ComesBack \/ UNCHANGED festival_vars
  BY <1>8 DEF Breaks, ComesBack, ModuleUnchanged, festival_vars, HeardInv, HeardAsAsked
<1> QED
  BY <1>3, <1>4, <1>5, <1>6, <1>7, <1>8 DEF FestivalNext

\* If no configuration asks for two voices at once, what is heard was made from
\* the text of the message with its settings, as far as the cache tells them
\* apart, although only what changed is ever sent to festival.
THEOREM HeardWhatWasAsked ==
  ASSUME ~MixedVoices
  PROVE  FestivalSpec => []HeardAsAsked
<1>1. FestivalInit => BeliefInv /\ CacheInv /\ HeardInv
  BY DEF FestivalInit, BeliefInv, TunedInv, ComparedInv, CacheInv, HeardInv, Unset,
         Translated, Voiced, Named, Spoken
<1>2. BaseInv /\ BeliefInv /\ [FestivalNext]_festival_vars => BeliefInv'
  BY BeliefKept
<1>3. BaseInv /\ BeliefInv /\ CacheInv /\ [FestivalNext]_festival_vars => CacheInv'
  BY CacheKept
<1>4. BaseInv /\ BeliefInv /\ CacheInv /\ HeardInv /\ [FestivalNext]_festival_vars => HeardInv'
  BY HeardKept
<1>5. HeardInv => HeardAsAsked
  BY DEF HeardInv, HeardAsAsked
<1> QED
  BY <1>1, <1>2, <1>3, <1>4, <1>5, FestivalInvariant, PTL DEF FestivalSpec

-----------------------------------------------------------------------------
(***************************************************************************)
(* TotalSize of the festival module: a sum, in whatever order it is taken. *)
(***************************************************************************)

\* Among the numbers with a property there is a least one.
LEMMA LeastNumber ==
  ASSUME NEW I, I \subseteq Nat, I # {}
  PROVE  \E n \in I : \A m \in I : n <= m
<1> DEFINE R == {ss \in Nat \X Nat : ss[1] < ss[2]}
<1>1. IsWellFoundedOn(R, Nat)
  BY NatLessThanWellFounded, Zenon DEF OpToRel
<1> HIDE DEF R
<1>2. PICK n \in I : \A m \in I : ~(<<m, n>> \in R)
  BY <1>1, WFMin
<1>3. \A m \in I : ~(m < n)
  BY <1>2 DEF R
<1> QED
  BY <1>3

\* What TotalSize adds up: an element that is chosen, and the rest.
Chosen(s) == CHOOSE x \in s : TRUE
Adds(f, s) == f[s] = IF s = {} THEN 0 ELSE Chosen(s).size + f[s \ {Chosen(s)}]
Sums(f, S) == f = [s \in SUBSET S |-> IF s = {} THEN 0
                     ELSE Chosen(s).size + f[s \ {Chosen(s)}]]

LEMMA TotalSizeIsASum ==
  ASSUME NEW S PROVE TotalSize(S) = (CHOOSE f : Sums(f, S))[S]
BY DEF TotalSize, MapThenSumSet, MapThenFoldSet, Sums, Chosen

IsSized(S) == IsFiniteSet(S) /\ \A e \in S : e.size \in Nat

LEMMA ChosenFacts ==
  ASSUME NEW S, IsSized(S), S # {}
  PROVE  /\ Chosen(S) \in S /\ Chosen(S).size \in Nat
         /\ S \ {Chosen(S)} \in SUBSET S
         /\ Cardinality(S) \in Nat /\ Cardinality(S) > 0
         /\ Cardinality(S \ {Chosen(S)}) = Cardinality(S) - 1
         /\ S = (S \ {Chosen(S)}) \cup {Chosen(S)}
<1>1. Chosen(S) \in S
  BY DEF Chosen
<1>2. IsFiniteSet(S) /\ \A e \in S : e.size \in Nat
  BY DEF IsSized
<1>3. Cardinality(S) \in Nat
  BY <1>2, FS_CardinalityType
<1>4. Cardinality(S) # 0
  BY <1>2, FS_EmptySet
<1>5. Cardinality(S \ {Chosen(S)}) = Cardinality(S) - 1
  BY <1>1, <1>2, FS_RemoveElement
<1> QED
  BY <1>1, <1>2, <1>3, <1>4, <1>5

LEMMA SizedSubsets ==
  ASSUME NEW S, IsSized(S), NEW T \in SUBSET S
  PROVE  IsSized(T) /\ Cardinality(T) \in Nat /\ Cardinality(T) <= Cardinality(S)
BY FS_Subset, FS_CardinalityType DEF IsSized

\* For sets of up to n elements, and so for all of them, there is such a sum.
LEMMA SumsUpTo ==
  ASSUME NEW S, IsSized(S), NEW n \in Nat
  PROVE  \E f \in [SUBSET S -> Nat] :
            \A s \in SUBSET S : Cardinality(s) <= n => Adds(f, s)
<1> DEFINE Exists(k) == \E f \in [SUBSET S -> Nat] :
                          \A s \in SUBSET S : Cardinality(s) <= k => Adds(f, s)
           Bad == {k \in Nat : ~Exists(k)}
<1>0. \A s \in SUBSET S : IsSized(s) /\ Cardinality(s) \in Nat
  BY SizedSubsets
<1>1. SUFFICES ASSUME Bad # {} PROVE FALSE
  OBVIOUS
<1>2. PICK k \in Bad : \A m \in Bad : k <= m
  <2>1. Bad \subseteq Nat
    OBVIOUS
  <2> HIDE DEF Bad
  <2> QED
    BY <1>1, <2>1, LeastNumber
<1>3. k \in Nat /\ ~Exists(k)
  BY <1>2
<1>4. CASE k = 0
  <2> DEFINE f == [s \in SUBSET S |-> 0]
  <2>1. f \in [SUBSET S -> Nat]
    OBVIOUS
  <2>2. ASSUME NEW s \in SUBSET S, Cardinality(s) <= 0 PROVE Adds(f, s)
    <3>1. s = {}
      <4>1. IsSized(s) /\ ~(Cardinality(s) > 0)
        BY <1>0, <2>2
      <4> QED
        BY <4>1, ChosenFacts
    <3> QED
      BY <3>1 DEF Adds
  <2>3. Exists(0)
    BY <2>1, <2>2
  <2> QED
    BY <1>3, <1>4, <2>3
<1>5. CASE k > 0
  <2>1. k - 1 \in Nat /\ Exists(k - 1)
    <3>1. k - 1 \in Nat /\ ~(k <= k - 1)
      BY <1>3, <1>5
    <3>2. k - 1 \notin Bad
      BY <1>2, <3>1
    <3> QED
      BY <3>1, <3>2
  <2>2. PICK f \in [SUBSET S -> Nat] :
           \A s \in SUBSET S : Cardinality(s) <= k - 1 => Adds(f, s)
    BY <2>1
  <2> DEFINE g == [s \in SUBSET S |-> IF Cardinality(s) <= k - 1 THEN f[s]
                      ELSE Chosen(s).size + f[s \ {Chosen(s)}]]
  <2>3. \A s \in SUBSET S : Cardinality(s) <= k - 1 => g[s] = f[s]
    OBVIOUS
  <2>4. ASSUME NEW s \in SUBSET S, ~(Cardinality(s) <= k - 1)
        PROVE  /\ s # {} /\ s \ {Chosen(s)} \in SUBSET S
               /\ g[s] = Chosen(s).size + f[s \ {Chosen(s)}]
               /\ g[s] \in Nat
               /\ Cardinality(s) \in Nat
               /\ Cardinality(s \ {Chosen(s)}) = Cardinality(s) - 1
    <3>1. s # {}
      BY <2>1, <2>4, FS_EmptySet
    <3>2. /\ Chosen(s).size \in Nat /\ s \ {Chosen(s)} \in SUBSET S
          /\ Cardinality(s) \in Nat
          /\ Cardinality(s \ {Chosen(s)}) = Cardinality(s) - 1
      BY <1>0, <3>1, ChosenFacts
    <3>3. f[s \ {Chosen(s)}] \in Nat
      BY <3>2
    <3>4. g[s] = Chosen(s).size + f[s \ {Chosen(s)}]
      BY <2>4
    <3> HIDE DEF g
    <3> QED
      BY <3>1, <3>2, <3>3, <3>4
  <2>5. g \in [SUBSET S -> Nat]
    <3>1. \A s \in SUBSET S : g[s] \in Nat
      BY <2>3, <2>4
    <3> QED
      BY <3>1
  <2> HIDE DEF g
  <2>6. ASSUME NEW s \in SUBSET S, Cardinality(s) <= k PROVE Adds(g, s)
    <3>1. CASE Cardinality(s) <= k - 1
      <4>1. CASE s = {}
        BY <2>2, <2>3, <3>1, <4>1 DEF Adds
      <4>2. CASE s # {}
        <5>1. /\ s \ {Chosen(s)} \in SUBSET S /\ Cardinality(s) \in Nat
              /\ Cardinality(s \ {Chosen(s)}) = Cardinality(s) - 1
          BY <1>0, <4>2, ChosenFacts
        <5>2. Cardinality(s \ {Chosen(s)}) <= k - 1
          BY <1>3, <3>1, <5>1
        <5>3. Adds(f, s)
          BY <2>2, <3>1
        <5> QED
          BY <2>3, <3>1, <4>2, <5>1, <5>2, <5>3 DEF Adds
      <4> QED
        BY <4>1, <4>2
    <3>2. CASE ~(Cardinality(s) <= k - 1)
      <4>1. /\ s # {} /\ s \ {Chosen(s)} \in SUBSET S
            /\ g[s] = Chosen(s).size + f[s \ {Chosen(s)}]
            /\ Cardinality(s) \in Nat
            /\ Cardinality(s \ {Chosen(s)}) = Cardinality(s) - 1
        BY <2>4, <3>2
      <4>2. Cardinality(s \ {Chosen(s)}) <= k - 1
        BY <1>3, <2>6, <4>1
      <4>3. g[s \ {Chosen(s)}] = f[s \ {Chosen(s)}]
        BY <2>3, <4>1, <4>2
      <4> QED
        BY <4>1, <4>3 DEF Adds
    <3> QED
      BY <3>1, <3>2
  <2>7. Exists(k)
    BY <2>5, <2>6
  <2> QED
    BY <1>3, <2>7
<1> QED
  BY <1>3, <1>4, <1>5

\* The sum that TotalSize takes is one.
LEMMA TheSum ==
  ASSUME NEW S, IsSized(S)
  PROVE  \E f : /\ TotalSize(S) = f[S]
                /\ \A s \in SUBSET S : Adds(f, s)
<1>1. \A s \in SUBSET S : Cardinality(s) <= Cardinality(S)
  BY SizedSubsets
<1>2. Cardinality(S) \in Nat
  BY FS_CardinalityType DEF IsSized
<1>3. PICK g \in [SUBSET S -> Nat] : \A s \in SUBSET S : Adds(g, s)
  BY <1>1, <1>2, SumsUpTo
<1>4. Sums(g, S)
  <2> DEFINE h == [s \in SUBSET S |-> IF s = {} THEN 0
                     ELSE Chosen(s).size + g[s \ {Chosen(s)}]]
  <2>1. \A s \in SUBSET S : g[s] = h[s]
    BY <1>3 DEF Adds
  <2>2. g = h
    BY <2>1
  <2> QED
    BY <2>2 DEF Sums
<1> DEFINE f == CHOOSE f : Sums(f, S)
<1>5. Sums(f, S)
  BY <1>4
<1>6. TotalSize(S) = f[S]
  BY TotalSizeIsASum
<1> HIDE DEF f
<1>7. ASSUME NEW s \in SUBSET S PROVE Adds(f, s)
  BY <1>5 DEF Sums, Adds
<1> QED
  BY <1>6, <1>7

\* Two such sums agree on what both are of.
LEMMA SumsAgree ==
  ASSUME NEW S, IsSized(S), NEW f, NEW g,
         \A s \in SUBSET S : Adds(f, s), \A s \in SUBSET S : Adds(g, s)
  PROVE  \A s \in SUBSET S : f[s] = g[s]
<1> DEFINE Bad == {k \in Nat : \E s \in SUBSET S : Cardinality(s) = k /\ f[s] # g[s]}
<1>1. SUFFICES ASSUME NEW t \in SUBSET S, f[t] # g[t] PROVE FALSE
  OBVIOUS
<1>2. Cardinality(t) \in Bad
  BY <1>1, SizedSubsets
<1>3. PICK k \in Bad : \A m \in Bad : k <= m
  <2>1. Bad \subseteq Nat /\ Bad # {}
    BY <1>2
  <2> HIDE DEF Bad
  <2> QED
    BY <2>1, LeastNumber
<1>4. PICK s \in SUBSET S : Cardinality(s) = k /\ f[s] # g[s]
  BY <1>3
<1>5. s # {}
  BY <1>4 DEF Adds
<1> DEFINE r == s \ {Chosen(s)}
<1>6. r \in SUBSET S /\ Cardinality(r) = k - 1 /\ k \in Nat /\ k - 1 \in Nat
  <2>1. IsSized(s)
    BY SizedSubsets
  <2> QED
    BY <1>4, <1>5, <2>1, ChosenFacts
<1>7. f[s] = Chosen(s).size + f[r] /\ g[s] = Chosen(s).size + g[r]
  BY <1>5 DEF Adds
<1> HIDE DEF r
<1>8. f[r] # g[r]
  BY <1>4, <1>7
<1>9. k - 1 \in Bad
  BY <1>6, <1>8
<1>10. k <= k - 1
  BY <1>3, <1>9
<1> QED
  BY <1>6, <1>10

\* TotalSize takes one element after the other, the chosen one first.
LEMMA TotalSizeSteps ==
  ASSUME NEW S, IsSized(S)
  PROVE  /\ S = {} => TotalSize(S) = 0
         /\ S # {} => TotalSize(S) = Chosen(S).size + TotalSize(S \ {Chosen(S)})
<1>1. PICK f : TotalSize(S) = f[S] /\ \A s \in SUBSET S : Adds(f, s)
  BY TheSum
<1>2. Adds(f, S)
  BY <1>1
<1>3. CASE S = {}
  BY <1>1, <1>2, <1>3 DEF Adds
<1>4. CASE S # {}
  <2> DEFINE r == S \ {Chosen(S)}
  <2>1. r \in SUBSET S /\ TotalSize(S) = Chosen(S).size + f[r]
    BY <1>1, <1>2, <1>4 DEF Adds
  <2> HIDE DEF r
  <2>2. IsSized(r)
    BY <2>1, SizedSubsets
  <2>3. PICK g : TotalSize(r) = g[r] /\ \A s \in SUBSET r : Adds(g, s)
    BY <2>2, TheSum
  <2>4. \A s \in SUBSET r : Adds(f, s)
    BY <1>1, <2>1
  <2>5. f[r] = g[r]
    BY <2>2, <2>3, <2>4, SumsAgree
  <2>6. TotalSize(S) = Chosen(S).size + TotalSize(r)
    BY <2>1, <2>3, <2>5
  <2> QED
    BY <1>4, <2>6 DEF r
<1> QED
  BY <1>3, <1>4

LEMMA TotalSizeType ==
  ASSUME NEW S, IsSized(S) PROVE TotalSize(S) \in Nat
<1> DEFINE Bad == {k \in Nat : \E s \in SUBSET S :
                                  Cardinality(s) = k /\ TotalSize(s) \notin Nat}
<1>1. SUFFICES ASSUME TotalSize(S) \notin Nat PROVE FALSE
  OBVIOUS
<1>2. Cardinality(S) \in Bad
  <2>1. S \in SUBSET S
    OBVIOUS
  <2> QED
    BY <1>1, <2>1, SizedSubsets
<1>3. PICK k \in Bad : \A m \in Bad : k <= m
  <2>1. Bad \subseteq Nat /\ Bad # {}
    BY <1>2
  <2> HIDE DEF Bad
  <2> QED
    BY <2>1, LeastNumber
<1>4. PICK s \in SUBSET S : Cardinality(s) = k /\ TotalSize(s) \notin Nat
  BY <1>3
<1>5. IsSized(s) /\ s # {}
  <2>1. IsSized(s)
    BY SizedSubsets
  <2>2. s = {} => TotalSize(s) = 0
    BY <2>1, TotalSizeSteps
  <2>3. 0 \in Nat
    OBVIOUS
  <2> HIDE DEF Bad
  <2> QED
    BY <1>4, <2>1, <2>2, <2>3, Zenon
<1> DEFINE r == s \ {Chosen(s)}
<1>6. /\ Chosen(s).size \in Nat /\ r \in SUBSET S
      /\ Cardinality(r) = k - 1 /\ k - 1 \in Nat /\ ~(k <= k - 1)
      /\ TotalSize(s) = Chosen(s).size + TotalSize(r)
  <2>1. k \in Nat /\ k - 1 = Cardinality(s) - 1
    BY <1>3, <1>4
  <2>2. /\ Chosen(s).size \in Nat /\ r \in SUBSET s /\ Cardinality(s) > 0
        /\ Cardinality(r) = Cardinality(s) - 1
        /\ TotalSize(s) = Chosen(s).size + TotalSize(r)
    BY <1>5, ChosenFacts, TotalSizeSteps
  <2> HIDE DEF r
  <2> QED
    BY <1>4, <2>1, <2>2
<1> HIDE DEF r
<1>7. k - 1 \notin Bad
  BY <1>3, <1>6
<1>8. TotalSize(r) \in Nat
  BY <1>6, <1>7
<1> QED
  BY <1>4, <1>6, <1>8

\* One more element, in whatever order they are taken.
LEMMA TotalSizeAdds ==
  ASSUME NEW S, IsSized(S), NEW x \in S
  PROVE  TotalSize(S) = x.size + TotalSize(S \ {x}) /\ TotalSize(S) \in Nat
<1> DEFINE Fine(s) == /\ TotalSize(s) \in Nat
                      /\ \A e \in s : TotalSize(s) = e.size + TotalSize(s \ {e})
           Bad == {k \in Nat : \E s \in SUBSET S : Cardinality(s) = k /\ ~Fine(s)}
<1>1. SUFFICES ASSUME ~Fine(S) PROVE FALSE
  OBVIOUS
<1>2. Cardinality(S) \in Bad
  <2>1. S \in SUBSET S
    OBVIOUS
  <2> HIDE DEF Fine
  <2> QED
    BY <1>1, <2>1, SizedSubsets
<1>3. PICK k \in Bad : \A m \in Bad : k <= m
  <2>1. Bad \subseteq Nat /\ Bad # {}
    BY <1>2
  <2> HIDE DEF Bad
  <2> QED
    BY <2>1, LeastNumber
<1>4. PICK s \in SUBSET S : Cardinality(s) = k /\ ~Fine(s)
  BY <1>3
<1>5. IsSized(s) /\ k \in Nat
  BY <1>3, SizedSubsets
<1>6. \A t \in SUBSET S : Cardinality(t) = k - 1 /\ k > 0 => Fine(t)
  <2> SUFFICES ASSUME NEW t \in SUBSET S, Cardinality(t) = k - 1, k > 0 PROVE Fine(t)
    OBVIOUS
  <2>1. k - 1 \in Nat /\ ~(k <= k - 1)
    BY <1>5
  <2>2. k - 1 \notin Bad
    BY <1>3, <2>1
  <2> HIDE DEF Fine
  <2> QED
    BY <2>1, <2>2
<1>7. s # {}
  BY <1>4, <1>5, TotalSizeSteps
<1> DEFINE p == Chosen(s)
           r == s \ {p}
<1>8. /\ p \in s /\ p.size \in Nat /\ r \in SUBSET S
      /\ Cardinality(r) = k - 1 /\ k > 0
      /\ TotalSize(s) = p.size + TotalSize(r)
  BY <1>4, <1>5, <1>7, ChosenFacts, TotalSizeSteps
<1>9. TotalSize(r) \in Nat /\ \A e \in r : TotalSize(r) = e.size + TotalSize(r \ {e})
  <2> HIDE DEF r
  <2> QED
    BY <1>6, <1>8
<1>10. ASSUME NEW e \in s, e # p
       PROVE  TotalSize(s) = e.size + TotalSize(s \ {e})
  <2> DEFINE q == s \ {e}
  <2>1. q \in SUBSET S /\ p \in q /\ q \ {p} = r \ {e} /\ e \in r
    BY <1>8, <1>10
  <2>2. Cardinality(q) = k - 1 /\ e.size \in Nat
    BY <1>4, <1>5, FS_RemoveElement DEF IsSized
  <2>3. TotalSize(q) \in Nat /\ TotalSize(q) = p.size + TotalSize(q \ {p})
    <3> HIDE DEF q, p
    <3> QED
      BY <1>6, <1>8, <2>1, <2>2
  <2>4. TotalSize(r) = e.size + TotalSize(q \ {p})
    BY <1>9, <2>1
  <2>5. TotalSize(q \ {p}) \in Nat
    <3>1. IsSized(q \ {p})
      <4>1. q \ {p} \in SUBSET S
        BY <2>1
      <4> HIDE DEF q, p
      <4> QED
        BY <4>1, SizedSubsets
    <3> QED
      BY <3>1, TotalSizeType
  <2> HIDE DEF q, p, r
  <2>6. TotalSize(s) = e.size + TotalSize(q)
    BY <1>8, <2>2, <2>3, <2>4, <2>5
  <2> QED
    BY <2>6 DEF q
<1>11. TotalSize(s) \in Nat
  BY <1>8, <1>9
<1> QED
  BY <1>4, <1>8, <1>10, <1>11

\* What is removed is taken off.
LEMMA TotalSizeWithout ==
  ASSUME NEW S, IsSized(S), NEW G \in SUBSET S
  PROVE  TotalSize(S \ G) = TotalSize(S) - TotalSize(G)
<1> DEFINE Fine(g) == TotalSize(S \ g) = TotalSize(S) - TotalSize(g)
           Bad == {k \in Nat : \E g \in SUBSET S : Cardinality(g) = k /\ ~Fine(g)}
<1>1. SUFFICES ASSUME ~Fine(G) PROVE FALSE
  OBVIOUS
<1>2. Cardinality(G) \in Bad
  <2> HIDE DEF Fine
  <2> QED
    BY <1>1, SizedSubsets
<1>3. PICK k \in Bad : \A m \in Bad : k <= m
  <2>1. Bad \subseteq Nat /\ Bad # {}
    BY <1>2
  <2> HIDE DEF Bad
  <2> QED
    BY <2>1, LeastNumber
<1>4. PICK g \in SUBSET S : Cardinality(g) = k /\ ~Fine(g)
  BY <1>3
<1>5. IsSized(g)
  BY SizedSubsets
<1>6. g # {}
  <2>1. ASSUME g = {} PROVE Fine(g)
    <3>1. S \ g = S /\ TotalSize(g) = 0 /\ TotalSize(S) \in Nat
      BY <1>5, <2>1, TotalSizeSteps, TotalSizeType
    <3>2. TotalSize(S) - 0 = TotalSize(S)
      BY <3>1
    <3> QED
      BY <3>1, <3>2, Zenon
  <2> QED
    BY <1>4, <2>1
<1> DEFINE x == Chosen(g)
           h == g \ {x}
<1>7. /\ x \in g /\ x \in S /\ x.size \in Nat /\ h \in SUBSET S
      /\ Cardinality(h) = k - 1 /\ k - 1 \in Nat /\ ~(k <= k - 1)
      /\ TotalSize(g) = x.size + TotalSize(h)
  BY <1>3, <1>4, <1>5, <1>6, ChosenFacts, TotalSizeSteps
<1>8. (S \ h) \ {x} = S \ g /\ x \in S \ h
  BY <1>7
<1> HIDE DEF h, x
<1>9. Fine(h)
  <2>1. k - 1 \notin Bad
    BY <1>3, <1>7
  <2> HIDE DEF Fine
  <2> QED
    BY <1>7, <2>1
<1>10. IsSized(S \ h) /\ IsSized(S \ g)
  <2>1. S \ h \in SUBSET S /\ S \ g \in SUBSET S
    OBVIOUS
  <2> QED
    BY <2>1, SizedSubsets
<1>11. TotalSize(S \ h) = x.size + TotalSize(S \ g)
  BY <1>8, <1>10, TotalSizeAdds
<1>12. /\ TotalSize(S \ g) \in Nat /\ TotalSize(S) \in Nat
       /\ TotalSize(h) \in Nat
  BY <1>7, <1>10, SizedSubsets, TotalSizeType
<1>13. Fine(g)
  <2>1. TotalSize(S \ h) = TotalSize(S) - TotalSize(h)
    BY <1>9
  <2> QED
    BY <1>7, <1>11, <1>12, <2>1
<1> QED
  BY <1>4, <1>13

-----------------------------------------------------------------------------
(***************************************************************************)
(* The books of the cache.                                                 *)
(***************************************************************************)

\* No two entries of a set have the same place.
Apart(S) == \A d, e \in S : d.table = e.table /\ d.text = e.text => d = e

\* The books of the cache, and what is inserted next is not there yet.
BooksInv ==
  /\ pc \in OnTheWay /\ message.event => message.text \in Events
  /\ pc = "fetch" /\ message.event => cache_lookup = {}
  /\ IsSized(counter) /\ IsFiniteSet(caches)
  /\ Apart(caches) /\ Apart(counter)
  /\ Places(caches) = Places(counter)
  /\ size = TotalSize(counter)
  /\ size <= FestivalCacheMaxKBytes \/ Cardinality(counter) = 1

\* As many entries as places.
LEMMA OnePlaceEach ==
  ASSUME NEW S, IsFiniteSet(S), Apart(S)
  PROVE  IsFiniteSet(Places(S)) /\ Cardinality(Places(S)) = Cardinality(S)
<1> DEFINE f == [e \in S |-> <<e.table, e.text>>]
<1>1. \A e \in S : f[e] \in Places(S)
  BY DEF Places
<1>2. \A d, e \in S : f[d] = f[e] => d = e
  BY DEF Apart
<1>3. \A p \in Places(S) : \E e \in S : f[e] = p
  BY DEF Places
<1>4. f \in Bijection(S, Places(S))
  <2>1. f \in [S -> Places(S)]
    BY <1>1
  <2> HIDE DEF f
  <2> QED
    BY <1>2, <1>3, <2>1 DEF Bijection, Injection, Surjection, IsInjective
<1>5. ExistsBijection(S, Places(S))
  BY <1>4 DEF ExistsBijection
<1> QED
  BY <1>5, FS_Bijection

\* From the tables A and the list B the entries G go, a comes to the tables and
\* b to the list: X and Y are what they are then.
Exchanges(A, B, G, a, b, X, Y) ==
  /\ Apart(A) /\ Apart(B) /\ Places(A) = Places(B)
  /\ G \subseteq B
  /\ X = {e \in A : <<e.table, e.text>> \notin Places(G)} \cup {a}
  /\ Y = (B \ G) \cup {b}
  /\ a.table = b.table /\ a.text = b.text
  /\ <<b.table, b.text>> \notin Places(B)

LEMMA ExchangesKeepPlaces ==
  ASSUME NEW A, NEW B, NEW G, NEW a, NEW b, NEW X, NEW Y,
         Exchanges(A, B, G, a, b, X, Y)
  PROVE  Apart(X) /\ Apart(Y) /\ Places(X) = Places(Y)
<1> DEFINE K == {e \in A : <<e.table, e.text>> \notin Places(G)}
<1>0. /\ Apart(A) /\ Apart(B) /\ Places(A) = Places(B)
      /\ G \subseteq B
      /\ X = K \cup {a}
      /\ Y = (B \ G) \cup {b}
      /\ a.table = b.table /\ a.text = b.text
      /\ <<b.table, b.text>> \notin Places(B)
  BY DEF Exchanges
<1>1. /\ \A e \in A : ~(e.table = a.table /\ e.text = a.text)
      /\ \A e \in B : ~(e.table = b.table /\ e.text = b.text)
  <2>1. \A e \in B : <<e.table, e.text>> \in Places(B)
    BY DEF Places
  <2>2. \A e \in A : <<e.table, e.text>> \in Places(B)
    BY <1>0 DEF Places
  <2> QED
    BY <1>0, <2>1, <2>2
<1>2. Apart(X) /\ Apart(Y)
  BY <1>0, <1>1 DEF Apart
<1>3. Places(K) \subseteq Places(B \ G)
  <2> SUFFICES ASSUME NEW e \in K PROVE <<e.table, e.text>> \in Places(B \ G)
    BY DEF Places
  <2>1. <<e.table, e.text>> \in Places(B) /\ <<e.table, e.text>> \notin Places(G)
    BY <1>0 DEF Places
  <2>2. PICK d \in B : <<e.table, e.text>> = <<d.table, d.text>>
    BY <2>1 DEF Places
  <2>3. d \notin G
    BY <2>1, <2>2 DEF Places
  <2> QED
    BY <2>2, <2>3 DEF Places
<1>4. Places(B \ G) \subseteq Places(K)
  <2> SUFFICES ASSUME NEW d \in B \ G PROVE <<d.table, d.text>> \in Places(K)
    BY DEF Places
  <2>1. <<d.table, d.text>> \in Places(A)
    BY <1>0 DEF Places
  <2>2. PICK e \in A : <<d.table, d.text>> = <<e.table, e.text>>
    BY <2>1 DEF Places
  <2>3. <<d.table, d.text>> \notin Places(G)
    <3> SUFFICES ASSUME NEW g \in G, <<d.table, d.text>> = <<g.table, g.text>> PROVE FALSE
      BY DEF Places
    <3>1. d.table = g.table /\ d.text = g.text
      OBVIOUS
    <3> QED
      BY <1>0, <3>1 DEF Apart
  <2> QED
    BY <1>0, <2>2, <2>3 DEF Places
<1>5. /\ Places(X) = Places(K) \cup {<<a.table, a.text>>}
      /\ Places(Y) = Places(B \ G) \cup {<<b.table, b.text>>}
  BY <1>0 DEF Places
<1> QED
  BY <1>0, <1>2, <1>3, <1>4, <1>5

\* What cache_clean() leaves is small enough, unless nothing is left.
LEMMA CleaningFits ==
  ASSUME BooksInv, NEW new \in Nat, NEW gone \in cache_clean(new)
  PROVE  /\ gone \subseteq counter
         /\ \/ size - TotalSize(gone) + new <= FestivalCacheMaxKBytes
            \/ gone = counter
<1>1. /\ gone \in SUBSET counter
      /\ \/ size - TotalSize(gone) + new <= (2 * size) \div 3
         \/ gone = counter
      /\ \E last \in gone : TRUE
  BY DEF cache_clean
<1>2. IsSized(counter) /\ size = TotalSize(counter) /\ size \in Nat
  BY TotalSizeType DEF BooksInv
<1>3. size <= FestivalCacheMaxKBytes \/ gone = counter
  <2>1. CASE Cardinality(counter) = 1
    <3>1. PICK last \in gone : TRUE
      BY <1>1
    <3>2. PICK e : counter = {e}
      BY <1>2, <2>1, FS_Singleton DEF IsSized
    <3> QED
      BY <1>1, <3>1, <3>2
  <2>2. CASE size <= FestivalCacheMaxKBytes
    BY <2>2
  <2> QED
    BY <2>1, <2>2 DEF BooksInv
<1>4. (2 * size) \div 3 <= size
  BY <1>2
<1>5. TotalSize(gone) \in Nat
  BY <1>1, <1>2, SizedSubsets, TotalSizeType
<1>6. FestivalCacheMaxKBytes \in Nat
  BY FestivalAssumption
<1> QED
  BY <1>1, <1>2, <1>3, <1>4, <1>5, <1>6

\* cache_insert() keeps the books.
LEMMA InsertKeepsBooks ==
  ASSUME BooksInv, message.text \in Events, cache_lookup = {}, NEW wave,
         cache_insert(wave)
  PROVE  /\ IsSized(counter') /\ IsFiniteSet(caches')
         /\ Apart(caches') /\ Apart(counter')
         /\ Places(caches') = Places(counter')
         /\ size' = TotalSize(counter')
         /\ size' <= FestivalCacheMaxKBytes \/ Cardinality(counter') = 1
<1> DEFINE new == SizeOf[message.text]
           a == [table |-> cache_gen_key, text |-> message.text, wave |-> wave]
           b == [table |-> cache_gen_key, text |-> message.text, size |-> new]
           full == size + new > FestivalCacheMaxKBytes
<1>1. PICK gone \in IF full /\ counter # {} THEN cache_clean(new) ELSE {{}} :
         /\ caches' = {e \in caches : <<e.table, e.text>> \notin Places(gone)} \cup {a}
         /\ counter' = (counter \ gone) \cup {b}
         /\ size' = size - TotalSize(gone) + new
  BY DEF cache_insert
<1>2. new \in Nat /\ FestivalCacheMaxKBytes \in Nat
  BY FestivalAssumption
<1>3. /\ a.table = b.table /\ a.text = b.text /\ b.size = new
      /\ b.table = cache_gen_key /\ b.text = message.text
  OBVIOUS
<1>4. /\ IsSized(counter) /\ IsFiniteSet(caches)
      /\ Apart(caches) /\ Apart(counter)
      /\ Places(caches) = Places(counter)
      /\ size = TotalSize(counter) /\ size \in Nat
  BY TotalSizeType DEF BooksInv
<1>5. <<b.table, b.text>> \notin Places(counter)
  <2>1. <<b.table, b.text>> \notin Places(caches)
    BY <1>3 DEF Places, cache_lookup
  <2> QED
    BY <1>4, <2>1
<1> HIDE DEF a, b
<1>6. /\ gone \subseteq counter
      /\ \/ size - TotalSize(gone) + new <= FestivalCacheMaxKBytes
         \/ gone = counter
  <2>1. CASE full /\ counter # {}
    <3>1. gone \in cache_clean(new)
      BY <1>1, <2>1
    <3> HIDE DEF new
    <3> QED
      BY <1>2, <3>1, CleaningFits
  <2>2. CASE ~(full /\ counter # {})
    <3>1. gone = {}
      BY <1>1, <2>2
    <3>2. CASE counter = {}
      BY <3>1, <3>2
    <3>3. CASE ~full
      <4>1. TotalSize({}) = 0
        BY SizedSubsets, TotalSizeSteps, <1>4
      <4> HIDE DEF new
      <4> QED
        BY <1>2, <1>4, <3>1, <3>3, <4>1
    <3> QED
      BY <2>2, <3>2, <3>3
  <2> QED
    BY <2>1, <2>2
<1> HIDE DEF new
<1> DEFINE left == counter \ gone
<1>7. IsSized(left) /\ TotalSize(left) = size - TotalSize(gone)
  BY <1>4, <1>6, SizedSubsets, TotalSizeWithout
<1>8. b \notin left
  BY <1>5 DEF Places
<1>9. counter' = left \cup {b}
  BY <1>1
<1>10. IsSized(counter')
  BY <1>2, <1>3, <1>7, <1>9, FS_AddElement DEF IsSized
<1>11. size' = TotalSize(counter')
  <2>1. TotalSize(counter') = b.size + TotalSize(counter' \ {b})
    BY <1>9, <1>10, TotalSizeAdds
  <2>2. counter' \ {b} = left
    BY <1>8, <1>9
  <2>3. size' = size - TotalSize(gone) + new
    BY <1>1
  <2>4. TotalSize(left) \in Nat /\ TotalSize(gone) \in Nat
    BY <1>4, <1>6, <1>7, SizedSubsets, TotalSizeType
  <2> HIDE DEF left, full
  <2>5. TotalSize(counter') = new + TotalSize(left)
    BY <1>3, <2>1, <2>2
  <2> QED
    BY <1>2, <1>4, <1>7, <2>3, <2>4, <2>5
<1>12. size' <= FestivalCacheMaxKBytes \/ Cardinality(counter') = 1
  <2>1. CASE gone = counter
    <3>1. counter' = {b}
      BY <1>9, <2>1
    <3> QED
      BY <3>1, FS_Singleton
  <2> QED
    BY <1>1, <1>6, <2>1
<1> DEFINE kept == {e \in caches : <<e.table, e.text>> \notin Places(gone)}
<1>13. caches' = kept \cup {a}
  BY <1>1
<1>14. IsFiniteSet(caches')
  <2>1. IsFiniteSet(kept)
    BY <1>4, FS_Subset
  <2> HIDE DEF kept
  <2> QED
    BY <1>13, <2>1, FS_AddElement
<1>15. Apart(caches') /\ Apart(counter') /\ Places(caches') = Places(counter')
  <2>1. Exchanges(caches, counter, gone, a, b, caches', counter')
    BY <1>1, <1>3, <1>4, <1>5, <1>6 DEF Exchanges
  <2> QED
    BY <2>1, ExchangesKeepPlaces
<1> QED
  BY <1>10, <1>11, <1>12, <1>14, <1>15

\* Every step.
LEMMA BooksKept ==
  ASSUME TypeInv, BooksInv, [FestivalNext]_festival_vars
  PROVE  BooksInv'
<1> USE DEF settings, connection, cache, outside
<1> DEFINE Way == {"speak", "require", "language", "voice_type", "name", "rate",
                   "post", "begin", "fetch"}
<1>1. OnTheWay = Way
  BY DEF OnTheWay, Translated, Voiced, Named, Spoken
\* A step that leaves the cache alone.
<1>2. ASSUME UNCHANGED cache,
             pc' \in OnTheWay /\ message'.event => message'.text \in Events,
             pc' = "fetch" /\ message'.event => cache_lookup' = {}
      PROVE  BooksInv'
  BY <1>2 DEF BooksInv
\* A message on its way.
<1>3. ASSUME UNCHANGED <<cache, message>>, pc \in OnTheWay, pc' # "fetch"
      PROVE  BooksInv'
  BY <1>2, <1>3 DEF BooksInv
<1>4. CASE do_set
  <2>1. /\ pc' = "speak" /\ UNCHANGED cache
        /\ message'.event => message'.text \in Events
    BY <1>4 DEF do_set, Continues
  <2> QED
    BY <1>2, <2>1
<1>5. CASE \/ festivalOpen \/ OpensUp \/ ComparesVoices \/ GetsVoices \/ Posts
           \/ PlaysCached
  <2>1. /\ pc \in Way /\ UNCHANGED <<cache, message>>
        /\ pc' \in {"set", "died", "require", "speak", "language", "begin"}
    BY <1>5 DEF festivalOpen, OpensUp, ComparesVoices, GetsVoices, Posts, PlaysCached,
                Continues, NotHeard
  <2> QED
    BY <1>1, <1>3, <2>1
<1>6. CASE \/ SetsLanguage \/ UpdateParameter("voice_type", "name")
           \/ UpdateParameter("name", "rate") \/ UpdateParameter("rate", "post")
  <2>1. /\ pc \in Way /\ UNCHANGED <<cache, message>>
        /\ pc' \in {"voice_type", "name", "rate", "post"}
    BY <1>6 DEF SetsLanguage, UpdateParameter, Continues
  <2> QED
    BY <1>1, <1>3, <2>1
<1>7. CASE Requests
  <2>1. /\ pc = "begin" /\ pc' \in {"set", "fetch"}
        /\ message.event => cache_lookup = {}
        /\ UNCHANGED <<cache, message, msg_settings, distinguish>>
    BY <1>7 DEF Requests, Continues, NotHeard
  <2>2. cache_lookup' = cache_lookup
    BY <2>1 DEF cache_lookup, cache_gen_key
  <2>3. message.event => message.text \in Events
    BY <1>1, <2>1 DEF BooksInv
  <2> QED
    BY <1>2, <2>1, <2>2, <2>3
<1>8. CASE GetsWave
  <2>1. /\ pc = "fetch" /\ pc' = "set" /\ UNCHANGED message
    BY <1>8 DEF GetsWave, Continues, NotHeard
  <2>2. CASE UNCHANGED cache
    BY <1>1, <1>3, <2>1, <2>2
  <2>3. CASE message.event /\ \E wave : cache_insert(wave)
    <3>1. PICK wave : cache_insert(wave)
      BY <2>3
    <3>2. message.text \in Events /\ cache_lookup = {}
      BY <1>1, <2>1, <2>3 DEF BooksInv
    <3>3. /\ IsSized(counter') /\ IsFiniteSet(caches')
          /\ Apart(caches') /\ Apart(counter')
          /\ Places(caches') = Places(counter')
          /\ size' = TotalSize(counter')
          /\ size' <= FestivalCacheMaxKBytes \/ Cardinality(counter') = 1
      BY <3>1, <3>2, InsertKeepsBooks
    <3>4. pc' \notin OnTheWay /\ pc' # "fetch"
      BY <1>1, <2>1
    <3> QED
      BY <3>3, <3>4 DEF BooksInv
  <2> QED
    BY <1>8, <2>2, <2>3 DEF GetsWave
<1>9. CASE Restarts
  <2>1. pc' = "set" /\ caches' = {} /\ counter' = {} /\ size' = 0
    BY <1>9 DEF Restarts
  <2>2. IsSized({}) /\ TotalSize({}) = 0
    BY FS_EmptySet, TotalSizeSteps DEF IsSized
  <2>3. pc' \notin OnTheWay /\ pc' # "fetch" /\ 0 <= FestivalCacheMaxKBytes
    BY <1>1, <2>1, FestivalAssumption
  <2> QED
    BY <2>1, <2>2, <2>3 DEF BooksInv, IsSized, Apart, Places
<1>10. CASE Breaks \/ ComesBack \/ UNCHANGED festival_vars
  <2>1. UNCHANGED <<cache, pc, message, msg_settings, distinguish>>
    BY <1>10 DEF Breaks, ComesBack, ModuleUnchanged, festival_vars
  <2>2. cache_lookup' = cache_lookup
    BY <2>1 DEF cache_lookup, cache_gen_key
  <2> QED
    BY <1>2, <2>1, <2>2 DEF BooksInv
<1> QED
  BY <1>4, <1>5, <1>6, <1>7, <1>8, <1>9, <1>10 DEF FestivalNext

\* However many waves of whatever sizes come and go, the tables of the cache and
\* the list by which it is cleaned hold the same entries, each once, and the
\* size that is kept is theirs and within the limit, or that of one entry.
THEOREM FestivalCacheBounded == FestivalSpec => []CacheBounded
<1>1. FestivalInit => BooksInv
  <2> SUFFICES ASSUME FestivalInit PROVE BooksInv
    OBVIOUS
  <2>1. pc = "set" /\ caches = {} /\ counter = {} /\ size = 0
    BY DEF FestivalInit
  <2>2. IsSized({}) /\ TotalSize({}) = 0
    BY FS_EmptySet, TotalSizeSteps DEF IsSized
  <2>3. pc \notin OnTheWay /\ pc # "fetch" /\ 0 <= FestivalCacheMaxKBytes
    BY <2>1, FestivalAssumption DEF OnTheWay, Translated, Voiced, Named, Spoken
  <2> QED
    BY <2>1, <2>2, <2>3 DEF BooksInv, IsSized, Apart, Places
<1>2. TypeInv /\ BooksInv /\ [FestivalNext]_festival_vars => BooksInv'
  BY BooksKept
<1>3. BooksInv => CacheBounded
  <2> SUFFICES ASSUME BooksInv PROVE CacheBounded
    OBVIOUS
  <2>1. /\ Cardinality(Places(caches)) = Cardinality(caches)
        /\ Cardinality(Places(counter)) = Cardinality(counter)
    BY OnePlaceEach DEF BooksInv, IsSized
  <2> QED
    BY <2>1 DEF BooksInv, CacheBounded
<1>4. BaseInv => TypeInv
  BY DEF BaseInv
<1> QED
  BY <1>1, <1>2, <1>3, <1>4, FestivalInvariant, PTL DEF FestivalSpec
=============================================================================
