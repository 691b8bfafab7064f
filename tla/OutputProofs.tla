---------------------------- MODULE OutputProofs ----------------------------
(***************************************************************************)
(* What holds of the output layer for any modules, messages, crashes and   *)
(* reloads.  STOP finds a loaded module whatever the threads do.  If no    *)
(* STOP comes while a message is handed over and no DEBUG while a module   *)
(* speaks (Careful), no thread reads the line another one waits for, and a *)
(* crash costs one message at most: every message that is lost is paid for *)
(* by a crash that the server has noticed.                                 *)
(***************************************************************************)
EXTENDS Output, FiniteSetTheorems, TLAPS

-----------------------------------------------------------------------------
(* The inductive invariant, as far as it needs no care.                    *)

SpeakPlaces  == {"poll", "hangup", "activity", "event_lock", "event", "next",
                 "speak", "set", "say", "said", "gone"}
MainPlaces   == {"idle", "debug", "debug_reply", "close", "quit", "wait", "shut", "exited"}
SignalPlaces == {"idle", "stopping", "close", "quit", "wait", "shut", "ended"}
Closing      == {"close", "quit", "wait", "shut"}
HasTarget    == {"quit", "wait", "shut"}

Commands == {"set", "speak", "stop", "debug", "quit"}
Lines    == {"ok", "err", "begin", "over"}

TypeOK ==
    /\ listed \subseteq Names
    /\ working \in [Names -> BOOLEAN] /\ open \in [Names -> BOOLEAN]
    /\ proc \in [Names -> {"up", "dead", "reaped"}]
    /\ inp \in [Names -> Seq(Commands)] /\ out \in [Names -> Seq(Lines)]
    /\ talk \in [Names -> {"silent", "accepted", "begun"}]
    /\ speaking_module \in Names \cup {NULL} /\ polled \in Names \cup {NULL}
    /\ SPEAKING \in BOOLEAN
    /\ mutex \in Threads \cup {NULL}
    /\ pc \in [Threads -> SpeakPlaces \cup MainPlaces \cup SignalPlaces]
    /\ pc["speak"] \in SpeakPlaces /\ pc["main"] \in MainPlaces
    /\ pc["signal"] \in SignalPlaces
    /\ target \in [Threads -> Names \cup {NULL}]
    /\ todo \in [Threads -> SUBSET Names]
    /\ reloading \in {"no", "dead", "all"}
    /\ queue \in Seq(Names) /\ message \in Names \cup {NULL}
    /\ bytes \in Nat /\ mustStop \in BOOLEAN
    /\ sent \in Nat /\ crashes \in Nat /\ controls \in Nat /\ reloads \in Nat
    /\ lost \in Nat
    /\ swallowed \in BOOLEAN

\* the server has not begun to close down
Open == pc["main"] \in {"idle", "debug", "debug_reply"}

\* the speaking thread is away while modules are reloaded, and only then
Restarts ==
    /\ mustStop => pc["signal"] = "stopping" /\ pc["speak"] # "gone"
    /\ pc["signal"] \in Closing => pc["speak"] = "gone" /\ reloading \in {"dead", "all"}
    /\ pc["signal"] = "stopping" => reloading \in {"dead", "all"}
    /\ Open /\ pc["speak"] = "gone"
       => /\ pc["signal"] \in {"stopping"} \cup Closing
          /\ speaking_module = NULL
    /\ ~Open => pc["speak"] = "gone" /\ pc["signal"] = "ended"

\* what is to be reloaded
Reloads ==
    /\ \A t \in {"main", "signal"} : pc[t] \in HasTarget => target[t] \in todo[t]
    /\ pc["speak"] \in {"event_lock", "event", "set", "say"} => target["speak"] # NULL
    /\ pc["main"] = "debug_reply" => target["main"] # NULL
    /\ pc["signal"] \in Closing /\ reloading = "all" => listed \subseteq todo["signal"]
    /\ pc["signal"] \in Closing /\ reloading = "dead"
       => \A n \in todo["signal"] : n \in listed /\ ~working[n]

Loaded == \A n \in Names : working[n] => open[n] /\ n \in listed

Live == Open /\ speaking_module # NULL
        => speaking_module \in listed /\ open[speaking_module]

Base == TypeOK /\ Restarts /\ Reloads /\ Loaded /\ Live

-----------------------------------------------------------------------------
(* The part that holds of a careful server.                                *)

Locks ==
    /\ pc["speak"] \in {"event", "set", "say"} => mutex = "speak"
    /\ pc["main"] = "debug_reply" => mutex = "main"
    /\ pc["signal"] \in {"quit", "wait"} => mutex = "signal"

\* what speak() believes and which module it polls, and whom the main thread asks
Polls == Open =>
    /\ pc["speak"] \in {"set", "say", "said"}
       => speaking_module # NULL /\ ~SPEAKING /\ message # NULL
    /\ pc["speak"] \in {"set", "say"} => target["speak"] = speaking_module
    /\ pc["speak"] = "speak" => ~SPEAKING /\ message # NULL
    /\ pc["speak"] \in {"activity", "event_lock", "event"} => SPEAKING
    /\ pc["speak"] \in {"event_lock", "event"}
       => speaking_module \in {NULL, target["speak"]}
    /\ speaking_module # NULL
       => /\ working[speaking_module]
          /\ SPEAKING \/ pc["speak"] \in {"set", "say", "said"}
    /\ SPEAKING => polled # NULL
    /\ SPEAKING /\ speaking_module # NULL => polled = speaking_module
    /\ polled # NULL /\ (~SPEAKING \/ speaking_module = NULL) => proc[polled] # "up"
    /\ pc["speak"] = "hangup" => polled # NULL /\ proc[polled] # "up"
    /\ pc["speak"] = "gone" => ~SPEAKING /\ polled = NULL
    /\ pc["main"] = "debug_reply"
       => /\ ~SPEAKING /\ working[target["main"]]
          /\ pc["speak"] \notin {"set", "say", "said"}
          /\ pc["signal"] \in HasTarget => target["signal"] # target["main"]

\* what the server has asked of a module that works
Role(n) ==
    IF n = speaking_module
    THEN IF pc["speak"] \in {"set", "say"} THEN pc["speak"] ELSE "speaks"
    ELSE IF pc["signal"] \in HasTarget /\ n = target["signal"]
    THEN IF pc["signal"] = "quit" THEN "quit" ELSE "gone"
    ELSE IF pc["main"] = "debug_reply" /\ n = target["main"] THEN "debug" ELSE "idle"

\* what can be in its pipes then: i and o the pipes in and out, k what it is
\* doing, p its process
OnlyStops(i) == \A j \in 1..Len(i) : i[j] = "stop"
Asked(i, o, k, cmd) ==
    /\ k = "silent"
    /\ \/ /\ o = <<>> /\ i # <<>> /\ i[Len(i)] = cmd
          /\ \A j \in 1..(Len(i) - 1) : i[j] = "stop"
       \/ o = <<"ok">> /\ i = <<>>
Told(i, o, k) ==
    \/ k = "silent" /\ o = <<>> /\ i = <<"speak">>
    \/ /\ i = <<>>
       /\ \/ k = "accepted" /\ o = <<"ok">>
          \/ k = "begun" /\ o = <<"ok", "begin">>
          \/ k = "silent" /\ o \in {<<"ok", "over">>, <<"ok", "begin", "over">>}
Speaks(o, k) ==
    \/ k = "accepted" /\ o = <<>>
    \/ k = "begun" /\ o \in {<<"begin">>, <<>>}
    \/ k = "silent" /\ o \in {<<"over">>, <<"begin", "over">>}

Suits(role, i, o, k, p) ==
    \/ role = "idle" /\ OnlyStops(i) /\ o = <<>> /\ k = "silent"
    \/ role \in {"set", "debug"} /\ Asked(i, o, k, role)
    \/ role = "quit" /\ Asked(i, o, k, role) /\ (o = <<>> \/ p # "up")
    \/ role = "gone" /\ p # "up"
    \/ role = "say" /\ Told(i, o, k)
    \/ role = "speaks" /\ OnlyStops(i) /\ Speaks(o, k)

Fits(n) == Suits(Role(n), inp[n], out[n], talk[n], proc[n])
Pipes == Open => \A n \in Names : working[n] => Fits(n)

\* nothing is being closed but modules that do not work
Serving == Open /\ ~(pc["signal"] \in Closing /\ reloading = "all")

\* crashes that are not noticed yet, and what has been lost: the message that
\* nobody speaks any more is, as soon as the next one is taken
Crashed == {n \in Names : working[n] /\ proc[n] # "up"}
Missing == message # NULL /\ speaking_module = NULL /\ pc["speak"] # "speak"
Owed == IF Missing THEN lost + 1 ELSE lost
Account ==
    /\ lost <= crashes
    /\ Open => Owed <= crashes
    /\ Serving => Cardinality(Crashed) + Owed <= crashes

CarefulInv == Locks /\ Polls /\ Pipes /\ Account /\ ~swallowed

-----------------------------------------------------------------------------
(* The types.  First the steps that the actions are made of.               *)

LEMMA BrokenTypes ==
    ASSUME TypeOK, NEW n \in Names, Broken(n)
    PROVE  /\ working' \in [Names -> BOOLEAN] /\ speaking_module' = NULL
           /\ proc' \in [Names -> {"up", "dead", "reaped"}]
BY DEF TypeOK, Broken, output_check_module

LEMMA SendsTypes ==
    ASSUME TypeOK, NEW n \in Names, NEW cmds \in Seq(Commands), Sends(n, cmds)
    PROVE  /\ working' \in [Names -> BOOLEAN]
           /\ proc' \in [Names -> {"up", "dead", "reaped"}]
           /\ inp' \in [Names -> Seq(Commands)]
BY DEF TypeOK, Sends

LEMMA SendFailsTypes ==
    ASSUME TypeOK, NEW n \in Names, SendFails(n)
    PROVE  /\ working' \in [Names -> BOOLEAN] /\ speaking_module' = NULL
           /\ proc' \in [Names -> {"up", "dead", "reaped"}]
           /\ inp' \in [Names -> Seq(Commands)]
BY BrokenTypes DEF TypeOK, SendFails

LEMMA ReadsTypes ==
    ASSUME TypeOK, NEW n \in Names, NEW line, Reads(n, line)
    PROVE  /\ working' \in [Names -> BOOLEAN]
           /\ proc' \in [Names -> {"up", "dead", "reaped"}]
           /\ out' \in [Names -> Seq(Lines)]
BY DEF TypeOK, Reads

LEMMA ReadFailsTypes ==
    ASSUME TypeOK, NEW n \in Names, ReadFails(n)
    PROVE  /\ working' \in [Names -> BOOLEAN] /\ speaking_module' = NULL
           /\ proc' \in [Names -> {"up", "dead", "reaped"}]
           /\ out' \in [Names -> Seq(Lines)]
BY BrokenTypes DEF TypeOK, ReadFails

\* a thread goes to a place of its own
PcOK(p) ==
    /\ p \in [Threads -> SpeakPlaces \cup MainPlaces \cup SignalPlaces]
    /\ p["speak"] \in SpeakPlaces /\ p["main"] \in MainPlaces
    /\ p["signal"] \in SignalPlaces

LEMMA GoesTypes ==
    ASSUME TypeOK, NEW t \in Threads, NEW to, Goes(t, to),
           t = "speak" => to \in SpeakPlaces,
           t = "main" => to \in MainPlaces,
           t = "signal" => to \in SignalPlaces
    PROVE  PcOK(pc')
BY DEF TypeOK, PcOK, Goes, Threads

LEMMA SpeakTypes1 ==
    ASSUME OutputAssumption, Base, Speak, 
        wait_for_poll \/ speaking_module_cleanup \/ is_sb_speaking \/ EventLock \/ TakesMessage \/ PollsAgain \/ ThreadEnds \/ Said
    PROVE TypeOK'
<1> USE DEF SpeakUnchanged, modules, pipes, talking, counters, ghosts, PcOK, SpeakPlaces, MainPlaces, SignalPlaces, Threads
<1>0. TypeOK /\ "speak" \in Threads /\ reloading' = reloading
  BY DEF Base, Speak
<1>1. CASE wait_for_poll
  <2>1. PcOK(pc')
    BY <1>0, <1>1, GoesTypes DEF wait_for_poll
  <2>2. bytes' \in Nat
    BY <1>0, <1>1 DEF TypeOK, wait_for_poll
  <2>3. UNCHANGED <<working, proc, inp, out, speaking_module, SPEAKING, polled, mutex,
                    target, queue, message, mustStop, lost, swallowed>>
    BY <1>1 DEF wait_for_poll
  <2>4. UNCHANGED <<listed, open, talk, todo, sent, crashes, controls, reloads>>
    BY <1>1 DEF wait_for_poll
  <2>5. QED
    BY <1>0, <2>1, <2>2, <2>3, <2>4, ZenonT(40) DEF TypeOK
<1>2. CASE speaking_module_cleanup
  <2>1. PcOK(pc')
    BY <1>0, <1>2, GoesTypes DEF speaking_module_cleanup
  <2>2. /\ working' \in [Names -> BOOLEAN] /\ lost' \in Nat /\ message' = NULL
        /\ SPEAKING' = FALSE /\ speaking_module' = NULL /\ polled' = NULL
    BY <1>0, <1>2 DEF TypeOK, speaking_module_cleanup
  <2>3. UNCHANGED <<proc, inp, out, bytes, mutex, target, queue, mustStop, swallowed,
                    listed, open, talk, todo, sent, crashes, controls, reloads>>
    BY <1>2 DEF speaking_module_cleanup
  <2>4. QED
    BY <1>0, <2>1, <2>2, <2>3 DEF TypeOK
<1>3. CASE is_sb_speaking
  <2>1. PcOK(pc')
    BY <1>0, <1>3, GoesTypes DEF is_sb_speaking
  <2>2. target' \in [Threads -> Names \cup {NULL}] /\ SPEAKING' \in BOOLEAN
    BY <1>0, <1>3, ZenonT(40) DEF TypeOK, is_sb_speaking
  <2>3. UNCHANGED <<working, proc, inp, out, speaking_module, polled, bytes, mutex, queue,
                    message, mustStop, lost, swallowed,
                    listed, open, talk, todo, sent, crashes, controls, reloads>>
    BY <1>3 DEF is_sb_speaking
  <2>4. QED
    BY <1>0, <2>1, <2>2, <2>3 DEF TypeOK
<1>4. CASE EventLock
  <2>1. PcOK(pc')
    BY <1>0, <1>4, GoesTypes DEF EventLock
  <2>2. QED
    BY <1>0, <1>4, <2>1 DEF TypeOK, EventLock, output_lock
<1>5. CASE TakesMessage
  <2>1. PcOK(pc')
    BY <1>0, <1>5, GoesTypes DEF TakesMessage
  <2>2. queue' \in Seq(Names) /\ message' \in Names
    <3>1. queue \in Seq(Names) /\ queue # <<>>
      BY <1>0, <1>5 DEF TypeOK, TakesMessage
    <3>2. Head(queue) \in Names /\ Tail(queue) \in Seq(Names)
      BY <3>1
    <3>3. QED
      BY <1>5, <3>2 DEF TakesMessage
  <2>3. lost' \in Nat
    BY <1>0, <1>5 DEF TypeOK, TakesMessage
  <2>4. UNCHANGED <<working, proc, inp, out, speaking_module, SPEAKING, polled, bytes,
                    mutex, target, mustStop, swallowed,
                    listed, open, talk, todo, sent, crashes, controls, reloads>>
    BY <1>5 DEF TakesMessage
  <2>5. QED
    BY <1>0, <2>1, <2>2, <2>3, <2>4 DEF TypeOK
<1>6. CASE PollsAgain
  <2>1. PcOK(pc')
    BY <1>0, <1>6, GoesTypes DEF PollsAgain
  <2>2. QED
    BY <1>0, <1>6, <2>1, ZenonT(40) DEF TypeOK, PollsAgain
<1>7. CASE ThreadEnds
  <2>1. PcOK(pc')
    BY <1>0, <1>7, GoesTypes DEF ThreadEnds
  <2>2. QED
    BY <1>0, <1>7, <2>1 DEF TypeOK, ThreadEnds
<1>8. CASE Said
  <2>1. PcOK(pc')
    BY <1>0, <1>8, GoesTypes DEF Said
  <2>2. QED
    BY <1>0, <1>8, <2>1 DEF TypeOK, Said
<1>9. QED
  BY <1>1, <1>2, <1>3, <1>4, <1>5, <1>6, <1>7, <1>8

LEMMA SpeakTypes2 ==
    ASSUME OutputAssumption, Base, Speak,
           \/ output_module_is_speaking \/ output_speak
           \/ output_send_settings \/ SpeakReply
    PROVE  TypeOK'
<1> USE DEF SpeakUnchanged, modules, pipes, talking, counters, ghosts, PcOK,
            SpeakPlaces, MainPlaces, SignalPlaces, Threads
<1>0. TypeOK /\ "speak" \in Threads /\ reloading' = reloading
  BY DEF Base, Speak
<1>a. NULL \notin Names
  BY DEF OutputAssumption
<1>b. pc["speak"] \in {"event", "set", "say"} => target["speak"] \in Names
  BY DEF Base, Reloads, TypeOK
<1>c. Drops => message' = NULL /\ lost' \in Nat /\ PcOK(pc')
  BY <1>0, GoesTypes DEF Drops, TypeOK
<1> DEFINE n == target["speak"]
<1>1. CASE output_module_is_speaking
  <2>0. n \in Names /\ UNCHANGED <<inp, target, queue, mustStop, swallowed,
                   listed, open, talk, todo, sent, crashes, controls, reloads>>
    BY <1>1, <1>b DEF output_module_is_speaking
  <2>1. PcOK(pc')
    BY <1>0, <1>1, GoesTypes DEF output_module_is_speaking
  <2>2. mutex' = NULL /\ SPEAKING' \in BOOLEAN
    BY <1>1 DEF output_module_is_speaking, output_unlock
  <2>6. /\ polled' \in {polled, NULL} /\ bytes' \in {bytes, bytes + 1}
        /\ message' \in {message, NULL} /\ lost' = lost
    BY <1>1 DEF output_module_is_speaking
  <2>7. /\ polled' \in Names \cup {NULL} /\ bytes' \in Nat
        /\ message' \in Names \cup {NULL} /\ lost' \in Nat
    <3>1. polled \in Names \cup {NULL} /\ message \in Names \cup {NULL} /\ bytes \in Nat /\ lost \in Nat
      BY <1>0 DEF TypeOK
    <3>2. bytes' \in Nat /\ lost' \in Nat
      BY <2>6, <3>1
    <3>3. polled' \in Names \cup {NULL} /\ message' \in Names \cup {NULL}
      BY <2>6, <3>1
    <3>4. QED
      BY <3>2, <3>3
  <2> HIDE DEF n
  <2>3. \/ \E line : Reads(n, line) /\ speaking_module' \in {speaking_module, NULL}
        \/ ReadFails(n)
    BY <1>1 DEF output_module_is_speaking, n
  <2>4. /\ working' \in [Names -> BOOLEAN] /\ speaking_module' \in Names \cup {NULL}
        /\ proc' \in [Names -> {"up", "dead", "reaped"}] /\ out' \in [Names -> Seq(Lines)]
    BY <1>0, <2>0, <2>3, ReadsTypes, ReadFailsTypes DEF TypeOK
  <2>5. QED
    BY <1>0, <2>0, <2>1, <2>2, <2>4, <2>7 DEF TypeOK
<1>2. CASE output_speak
  <2>1. PICK m \in get_output_module(message) :
       \/ /\ m = NULL /\ Drops
          /\ UNCHANGED <<working, proc, inp, speaking_module, mutex, target>>
       \/ /\ m # NULL /\ Sends(m, <<"set">>)
          /\ speaking_module' = m
          /\ target' = [target EXCEPT !["speak"] = m]
          /\ output_lock("speak") /\ Goes("speak", "set")
          /\ UNCHANGED <<message, lost>>
       \/ /\ m # NULL /\ SendFails(m) /\ Drops
          /\ UNCHANGED <<mutex, target>>
    BY <1>2 DEF output_speak
  <2>2. m # NULL => m \in Names
    BY <1>0 DEF get_output_module, Works, TypeOK
  <2>3. UNCHANGED <<out, SPEAKING, polled, bytes, queue, mustStop, swallowed,
                    listed, open, talk, todo, sent, crashes, controls, reloads>>
    BY <1>2 DEF output_speak
  <2>4. <<"set">> \in Seq(Commands)
    BY DEF Commands
  <2>5. CASE m = NULL /\ Drops
          /\ UNCHANGED <<working, proc, inp, speaking_module, mutex, target>>
    BY <1>0, <1>c, <2>3, <2>5, ZenonT(40) DEF TypeOK
  <2>6. CASE /\ m # NULL /\ Sends(m, <<"set">>)
          /\ speaking_module' = m
          /\ target' = [target EXCEPT !["speak"] = m]
          /\ output_lock("speak") /\ Goes("speak", "set")
          /\ UNCHANGED <<message, lost>>
    <3>1. PcOK(pc')
      BY <1>0, <2>6, GoesTypes
    <3>2. /\ working' \in [Names -> BOOLEAN] /\ inp' \in [Names -> Seq(Commands)]
          /\ proc' \in [Names -> {"up", "dead", "reaped"}]
      BY <1>0, <2>2, <2>4, <2>6, SendsTypes
    <3>3. target' \in [Threads -> Names \cup {NULL}] /\ mutex' = "speak"
      BY <1>0, <2>2, <2>6 DEF TypeOK, output_lock
    <3>4. QED
      BY <1>0, <2>2, <2>3, <2>6, <3>1, <3>2, <3>3 DEF TypeOK
  <2>7. CASE /\ m # NULL /\ SendFails(m) /\ Drops
          /\ UNCHANGED <<mutex, target>>
    <3>1. /\ working' \in [Names -> BOOLEAN] /\ inp' \in [Names -> Seq(Commands)]
          /\ proc' \in [Names -> {"up", "dead", "reaped"}] /\ speaking_module' = NULL
      BY <1>0, <2>2, <2>7, SendFailsTypes
    <3>2. QED
      BY <1>0, <1>c, <2>3, <2>7, <3>1 DEF TypeOK
  <2>8. QED
    BY <2>1, <2>5, <2>6, <2>7
<1>d. ASSUME n \in Names, Refused(n)
      PROVE  /\ working' \in [Names -> BOOLEAN] /\ speaking_module' \in {speaking_module, NULL}
             /\ proc' \in [Names -> {"up", "dead", "reaped"}] /\ out' \in [Names -> Seq(Lines)]
             /\ swallowed' \in BOOLEAN
  <2> HIDE DEF n
  <2>1. swallowed' \in BOOLEAN
    BY <1>0, <1>d DEF Refused, Expects, TypeOK
  <2>2. (\E line : Reads(n, line) /\ UNCHANGED speaking_module) \/ ReadFails(n)
    BY <1>d DEF Refused
  <2>3. QED
    BY <1>0, <1>d, <2>1, <2>2, ReadsTypes, ReadFailsTypes
<1>3. CASE output_send_settings
  <2>0. n \in Names /\ UNCHANGED <<SPEAKING, polled, bytes, target, queue, mustStop,
                   listed, open, talk, todo, sent, crashes, controls, reloads>>
    BY <1>3, <1>b DEF output_send_settings
  <2> HIDE DEF n
  <2>1. CASE /\ proc[n] = "up"
          /\ out[n] # <<>> /\ Head(out[n]) = "ok"
          /\ out' = [out EXCEPT ![n] = Tail(@)]
          /\ inp' = [inp EXCEPT ![n] = Append(@, "speak")]
          /\ Goes("speak", "say")
          /\ UNCHANGED <<working, proc, speaking_module, mutex, message, lost,
                         swallowed>>
    <3>1. PcOK(pc')
      BY <1>0, <2>1, GoesTypes
    <3>2. out' \in [Names -> Seq(Lines)] /\ inp' \in [Names -> Seq(Commands)]
      <4>1. Tail(out[n]) \in Seq(Lines)
        BY <1>0, <2>0, <2>1 DEF TypeOK
      <4>2. Append(inp[n], "speak") \in Seq(Commands)
        BY <1>0, <2>0 DEF TypeOK, Commands
      <4>3. QED
        BY <1>0, <2>1, <4>1, <4>2 DEF TypeOK
    <3>3. QED
      BY <1>0, <2>0, <2>1, <3>1, <3>2, ZenonT(40) DEF TypeOK
  <2>2. CASE /\ out[n] # <<>> /\ Head(out[n]) = "ok"
          /\ SendFails(n)
          /\ out' = [out EXCEPT ![n] = Tail(@)]
          /\ Drops /\ output_unlock("speak") /\ UNCHANGED swallowed
    <3>1. out' \in [Names -> Seq(Lines)] /\ mutex' = NULL
      BY <1>0, <2>0, <2>2 DEF TypeOK, output_unlock
    <3>2. QED
      BY <1>0, <1>c, <2>0, <2>2, <3>1, SendFailsTypes DEF TypeOK
  <2>3. CASE /\ Refused(n)
          /\ Drops /\ output_unlock("speak") /\ UNCHANGED inp
    BY <1>0, <1>c, <1>d, <2>0, <2>3 DEF TypeOK, output_unlock
  <2>4. QED
    BY <1>3, <2>1, <2>2, <2>3 DEF output_send_settings, n
<1>4. CASE SpeakReply
  <2>0. n \in Names /\ UNCHANGED <<inp, SPEAKING, polled, bytes, target, queue, mustStop,
                   listed, open, talk, todo, sent, crashes, controls, reloads>>
        /\ mutex' = NULL
    BY <1>4, <1>b DEF SpeakReply, output_unlock
  <2> HIDE DEF n
  <2>1. CASE /\ Reads(n, "ok") /\ Goes("speak", "said")
          /\ UNCHANGED <<speaking_module, message, lost, swallowed>>
    <3>1. PcOK(pc')
      BY <1>0, <2>1, GoesTypes
    <3>2. QED
      BY <1>0, <2>0, <2>1, <3>1, ReadsTypes DEF TypeOK
  <2>2. CASE Refused(n) /\ Drops
    BY <1>0, <1>c, <1>d, <2>0, <2>2 DEF TypeOK
  <2>3. QED
    BY <1>4, <2>1, <2>2 DEF SpeakReply, n
<1>5. QED
  BY <1>1, <1>2, <1>3, <1>4

LEMMA ClientsTypes == ASSUME OutputAssumption, Base, Clients PROVE TypeOK'
<1> USE DEF MainUnchanged, modules, pipes, talking, counters, ghosts, PcOK,
            SpeakPlaces, MainPlaces, SignalPlaces, Threads
<1>0. TypeOK /\ "main" \in Threads /\ reloading' = reloading /\ NULL \notin Names
  BY DEF Base, Clients, OutputAssumption
<1>1. ASSUME NEW name \in Names, queue_message(name) PROVE TypeOK'
  <2>1. queue' \in Seq(Names) /\ bytes' \in Nat /\ sent' \in Nat
    BY <1>0, <1>1 DEF queue_message, TypeOK
  <2>2. UNCHANGED <<working, proc, inp, out, speaking_module, mutex, pc, target, todo,
                   mustStop, crashes, controls, reloads, lost, swallowed,
                   listed, open, talk, SPEAKING, polled, message>>
    BY <1>1 DEF queue_message
  <2>3. PcOK(pc')
    BY <1>0, <2>2 DEF TypeOK
  <2>4. QED
    BY <1>0, <2>1, <2>2, <2>3, ZenonT(40) DEF TypeOK
<1>2. CASE output_stop
  <2>1. controls' \in Nat
        /\ UNCHANGED <<out, bytes, mutex, pc, target, todo, queue, mustStop, sent, crashes,
                   reloads, lost, swallowed, listed, open, talk, SPEAKING, polled, message>>
    BY <1>0, <1>2 DEF output_stop, TypeOK
  <2>2. <<"stop">> \in Seq(Commands)
    BY DEF Commands
  <2>3. /\ working' \in [Names -> BOOLEAN] /\ speaking_module' \in Names \cup {NULL}
        /\ proc' \in [Names -> {"up", "dead", "reaped"}]
        /\ inp' \in [Names -> Seq(Commands)]
    <3>1. CASE UNCHANGED <<working, proc, inp, speaking_module>>
      BY <1>0, <3>1 DEF TypeOK
    <3>2. CASE /\ speaking_module \in Names
               /\ \/ Sends(speaking_module, <<"stop">>) /\ UNCHANGED speaking_module
                  \/ SendFails(speaking_module)
      <4> DEFINE n == speaking_module
      <4>1. n \in Names /\ ((Sends(n, <<"stop">>) /\ UNCHANGED speaking_module) \/ SendFails(n))
        BY <3>2
      <4> HIDE DEF n
      <4>2. QED
        BY <1>0, <2>2, <4>1, SendsTypes, SendFailsTypes DEF TypeOK
    <3>3. QED
      BY <1>0, <1>2, <3>1, <3>2 DEF output_stop, TypeOK
  <2>4. PcOK(pc')
    BY <1>0, <2>1 DEF TypeOK
  <2>5. QED
    BY <1>0, <2>1, <2>3, <2>4 DEF TypeOK
<1>3. CASE modules_debug
  <2>1. PcOK(pc')
    BY <1>0, <1>3, GoesTypes DEF modules_debug
  <2>2. todo' \in [Threads -> SUBSET Names] /\ controls' \in Nat
    <3>1. todo' \in [Threads -> SUBSET Names]
      BY <1>0, <1>3 DEF modules_debug, TypeOK
    <3>2. controls' \in Nat
      BY <1>0, <1>3 DEF modules_debug, TypeOK
    <3>3. QED
      BY <3>1, <3>2
  <2>3. UNCHANGED <<working, proc, inp, out, speaking_module, bytes, mutex, target, queue,
                   mustStop, sent, crashes, reloads, lost, swallowed,
                   listed, open, talk, SPEAKING, polled, message>>
    BY <1>3 DEF modules_debug
  <2>4. QED
    BY <1>0, <2>1, <2>2, <2>3, ZenonT(40) DEF TypeOK
<1>4. QED
  BY <1>1, <1>2, <1>3 DEF Clients

LEMMA MainTypes ==
    ASSUME OutputAssumption, Base, UNCHANGED reloading,
           output_send_debug \/ DebugReply \/ DebugEnds \/ quit \/ QuitEnds
    PROVE  TypeOK'
<1> USE DEF MainUnchanged, modules, pipes, talking, counters, ghosts, PcOK,
            SpeakPlaces, MainPlaces, SignalPlaces, Threads
<1>0. TypeOK /\ "main" \in Threads /\ NULL \notin Names
  BY DEF Base, OutputAssumption
<1>a. ASSUME NEW n \in Names, Left("main", n) PROVE todo' \in [Threads -> SUBSET Names]
  BY <1>0, <1>a DEF Left, TypeOK
<1>1. CASE output_send_debug
  <2>1. PICK n \in todo["main"] :
       \/ /\ ~Works(n) /\ Left("main", n)
          /\ UNCHANGED <<working, proc, inp, speaking_module, mutex, pc, target>>
       \/ /\ Works(n) /\ Sends(n, <<"debug">>)
          /\ target' = [target EXCEPT !["main"] = n]
          /\ output_lock("main") /\ Goes("main", "debug_reply")
          /\ UNCHANGED <<speaking_module, todo>>
       \/ /\ Works(n) /\ SendFails(n) /\ Left("main", n)
          /\ UNCHANGED <<mutex, pc, target>>
    BY <1>1 DEF output_send_debug
  <2>2. n \in Names
    BY <1>0 DEF TypeOK
  <2>3. UNCHANGED <<out, swallowed, bytes, queue, mustStop, sent, crashes, controls, reloads, lost,
                    listed, open, talk, SPEAKING, polled, message>>
    BY <1>1 DEF output_send_debug, DebugUnchanged
  <2>4. CASE ~Works(n) /\ Left("main", n)
          /\ UNCHANGED <<working, proc, inp, speaking_module, mutex, pc, target>>
    <3>1. todo' \in [Threads -> SUBSET Names]
      BY <1>a, <2>2, <2>4
    <3>2. PcOK(pc')
      BY <1>0, <2>4 DEF TypeOK
    <3>3. QED
      BY <1>0, <2>3, <2>4, <3>1, <3>2, ZenonT(40) DEF TypeOK
  <2>5. CASE /\ Works(n) /\ Sends(n, <<"debug">>)
          /\ target' = [target EXCEPT !["main"] = n]
          /\ output_lock("main") /\ Goes("main", "debug_reply")
          /\ UNCHANGED <<speaking_module, todo>>
    <3>1. PcOK(pc')
      BY <1>0, <2>5, GoesTypes
    <3>2. <<"debug">> \in Seq(Commands)
      BY DEF Commands
    <3>3. target' \in [Threads -> Names \cup {NULL}] /\ mutex' = "main"
      BY <1>0, <2>2, <2>5 DEF TypeOK, output_lock
    <3>4. QED
      BY <1>0, <2>2, <2>3, <2>5, <3>1, <3>2, <3>3, SendsTypes DEF TypeOK
  <2>6. CASE /\ Works(n) /\ SendFails(n) /\ Left("main", n)
          /\ UNCHANGED <<mutex, pc, target>>
    <3>1. todo' \in [Threads -> SUBSET Names]
      BY <1>a, <2>2, <2>6
    <3>2. PcOK(pc')
      BY <1>0, <2>6 DEF TypeOK
    <3>3. /\ working' \in [Names -> BOOLEAN] /\ speaking_module' = NULL
          /\ proc' \in [Names -> {"up", "dead", "reaped"}]
          /\ inp' \in [Names -> Seq(Commands)]
      BY <1>0, <2>2, <2>6, SendFailsTypes
    <3>4. QED
      BY <1>0, <2>3, <2>6, <3>1, <3>2, <3>3, ZenonT(40) DEF TypeOK
  <2>7. QED
    BY <2>1, <2>4, <2>5, <2>6
<1>2. CASE DebugReply
  <2> DEFINE n == target["main"]
  <2>1. n \in Names
    BY <1>2 DEF Base, Reloads, TypeOK, DebugReply
  <2>2. UNCHANGED <<inp, target, bytes, queue, mustStop, sent, crashes, controls, reloads, lost,
                    listed, open, talk, SPEAKING, polled, message>> /\ mutex' = NULL
    BY <1>2 DEF DebugReply, DebugUnchanged, output_unlock
  <2>3. PcOK(pc')
    BY <1>0, <1>2, GoesTypes DEF DebugReply
  <2>4. todo' \in [Threads -> SUBSET Names]
    BY <1>2, <2>1, <1>a DEF DebugReply
  <2>5. swallowed' \in BOOLEAN
    BY <1>0, <1>2 DEF DebugReply, Expects, TypeOK
  <2>6. (\E line : Reads(n, line) /\ UNCHANGED speaking_module) \/ ReadFails(n)
    BY <1>2 DEF DebugReply
  <2> HIDE DEF n
  <2>7. QED
    BY <1>0, <2>1, <2>2, <2>3, <2>4, <2>5, <2>6, ReadsTypes, ReadFailsTypes DEF TypeOK
<1>3. CASE DebugEnds
  <2>1. PcOK(pc')
    BY <1>0, <1>3, GoesTypes DEF DebugEnds
  <2>2. QED
    BY <1>0, <1>3, <2>1, ZenonT(40) DEF TypeOK, DebugEnds, DebugUnchanged
<1>4. CASE quit
  <2>1. PcOK(pc') /\ todo' \in [Threads -> SUBSET Names]
    BY <1>0, <1>4 DEF quit, TypeOK
  <2>2. QED
    BY <1>0, <1>4, <2>1, ZenonT(40) DEF TypeOK, quit
<1>5. CASE QuitEnds
  <2>1. PcOK(pc')
    BY <1>0, <1>5, GoesTypes DEF QuitEnds
  <2>2. QED
    BY <1>0, <1>5, <2>1, ZenonT(40) DEF TypeOK, QuitEnds
<1>6. QED
  BY <1>1, <1>2, <1>3, <1>4, <1>5

LEMMA ClosesTypes ==
    ASSUME OutputAssumption, Base, NEW t \in {"main", "signal"}, Closes(t)
    PROVE  TypeOK'
<1> USE DEF MainUnchanged, modules, pipes, talking, counters, ghosts, PcOK,
            SpeakPlaces, MainPlaces, SignalPlaces, Threads
<1>0. TypeOK /\ t \in Threads /\ NULL \notin Names
  BY DEF Base, OutputAssumption
<1>a. ASSUME NEW to \in {"close", "quit", "wait", "shut"}, Goes(t, to) PROVE PcOK(pc')
  BY <1>0, <1>a DEF Goes, TypeOK
<1>b. pc[t] \in HasTarget => target[t] \in Names
  BY <1>0 DEF Base, Reloads, TypeOK
<1>1. CASE output_close(t)
  <2>1. PICK n \in todo[t] :
       /\ target' = [target EXCEPT ![t] = n]
       /\ \/ working[n] /\ Sends(n, <<"stop", "quit">>) /\ Goes(t, "quit")
             /\ mutex' = t /\ UNCHANGED speaking_module
          \/ working[n] /\ SendFails(n) /\ Goes(t, "shut") /\ UNCHANGED mutex
          \/ ~working[n] /\ Goes(t, "wait") /\ mutex' = t
             /\ UNCHANGED <<working, proc, inp, speaking_module>>
    BY <1>1 DEF output_close
  <2>2. n \in Names
    BY <1>0 DEF TypeOK
  <2>3. UNCHANGED <<listed, open, out, todo, swallowed, reloading, talk, SPEAKING, polled,
                    bytes, queue, message, mustStop, sent, crashes, controls, reloads, lost>>
    BY <1>1 DEF output_close, CloseUnchanged
  <2>4. target' \in [Threads -> Names \cup {NULL}] /\ mutex' \in Threads \cup {NULL}
    BY <1>0, <2>1, <2>2 DEF TypeOK
  <2>5. PcOK(pc')
    BY <1>a, <2>1
  <2>6. <<"stop", "quit">> \in Seq(Commands)
    BY DEF Commands
  <2>7. /\ working' \in [Names -> BOOLEAN] /\ speaking_module' \in Names \cup {NULL}
        /\ proc' \in [Names -> {"up", "dead", "reaped"}]
        /\ inp' \in [Names -> Seq(Commands)]
    BY <1>0, <2>1, <2>2, <2>6, SendsTypes, SendFailsTypes DEF TypeOK
  <2>8. QED
    BY <1>0, <2>3, <2>4, <2>5, <2>7 DEF TypeOK
<1>2. CASE QuitReply(t)
  <2> DEFINE n == target[t]
  <2>1. n \in Names
    BY <1>2, <1>b DEF QuitReply, HasTarget
  <2>2. UNCHANGED <<listed, open, inp, target, todo, swallowed, reloading, talk, SPEAKING, polled,
                    bytes, queue, message, mustStop, sent, crashes, controls, reloads, lost>>
    BY <1>2 DEF QuitReply, CloseUnchanged
  <2>3. PcOK(pc')
    BY <1>2, <1>a DEF QuitReply
  <2>4. mutex' \in Threads \cup {NULL}
    BY <1>0, <1>2 DEF QuitReply, output_unlock, TypeOK
  <2>5. (\E line : Reads(n, line) /\ UNCHANGED speaking_module) \/ ReadFails(n)
    BY <1>2 DEF QuitReply
  <2> HIDE DEF n
  <2>6. QED
    BY <1>0, <2>1, <2>2, <2>3, <2>4, <2>5, ReadsTypes, ReadFailsTypes DEF TypeOK
<1>3. CASE waitpid_with_timeout(t)
  <2>1. PcOK(pc')
    BY <1>3, <1>a DEF waitpid_with_timeout
  <2>2. proc' \in [Names -> {"up", "dead", "reaped"}] /\ mutex' = NULL
    BY <1>0, <1>3 DEF waitpid_with_timeout, TypeOK, output_unlock
  <2>3. QED
    BY <1>0, <1>3, <2>1, <2>2 DEF waitpid_with_timeout, TypeOK
<1>4. CASE unload_output_module(t)
  <2>1. PcOK(pc')
    BY <1>4, <1>a DEF unload_output_module
  <2>2. /\ working' \in [Names -> BOOLEAN] /\ open' \in [Names -> BOOLEAN]
        /\ listed' \subseteq Names /\ todo' \in [Threads -> SUBSET Names]
    BY <1>0, <1>4 DEF unload_output_module, TypeOK, Left
  <2>3. QED
    BY <1>0, <1>4, <2>1, <2>2, ZenonT(40) DEF unload_output_module, ShutUnchanged, TypeOK
<1>5. QED
  BY <1>1, <1>2, <1>3, <1>4 DEF Closes

LEMMA LoadTypes ==
    ASSUME TypeOK, NEW S \in SUBSET Names, load_output_module(S)
    PROVE  /\ working' \in [Names -> BOOLEAN] /\ open' \in [Names -> BOOLEAN]
           /\ proc' \in [Names -> {"up", "dead", "reaped"}]
           /\ inp' \in [Names -> Seq(Commands)] /\ out' \in [Names -> Seq(Lines)]
           /\ talk' \in [Names -> {"silent", "accepted", "begun"}]
<1>1. <<>> \in Seq(Commands) /\ <<>> \in Seq(Lines)
  OBVIOUS
<1>2. working' \in [Names -> BOOLEAN] /\ open' \in [Names -> BOOLEAN]
  BY Zenon DEF load_output_module, TypeOK
<1>3. QED
  BY <1>1, <1>2 DEF load_output_module, send_initial_commands, TypeOK

LEMMA SignalTypes ==
    ASSUME OutputAssumption, Base,
           \/ Joined \/ reload_output_module \/ start_speak_thread \/ SIGINT
           \/ \E kind \in {"dead", "all"} : catch_signals(kind)
    PROVE  TypeOK'
<1> USE DEF SignalUnchanged, modules, pipes, talking, counters, ghosts, PcOK,
            SpeakPlaces, MainPlaces, SignalPlaces, Threads
<1>0. TypeOK /\ "signal" \in Threads /\ NULL \notin Names
  BY DEF Base, OutputAssumption
<1>1. CASE Joined
  <2>1. PcOK(pc')
    BY <1>0, <1>1, GoesTypes DEF Joined
  <2>2. todo' \in [Threads -> SUBSET Names]
    BY <1>0, <1>1 DEF Joined, ToReload, TypeOK
  <2>3. QED
    BY <1>0, <1>1, <2>1, <2>2, ZenonT(40) DEF Joined, TypeOK
<1>2. CASE reload_output_module
  <2> DEFINE n == target["signal"]
  <2>1. n \in Names
    BY <1>0, <1>2 DEF reload_output_module, Base, Reloads, TypeOK, HasTarget
  <2>2. PcOK(pc') /\ todo' \in [Threads -> SUBSET Names]
    <3>1. PcOK(pc')
      BY <1>0, <1>2, GoesTypes DEF reload_output_module
    <3>2. QED
      BY <1>0, <1>2, <3>1 DEF reload_output_module, Left, TypeOK
  <2>3. load_output_module({n}) \/ (open' = [open EXCEPT ![n] = FALSE]
             /\ UNCHANGED <<working, proc, pipes, talk>>)
    BY <1>2 DEF reload_output_module
  <2>4. UNCHANGED <<listed, speaking_module, SPEAKING, polled, bytes, mutex, target, queue, message,
                mustStop, sent, crashes, controls, reloads, lost, swallowed, reloading>>
    BY <1>2 DEF reload_output_module, ShutUnchanged
  <2> HIDE DEF n
  <2>5. CASE load_output_module({n})
    <3>1. {n} \in SUBSET Names
      BY <2>1
    <3>2. /\ working' \in [Names -> BOOLEAN] /\ open' \in [Names -> BOOLEAN]
          /\ proc' \in [Names -> {"up", "dead", "reaped"}]
          /\ inp' \in [Names -> Seq(Commands)] /\ out' \in [Names -> Seq(Lines)]
          /\ talk' \in [Names -> {"silent", "accepted", "begun"}]
      BY <1>0, <2>5, <3>1, LoadTypes
    <3>3. QED
      BY <1>0, <2>2, <2>4, <3>2, ZenonT(40) DEF TypeOK
  <2>6. CASE open' = [open EXCEPT ![n] = FALSE] /\ UNCHANGED <<working, proc, pipes, talk>>
    BY <1>0, <2>1, <2>2, <2>4, <2>6 DEF TypeOK
  <2>7. QED
    BY <2>3, <2>5, <2>6
<1>3. CASE start_speak_thread
  <2>1. PcOK(pc')
    BY <1>0, <1>3 DEF start_speak_thread, TypeOK
  <2>2. UNCHANGED <<speaking_module, SPEAKING, polled, mutex, target, todo, queue, message,
                    mustStop, bytes, sent, crashes, controls, reloads, lost, swallowed>>
        /\ reloading' = "no"
    BY <1>3 DEF start_speak_thread
  <2>3. CASE configure
    <3>1. PICK S \in SUBSET Names : load_output_module(S) /\ listed' = S
      BY <2>3 DEF configure
    <3>2. QED
      BY <1>0, <2>1, <2>2, <3>1, LoadTypes DEF TypeOK
  <2>4. CASE UNCHANGED <<listed, working, open, proc, pipes, talk>>
    BY <1>0, <2>1, <2>2, <2>4 DEF TypeOK
  <2>5. QED
    BY <1>3, <2>3, <2>4 DEF start_speak_thread
<1>4. CASE SIGINT
  <2>1. PcOK(pc')
    BY <1>0, <1>4, GoesTypes DEF SIGINT
  <2>2. QED
    BY <1>0, <1>4, <2>1, ZenonT(40) DEF SIGINT, TypeOK
<1>5. ASSUME NEW kind \in {"dead", "all"}, catch_signals(kind) PROVE TypeOK'
  <2>1. PcOK(pc')
    BY <1>0, <1>5, GoesTypes DEF catch_signals
  <2>2. reloads' \in Nat /\ bytes' \in Nat
    <3>1. reloads \in Nat /\ bytes \in Nat
      BY <1>0 DEF TypeOK
    <3>2. QED
      BY <1>5, <3>1 DEF catch_signals
  <2>3. QED
    BY <1>0, <1>5, <2>1, <2>2 DEF catch_signals, TypeOK
<1>6. QED
  BY <1>1, <1>2, <1>3, <1>4, <1>5

LEMMA ModuleTypes ==
    ASSUME Base, NEW n \in Names, Module(n) \/ Crashes(n) PROVE TypeOK'
<1> USE DEF ModuleUnchanged, modules, pipes, talking, counters, ghosts
<1>0. TypeOK
  BY DEF Base
<1>1. CASE Obeys(n)
  <2>1. inp' \in [Names -> Seq(Commands)]
    BY <1>0, <1>1 DEF Obeys, TypeOK
  <2>2. out' = out \/ \E line \in Lines : out' = [out EXCEPT ![n] = Append(@, line)]
    <3>1. \/ out' = out \/ out' = [out EXCEPT ![n] = Append(@, "ok")]
          \/ out' = [out EXCEPT ![n] = Append(@, "err")]
      BY <1>1 DEF Obeys
    <3>2. QED
      BY <3>1 DEF Lines
  <2>3. out' \in [Names -> Seq(Lines)]
    <3>1. out \in [Names -> Seq(Lines)]
      BY <1>0 DEF TypeOK
    <3>2. ASSUME NEW line \in Lines, out' = [out EXCEPT ![n] = Append(@, line)]
          PROVE  out' \in [Names -> Seq(Lines)]
      BY <3>1, <3>2
    <3>3. QED
      BY <2>2, <3>1, <3>2
  <2>4. /\ talk' \in [Names -> {"silent", "accepted", "begun"}]
        /\ proc' \in [Names -> {"up", "dead", "reaped"}]
    <3>1. talk' = talk \/ talk' = [talk EXCEPT ![n] = "accepted"]
      BY <1>1 DEF Obeys
    <3>2. proc' = proc \/ proc' = [proc EXCEPT ![n] = "dead"]
      BY <1>1 DEF Obeys
    <3>3. QED
      BY <1>0, <3>1, <3>2, ZenonT(40) DEF TypeOK
  <2>5. UNCHANGED <<crashes, modules, talking, bytes, mutex, pc, target, todo, queue, message,
                mustStop, sent, controls, reloads, ghosts, reloading>>
    BY <1>1 DEF Obeys
  <2>6. QED
    BY <1>0, <2>1, <2>3, <2>4, <2>5 DEF TypeOK
<1>2. CASE Reports(n)
  <2>1. out' \in [Names -> Seq(Lines)]
    <3>1. \E line \in Lines : out' = [out EXCEPT ![n] = Append(@, line)]
      BY <1>2 DEF Reports, Lines
    <3>2. QED
      BY <1>0, <3>1 DEF TypeOK
  <2>2. talk' \in [Names -> {"silent", "accepted", "begun"}]
    BY <1>0, <1>2 DEF Reports, TypeOK
  <2>3. QED
    BY <1>0, <1>2, <2>1, <2>2 DEF TypeOK, Reports
<1>3. CASE Crashes(n)
  BY <1>0, <1>3 DEF Crashes, TypeOK
<1>4. QED
  BY <1>1, <1>2, <1>3 DEF Module

LEMMA NextTypes == ASSUME OutputAssumption, Base, [Next]_vars PROVE TypeOK'
<1>1. CASE Speak
  BY <1>1, SpeakTypes1, SpeakTypes2 DEF Speak
<1>2. CASE Main
  BY <1>2, MainTypes, ClosesTypes DEF Main
<1>3. CASE Signal
  BY <1>3, SignalTypes, ClosesTypes DEF Signal
<1>4. CASE UNCHANGED vars
  BY <1>4 DEF vars, modules, pipes, talking, counters, ghosts, Base, TypeOK
<1>5. QED
  BY <1>1, <1>2, <1>3, <1>4, ClientsTypes, SignalTypes, ModuleTypes DEF Next, Exited

-----------------------------------------------------------------------------
(* The rest of the base.                                                   *)

\* no module begins to work but by being loaded
NoneRevived == \A n \in Names : working'[n] => working[n]

LEMMA BrokenRevivesNone ==
    ASSUME TypeOK, NEW n \in Names,
           Broken(n) \/ ReadFails(n) \/ SendFails(n)
           \/ (\E line : Reads(n, line)) \/ (\E cmds : Sends(n, cmds))
    PROVE  NoneRevived
BY DEF NoneRevived, Broken, ReadFails, SendFails, Reads, Sends, TypeOK

LEMMA SpeakEffects ==
    ASSUME OutputAssumption, Base, Speak
    PROVE  /\ UNCHANGED <<listed, open, todo, reloading>>
           /\ NoneRevived
           /\ \E to : Goes("speak", to)
           /\ target'["main"] = target["main"] /\ target'["signal"] = target["signal"]
           /\ pc["speak"] # "gone"
           /\ pc'["speak"] = "gone" => mustStop /\ ~mustStop' /\ speaking_module' = NULL
           /\ pc'["speak"] # "gone" => mustStop' = mustStop
           /\ \/ speaking_module' \in {speaking_module, NULL}
              \/ Works(speaking_module') /\ speaking_module' # NULL
           /\ pc'["speak"] \in {"event_lock", "event", "set", "say"}
              => target'["speak"] # NULL
<1> USE DEF SpeakUnchanged, modules, pipes, talking, counters, ghosts
<1>0. /\ TypeOK /\ NULL \notin Names /\ UNCHANGED reloading
      /\ pc["speak"] \in {"event_lock", "event", "set", "say"}
         => target["speak"] # NULL /\ target["speak"] \in Names
      /\ pc \in [Threads -> SpeakPlaces \cup MainPlaces \cup SignalPlaces]
      /\ target \in [Threads -> Names \cup {NULL}]
  <2>1. TypeOK /\ NULL \notin Names /\ UNCHANGED reloading
    BY DEF Base, Speak, OutputAssumption
  <2>2. /\ pc \in [Threads -> SpeakPlaces \cup MainPlaces \cup SignalPlaces]
        /\ target \in [Threads -> Names \cup {NULL}]
    BY <2>1 DEF TypeOK
  <2>3. target["speak"] \in Names \cup {NULL}
    BY <2>2 DEF Threads
  <2>4. QED
    BY <2>1, <2>2, <2>3 DEF Base, Reloads
<1> USE DEF Threads
<1>1. CASE wait_for_poll
  BY <1>0, <1>1 DEF wait_for_poll, Goes, NoneRevived
<1>2. CASE speaking_module_cleanup
  BY <1>0, <1>2 DEF speaking_module_cleanup, Goes, NoneRevived
<1>3. CASE is_sb_speaking
  BY <1>0, <1>3 DEF is_sb_speaking, Goes, NoneRevived
<1>4. CASE EventLock
  BY <1>0, <1>4 DEF EventLock, Goes, NoneRevived
<1>5. CASE TakesMessage
  BY <1>0, <1>5 DEF TakesMessage, Goes, NoneRevived
<1>6. CASE PollsAgain
  BY <1>0, <1>6 DEF PollsAgain, Goes, NoneRevived
<1>7. CASE ThreadEnds
  BY <1>0, <1>7 DEF ThreadEnds, Goes, NoneRevived
<1>8. CASE Said
  BY <1>0, <1>8 DEF Said, Goes, NoneRevived
<1> DEFINE n == target["speak"]
<1>9. CASE output_module_is_speaking
  <2>1. n \in Names
    BY <1>0, <1>9 DEF output_module_is_speaking
  <2>2. /\ speaking_module' \in {speaking_module, NULL}
        /\ ReadFails(n) \/ (\E line : Reads(n, line))
    BY <1>9 DEF output_module_is_speaking, ReadFails, Broken
  <2>3. NoneRevived
    BY <1>0, <2>1, <2>2, BrokenRevivesNone
  <2>4. UNCHANGED <<listed, open, todo, target, mustStop>> /\ Goes("speak", "next")
    BY <1>9 DEF output_module_is_speaking
  <2>5. QED
    BY <1>0, <1>9, <2>2, <2>3, <2>4 DEF Goes, output_module_is_speaking
<1>10. CASE output_speak
  <2>1. PICK m \in get_output_module(message) :
       \/ /\ m = NULL /\ Drops
          /\ UNCHANGED <<working, proc, inp, speaking_module, mutex, target>>
       \/ /\ m # NULL /\ Sends(m, <<"set">>)
          /\ speaking_module' = m
          /\ target' = [target EXCEPT !["speak"] = m]
          /\ output_lock("speak") /\ Goes("speak", "set")
          /\ UNCHANGED <<message, lost>>
       \/ /\ m # NULL /\ SendFails(m) /\ Drops
          /\ UNCHANGED <<mutex, target>>
    BY <1>10 DEF output_speak
  <2>2. m # NULL => m \in Names /\ Works(m)
    BY <1>0 DEF get_output_module, Works, TypeOK
  <2>3. NoneRevived
    BY <1>0, <2>1, <2>2, BrokenRevivesNone DEF NoneRevived
  <2>4. UNCHANGED <<listed, open, todo, mustStop>>
    BY <1>10 DEF output_speak
  <2>5. \/ speaking_module' \in {speaking_module, NULL}
        \/ Works(speaking_module') /\ speaking_module' # NULL
    BY <2>1, <2>2 DEF SendFails, Broken
  <2>6. \/ Goes("speak", "poll") /\ UNCHANGED target
        \/ Goes("speak", "set") /\ target' = [target EXCEPT !["speak"] = m] /\ m # NULL
    BY <2>1 DEF Drops
  <2>7. pc["speak"] = "speak"
    BY <1>10 DEF output_speak
  <2> HIDE DEF modules, pipes, talking, counters, ghosts, SpeakUnchanged
  <2>8. QED
    BY <1>0, <2>3, <2>4, <2>5, <2>6, <2>7 DEF Goes
<1>11. CASE output_send_settings \/ SpeakReply
  <2>1. n \in Names
    BY <1>0, <1>11 DEF output_send_settings, SpeakReply
  <2>2. speaking_module' \in {speaking_module, NULL}
    BY <1>11 DEF output_send_settings, SpeakReply, Refused, ReadFails, Broken, SendFails
  <2>3. \/ SendFails(n) \/ ReadFails(n) \/ (\E line : Reads(n, line)) \/ UNCHANGED working
    BY <1>11 DEF output_send_settings, SpeakReply, Refused
  <2>4. NoneRevived
    BY <1>0, <2>1, <2>3, BrokenRevivesNone DEF NoneRevived
  <2>5. UNCHANGED <<listed, open, todo, target, mustStop>>
        /\ (Goes("speak", "poll") \/ Goes("speak", "say") \/ Goes("speak", "said"))
    BY <1>11 DEF output_send_settings, SpeakReply, Drops
  <2>6. pc["speak"] \in {"set", "say"}
    BY <1>11 DEF output_send_settings, SpeakReply
  <2> HIDE DEF modules, pipes, talking, counters, ghosts, SpeakUnchanged
  <2>7. QED
    BY <1>0, <2>2, <2>4, <2>5, <2>6 DEF Goes
<1>12. QED
  BY <1>1, <1>2, <1>3, <1>4, <1>5, <1>6, <1>7, <1>8, <1>9, <1>10, <1>11 DEF Speak

LEMMA SpeakBase ==
    ASSUME OutputAssumption, Base, Speak, TypeOK' PROVE Base'
<1>0. TypeOK /\ NULL \notin Names
  BY DEF Base, OutputAssumption
<1>1. /\ UNCHANGED <<listed, open, todo, reloading>>
      /\ NoneRevived
      /\ pc'["main"] = pc["main"] /\ pc'["signal"] = pc["signal"]
      /\ target'["main"] = target["main"] /\ target'["signal"] = target["signal"]
      /\ pc["speak"] # "gone"
      /\ pc'["speak"] = "gone" => mustStop /\ ~mustStop' /\ speaking_module' = NULL
      /\ pc'["speak"] # "gone" => mustStop' = mustStop
      /\ \/ speaking_module' \in {speaking_module, NULL}
         \/ Works(speaking_module') /\ speaking_module' # NULL
      /\ pc'["speak"] \in {"event_lock", "event", "set", "say"}
         => target'["speak"] # NULL
  BY SpeakEffects, <1>0 DEF Goes, TypeOK, Threads
<1>2. Restarts'
  BY <1>1 DEF Base, Restarts, Open, Closing
<1>3. Reloads'
  <2>1. \A t \in {"main", "signal"} : pc'[t] \in HasTarget => target'[t] \in todo'[t]
    BY <1>1 DEF Base, Reloads
  <2>2. pc'["main"] = "debug_reply" => target'["main"] # NULL
    BY <1>1 DEF Base, Reloads
  <2>3. \A n \in todo["signal"] : working'[n] => working[n]
    BY <1>0, <1>1 DEF NoneRevived, TypeOK, Threads
  <2>4. QED
    BY <1>1, <2>1, <2>2, <2>3 DEF Base, Reloads
<1>4. Loaded'
  BY <1>1 DEF Base, Loaded, NoneRevived
<1>5. Live'
  BY <1>0, <1>1 DEF Base, Loaded, Live, Open, Works, TypeOK
<1>6. QED
  BY <1>2, <1>3, <1>4, <1>5 DEF Base

\* what the main thread does as long as it serves clients
LEMMA ServeBase ==
    ASSUME OutputAssumption, Base, TypeOK',
           Clients \/ ((output_send_debug \/ DebugReply \/ DebugEnds) /\ UNCHANGED reloading)
    PROVE  Base'
<1> USE DEF MainUnchanged, DebugUnchanged, modules, pipes, talking, counters, ghosts
<1>0. /\ TypeOK /\ NULL \notin Names /\ Threads = {"speak", "main", "signal"}
      /\ pc \in [Threads -> SpeakPlaces \cup MainPlaces \cup SignalPlaces]
      /\ todo \in [Threads -> SUBSET Names]
      /\ target \in [Threads -> Names \cup {NULL}]
  BY DEF Base, OutputAssumption, TypeOK, Threads
<1>1. /\ UNCHANGED <<listed, open, reloading, mustStop>>
      /\ speaking_module' \in {speaking_module, NULL}
      /\ UNCHANGED pc \/ (\E to \in {"idle", "debug", "debug_reply"} : Goes("main", to))
      /\ pc["main"] \in {"idle", "debug", "debug_reply"}
  <2>1. CASE \E name \in Names \ {Dummy} : queue_message(name)
    BY <2>1, <1>0 DEF Clients, queue_message
  <2>2. CASE output_stop
    BY <2>2, <1>0 DEF Clients, output_stop, Sends, SendFails, Broken
  <2>3. CASE modules_debug
    BY <2>3, <1>0 DEF Clients, modules_debug
  <2>4. CASE output_send_debug /\ UNCHANGED reloading
    BY <2>4, <1>0 DEF output_send_debug, Sends, SendFails, Broken
  <2>5. CASE (DebugReply \/ DebugEnds) /\ UNCHANGED reloading
    BY <2>5, <1>0 DEF DebugReply, DebugEnds, Reads, ReadFails, Broken
  <2>6. QED
    BY <2>1, <2>2, <2>3, <2>4, <2>5 DEF Clients
<1>2. NoneRevived
  <2>1. CASE Clients
    <3>1. CASE UNCHANGED working
      BY <3>1 DEF NoneRevived
    <3>2. CASE /\ speaking_module \in Names
               /\ Sends(speaking_module, <<"stop">>) \/ SendFails(speaking_module)
      BY <1>0, <3>2, BrokenRevivesNone
    <3>3. QED
      BY <1>0, <2>1, <3>1, <3>2
      DEF Clients, queue_message, output_stop, modules_debug, TypeOK
  <2>2. CASE output_send_debug
    <3>1. PICK n \in todo["main"] : UNCHANGED working \/ Sends(n, <<"debug">>) \/ SendFails(n)
      BY <2>2 DEF output_send_debug
    <3>2. n \in Names
      BY <1>0
    <3>3. QED
      BY <1>0, <3>1, <3>2, BrokenRevivesNone DEF NoneRevived
  <2>3. CASE DebugReply
    <3>1. target["main"] \in Names
      BY <1>0, <2>3 DEF DebugReply, Base, Reloads
    <3>2. ReadFails(target["main"]) \/ \E line : Reads(target["main"], line)
      BY <2>3 DEF DebugReply
    <3>3. QED
      BY <1>0, <3>1, <3>2, BrokenRevivesNone
  <2>4. CASE DebugEnds
    BY <2>4 DEF DebugEnds, NoneRevived
  <2>5. QED
    BY <2>1, <2>2, <2>3, <2>4
<1>3. /\ UNCHANGED todo \/ \E S : todo' = [todo EXCEPT !["main"] = S]
      /\ UNCHANGED target \/ \E n \in todo["main"] : target' = [target EXCEPT !["main"] = n]
      /\ pc'["main"] = "debug_reply" =>
            (pc["main"] = "debug_reply" /\ UNCHANGED target)
            \/ \E n \in todo["main"] : target' = [target EXCEPT !["main"] = n]
  <2>1. CASE \E name \in Names \ {Dummy} : queue_message(name)
    BY <2>1, <1>0 DEF queue_message
  <2>2. CASE output_stop
    BY <2>2, <1>0 DEF output_stop
  <2>3. CASE modules_debug
    BY <2>3, <1>0 DEF modules_debug, Goes
  <2>4. CASE output_send_debug
    BY <2>4, <1>0 DEF output_send_debug, Left, Goes
  <2>5. CASE DebugReply
    BY <2>5, <1>0 DEF DebugReply, Left, Goes
  <2>6. CASE DebugEnds
    BY <2>6, <1>0 DEF DebugEnds, Goes
  <2>7. QED
    BY <2>1, <2>2, <2>3, <2>4, <2>5, <2>6 DEF Clients
<1> HIDE DEF MainUnchanged, DebugUnchanged, modules, pipes, talking, counters, ghosts
<1>4. /\ pc'["speak"] = pc["speak"] /\ pc'["signal"] = pc["signal"]
      /\ pc'["main"] \in {"idle", "debug", "debug_reply"}
  BY <1>0, <1>1 DEF Goes
<1>5. Restarts'
  BY <1>1, <1>4 DEF Base, Restarts, Open, Closing
<1>6. /\ todo'["signal"] = todo["signal"] /\ target'["signal"] = target["signal"]
      /\ target'["speak"] = target["speak"]
      /\ pc'["main"] = "debug_reply" => target'["main"] # NULL
  BY <1>0, <1>3 DEF Base, Reloads
<1>7. Reloads'
  <2>1. \A t \in {"main", "signal"} : pc'[t] \in HasTarget => target'[t] \in todo'[t]
    BY <1>4, <1>6 DEF Base, Reloads, HasTarget
  <2>2. \A n \in todo["signal"] : working'[n] => working[n]
    BY <1>0, <1>2 DEF NoneRevived
  <2>3. QED
    BY <1>1, <1>4, <1>6, <2>1, <2>2 DEF Base, Reloads
<1>8. Loaded'
  BY <1>1, <1>2 DEF Base, Loaded, NoneRevived
<1>9. Live'
  BY <1>1 DEF Base, Live, Open
<1>10. QED
  BY <1>5, <1>7, <1>8, <1>9 DEF Base

LEMMA CloseBase ==
    ASSUME OutputAssumption, Base, TypeOK', NEW t \in {"main", "signal"}, Closes(t)
    PROVE  Base'
<1> USE DEF modules, pipes, talking, counters, ghosts
<1>0. /\ TypeOK /\ NULL \notin Names /\ Threads = {"speak", "main", "signal"}
      /\ pc \in [Threads -> SpeakPlaces \cup MainPlaces \cup SignalPlaces]
      /\ todo \in [Threads -> SUBSET Names]
      /\ target \in [Threads -> Names \cup {NULL}]
      /\ working \in [Names -> BOOLEAN] /\ open \in [Names -> BOOLEAN]
  BY DEF Base, OutputAssumption, TypeOK, Threads
<1>1. pc[t] \in Closing /\ pc[t] # "gone"
  BY DEF Closes, output_close, QuitReply, waitpid_with_timeout, unload_output_module, Closing
<1>2. /\ pc["speak"] = "gone"
      /\ t = "signal" /\ Open => speaking_module = NULL
      /\ t = "main" => ~Open /\ pc["signal"] = "ended"
      /\ t = "signal" => reloading \in {"dead", "all"}
  BY <1>1 DEF Base, Restarts, Open, Closing
<1>3. /\ UNCHANGED <<reloading, mustStop>>
      /\ speaking_module' \in {speaking_module, NULL}
      /\ \E to \in Closing : Goes(t, to)
  <2>1. CASE output_close(t)
    BY <2>1 DEF output_close, CloseUnchanged, Sends, SendFails, Broken, Closing
  <2>2. CASE QuitReply(t)
    BY <2>2 DEF QuitReply, CloseUnchanged, Reads, ReadFails, Broken, Closing
  <2>3. CASE waitpid_with_timeout(t)
    BY <2>3 DEF waitpid_with_timeout, Closing
  <2>4. CASE unload_output_module(t)
    BY <2>4 DEF unload_output_module, ShutUnchanged, Closing
  <2>5. QED
    BY <2>1, <2>2, <2>3, <2>4 DEF Closes
<1>4. NoneRevived
  <2>1. CASE output_close(t)
    <3>1. PICK n \in todo[t] :
            UNCHANGED working \/ SendFails(n) \/ (\E cmds : Sends(n, cmds))
      BY <2>1 DEF output_close
    <3>2. n \in Names
      BY <1>0
    <3>3. QED
      BY <1>0, <3>1, <3>2, BrokenRevivesNone DEF NoneRevived
  <2>2. CASE QuitReply(t)
    <3>1. target[t] \in Names
      BY <1>0, <2>2 DEF QuitReply, Base, Reloads, HasTarget
    <3>2. ReadFails(target[t]) \/ \E line : Reads(target[t], line)
      BY <2>2 DEF QuitReply
    <3>3. QED
      BY <1>0, <3>1, <3>2, BrokenRevivesNone
  <2>3. CASE waitpid_with_timeout(t)
    BY <2>3 DEF waitpid_with_timeout, NoneRevived
  <2>4. CASE unload_output_module(t)
    BY <1>0, <2>4 DEF unload_output_module, NoneRevived
  <2>5. QED
    BY <2>1, <2>2, <2>3, <2>4 DEF Closes
<1>5. /\ \A s \in Threads \ {t} : pc'[s] = pc[s]
      /\ pc'[t] \in Closing
  BY <1>0, <1>3 DEF Goes
<1>6. Restarts'
  <2>1. pc'["speak"] = "gone" /\ ~mustStop'
    BY <1>0, <1>1, <1>2, <1>3, <1>5 DEF Base, Restarts
  <2>2. CASE t = "signal"
    <3>1. pc'["signal"] \in Closing /\ pc'["main"] = pc["main"]
      BY <1>0, <1>5, <2>2
    <3>2. pc'["signal"] \notin {"stopping", "ended"} /\ pc["signal"] \notin {"stopping", "ended"}
      BY <1>1, <2>2, <3>1 DEF Closing
    <3>3. pc["main"] \in {"idle", "debug", "debug_reply"}
      BY <3>2 DEF Base, Restarts, Open
    <3>4. speaking_module' = NULL
      BY <1>2, <1>3, <2>2, <3>3 DEF Open
    <3>5. reloading' \in {"dead", "all"}
      BY <1>2, <1>3, <2>2
    <3>6. QED
      BY <2>1, <3>1, <3>2, <3>3, <3>4, <3>5 DEF Restarts, Open
  <2>3. CASE t = "main"
    <3>1. pc'["signal"] = "ended" /\ pc'["main"] \in Closing
      BY <1>0, <1>2, <1>5, <2>3
    <3>2. QED
      BY <2>1, <3>1 DEF Restarts, Open, Closing
  <2>4. QED
    BY <2>2, <2>3
<1>7. /\ \A s \in Threads \ {t} : target'[s] = target[s] /\ todo'[s] = todo[s]
      /\ pc'[t] \in HasTarget => target'[t] \in todo'[t]
      /\ \A n \in todo'[t] : n \in todo[t]
  <2>1. CASE output_close(t)
    BY <1>0, <2>1 DEF output_close
  <2>2. CASE QuitReply(t)
    BY <1>0, <2>2 DEF QuitReply, Base, Reloads, HasTarget
  <2>3. CASE waitpid_with_timeout(t)
    BY <1>0, <2>3 DEF waitpid_with_timeout, Base, Reloads, HasTarget
  <2>4. CASE unload_output_module(t)
    BY <1>0, <2>4 DEF unload_output_module, ShutUnchanged, Left, Goes, HasTarget
  <2>5. QED
    BY <2>1, <2>2, <2>3, <2>4 DEF Closes
<1>8. /\ t = "signal" /\ reloading = "dead" => UNCHANGED <<listed, open>>
      /\ \A n \in listed' : n \in listed /\ (n \in todo[t] => n \in todo'[t])
  <2>1. CASE unload_output_module(t)
    BY <1>0, <2>1 DEF unload_output_module, Left
  <2>2. CASE output_close(t) \/ QuitReply(t) \/ waitpid_with_timeout(t)
    BY <2>2 DEF output_close, QuitReply, waitpid_with_timeout
  <2>3. QED
    BY <2>1, <2>2 DEF Closes
<1> HIDE DEF modules, pipes, talking, counters, ghosts
<1>9. Reloads'
  <2>1. \A s \in {"main", "signal"} : pc'[s] \in HasTarget => target'[s] \in todo'[s]
    BY <1>0, <1>5, <1>7 DEF Base, Reloads
  <2>2. pc'["speak"] = "gone"
    BY <1>0, <1>2, <1>5
  <2>3. pc'["main"] = "debug_reply" => target'["main"] # NULL
    BY <1>0, <1>5, <1>7 DEF Base, Reloads, Closing
  <2>4. CASE t = "signal"
    BY <1>0, <1>1, <1>3, <1>4, <1>7, <1>8, <2>1, <2>2, <2>3, <2>4
    DEF Base, Reloads, NoneRevived
  <2>5. CASE t = "main"
    <3>1. pc'["signal"] = "ended"
      BY <1>0, <1>2, <1>5, <2>5
    <3>2. QED
      BY <2>1, <2>2, <2>3, <3>1 DEF Reloads, Closing
  <2>6. QED
    BY <2>4, <2>5
<1>10. Loaded'
  <2>1. CASE unload_output_module(t)
    BY <1>0, <2>1 DEF unload_output_module, Base, Loaded
  <2>2. CASE output_close(t) \/ QuitReply(t) \/ waitpid_with_timeout(t)
    <3>1. UNCHANGED <<listed, open>>
      BY <2>2 DEF output_close, QuitReply, waitpid_with_timeout, modules
    <3>2. QED
      BY <1>4, <3>1 DEF Base, Loaded, NoneRevived
  <2>3. QED
    BY <2>1, <2>2 DEF Closes
<1>11. Live'
  BY <1>0, <1>2, <1>3, <1>5 DEF Live, Open, Closing
<1>12. QED
  BY <1>6, <1>9, <1>10, <1>11 DEF Base

LEMMA QuitBase ==
    ASSUME OutputAssumption, Base, TypeOK', (quit \/ QuitEnds) /\ UNCHANGED reloading
    PROVE  Base'
<1> USE DEF MainUnchanged, modules, pipes, talking, counters, ghosts
<1>0. /\ TypeOK /\ Threads = {"speak", "main", "signal"}
      /\ pc \in [Threads -> SpeakPlaces \cup MainPlaces \cup SignalPlaces]
      /\ todo \in [Threads -> SUBSET Names]
  BY DEF Base, TypeOK, Threads
<1>1. /\ UNCHANGED <<listed, open, working, reloading, mustStop, target, speaking_module>>
      /\ pc'["main"] \in {"close", "exited"} /\ pc'["speak"] = "gone"
      /\ pc'["signal"] = "ended" /\ pc["signal"] = "ended"
  BY <1>0 DEF quit, QuitEnds, Goes, Base, Restarts, Open
<1>2. Restarts'
  BY <1>1 DEF Base, Restarts, Open, Closing
<1>3. Reloads'
  BY <1>1 DEF Base, Reloads, HasTarget, Closing
<1>4. Loaded' /\ Live'
  BY <1>1 DEF Base, Loaded, Live, Open
<1>5. QED
  BY <1>2, <1>3, <1>4 DEF Base

LEMMA ReloadBase ==
    ASSUME OutputAssumption, Base, TypeOK', reload_output_module PROVE Base'
<1> USE DEF modules, pipes, talking, counters, ghosts
<1> DEFINE n == target["signal"]
<1>0. /\ TypeOK /\ Threads = {"speak", "main", "signal"}
      /\ pc \in [Threads -> SpeakPlaces \cup MainPlaces \cup SignalPlaces]
      /\ todo \in [Threads -> SUBSET Names]
      /\ working \in [Names -> BOOLEAN] /\ open \in [Names -> BOOLEAN]
  BY DEF Base, TypeOK, Threads
<1>1. /\ pc["signal"] = "shut" /\ reloading = "dead" /\ pc'["signal"] = "close"
      /\ pc'["speak"] = pc["speak"] /\ pc'["main"] = pc["main"]
      /\ UNCHANGED <<listed, reloading, mustStop, target, speaking_module>>
      /\ todo' = [todo EXCEPT !["signal"] = @ \ {n}]
  BY <1>0 DEF reload_output_module, ShutUnchanged, Goes, Left
<1>2. /\ n \in todo["signal"] /\ n \in Names /\ ~working[n] /\ n \in listed /\ pc["speak"] = "gone"
      /\ Open => speaking_module = NULL
  BY <1>0, <1>1 DEF Base, Reloads, Restarts, HasTarget, Closing
<1>3. /\ \A m \in Names \ {n} : working'[m] = working[m] /\ open'[m] = open[m]
      /\ working'[n] => open'[n]
  BY <1>0, <1>2 DEF reload_output_module, load_output_module
<1>4. Restarts'
  BY <1>1, <1>2 DEF Base, Restarts, Open, Closing
<1>5. Reloads'
  <2>1. todo'["signal"] = todo["signal"] \ {n} /\ todo'["main"] = todo["main"]
    BY <1>0, <1>1
  <2>2. \A m \in todo'["signal"] : ~working'[m]
    BY <1>0, <1>1, <1>3, <2>1 DEF Base, Reloads, Closing
  <2>3. \A m \in todo'["signal"] : m \in listed'
    BY <1>0, <1>1, <2>1 DEF Base, Reloads, Closing
  <2>4. \A t \in {"main", "signal"} : pc'[t] \in HasTarget => target'[t] \in todo'[t]
    BY <1>1, <2>1 DEF Base, Reloads, HasTarget
  <2>5. /\ pc'["speak"] \in {"event_lock", "event", "set", "say"} => target'["speak"] # NULL
        /\ pc'["main"] = "debug_reply" => target'["main"] # NULL
    BY <1>1 DEF Base, Reloads
  <2>6. QED
    BY <1>1, <2>2, <2>3, <2>4, <2>5 DEF Reloads
<1>6. Loaded'
  <2>1. working'[n] => n \in listed
    BY <1>2
  <2>2. QED
    BY <1>1, <1>3, <2>1 DEF Base, Loaded
<1>7. Live'
  BY <1>1, <1>2 DEF Live, Open
<1>8. QED
  BY <1>4, <1>5, <1>6, <1>7 DEF Base

LEMMA SignalBase ==
    ASSUME OutputAssumption, Base, TypeOK',
           \/ Joined \/ start_speak_thread \/ SIGINT
           \/ \E kind \in {"dead", "all"} : catch_signals(kind)
    PROVE  Base'
<1> USE DEF SignalUnchanged, modules, pipes, talking, counters, ghosts
<1>0. /\ TypeOK /\ Threads = {"speak", "main", "signal"}
      /\ pc \in [Threads -> SpeakPlaces \cup MainPlaces \cup SignalPlaces]
      /\ todo \in [Threads -> SUBSET Names]
      /\ working \in [Names -> BOOLEAN] /\ open \in [Names -> BOOLEAN]
      /\ listed \subseteq Names
  BY DEF Base, TypeOK, Threads
<1>1. CASE Joined
  <2>1. /\ pc["signal"] = "stopping" /\ pc["speak"] = "gone" /\ pc'["signal"] = "close"
        /\ pc'["speak"] = "gone" /\ pc'["main"] = pc["main"]
        /\ todo'["signal"] = ToReload /\ todo'["main"] = todo["main"]
        /\ UNCHANGED <<listed, open, working, reloading, mustStop, target, speaking_module>>
    BY <1>0, <1>1 DEF Joined, Goes
  <2>2. ~mustStop /\ reloading \in {"dead", "all"}
    BY <2>1 DEF Base, Restarts
  <2>3. Restarts'
    BY <2>1, <2>2 DEF Base, Restarts, Open, Closing
  <2>4. Reloads'
    <3>1. \A t \in {"main", "signal"} : pc'[t] \in HasTarget => target'[t] \in todo'[t]
      BY <2>1 DEF Base, Reloads, HasTarget
    <3>2. reloading = "all" => listed' \subseteq todo'["signal"]
      BY <2>1 DEF ToReload
    <3>3. reloading = "dead" => \A n \in todo'["signal"] : n \in listed' /\ ~working'[n]
      BY <2>1 DEF ToReload
    <3>4. QED
      BY <2>1, <3>1, <3>2, <3>3 DEF Base, Reloads
  <2>5. Loaded' /\ Live'
    BY <2>1 DEF Base, Loaded, Live, Open
  <2>6. QED
    BY <2>3, <2>4, <2>5 DEF Base
<1>2. CASE start_speak_thread
  <2>1. /\ pc["signal"] = "close" /\ todo["signal"] = {}
        /\ pc'["signal"] = "idle" /\ pc'["speak"] = "poll" /\ pc'["main"] = pc["main"]
        /\ UNCHANGED <<mustStop, target, todo, speaking_module>>
    BY <1>0, <1>2 DEF start_speak_thread
  <2>2. Open /\ speaking_module = NULL /\ ~mustStop
    BY <2>1 DEF Base, Restarts, Open, Closing
  <2>3. Restarts' /\ Live'
    BY <2>1, <2>2 DEF Restarts, Live, Open, Closing
  <2>4. Reloads'
    BY <2>1, <2>2 DEF Base, Reloads, HasTarget, Closing, Open
  <2>5. Loaded'
    <3>1. CASE reloading = "all"
      <4>1. PICK S \in SUBSET Names : load_output_module(S) /\ listed' = S
        BY <1>2, <3>1 DEF start_speak_thread, configure
      <4>2. \A n \in Names : ~working[n]
        BY <2>1, <3>1 DEF Base, Reloads, Loaded, Closing
      <4>3. QED
        BY <1>0, <4>1, <4>2 DEF load_output_module, Loaded
    <3>2. CASE reloading # "all"
      BY <1>2, <3>2 DEF start_speak_thread, Base, Loaded
    <3>3. QED
      BY <3>1, <3>2
  <2>6. QED
    BY <2>3, <2>4, <2>5 DEF Base
<1>3. CASE SIGINT
  <2>1. /\ pc["signal"] = "idle" /\ pc'["signal"] = "ended"
        /\ pc'["speak"] = pc["speak"] /\ pc'["main"] = pc["main"]
        /\ UNCHANGED <<listed, open, working, reloading, mustStop, target, todo, speaking_module>>
    BY <1>0, <1>3 DEF SIGINT, Goes
  <2>2. Restarts'
    BY <2>1 DEF Base, Restarts, Open, Closing
  <2>3. Reloads'
    BY <2>1 DEF Base, Reloads, HasTarget, Closing
  <2>4. Loaded' /\ Live'
    BY <2>1 DEF Base, Loaded, Live, Open
  <2>5. QED
    BY <2>2, <2>3, <2>4 DEF Base
<1>4. CASE \E kind \in {"dead", "all"} : catch_signals(kind)
  <2>1. /\ pc["signal"] = "idle" /\ pc'["signal"] = "stopping"
        /\ pc'["speak"] = pc["speak"] /\ pc'["main"] = pc["main"]
        /\ mustStop' /\ reloading' \in {"dead", "all"}
        /\ UNCHANGED <<listed, open, working, target, todo, speaking_module>>
    BY <1>0, <1>4 DEF catch_signals, Goes
  <2>2. pc["speak"] # "gone" /\ Open
    BY <2>1 DEF Base, Restarts, Closing
  <2>3. Restarts'
    BY <2>1, <2>2 DEF Restarts, Open, Closing
  <2>4. Reloads'
    BY <2>1 DEF Base, Reloads, HasTarget, Closing
  <2>5. Loaded' /\ Live'
    BY <2>1 DEF Base, Loaded, Live, Open
  <2>6. QED
    BY <2>3, <2>4, <2>5 DEF Base
<1>5. QED
  BY <1>1, <1>2, <1>3, <1>4

LEMMA ModuleBase ==
    ASSUME Base, TypeOK', NEW n \in Names, Module(n) \/ Crashes(n) PROVE Base'
<1>1. UNCHANGED <<listed, open, working, pc, reloading, mustStop, target, todo, speaking_module>>
  BY DEF Module, Obeys, Reports, Crashes, ModuleUnchanged, modules, talking
<1>2. QED
  BY <1>1 DEF Base, Restarts, Reloads, Loaded, Live, Open

LEMMA NextBase == ASSUME OutputAssumption, Base, [Next]_vars PROVE Base'
<1>0. TypeOK'
  BY NextTypes
<1>1. CASE Speak
  BY <1>0, <1>1, SpeakBase
<1>2. CASE Main
  BY <1>0, <1>2, ServeBase, QuitBase, CloseBase DEF Main
<1>3. CASE Clients
  BY <1>0, <1>3, ServeBase
<1>4. CASE Signal
  BY <1>0, <1>4, SignalBase, CloseBase, ReloadBase DEF Signal
<1>5. CASE UNCHANGED vars
  <2>1. UNCHANGED <<listed, open, working, pc, reloading, mustStop, target, todo,
                    speaking_module>>
    BY <1>5 DEF vars, modules, talking
  <2>2. QED
    BY <1>0, <2>1 DEF Base, Restarts, Reloads, Loaded, Live, Open
<1>6. QED
  BY <1>0, <1>1, <1>2, <1>3, <1>4, <1>5, SignalBase, ModuleBase DEF Next, Exited

LEMMA InitBase == ASSUME OutputAssumption, Init PROVE Base
<1>1. TypeOK
  <2>1. <<>> \in Seq(Commands) /\ <<>> \in Seq(Lines) /\ <<>> \in Seq(Names)
    OBVIOUS
  <2>2. /\ inp \in [Names -> Seq(Commands)] /\ out \in [Names -> Seq(Lines)]
        /\ queue \in Seq(Names)
    BY <2>1 DEF Init
  <2>3. /\ pc \in [Threads -> SpeakPlaces \cup MainPlaces \cup SignalPlaces]
        /\ pc["speak"] \in SpeakPlaces /\ pc["main"] \in MainPlaces
        /\ pc["signal"] \in SignalPlaces
    BY DEF Init, Threads, SpeakPlaces, MainPlaces, SignalPlaces
  <2>4. QED
    BY <2>2, <2>3 DEF Init, TypeOK
<1>2. pc["speak"] = "poll" /\ pc["main"] = "idle" /\ pc["signal"] = "idle"
  BY DEF Init
<1>3. Restarts /\ Reloads /\ Loaded /\ Live
  BY <1>2 DEF Init, Restarts, Reloads, Loaded, Live, Open, HasTarget, Closing
<1>4. QED
  BY <1>1, <1>3 DEF Base

\* The base holds whatever the threads do, with or without care.
THEOREM OutputInvariant == Spec => []Base
<1>1. Init => Base
  BY InitBase, OutputAssumption
<1>2. Base /\ [Next]_vars => Base'
  BY NextBase, OutputAssumption
<1>3. QED
  BY <1>1, <1>2, PTL DEF Spec

\* STOP finds a module that is loaded and whose pipes are open: the speaking
\* thread has forgotten it before the signal thread may unload anything.
THEOREM StopFindsModule == Spec => []StopsLiveModule
<1>1. Base => StopsLiveModule
  BY DEF Base, Live, Open, StopsLiveModule
<1>2. QED
  BY <1>1, OutputInvariant, PTL

-----------------------------------------------------------------------------
(* A careful server.  First what a command and a line do to the pipes of a  *)
(* module, and what the module itself does.                                 *)

LEMMA TwoLines ==
    ASSUME NEW s \in Seq(Lines), NEW x, NEW y, Len(s) = 2, s[1] = x, s[2] = y
    PROVE  s = <<x, y>>
OBVIOUS

LEMMA ThreeLines ==
    ASSUME NEW s \in Seq(Lines), NEW x, NEW y, NEW z,
           Len(s) = 3, s[1] = x, s[2] = y, s[3] = z
    PROVE  s = <<x, y, z>>
OBVIOUS

LEMMA MoreLines ==
    /\ Append(<<"ok">>, "begin") = <<"ok", "begin">>
    /\ Append(<<"ok">>, "over") = <<"ok", "over">>
    /\ Append(<<"begin">>, "over") = <<"begin", "over">>
    /\ Append(<<"ok", "begin">>, "over") = <<"ok", "begin", "over">>
<1>1. ASSUME NEW x \in Lines, NEW y \in Lines PROVE Append(<<x>>, y) = <<x, y>>
  <2> DEFINE s == Append(<<x>>, y)
  <2>1. s \in Seq(Lines) /\ Len(s) = 2 /\ s[1] = x /\ s[2] = y
    OBVIOUS
  <2> HIDE DEF s
  <2>2. s = <<x, y>>
    BY <2>1, TwoLines
  <2>3. QED
    BY <2>2 DEF s
<1>2. Append(<<"ok", "begin">>, "over") = <<"ok", "begin", "over">>
  <2> DEFINE s == Append(<<"ok", "begin">>, "over")
  <2>1. s \in Seq(Lines) /\ Len(s) = 3 /\ s[1] = "ok" /\ s[2] = "begin" /\ s[3] = "over"
    BY DEF Lines
  <2> HIDE DEF s
  <2>2. s = <<"ok", "begin", "over">>
    BY <2>1, ThreeLines
  <2>3. QED
    BY <2>2 DEF s
<1>3. QED
  BY <1>1, <1>2 DEF Lines

LEMMA OneOrMore ==
    ASSUME NEW i \in Seq(Commands), i # <<>>
    PROVE  /\ Len(i) = 1 \/ Len(i) > 1
           /\ Len(i) = 1 => Tail(i) = <<>>
           /\ Len(i) > 1 => Tail(i) # <<>>
<1> DEFINE n == Len(i)  t == Tail(i)
<1>1. n \in Nat /\ n # 0 /\ t \in Seq(Commands) /\ Len(t) = n - 1
  OBVIOUS
<1> HIDE DEF n, t
<1>2. n = 1 \/ n > 1
  BY <1>1
<1>3. n = 1 => t = <<>>
  BY <1>1
<1>4. n > 1 => t # <<>>
  BY <1>1
<1>5. QED
  BY <1>2, <1>3, <1>4 DEF n, t

LEMMA StopsTail ==
    ASSUME NEW i \in Seq(Commands), i # <<>>
    PROVE  /\ OnlyStops(i) => Head(i) = "stop" /\ OnlyStops(Tail(i))
           /\ Len(i) = 1 => Tail(i) = <<>> /\ Head(i) = i[1]
<1>1. Len(i) \in Nat /\ Len(i) >= 1 /\ Head(i) = i[1]
  OBVIOUS
<1>2. Len(Tail(i)) = Len(i) - 1 /\ \A j \in 1..Len(Tail(i)) : Tail(i)[j] = i[j + 1]
  OBVIOUS
<1>3. ASSUME OnlyStops(i) PROVE Head(i) = "stop" /\ OnlyStops(Tail(i))
  <2> DEFINE n == Len(i)
  <2>1. n \in Nat /\ n >= 1 /\ \A j \in 1..n : i[j] = "stop"
    BY <1>1, <1>3 DEF OnlyStops
  <2>2. Len(Tail(i)) = n - 1 /\ \A j \in 1..(n - 1) : Tail(i)[j] = i[j + 1]
    BY <1>2
  <2> HIDE DEF n
  <2>3. i[1] = "stop" /\ \A j \in 1..(n - 1) : i[j + 1] = "stop"
    BY <2>1
  <2>4. QED
    BY <1>1, <2>2, <2>3 DEF OnlyStops
<1>4. Len(i) = 1 => Tail(i) = <<>>
  BY OneOrMore
<1>5. QED
  BY <1>1, <1>3, <1>4

\* STOPs do not count, and the last command is answered
LEMMA AskedTail ==
    ASSUME NEW i \in Seq(Commands), i # <<>>, NEW o, NEW k, NEW cmd, Asked(i, o, k, cmd)
    PROVE  /\ o = <<>> /\ k = "silent"
           /\ \/ Head(i) = cmd /\ Tail(i) = <<>>
              \/ Head(i) = "stop" /\ Asked(Tail(i), o, k, cmd)
<1>1. o = <<>> /\ k = "silent" /\ i[Len(i)] = cmd
      /\ \A j \in 1..(Len(i) - 1) : i[j] = "stop"
  BY DEF Asked
<1>2. Len(i) \in Nat /\ Len(i) >= 1 /\ Head(i) = i[1]
  OBVIOUS
<1>3. Len(Tail(i)) = Len(i) - 1 /\ \A j \in 1..Len(Tail(i)) : Tail(i)[j] = i[j + 1]
  OBVIOUS
<1>4. CASE Len(i) = 1
  BY <1>1, <1>2, <1>4, StopsTail
<1>5. CASE Len(i) > 1
  <2>1. Head(i) = "stop"
    <3>1. 1 \in 1..(Len(i) - 1)
      BY <1>2, <1>5
    <3>2. QED
      BY <1>1, <1>2, <3>1
  <2>2. Tail(i) # <<>>
    BY <1>5, OneOrMore
  <2>3. Tail(i)[Len(Tail(i))] = cmd
    BY <1>1, <1>2, <1>3, <1>5
  <2>4. \A j \in 1..(Len(Tail(i)) - 1) : Tail(i)[j] = "stop"
    BY <1>1, <1>2, <1>3, <1>5
  <2>5. Asked(Tail(i), o, k, cmd)
    BY <1>1, <2>2, <2>3, <2>4 DEF Asked
  <2>6. QED
    BY <1>1, <2>1, <2>5
<1>6. Len(i) = 1 \/ Len(i) > 1
  BY OneOrMore
<1>7. QED
  BY <1>4, <1>5, <1>6

LEMMA SuitsObeys ==
    ASSUME NEW r, NEW i \in Seq(Commands), NEW o \in Seq(Lines), NEW k,
           Suits(r, i, o, k, "up"), i # <<>>,
           NEW o2, NEW k2, NEW p2,
           \/ Head(i) \in {"set", "debug"} /\ o2 = Append(o, "ok") /\ k2 = k /\ p2 = "up"
           \/ /\ Head(i) = "speak" /\ k = "silent" /\ o2 = Append(o, "ok")
              /\ k2 = "accepted" /\ p2 = "up"
           \/ /\ Head(i) = "speak" /\ k # "silent" /\ o2 = Append(o, "err")
              /\ k2 = k /\ p2 = "up"
           \/ Head(i) = "stop" /\ o2 = o /\ k2 = k /\ p2 = "up"
           \/ Head(i) = "quit" /\ o2 = Append(o, "ok") /\ k2 = k /\ p2 = "dead"
    PROVE  Suits(r, Tail(i), o2, k2, p2)
<1>1. CASE OnlyStops(i) /\ r \in {"idle", "speaks"}
  <2>1. Head(i) = "stop" /\ OnlyStops(Tail(i))
    BY <1>1, StopsTail
  <2>2. o2 = o /\ k2 = k /\ p2 = "up"
    BY <2>1
  <2>3. QED
    BY <1>1, <2>1, <2>2 DEF Suits
<1>2. CASE r \in {"set", "debug", "quit"} /\ Asked(i, o, k, r)
  <2>1. CASE Head(i) = r /\ Tail(i) = <<>>
    <3>1. o = <<>> /\ k = "silent"
      BY <1>2, AskedTail
    <3>2. o2 = <<"ok">> /\ k2 = k /\ (r = "quit" => p2 = "dead")
      BY <1>2, <2>1, <3>1
    <3>3. QED
      BY <1>2, <2>1, <3>1, <3>2 DEF Suits, Asked
  <2>2. CASE Head(i) = "stop" /\ Asked(Tail(i), o, k, r)
    <3>1. o2 = o /\ k2 = k /\ o = <<>>
      BY <1>2, <2>2, AskedTail
    <3>2. QED
      BY <1>2, <2>2, <3>1 DEF Suits
  <2>3. QED
    BY <1>2, <2>1, <2>2, AskedTail
<1>3. CASE r = "say" /\ Told(i, o, k)
  <2>1. k = "silent" /\ o = <<>> /\ i = <<"speak">>
    BY <1>3 DEF Told
  <2>2. Head(i) = "speak" /\ Tail(i) = <<>>
    BY <2>1
  <2>3. o2 = <<"ok">> /\ k2 = "accepted"
    BY <2>1, <2>2
  <2>4. QED
    BY <1>3, <2>2, <2>3 DEF Suits, Told
<1>4. QED
  BY <1>1, <1>2, <1>3 DEF Suits

LEMMA SuitsReports ==
    ASSUME NEW r, NEW i, NEW o \in Seq(Lines), NEW k, Suits(r, i, o, k, "up"),
           NEW o2, NEW k2,
           \/ k = "accepted" /\ o2 = Append(o, "begin") /\ k2 = "begun"
           \/ k # "silent" /\ o2 = Append(o, "over") /\ k2 = "silent"
    PROVE  Suits(r, i, o2, k2, "up")
<1>1. r \in {"say", "speaks"}
  BY DEF Suits, Asked
<1>2. CASE r = "say"
  <2>1. i = <<>>
    BY <1>2 DEF Suits, Told
  <2>2. CASE k = "accepted" /\ o = <<"ok">>
    BY <1>2, <2>1, <2>2, MoreLines DEF Suits, Told
  <2>3. CASE k = "begun" /\ o = <<"ok", "begin">>
    BY <1>2, <2>1, <2>3, MoreLines DEF Suits, Told
  <2>4. QED
    BY <1>2, <2>2, <2>3 DEF Suits, Told
<1>3. CASE r = "speaks"
  <2>1. OnlyStops(i) /\ Speaks(o, k)
    BY <1>3 DEF Suits
  <2>2. CASE o = <<>>
    <3>1. Append(o, "begin") = <<"begin">> /\ Append(o, "over") = <<"over">>
      BY <2>2
    <3>2. QED
      BY <1>3, <2>1, <2>2, <3>1 DEF Suits, Speaks
  <2>3. CASE o = <<"begin">>
    <3>1. k # "accepted"
      BY <2>1, <2>3 DEF Speaks
    <3>2. QED
      BY <1>3, <2>1, <2>3, <3>1, MoreLines DEF Suits, Speaks
  <2>4. QED
    BY <2>1, <2>2, <2>3 DEF Speaks
<1>4. QED
  BY <1>1, <1>2, <1>3

LEMMA SuitsCrash ==
    ASSUME NEW r, NEW i, NEW o, NEW k, NEW p, NEW p2, p2 # "up", Suits(r, i, o, k, p)
    PROVE  Suits(r, i, o, k, p2)
BY DEF Suits

\* a command is sent to a module that has nothing to do
LEMMA SuitsAsks ==
    ASSUME NEW i \in Seq(Commands), NEW o, NEW k, NEW p, Suits("idle", i, o, k, p),
           NEW r \in {"set", "debug", "quit"}
    PROVE  /\ Suits(r, i \o <<r>>, o, k, p)
           /\ Suits(r, i \o <<"stop", r>>, o, k, p)
<1>1. OnlyStops(i) /\ o = <<>> /\ k = "silent"
  BY DEF Suits
<1>2. ASSUME NEW c \in Seq(Commands), OnlyStops(c) PROVE Suits(r, c \o <<r>>, o, k, p)
  <2>1. Len(c \o <<r>>) = Len(c) + 1 /\ (c \o <<r>>)[Len(c) + 1] = r
        /\ \A j \in 1..Len(c) : (c \o <<r>>)[j] = c[j]
    BY <1>2
  <2>2. c \o <<r>> # <<>> /\ Len(c \o <<r>>) - 1 = Len(c)
    BY <1>2, <2>1
  <2>3. QED
    BY <1>1, <1>2, <2>1, <2>2 DEF Suits, Asked, OnlyStops
<1>3. i \o <<"stop">> \in Seq(Commands) /\ OnlyStops(i \o <<"stop">>)
  <2>1. i \o <<"stop">> \in Seq(Commands) /\ Len(i \o <<"stop">>) = Len(i) + 1
    BY DEF Commands
  <2>2. \A j \in 1..(Len(i) + 1) : (i \o <<"stop">>)[j] = IF j = Len(i) + 1 THEN "stop" ELSE i[j]
    OBVIOUS
  <2>3. QED
    BY <1>1, <2>1, <2>2 DEF OnlyStops
<1>4. (i \o <<"stop">>) \o <<r>> = i \o <<"stop", r>>
  BY DEF Commands
<1>5. QED
  BY <1>1, <1>2, <1>3, <1>4

LEMMA SuitsStop ==
    ASSUME NEW i \in Seq(Commands), NEW o, NEW k, NEW p, Suits("speaks", i, o, k, p)
    PROVE  Suits("speaks", i \o <<"stop">>, o, k, p)
<1>1. i \o <<"stop">> \in Seq(Commands) /\ Len(i \o <<"stop">>) = Len(i) + 1
  BY DEF Commands
<1>2. \A j \in 1..(Len(i) + 1) : (i \o <<"stop">>)[j] = IF j = Len(i) + 1 THEN "stop" ELSE i[j]
  OBVIOUS
<1>3. OnlyStops(i)
  BY DEF Suits
<1>4. OnlyStops(i \o <<"stop">>)
  BY <1>1, <1>2, <1>3 DEF OnlyStops
<1>5. QED
  BY <1>4 DEF Suits

\* the answer is read, and nothing else is there
LEMMA SuitsAnswered ==
    ASSUME NEW i, NEW o \in Seq(Lines), o # <<>>, NEW k, NEW p,
           NEW r \in {"set", "debug", "quit"}, Suits(r, i, o, k, p)
    PROVE  /\ Head(o) = "ok" /\ i = <<>>
           /\ Suits("idle", i, Tail(o), k, p)
           /\ r = "quit" => p # "up"
           /\ r = "set" => Suits("say", Append(i, "speak"), Tail(o), k, p)
<1>1. o = <<"ok">> /\ i = <<>> /\ k = "silent" /\ (r = "quit" => p # "up")
  BY DEF Suits, Asked
<1>2. Tail(o) = <<>> /\ Append(i, "speak") = <<"speak">>
  BY <1>1
<1>3. QED
  BY <1>1, <1>2 DEF Suits, Told, OnlyStops

LEMMA SuitsSaid ==
    ASSUME NEW i, NEW o \in Seq(Lines), o # <<>>, NEW k, NEW p, Suits("say", i, o, k, p)
    PROVE  Head(o) = "ok" /\ Suits("speaks", i, Tail(o), k, p)
<1>1. i = <<>> /\ Told(i, o, k)
  BY DEF Suits, Told
<1>2. OnlyStops(i)
  BY <1>1 DEF OnlyStops
<1>3. CASE o = <<"ok">>
  BY <1>1, <1>2, <1>3 DEF Suits, Told, Speaks
<1>4. CASE o = <<"ok", "begin">>
  BY <1>1, <1>2, <1>4 DEF Suits, Told, Speaks
<1>5. CASE o = <<"ok", "over">>
  BY <1>1, <1>2, <1>5 DEF Suits, Told, Speaks
<1>6. CASE o = <<"ok", "begin", "over">>
  BY <1>1, <1>2, <1>6 DEF Suits, Told, Speaks
<1>7. QED
  BY <1>1, <1>3, <1>4, <1>5, <1>6 DEF Told

LEMMA SuitsEvent ==
    ASSUME NEW i, NEW o \in Seq(Lines), o # <<>>, NEW k, NEW p, Suits("speaks", i, o, k, p)
    PROVE  \/ Head(o) = "begin" /\ Suits("speaks", i, Tail(o), k, p)
           \/ Head(o) = "over" /\ Suits("idle", i, Tail(o), k, p)
<1>1. OnlyStops(i) /\ Speaks(o, k)
  BY DEF Suits
<1>2. CASE o = <<"begin">>
  BY <1>1, <1>2 DEF Suits, Speaks
<1>3. CASE o = <<"over">>
  BY <1>1, <1>3 DEF Suits, Speaks
<1>4. CASE o = <<"begin", "over">>
  BY <1>1, <1>4 DEF Suits, Speaks
<1>5. QED
  BY <1>1, <1>2, <1>3, <1>4 DEF Speaks

-----------------------------------------------------------------------------
(* What the steps of a careful server have in common.                      *)

\* what a step of the speaking thread may rely on
LEMMA SpeakServes ==
    ASSUME Base, pc["speak"] # "gone"
    PROVE  Open /\ Serving /\ pc["signal"] \notin HasTarget
BY DEF Base, Restarts, Open, Serving, Closing, HasTarget

LEMMA Counting ==
    ASSUME OutputAssumption, NEW S \in SUBSET Names, NEW T \in SUBSET Names
    PROVE  /\ Cardinality(S) \in Nat
           /\ T \subseteq S => Cardinality(T) <= Cardinality(S)
           /\ \A n \in S : n \notin T /\ T \subseteq S => Cardinality(T) + 1 <= Cardinality(S)
           /\ \A n : T \subseteq S \cup {n} => Cardinality(T) <= Cardinality(S) + 1
<1>1. IsFiniteSet(S) /\ IsFiniteSet(T)
  BY FS_Subset DEF OutputAssumption
<1>2. Cardinality(S) \in Nat /\ Cardinality(T) \in Nat
  BY <1>1, FS_CardinalityType
<1>3. T \subseteq S => Cardinality(T) <= Cardinality(S)
  BY <1>1, FS_Subset
<1>4. ASSUME NEW n \in S, n \notin T, T \subseteq S
      PROVE  Cardinality(T) + 1 <= Cardinality(S)
  <2>1. IsFiniteSet(S \ {n}) /\ Cardinality(S \ {n}) = Cardinality(S) - 1
    BY <1>1, <1>4, FS_RemoveElement
  <2>2. T \subseteq S \ {n}
    BY <1>4
  <2>3. Cardinality(T) <= Cardinality(S \ {n})
    BY <2>1, <2>2, FS_Subset
  <2>4. QED
    BY <1>2, <2>1, <2>3
<1>5. ASSUME NEW n, T \subseteq S \cup {n}
      PROVE  Cardinality(T) <= Cardinality(S) + 1
  <2>1. IsFiniteSet(S \cup {n})
        /\ (Cardinality(S \cup {n}) = Cardinality(S) \/ Cardinality(S \cup {n}) = Cardinality(S) + 1)
    BY <1>1, FS_AddElement
  <2>2. Cardinality(T) <= Cardinality(S \cup {n})
    BY <1>5, <2>1, FS_Subset
  <2>3. QED
    BY <1>2, <2>1, <2>2
<1>6. QED
  BY <1>2, <1>3, <1>4, <1>5

LEMMA OwedTypes ==
    ASSUME TypeOK, TypeOK'
    PROVE  /\ Owed \in Nat /\ lost <= Owed /\ Owed' \in Nat /\ lost' <= Owed'
           /\ lost \in Nat /\ lost' \in Nat /\ crashes \in Nat /\ crashes' \in Nat
<1>1. lost \in Nat /\ lost' \in Nat /\ crashes \in Nat /\ crashes' \in Nat
  BY DEF TypeOK
<1>2. Owed = lost \/ Owed = lost + 1
  BY DEF Owed
<1>3. Owed' = lost' \/ Owed' = lost' + 1
  BY DEF Owed
<1>4. QED
  BY <1>1, <1>2, <1>3

LEMMA AccountKept ==
    ASSUME OutputAssumption, TypeOK, TypeOK', Account,
           crashes' = crashes, Open' => Open, Serving' => Serving,
           Owed' <= Owed, lost' = lost \/ Open,
           Serving => Crashed' \subseteq Crashed
    PROVE  Account'
<1>1. /\ Owed \in Nat /\ lost <= Owed /\ Owed' \in Nat /\ lost' <= Owed'
      /\ lost \in Nat /\ lost' \in Nat /\ crashes \in Nat
  BY OwedTypes
<1>3. Cardinality(Crashed) \in Nat /\ Cardinality(Crashed') \in Nat
      /\ (Serving => Cardinality(Crashed') <= Cardinality(Crashed))
  <2>1. Crashed \in SUBSET Names /\ Crashed' \in SUBSET Names
    BY DEF Crashed
  <2>2. QED
    BY <2>1, Counting
<1>4. lost' <= crashes'
  BY <1>1 DEF Account
<1>5. Open' => Owed' <= crashes'
  BY <1>1 DEF Account
<1>6. Serving' => Cardinality(Crashed') + Owed' <= crashes'
  BY <1>1, <1>3 DEF Account
<1>7. QED
  BY <1>4, <1>5, <1>6 DEF Account

\* the crash of n is noticed, and costs a message at most
LEMMA AccountPaid ==
    ASSUME OutputAssumption, TypeOK, TypeOK', Account,
           crashes' = crashes, Serving, Owed' <= Owed + 1,
           NEW n \in Crashed, n \notin Crashed', Crashed' \subseteq Crashed
    PROVE  Account'
<1>1. /\ Owed \in Nat /\ Owed' \in Nat /\ lost' <= Owed'
      /\ lost \in Nat /\ lost' \in Nat /\ crashes \in Nat
  BY OwedTypes
<1>3. Cardinality(Crashed) \in Nat /\ Cardinality(Crashed') \in Nat
      /\ Cardinality(Crashed') + 1 <= Cardinality(Crashed)
  <2>1. Crashed \in SUBSET Names /\ Crashed' \in SUBSET Names
    BY DEF Crashed
  <2>2. QED
    BY <2>1, Counting
<1>4. Cardinality(Crashed) + Owed <= crashes
  BY DEF Account
<1>5. Cardinality(Crashed') + Owed' <= crashes'
  BY <1>1, <1>3, <1>4
<1>6. lost' <= crashes' /\ Owed' <= crashes'
  BY <1>1, <1>3, <1>5
<1>7. QED
  BY <1>5, <1>6 DEF Account

\* a pipe is as it was, whatever has become of the process
LEMMA PipesKept ==
    ASSUME Pipes, Open' => Open, NoneRevived,
           \A n \in Names : working'[n] =>
              \/ Fits(n)'
              \/ /\ Role(n)' = Role(n)
                 /\ inp'[n] = inp[n] /\ out'[n] = out[n] /\ talk'[n] = talk[n]
                 /\ proc'[n] = proc[n] \/ proc'[n] # "up"
    PROVE  Pipes'
<1> SUFFICES ASSUME Open', NEW n \in Names, working'[n] PROVE Fits(n)'
  BY DEF Pipes
<1>1. working[n] /\ Fits(n)
  BY DEF NoneRevived, Pipes
<1>2. ASSUME Role(n)' = Role(n), inp'[n] = inp[n], out'[n] = out[n], talk'[n] = talk[n],
             proc'[n] = proc[n] \/ proc'[n] # "up"
      PROVE  Fits(n)'
  BY <1>1, <1>2, SuitsCrash DEF Fits
<1>3. QED
  BY <1>2

\* the speaking thread moves: the other modules keep their role
LEMMA SpeakRole ==
    ASSUME Base, NEW to, Goes("speak", to), NEW n \in Names, pc["speak"] # "gone",
           target'["main"] = target["main"],
           \/ n # speaking_module /\ n # speaking_module'
           \/ /\ speaking_module' = speaking_module
              /\ pc["speak"] \notin {"set", "say"} /\ to \notin {"set", "say"}
    PROVE  Role(n)' = Role(n)
<1>1. /\ pc'["speak"] = to /\ pc'["main"] = pc["main"] /\ pc'["signal"] = pc["signal"]
      /\ pc["signal"] \notin HasTarget
  BY SpeakServes DEF Base, TypeOK, Goes, Threads
<1>2. QED
  BY <1>1 DEF Role

-----------------------------------------------------------------------------
(* The steps of the speaking thread.                                       *)

LEMMA CarePoll ==
    ASSUME OutputAssumption, Base, Base', CarefulInv, wait_for_poll PROVE CarefulInv'
<1> USE DEF SpeakUnchanged, modules, pipes, talking, counters, ghosts
<1>0. /\ TypeOK /\ TypeOK' /\ pc["speak"] = "poll"
      /\ Open /\ Serving /\ pc["signal"] \notin HasTarget
  BY SpeakServes DEF Base, wait_for_poll
<1>1. /\ UNCHANGED <<listed, open, talk, todo, crashes, working, proc, inp, out,
                    speaking_module, SPEAKING, polled, mutex, target, message, lost, swallowed>>
      /\ \E to \in {"next", "hangup", "activity"} : Goes("speak", to)
  BY DEF wait_for_poll
<1>2. /\ pc'["main"] = pc["main"] /\ pc'["signal"] = pc["signal"]
      /\ pc'["speak"] \in {"next", "hangup", "activity"}
      /\ pc'["speak"] = "hangup" => polled # NULL /\ proc[polled] # "up"
      /\ pc'["speak"] = "activity" => polled # NULL /\ proc[polled] = "up"
  BY <1>0 DEF wait_for_poll, Goes, TypeOK, Threads
<1> HIDE DEF SpeakUnchanged, modules, pipes, talking, counters, ghosts
<1>3. Locks'
  BY <1>0, <1>1, <1>2 DEF CarefulInv, Locks
<1>4. Polls'
  BY <1>0, <1>1, <1>2 DEF CarefulInv, Polls, Open
<1>5. Pipes'
  <2>1. \A n \in Names : Role(n)' = Role(n)
    BY <1>0, <1>1, <1>2 DEF Role
  <2>2. QED
    BY <1>1, <1>2, <2>1, PipesKept DEF CarefulInv, Open, NoneRevived
<1>6. Account'
  <2>1. Crashed' = Crashed
    BY <1>1 DEF Crashed
  <2>2. Owed' = Owed
    BY <1>0, <1>1, <1>2 DEF Owed, Missing
  <2>3. Open' => Open /\ Serving
    BY <1>0
  <2>4. QED
    BY <1>0, <1>1, <2>1, <2>2, <2>3, AccountKept, OwedTypes DEF CarefulInv
<1>7. QED
  BY <1>1, <1>3, <1>4, <1>5, <1>6 DEF CarefulInv

LEMMA CareCleanup ==
    ASSUME OutputAssumption, Base, Base', CarefulInv, speaking_module_cleanup
    PROVE  CarefulInv'
<1> USE DEF SpeakUnchanged, modules, pipes, talking, counters, ghosts
<1>0. /\ TypeOK /\ TypeOK' /\ pc["speak"] = "hangup"
      /\ Open /\ Serving /\ pc["signal"] \notin HasTarget
  BY SpeakServes DEF Base, speaking_module_cleanup
<1>1. /\ UNCHANGED <<listed, open, talk, todo, crashes, proc, inp, out, mutex, target, swallowed>>
      /\ speaking_module' = NULL /\ SPEAKING' = FALSE /\ polled' = NULL /\ message' = NULL
      /\ lost' = IF message # NULL THEN lost + 1 ELSE lost
      /\ \A n \in Names : working'[n] = (working[n] /\ n # speaking_module)
      /\ Goes("speak", "next")
  BY DEF speaking_module_cleanup
<1>2. /\ pc'["main"] = pc["main"] /\ pc'["signal"] = pc["signal"] /\ pc'["speak"] = "next"
  BY <1>0, <1>1 DEF Goes, TypeOK, Threads
<1>3. /\ polled # NULL /\ proc[polled] # "up" /\ NULL \notin Names
      /\ speaking_module # NULL => SPEAKING /\ polled = speaking_module
                                   /\ working[speaking_module] /\ speaking_module \in Names
      /\ ~(pc["main"] = "debug_reply" /\ target["main"] = speaking_module)
  <2>1. speaking_module \in Names \cup {NULL} /\ NULL \notin Names
    BY <1>0 DEF TypeOK, OutputAssumption
  <2>2. pc["main"] = "debug_reply" => target["main"] # NULL
    BY DEF Base, Reloads
  <2>3. QED
    BY <1>0, <2>1, <2>2 DEF CarefulInv, Polls
<1> HIDE DEF SpeakUnchanged, modules, pipes, talking, counters, ghosts
<1>4. Locks'
  BY <1>0, <1>1, <1>2 DEF CarefulInv, Locks
<1>5. Polls'
  <2>1. pc["main"] = "debug_reply" => target["main"] \in Names /\ working'[target["main"]]
    BY <1>0, <1>1, <1>3 DEF CarefulInv, Polls, Base, Reloads, TypeOK, Threads
  <2>2. QED
    BY <1>0, <1>1, <1>2, <2>1 DEF CarefulInv, Polls, Open
<1>6. Pipes'
  <2>1. \A n \in Names : working'[n] => Role(n)' = Role(n)
    BY <1>0, <1>1, <1>2, <1>3 DEF Role
  <2>2. QED
    BY <1>1, <1>2, <2>1, PipesKept DEF CarefulInv, Open, NoneRevived
<1>7. Account'
  <2>1. Crashed' \subseteq Crashed
    BY <1>1 DEF Crashed
  <2>2. Open' => Open /\ Serving
    BY <1>0
  <2>3. Owed' = IF message # NULL THEN lost + 1 ELSE lost
    BY <1>1 DEF Owed, Missing
  <2>4. CASE message = NULL \/ speaking_module = NULL
    <3>1. Owed' = Owed
      BY <1>0, <1>1, <2>3, <2>4 DEF Owed, Missing
    <3>2. QED
      BY <1>0, <1>1, <2>1, <2>2, <3>1, AccountKept, OwedTypes DEF CarefulInv
  <2>5. CASE speaking_module # NULL
    <3>1. speaking_module \in Crashed /\ speaking_module \notin Crashed'
      BY <1>1, <1>3, <2>5 DEF Crashed
    <3>2. Owed' <= Owed + 1
      <4>1. lost \in Nat /\ (Owed = lost \/ Owed = lost + 1)
        BY <1>0 DEF Owed, TypeOK
      <4>2. QED
        BY <2>3, <4>1
    <3>3. QED
      BY <1>0, <1>1, <2>1, <3>1, <3>2, AccountPaid DEF CarefulInv
  <2>6. QED
    BY <2>4, <2>5
<1>8. QED
  BY <1>1, <1>4, <1>5, <1>6, <1>7 DEF CarefulInv

\* the steps that only move the speaking thread, or change what it believes
LEMMA CareMoves ==
    ASSUME OutputAssumption, Base, Base', CarefulInv,
           is_sb_speaking \/ EventLock \/ PollsAgain \/ ThreadEnds \/ Said
    PROVE  CarefulInv'
<1> USE DEF SpeakUnchanged, modules, pipes, talking, counters, ghosts
<1>0. /\ TypeOK /\ TypeOK' /\ NULL \notin Names /\ pc["speak"] # "gone"
      /\ pc["speak"] \notin {"set", "say", "speak"}
      /\ Open /\ Serving /\ pc["signal"] \notin HasTarget
  BY SpeakServes
  DEF Base, OutputAssumption, is_sb_speaking, EventLock, PollsAgain, ThreadEnds, Said
<1>1. UNCHANGED <<listed, open, working, proc, inp, out, talk, todo, message, lost,
                  crashes, swallowed>>
  BY DEF is_sb_speaking, EventLock, PollsAgain, ThreadEnds, Said
<1>2. /\ pc'["main"] = pc["main"] /\ pc'["signal"] = pc["signal"]
      /\ pc'["speak"] \in {"next", "event_lock", "event", "poll", "gone"}
      /\ target'["main"] = target["main"] /\ target'["signal"] = target["signal"]
      /\ speaking_module' = speaking_module
  <2>1. ThreadEnds => speaking_module = NULL
    BY <1>0 DEF ThreadEnds, CarefulInv, Polls
  <2>2. speaking_module' = speaking_module
    BY <2>1 DEF is_sb_speaking, EventLock, PollsAgain, ThreadEnds, Said
  <2>3. \E to \in {"next", "event_lock", "event", "poll", "gone"} : Goes("speak", to)
    BY DEF is_sb_speaking, EventLock, PollsAgain, ThreadEnds, Said
  <2>4. target'["main"] = target["main"] /\ target'["signal"] = target["signal"]
    BY <1>0 DEF is_sb_speaking, EventLock, PollsAgain, ThreadEnds, Said, TypeOK, Threads
  <2>5. QED
    BY <1>0, <2>2, <2>3, <2>4 DEF Goes, TypeOK, Threads
<1>3. Locks' /\ Polls'
  <2>0. /\ pc \in [Threads -> SpeakPlaces \cup MainPlaces \cup SignalPlaces]
        /\ target \in [Threads -> Names \cup {NULL}] /\ "speak" \in Threads
        /\ SPEAKING \in BOOLEAN
    BY <1>0 DEF TypeOK, Threads
  <2>1. CASE is_sb_speaking
    <3>1. /\ pc["speak"] = "activity" /\ UNCHANGED <<mutex, polled>>
          /\ \/ speaking_module = NULL /\ ~SPEAKING' /\ pc'["speak"] = "next"
             \/ /\ speaking_module # NULL /\ SPEAKING' = SPEAKING
                /\ target'["speak"] = speaking_module /\ pc'["speak"] = "event_lock"
      BY <2>0, <2>1 DEF is_sb_speaking, Goes
    <3>2. Locks'
      BY <1>2, <3>1 DEF CarefulInv, Locks
    <3>3. Polls'
      BY <1>0, <1>1, <1>2, <3>1 DEF CarefulInv, Polls, Open
    <3>4. QED
      BY <3>2, <3>3
  <2>2. CASE EventLock
    <3>1. /\ pc["speak"] = "event_lock" /\ UNCHANGED <<SPEAKING, polled, target>>
          /\ mutex = NULL /\ mutex' = "speak" /\ pc'["speak"] = "event"
      BY <2>0, <2>2 DEF EventLock, Goes, output_lock
    <3>2. pc["main"] # "debug_reply" /\ pc["signal"] \notin {"quit", "wait"}
      BY <1>0, <3>1 DEF HasTarget, CarefulInv, Polls
    <3>3. Locks'
      BY <1>2, <3>1, <3>2 DEF Locks
    <3>4. Polls'
      BY <1>0, <1>1, <1>2, <3>1 DEF CarefulInv, Polls, Open
    <3>5. QED
      BY <3>3, <3>4
  <2>3. CASE PollsAgain
    <3>1. /\ pc["speak"] = "next" /\ UNCHANGED <<SPEAKING, polled, target, mutex>>
          /\ pc'["speak"] = "poll"
      BY <2>0, <2>3 DEF PollsAgain, Goes
    <3>2. Locks'
      BY <1>2, <3>1 DEF CarefulInv, Locks
    <3>3. Polls'
      BY <1>0, <1>1, <1>2, <3>1 DEF CarefulInv, Polls, Open
    <3>4. QED
      BY <3>2, <3>3
  <2>4. CASE ThreadEnds
    <3>1. /\ pc["speak"] = "next" /\ ~SPEAKING /\ ~SPEAKING' /\ polled' = NULL
          /\ speaking_module' = NULL /\ UNCHANGED <<target, mutex>> /\ pc'["speak"] = "gone"
      BY <2>0, <2>4 DEF ThreadEnds, Goes
    <3>2. Locks'
      BY <1>2, <3>1 DEF CarefulInv, Locks
    <3>3. Polls'
      BY <1>0, <1>1, <1>2, <3>1 DEF CarefulInv, Polls, Open
    <3>4. QED
      BY <3>2, <3>3
  <2>5. CASE Said
    <3>1. /\ pc["speak"] = "said" /\ SPEAKING' = TRUE /\ UNCHANGED <<target, mutex>>
          /\ pc'["speak"] = "poll"
          /\ polled' = IF speaking_module # NULL THEN speaking_module ELSE polled
      BY <2>0, <2>5 DEF Said, Goes
    <3>2. speaking_module # NULL /\ polled' = speaking_module
      BY <1>0, <3>1 DEF CarefulInv, Polls
    <3>3. Locks'
      BY <1>2, <3>1 DEF CarefulInv, Locks
    <3>4. Polls'
      BY <1>0, <1>1, <1>2, <3>1, <3>2 DEF CarefulInv, Polls, Open
    <3>5. QED
      BY <3>3, <3>4
  <2>6. QED
    BY <2>1, <2>2, <2>3, <2>4, <2>5
<1> HIDE DEF SpeakUnchanged, modules, pipes, talking, counters, ghosts
<1>4. Pipes'
  <2>1. \A n \in Names : Role(n)' = Role(n)
    BY <1>0, <1>2 DEF Role
  <2>2. QED
    BY <1>1, <1>2, <2>1, PipesKept DEF CarefulInv, Open, NoneRevived
<1>5. Account'
  <2>1. Crashed' = Crashed
    BY <1>1 DEF Crashed
  <2>2. Owed' = Owed
    BY <1>0, <1>1, <1>2 DEF Owed, Missing
  <2>3. Open' => Open /\ Serving
    BY <1>0
  <2>4. QED
    BY <1>0, <1>1, <2>1, <2>2, <2>3, AccountKept, OwedTypes DEF CarefulInv
<1>6. QED
  BY <1>1, <1>3, <1>4, <1>5 DEF CarefulInv

\* the message that nobody speaks any more is given up
LEMMA CareTakes ==
    ASSUME OutputAssumption, Base, Base', CarefulInv, TakesMessage PROVE CarefulInv'
<1> USE DEF SpeakUnchanged, modules, pipes, talking, counters, ghosts
<1>0. /\ TypeOK /\ TypeOK' /\ pc["speak"] = "next" /\ ~SPEAKING /\ NULL \notin Names
      /\ Open /\ Serving /\ pc["signal"] \notin HasTarget
  BY SpeakServes DEF Base, TakesMessage, OutputAssumption
<1>1. /\ UNCHANGED <<listed, open, talk, todo, crashes, working, proc, inp, out,
                     speaking_module, SPEAKING, polled, mutex, target, swallowed>>
      /\ Goes("speak", "speak") /\ message' = Head(queue)
      /\ lost' = IF message # NULL THEN lost + 1 ELSE lost
  BY DEF TakesMessage
<1>2. message' # NULL
  <2>1. queue \in Seq(Names) /\ queue # <<>>
    BY <1>0 DEF TypeOK, TakesMessage
  <2>2. Head(queue) \in Names
    BY <2>1
  <2>3. QED
    BY <1>0, <1>1, <2>2
<1>3. /\ pc'["main"] = pc["main"] /\ pc'["signal"] = pc["signal"]
      /\ pc'["speak"] = "speak" /\ speaking_module = NULL
  <2>1. speaking_module = NULL
    BY <1>0 DEF CarefulInv, Polls
  <2>2. QED
    BY <1>0, <1>1, <2>1 DEF Goes, TypeOK, Threads
<1> HIDE DEF SpeakUnchanged, modules, pipes, talking, counters, ghosts
<1>4. Locks'
  BY <1>0, <1>1, <1>3 DEF CarefulInv, Locks
<1>5. Polls'
  BY <1>0, <1>1, <1>2, <1>3 DEF CarefulInv, Polls, Open
<1>6. Pipes'
  <2>1. \A n \in Names : Role(n)' = Role(n)
    BY <1>0, <1>1, <1>3 DEF Role
  <2>2. QED
    BY <1>1, <1>3, <2>1, PipesKept DEF CarefulInv, Open, NoneRevived
<1>7. Account'
  <2>1. Crashed' = Crashed
    BY <1>1 DEF Crashed
  <2>2. Owed' = Owed
    BY <1>0, <1>1, <1>3 DEF Owed, Missing
  <2>3. Open' => Open /\ Serving
    BY <1>0
  <2>4. QED
    BY <1>0, <1>1, <2>1, <2>2, <2>3, AccountKept, OwedTypes DEF CarefulInv
<1>8. QED
  BY <1>1, <1>4, <1>5, <1>6, <1>7 DEF CarefulInv

\* a broken pipe is noticed
LEMMA Noticed ==
    ASSUME TypeOK, NEW n \in Names, Broken(n), proc[n] # "up"
    PROVE  /\ speaking_module' = NULL /\ ~working'[n] /\ NoneRevived
           /\ \A m \in Names \ {n} : working'[m] = working[m]
           /\ \A m \in Names : proc'[m] = proc[m] \/ proc'[m] # "up"
           /\ Crashed' \subseteq Crashed /\ n \notin Crashed'
           /\ working[n] => n \in Crashed
<1>1. /\ speaking_module' = NULL /\ ~working'[n]
      /\ \A m \in Names \ {n} : working'[m] = working[m] /\ proc'[m] = proc[m]
      /\ proc'[n] = proc[n] \/ proc'[n] = "reaped"
  BY DEF Broken, output_check_module, TypeOK
<1>2. NoneRevived
  BY <1>1 DEF NoneRevived
<1>3. Crashed' \subseteq Crashed /\ n \notin Crashed' /\ (working[n] => n \in Crashed)
  BY <1>1 DEF Crashed
<1>4. QED
  BY <1>1, <1>2, <1>3

\* a line is read from the pipe of one module
LEMMA ReadOff ==
    ASSUME TypeOK, NEW n \in Names, NEW line, Reads(n, line)
    PROVE  /\ out[n] \in Seq(Lines) /\ out[n] # <<>> /\ line = Head(out[n])
           /\ out'[n] = Tail(out[n])
           /\ \A m \in Names \ {n} : out'[m] = out[m]
           /\ UNCHANGED <<working, proc>>
BY DEF TypeOK, Reads

LEMMA CareEvent ==
    ASSUME OutputAssumption, Base, Base', CarefulInv, output_module_is_speaking
    PROVE  CarefulInv'
<1> USE DEF SpeakUnchanged, modules, pipes, talking, counters, ghosts
<1>0. /\ TypeOK /\ TypeOK' /\ pc["speak"] = "event" /\ NULL \notin Names
      /\ Open /\ Serving /\ pc["signal"] \notin HasTarget
  BY SpeakServes DEF Base, output_module_is_speaking, OutputAssumption
<1>n. PICK n \in Names : n = target["speak"]
  <2>1. target["speak"] \in Names \cup {NULL} /\ target["speak"] # NULL
    BY <1>0 DEF Base, Reloads, TypeOK, Threads
  <2>2. QED
    BY <2>1
<1>1. /\ UNCHANGED <<listed, open, talk, todo, crashes, inp, target, swallowed, lost>>
      /\ Goes("speak", "next") /\ mutex' = NULL
  BY DEF output_module_is_speaking, output_unlock
<1>2. /\ pc'["main"] = pc["main"] /\ pc'["signal"] = pc["signal"] /\ pc'["speak"] = "next"
      /\ mutex = "speak" /\ pc["main"] # "debug_reply" /\ pc["signal"] \notin {"quit", "wait"}
      /\ SPEAKING /\ polled # NULL /\ speaking_module \in {NULL, n}
      /\ speaking_module = NULL => proc[polled] # "up"
      /\ speaking_module = n => working[n] /\ polled = n
  <2>1. pc'["main"] = pc["main"] /\ pc'["signal"] = pc["signal"] /\ pc'["speak"] = "next"
    BY <1>0, <1>1 DEF Goes, TypeOK, Threads
  <2>2. mutex = "speak"
    BY <1>0 DEF CarefulInv, Locks
  <2>3. QED
    BY <1>0, <1>n, <2>1, <2>2 DEF CarefulInv, Polls, HasTarget
<1>3. Locks'
  BY <1>1, <1>2 DEF Locks
\* a line can only come from the module that speaks, and is an event
<1>4. /\ speaking_module = NULL => \/ ~working[n] \/ out[n] = <<>>
      /\ speaking_module = n => Suits("speaks", inp[n], out[n], talk[n], proc[n])
  <2>1. working[n] => Fits(n)
    BY <1>0, <1>2 DEF CarefulInv, Pipes
  <2>2. CASE speaking_module = NULL
    <3>1. Role(n) = "idle"
      BY <1>0, <1>2, <2>2 DEF Role
    <3>2. QED
      BY <1>0, <1>2, <2>1, <2>2, <3>1 DEF Fits, Suits
  <2>3. CASE speaking_module = n
    <3>1. Role(n) = "speaks"
      BY <1>0, <2>3 DEF Role
    <3>2. QED
      BY <1>0, <1>2, <2>1, <2>3, <3>1 DEF Fits
  <2>4. QED
    BY <1>2, <2>2, <2>3
<1>5. \A m \in Names \ {n} : Role(m)' = Role(m)
  <2>1. speaking_module' \in {NULL, n}
    BY <1>n, <1>2 DEF output_module_is_speaking, ReadFails, Broken
  <2>2. QED
    BY <1>0, <1>1, <1>2, <2>1 DEF Role
<1>6. Open' => Open
  BY <1>0
<1>7. ASSUME NEW line, Reads(n, line),
             \/ /\ line = "begin" /\ SPEAKING' = TRUE
                /\ UNCHANGED <<speaking_module, polled, message>>
             \/ /\ line = "over" /\ SPEAKING' = FALSE /\ polled' = NULL
                /\ speaking_module' = NULL /\ message' = NULL
             \/ /\ line \in Replies /\ SPEAKING' = FALSE
                /\ UNCHANGED <<speaking_module, polled, message>>
      PROVE  CarefulInv'
  <2>1. /\ out[n] \in Seq(Lines) /\ out[n] # <<>> /\ line = Head(out[n])
        /\ out'[n] = Tail(out[n]) /\ \A m \in Names \ {n} : out'[m] = out[m]
        /\ UNCHANGED <<working, proc>>
    BY <1>0, <1>2, <1>7, ReadOff
  <2>2. \/ speaking_module = NULL /\ ~working[n]
        \/ /\ speaking_module = n
           /\ \/ line = "begin" /\ Suits("speaks", inp[n], out'[n], talk[n], proc[n])
              \/ line = "over" /\ Suits("idle", inp[n], out'[n], talk[n], proc[n])
    BY <1>2, <1>4, <2>1, SuitsEvent
  <2>3. Polls'
    BY <1>0, <1>1, <1>2, <1>7, <1>n, <2>1, <2>2 DEF Polls, Open, Replies
  <2>4. Pipes'
    <3>1. working'[n] => Fits(n)'
      <4>1. CASE line = "begin" /\ speaking_module = n
        <5>1. Role(n)' = "speaks"
          BY <1>2, <1>7, <4>1 DEF Role
        <5>2. QED
          BY <1>1, <2>1, <2>2, <4>1, <5>1 DEF Fits
      <4>2. CASE line = "over" /\ speaking_module = n
        <5>1. speaking_module' = NULL /\ n # NULL
          BY <1>0, <1>2, <1>7, <4>2 DEF Replies
        <5>2. Role(n)' = "idle"
          BY <1>0, <1>1, <1>2, <5>1 DEF Role
        <5>3. QED
          BY <1>1, <2>1, <2>2, <4>2, <5>2 DEF Fits
      <4>3. QED
        BY <2>1, <2>2, <4>1, <4>2
    <3>2. \A m \in Names : working'[m] =>
              \/ Fits(m)'
              \/ /\ Role(m)' = Role(m)
                 /\ inp'[m] = inp[m] /\ out'[m] = out[m] /\ talk'[m] = talk[m]
                 /\ proc'[m] = proc[m] \/ proc'[m] # "up"
      BY <1>1, <1>5, <2>1, <3>1
    <3>3. QED
      BY <1>6, <2>1, <3>2, PipesKept DEF CarefulInv, NoneRevived
  <2>5. Account'
    <3>1. Crashed' = Crashed
      BY <2>1 DEF Crashed
    <3>2. Owed' = Owed \/ Owed' = lost
      BY <1>0, <1>1, <1>2, <1>7 DEF Owed, Missing
    <3>3. Owed' <= Owed
      BY <1>0, <1>1, <3>2, OwedTypes
    <3>4. QED
      BY <1>0, <1>1, <3>1, <3>3, AccountKept DEF CarefulInv
  <2>6. QED
    BY <1>1, <1>3, <2>3, <2>4, <2>5 DEF CarefulInv
<1>8. ASSUME ReadFails(n), SPEAKING' = FALSE, UNCHANGED <<polled, message>>
      PROVE  CarefulInv'
  <2>0. Broken(n) /\ proc[n] # "up" /\ UNCHANGED out
    BY <1>8 DEF ReadFails
  <2>1. /\ speaking_module' = NULL /\ ~working'[n] /\ NoneRevived
        /\ \A m \in Names \ {n} : working'[m] = working[m]
        /\ \A m \in Names : proc'[m] = proc[m] \/ proc'[m] # "up"
        /\ Crashed' \subseteq Crashed /\ n \notin Crashed'
        /\ working[n] => n \in Crashed
    BY <1>0, <1>2, <2>0, Noticed
  <2>2. polled \in Names /\ proc'[polled] # "up"
    BY <1>0, <1>2, <2>0, <2>1 DEF TypeOK
  <2>3. Polls'
    BY <1>0, <1>2, <1>8, <1>n, <2>1, <2>2 DEF Polls, Open
  <2>4. Pipes'
    BY <1>1, <1>5, <1>6, <2>0, <2>1, PipesKept DEF CarefulInv
  <2>5. Account'
    <3>1. CASE speaking_module = NULL
      <4>1. Owed' = Owed
        BY <1>0, <1>1, <1>2, <1>8, <2>1, <3>1 DEF Owed, Missing
      <4>2. QED
        BY <1>0, <1>1, <2>1, <4>1, AccountKept, OwedTypes DEF CarefulInv
    <3>2. CASE speaking_module = n
      <4>1. Owed' <= Owed + 1
        <5>1. lost \in Nat /\ Owed \in {lost, lost + 1} /\ Owed' \in {lost, lost + 1}
          BY <1>0, <1>1 DEF Owed, TypeOK
        <5>2. QED
          BY <5>1
      <4>2. QED
        BY <1>0, <1>1, <1>2, <2>1, <3>2, <4>1, AccountPaid DEF CarefulInv
    <3>3. QED
      BY <1>2, <3>1, <3>2
  <2>6. QED
    BY <1>1, <1>3, <2>3, <2>4, <2>5 DEF CarefulInv
<1>9. QED
  <2>1. CASE ReadFails(n)
    <3>1. \/ SPEAKING' = FALSE /\ UNCHANGED <<polled, message>>
          \/ \E line : Reads(n, line)
      BY <1>n DEF output_module_is_speaking
    <3>2. ~ \E line : Reads(n, line)
      BY <2>1 DEF Reads, ReadFails
    <3>3. QED
      BY <1>8, <2>1, <3>1, <3>2
  <2>2. CASE ~ReadFails(n)
    <3>1. \E line : /\ Reads(n, line)
                    /\ \/ /\ line = "begin" /\ SPEAKING' = TRUE
                          /\ UNCHANGED <<speaking_module, polled, message>>
                       \/ /\ line = "over" /\ SPEAKING' = FALSE /\ polled' = NULL
                          /\ speaking_module' = NULL /\ message' = NULL
                       \/ /\ line \in Replies /\ SPEAKING' = FALSE
                          /\ UNCHANGED <<speaking_module, polled, message>>
      BY <1>n, <2>2 DEF output_module_is_speaking
    <3>2. QED
      BY <1>7, <3>1
  <2>3. QED
    BY <2>1, <2>2

LEMMA CareChooses ==
    ASSUME OutputAssumption, Base, Base', CarefulInv, output_speak PROVE CarefulInv'
<1> USE DEF SpeakUnchanged, modules, pipes, talking, counters, ghosts
<1>0. /\ TypeOK /\ TypeOK' /\ pc["speak"] = "speak" /\ mutex = NULL /\ NULL \notin Names
      /\ Open /\ Serving /\ pc["signal"] \notin HasTarget
  BY SpeakServes DEF Base, output_speak, OutputAssumption
<1>1. UNCHANGED <<listed, open, talk, todo, crashes, out, SPEAKING, polled, swallowed>>
  BY DEF output_speak
<1>2. PICK m \in get_output_module(message) :
       \/ /\ m = NULL /\ Drops
          /\ UNCHANGED <<working, proc, inp, speaking_module, mutex, target>>
       \/ /\ m # NULL /\ Sends(m, <<"set">>)
          /\ speaking_module' = m
          /\ target' = [target EXCEPT !["speak"] = m]
          /\ output_lock("speak") /\ Goes("speak", "set")
          /\ UNCHANGED <<message, lost>>
       \/ /\ m # NULL /\ SendFails(m) /\ Drops
          /\ UNCHANGED <<mutex, target>>
  BY DEF output_speak
<1>3. /\ m # NULL => m \in Names /\ working[m] /\ m \in listed
      /\ m = NULL => \A n \in listed : ~working[n]
  <2>1. m # NULL => m \in Names /\ Works(m)
    BY <1>0 DEF get_output_module, Works, TypeOK
  <2>2. ASSUME m = NULL, NEW n \in listed, working[n] PROVE FALSE
    <3>1. Dummy # NULL /\ Default # NULL /\ message # NULL
      BY <1>0 DEF OutputAssumption, CarefulInv, Polls
    <3>2. n \in Names /\ NULL \notin listed
      BY <1>0 DEF TypeOK
    <3>3. CASE n = Dummy
      BY <2>2, <3>1, <3>2, <3>3 DEF get_output_module, Works
    <3>4. CASE n # Dummy
      BY <2>2, <3>1, <3>2, <3>4 DEF get_output_module, Works
    <3>5. QED
      BY <3>3, <3>4
  <2>3. QED
    BY <2>1, <2>2 DEF Works
\* nobody speaks, and nobody is asked anything
<1>4. /\ speaking_module = NULL /\ ~SPEAKING /\ message # NULL
      /\ pc["main"] # "debug_reply" /\ pc["signal"] \notin {"quit", "wait"}
      /\ \A n \in Names : Role(n) = "idle"
  <2>1. speaking_module = NULL /\ ~SPEAKING /\ message # NULL
    <3>1. ~SPEAKING /\ message # NULL
      BY <1>0 DEF CarefulInv, Polls
    <3>2. speaking_module = NULL
      BY <1>0, <3>1 DEF CarefulInv, Polls
    <3>3. QED
      BY <3>1, <3>2
  <2>2. pc["main"] # "debug_reply" /\ pc["signal"] \notin {"quit", "wait"}
    BY <1>0 DEF CarefulInv, Locks, OutputAssumption
  <2>3. QED
    BY <1>0, <2>1, <2>2 DEF Role
<1>5. Open' => Open
  BY <1>0
<1>6. ASSUME Drops, UNCHANGED <<mutex, target, inp>>, speaking_module' = NULL,
             \A n \in Names : proc'[n] = proc[n] \/ proc'[n] # "up",
             NoneRevived,
             Account'
      PROVE  CarefulInv'
  <2>1. /\ pc'["main"] = pc["main"] /\ pc'["signal"] = pc["signal"] /\ pc'["speak"] = "poll"
        /\ message' = NULL
    BY <1>0, <1>6 DEF Goes, Drops, TypeOK, Threads
  <2>2. Locks'
    BY <1>4, <2>1 DEF Locks
  <2>3. Polls'
    <3>1. polled # NULL => proc'[polled] # "up"
      <4>1. polled # NULL => proc[polled] # "up" /\ polled \in Names
        BY <1>0, <1>4 DEF CarefulInv, Polls, TypeOK
      <4>2. QED
        BY <1>6, <4>1
    <3>2. QED
      BY <1>1, <1>4, <1>6, <2>1, <3>1 DEF Polls
  <2>4. Pipes'
    <3>1. \A n \in Names : Role(n)' = Role(n)
      BY <1>0, <1>4, <1>6, <2>1 DEF Role
    <3>2. QED
      BY <1>1, <1>5, <1>6, <3>1, PipesKept DEF CarefulInv
  <2>5. QED
    BY <1>1, <1>6, <2>2, <2>3, <2>4 DEF CarefulInv
<1>7. Drops => ~Missing' /\ lost' = IF \E n \in listed : working[n] THEN lost + 1 ELSE lost
  BY DEF Drops, Missing
<1>8. CASE /\ m = NULL /\ Drops
           /\ UNCHANGED <<working, proc, inp, speaking_module, mutex, target>>
  <2>1. Crashed' = Crashed
    BY <1>8 DEF Crashed
  <2>2. lost' = lost /\ Owed' = lost
    BY <1>3, <1>7, <1>8 DEF Owed
  <2>3. Account'
    BY <1>0, <1>1, <2>1, <2>2, AccountKept, OwedTypes DEF CarefulInv
  <2>4. QED
    BY <1>4, <1>6, <1>8, <2>3 DEF NoneRevived
<1>9. CASE m # NULL /\ SendFails(m) /\ Drops /\ UNCHANGED <<mutex, target>>
  <2>1. Broken(m) /\ proc[m] # "up" /\ UNCHANGED inp /\ m \in Names /\ working[m]
    BY <1>3, <1>9 DEF SendFails
  <2>2. /\ speaking_module' = NULL /\ NoneRevived
        /\ \A n \in Names : proc'[n] = proc[n] \/ proc'[n] # "up"
        /\ Crashed' \subseteq Crashed /\ m \notin Crashed' /\ m \in Crashed
    BY <1>0, <2>1, Noticed
  <2>3. Owed' = lost + 1 /\ Owed = lost
    BY <1>0, <1>3, <1>7, <1>9 DEF Owed, Missing
  <2>4. Owed' <= Owed + 1
    BY <1>0, <2>3, OwedTypes
  <2>5. Account'
    BY <1>0, <1>1, <2>2, <2>4, AccountPaid DEF CarefulInv
  <2>6. QED
    BY <1>6, <1>9, <2>1, <2>2, <2>5
<1>10. CASE /\ m # NULL /\ Sends(m, <<"set">>)
            /\ speaking_module' = m
            /\ target' = [target EXCEPT !["speak"] = m]
            /\ output_lock("speak") /\ Goes("speak", "set")
            /\ UNCHANGED <<message, lost>>
  <2>1. /\ pc'["main"] = pc["main"] /\ pc'["signal"] = pc["signal"] /\ pc'["speak"] = "set"
        /\ target'["speak"] = m /\ target'["main"] = target["main"]
        /\ target'["signal"] = target["signal"] /\ mutex' = "speak"
        /\ m \in Names /\ working[m]
    BY <1>0, <1>3, <1>10 DEF Goes, TypeOK, Threads, output_lock
  <2>2. /\ inp'[m] = inp[m] \o <<"set">> /\ inp[m] \in Seq(Commands)
        /\ \A n \in Names \ {m} : inp'[n] = inp[n]
        /\ UNCHANGED <<working, proc>>
    BY <1>0, <1>10, <2>1 DEF Sends, TypeOK
  <2>3. Locks'
    BY <1>4, <2>1 DEF Locks
  <2>4. Polls'
    BY <1>0, <1>1, <1>4, <1>10, <2>1, <2>2 DEF CarefulInv, Polls, Open
  <2>5. Pipes'
    <3>1. Role(m)' = "set"
      BY <1>10, <2>1 DEF Role
    <3>2. Fits(m)
      BY <1>0, <2>1 DEF CarefulInv, Pipes
    <3>3. Suits("idle", inp[m], out[m], talk[m], proc[m])
      BY <1>4, <2>1, <3>2 DEF Fits
    <3>4. Suits("set", inp'[m], out[m], talk[m], proc[m])
      BY <2>2, <3>3, SuitsAsks
    <3>5. Fits(m)'
      BY <1>1, <1>10, <2>2, <3>1, <3>4 DEF Fits
    <3>6. \A n \in Names \ {m} : Role(n)' = Role(n)
      BY <1>0, <1>4, <1>10, <2>1 DEF Role
    <3>7. QED
      BY <1>1, <1>5, <2>2, <3>5, <3>6, PipesKept DEF CarefulInv, NoneRevived
  <2>6. Account'
    <3>1. Crashed' = Crashed
      BY <2>2 DEF Crashed
    <3>2. Owed' = lost
      BY <1>10 DEF Owed, Missing
    <3>3. QED
      BY <1>0, <1>1, <1>10, <3>1, <3>2, AccountKept, OwedTypes DEF CarefulInv
  <2>7. QED
    BY <1>1, <2>3, <2>4, <2>5, <2>6 DEF CarefulInv
<1>11. QED
  BY <1>2, <1>8, <1>9, <1>10

\* the message is handed over: "set", then "say"
LEMMA CareAnswers ==
    ASSUME OutputAssumption, Base, Base', CarefulInv,
           output_send_settings \/ SpeakReply
    PROVE  CarefulInv'
<1> USE DEF SpeakUnchanged, modules, pipes, talking, counters, ghosts
<1>0. /\ TypeOK /\ TypeOK' /\ pc["speak"] \in {"set", "say"} /\ NULL \notin Names
      /\ Open /\ Serving /\ pc["signal"] \notin HasTarget
  BY SpeakServes DEF Base, output_send_settings, SpeakReply, OutputAssumption
<1>n. PICK n \in Names : n = target["speak"]
  <2>1. target["speak"] \in Names \cup {NULL} /\ target["speak"] # NULL
    BY <1>0 DEF Base, Reloads, TypeOK, Threads
  <2>2. QED
    BY <2>1
<1>1. UNCHANGED <<listed, open, talk, todo, crashes, SPEAKING, polled, target>>
  BY DEF output_send_settings, SpeakReply
<1>2. /\ speaking_module = n /\ working[n] /\ n \in listed /\ ~SPEAKING /\ message # NULL
      /\ mutex = "speak" /\ pc["main"] # "debug_reply" /\ pc["signal"] \notin {"quit", "wait"}
      /\ polled # NULL => proc[polled] # "up" /\ polled \in Names
  <2>1. speaking_module = n /\ working[n] /\ ~SPEAKING /\ message # NULL
    BY <1>0, <1>n DEF CarefulInv, Polls
  <2>2. n \in listed
    BY <2>1 DEF Base, Loaded
  <2>3. mutex = "speak" /\ pc["main"] # "debug_reply"
    BY <1>0 DEF CarefulInv, Locks
  <2>4. polled # NULL => proc[polled] # "up" /\ polled \in Names
    BY <1>0, <2>1 DEF CarefulInv, Polls, TypeOK
  <2>5. QED
    BY <1>0, <2>1, <2>2, <2>3, <2>4 DEF HasTarget
\* the line that is there can only be the answer
<1>3. Role(n) = pc["speak"] /\ Suits(pc["speak"], inp[n], out[n], talk[n], proc[n])
  <2>1. Role(n) = pc["speak"]
    BY <1>0, <1>2 DEF Role
  <2>2. QED
    BY <1>0, <1>2, <2>1 DEF CarefulInv, Pipes, Fits
<1>4. out[n] \in Seq(Lines) /\ (out[n] # <<>> => Head(out[n]) = "ok")
  <2>1. out[n] \in Seq(Lines)
    BY <1>0 DEF TypeOK
  <2>2. QED
    BY <1>0, <1>3, <2>1, SuitsAnswered, SuitsSaid
<1>5. \A m \in Names \ {n} : speaking_module' \in {n, NULL} => Role(m)' = Role(m)
  <2>1. UNCHANGED target /\ pc'["main"] = pc["main"] /\ pc'["signal"] = pc["signal"]
    BY <1>0, <1>1 DEF output_send_settings, SpeakReply, Goes, Drops, TypeOK, Threads
  <2>2. QED
    BY <1>0, <1>2, <2>1 DEF Role
<1>6. Open' => Open
  BY <1>0
\* the module has died, and the message with it
<1>7. ASSUME Broken(n), proc[n] # "up", Drops, mutex' = NULL, UNCHANGED <<inp, swallowed>>,
             \A m \in Names \ {n} : out'[m] = out[m]
      PROVE  CarefulInv'
  <2>1. /\ speaking_module' = NULL /\ ~working'[n] /\ NoneRevived
        /\ \A m \in Names \ {n} : working'[m] = working[m]
        /\ \A m \in Names : proc'[m] = proc[m] \/ proc'[m] # "up"
        /\ Crashed' \subseteq Crashed /\ n \notin Crashed' /\ n \in Crashed
    BY <1>0, <1>2, <1>7, Noticed
  <2>2. /\ pc'["main"] = pc["main"] /\ pc'["signal"] = pc["signal"] /\ pc'["speak"] = "poll"
        /\ message' = NULL /\ lost' = lost + 1
    BY <1>0, <1>2, <1>7 DEF Goes, Drops, TypeOK, Threads
  <2>3. Locks'
    BY <1>2, <2>2 DEF Locks
  <2>4. Polls'
    BY <1>1, <1>2, <2>1, <2>2 DEF Polls
  <2>5. Pipes'
    BY <1>1, <1>5, <1>6, <1>7, <2>1, PipesKept DEF CarefulInv
  <2>6. Account'
    <3>1. Owed' = lost + 1 /\ Owed = lost
      BY <1>0, <1>2, <2>2 DEF Owed, Missing
    <3>2. Owed' <= Owed + 1
      BY <1>0, <3>1, OwedTypes
    <3>3. QED
      BY <1>0, <1>1, <2>1, <3>2, AccountPaid DEF CarefulInv
  <2>7. QED
    BY <1>7, <2>3, <2>4, <2>5, <2>6 DEF CarefulInv
\* the answer
<1>8. ASSUME NEW to, Goes("speak", to), out[n] # <<>>, out' = [out EXCEPT ![n] = Tail(@)],
             UNCHANGED <<working, proc, speaking_module, message, lost, swallowed>>,
             \A m \in Names \ {n} : inp'[m] = inp[m],
             \/ to = "say" /\ mutex' = mutex /\ Suits("say", inp'[n], out'[n], talk[n], proc[n])
             \/ to = "said" /\ mutex' = NULL /\ Suits("speaks", inp'[n], out'[n], talk[n], proc[n])
      PROVE  CarefulInv'
  <2>1. /\ pc'["main"] = pc["main"] /\ pc'["signal"] = pc["signal"] /\ pc'["speak"] = to
        /\ \A m \in Names \ {n} : out'[m] = out[m]
    BY <1>0, <1>8 DEF Goes, TypeOK, Threads
  <2>2. Locks'
    BY <1>2, <1>8, <2>1 DEF Locks
  <2>3. Polls'
    BY <1>0, <1>1, <1>2, <1>8, <1>n, <2>1 DEF CarefulInv, Polls, Open
  <2>4. Pipes'
    <3>1. Role(n)' = IF to = "say" THEN "say" ELSE "speaks"
      BY <1>2, <1>8, <2>1 DEF Role
    <3>2. Fits(n)'
      BY <1>1, <1>8, <3>1 DEF Fits
    <3>3. QED
      BY <1>1, <1>2, <1>5, <1>6, <1>8, <2>1, <3>2, PipesKept DEF CarefulInv, NoneRevived
  <2>5. Account'
    <3>1. Crashed' = Crashed
      BY <1>8 DEF Crashed
    <3>2. Owed' = Owed
      BY <1>0, <1>2, <1>8 DEF Owed, Missing
    <3>3. QED
      BY <1>0, <1>1, <3>1, <3>2, AccountKept, OwedTypes DEF CarefulInv
  <2>6. QED
    BY <1>8, <2>2, <2>3, <2>4, <2>5 DEF CarefulInv
<1>9. CASE Refused(n) /\ Drops /\ output_unlock("speak") /\ UNCHANGED inp
  <2>1. ReadFails(n) /\ UNCHANGED swallowed
    BY <1>4, <1>9 DEF Refused, Reads
  <2>2. QED
    BY <1>7, <1>9, <2>1 DEF ReadFails, output_unlock
<1>10. CASE output_send_settings
  <2>0. pc["speak"] = "set"
    BY <1>10 DEF output_send_settings
  <2>1. CASE /\ out[n] # <<>> /\ out' = [out EXCEPT ![n] = Tail(@)]
             /\ inp' = [inp EXCEPT ![n] = Append(@, "speak")] /\ Goes("speak", "say")
             /\ UNCHANGED <<working, proc, speaking_module, mutex, message, lost, swallowed>>
    <3>1. /\ inp'[n] = Append(inp[n], "speak") /\ out'[n] = Tail(out[n])
          /\ \A m \in Names \ {n} : inp'[m] = inp[m]
      BY <1>0, <2>1 DEF TypeOK
    <3>2. Suits("say", inp'[n], out'[n], talk[n], proc[n])
      BY <1>3, <1>4, <2>0, <2>1, <3>1, SuitsAnswered
    <3>3. QED
      BY <1>8, <2>1, <3>1, <3>2
  <2>2. CASE /\ SendFails(n) /\ out' = [out EXCEPT ![n] = Tail(@)]
             /\ Drops /\ output_unlock("speak") /\ UNCHANGED swallowed
    <3>1. \A m \in Names \ {n} : out'[m] = out[m]
      BY <1>0, <2>2 DEF TypeOK
    <3>2. QED
      BY <1>7, <2>2, <3>1 DEF SendFails, output_unlock
  <2>3. QED
    BY <1>9, <1>10, <1>n, <2>1, <2>2 DEF output_send_settings
<1>11. CASE SpeakReply
  <2>0. pc["speak"] = "say"
    BY <1>11 DEF SpeakReply
  <2>1. CASE /\ Reads(n, "ok") /\ Goes("speak", "said") /\ output_unlock("speak")
             /\ UNCHANGED <<inp, speaking_module, message, lost, swallowed>>
    <3>1. /\ out'[n] = Tail(out[n]) /\ out[n] # <<>> /\ UNCHANGED <<working, proc>>
          /\ out' = [out EXCEPT ![n] = Tail(@)]
      BY <1>0, <2>1 DEF TypeOK, Reads
    <3>2. Suits("speaks", inp'[n], out'[n], talk[n], proc[n])
      BY <1>3, <1>4, <2>0, <2>1, <3>1, SuitsSaid
    <3>3. QED
      BY <1>8, <2>1, <3>1, <3>2 DEF output_unlock
  <2>2. QED
    BY <1>9, <1>11, <1>n, <2>1 DEF SpeakReply
<1>12. QED
  BY <1>10, <1>11

LEMMA CareSpeak ==
    ASSUME OutputAssumption, Base, Base', CarefulInv, Speak PROVE CarefulInv'
BY CarePoll, CareCleanup, CareMoves, CareTakes, CareEvent, CareChooses, CareAnswers DEF Speak

-----------------------------------------------------------------------------
(* The steps of the main thread, and those that reload.                    *)

\* a thread only moves on
LEMMA CareQuiet ==
    ASSUME OutputAssumption, Base, Base', CarefulInv,
           UNCHANGED <<working, proc, inp, out, talk, speaking_module, SPEAKING, polled,
                       mutex, target, message, lost, swallowed, crashes>>,
           pc'["speak"] = pc["speak"],
           Open' => Open, Serving' => Serving,
           \/ pc'["main"] = pc["main"]
           \/ pc["main"] # "debug_reply" /\ pc'["main"] # "debug_reply",
           \/ pc'["signal"] = pc["signal"]
           \/ pc["signal"] \notin HasTarget /\ pc'["signal"] \notin HasTarget
    PROVE  CarefulInv'
<1>0. TypeOK /\ TypeOK'
  BY DEF Base
<1>1. Locks'
  BY DEF CarefulInv, Locks, HasTarget
<1>2. Polls'
  BY DEF CarefulInv, Polls
<1>3. Pipes'
  <2>1. \A n \in Names : Role(n)' = Role(n)
    BY DEF Role
  <2>2. QED
    BY <2>1, PipesKept DEF CarefulInv, NoneRevived
<1>4. Account'
  <2>1. Crashed' = Crashed /\ Owed' = Owed
    BY DEF Crashed, Owed, Missing
  <2>2. QED
    BY <1>0, <2>1, AccountKept, OwedTypes DEF CarefulInv
<1>5. QED
  BY <1>1, <1>2, <1>3, <1>4 DEF CarefulInv

\* at the end nothing is left but the account
LEMMA CareEnds ==
    ASSUME Base', CarefulInv, ~Open', UNCHANGED <<lost, crashes, swallowed>>
    PROVE  CarefulInv'
<1>1. pc'["speak"] = "gone" /\ pc'["signal"] = "ended" /\ pc'["main"] # "debug_reply"
  BY DEF Base, Restarts, Open
<1>2. Locks' /\ Polls' /\ Pipes'
  BY <1>1 DEF Locks, Polls, Pipes
<1>3. Account'
  BY DEF CarefulInv, Account, Serving
<1>4. QED
  BY <1>2, <1>3 DEF CarefulInv

LEMMA CareStop ==
    ASSUME OutputAssumption, Careful, Base, Base', CarefulInv,
           output_stop, UNCHANGED reloading
    PROVE  CarefulInv'
<1> USE DEF MainUnchanged, modules, pipes, talking, counters, ghosts
<1>0. /\ TypeOK /\ TypeOK' /\ NULL \notin Names
      /\ pc["main"] = "idle" /\ Open /\ pc["speak"] \notin {"speak", "set", "say", "said"}
  BY DEF Base, output_stop, ElementFree, Open, OutputAssumption
<1>1. UNCHANGED <<listed, open, talk, crashes, out, SPEAKING, polled, mutex, target, pc,
                  message, lost, swallowed>>
  BY DEF output_stop
<1>2. Open' = Open /\ Serving' = Serving
  BY <1>1 DEF Serving, Open
<1>3. CASE speaking_module = NULL
  <2>1. UNCHANGED <<working, proc, inp, speaking_module>>
    BY <1>3 DEF output_stop
  <2>2. QED
    BY <1>1, <1>2, <2>1, CareQuiet
<1>4. CASE speaking_module # NULL
  <2>1. PICK n \in Names : n = speaking_module
    BY <1>0, <1>4 DEF TypeOK
  <2>2. /\ working[n] /\ SPEAKING /\ polled = n
        /\ pc["speak"] # "gone" /\ Serving /\ pc["signal"] \notin HasTarget
    <3>1. pc["speak"] # "gone"
      BY <1>0, <1>4 DEF Base, Restarts
    <3>2. working[n] /\ SPEAKING
      BY <1>0, <1>4, <2>1 DEF CarefulInv, Polls
    <3>3. polled = n
      BY <1>0, <1>4, <2>1, <3>2 DEF CarefulInv, Polls
    <3>4. QED
      BY <3>1, <3>2, <3>3, SpeakServes
  <2>3. Locks'
    BY <1>1 DEF CarefulInv, Locks
  <2>4. speaking_module' \in {n, NULL} => \A m \in Names \ {n} : Role(m)' = Role(m)
    BY <1>0, <1>1, <2>1 DEF Role
  <2>5. CASE Sends(n, <<"stop">>) /\ UNCHANGED speaking_module
    <3>1. /\ inp'[n] = inp[n] \o <<"stop">> /\ inp[n] \in Seq(Commands)
          /\ \A m \in Names \ {n} : inp'[m] = inp[m]
          /\ UNCHANGED <<working, proc>>
      BY <1>0, <2>5 DEF Sends, TypeOK
    <3>2. Role(n) = "speaks" /\ Role(n)' = "speaks"
      BY <1>0, <1>1, <2>1, <2>5 DEF Role
    <3>3. Suits("speaks", inp[n], out[n], talk[n], proc[n])
      BY <1>0, <2>2, <3>2 DEF CarefulInv, Pipes, Fits
    <3>4. Suits("speaks", inp'[n], out[n], talk[n], proc[n])
      BY <3>1, <3>3, SuitsStop
    <3>5. Fits(n)'
      BY <1>1, <3>1, <3>2, <3>4 DEF Fits
    <3>6. Pipes'
      BY <1>1, <1>2, <2>1, <2>4, <2>5, <3>1, <3>5, PipesKept DEF CarefulInv, NoneRevived
    <3>7. Polls'
      BY <1>1, <1>2, <2>5, <3>1 DEF CarefulInv, Polls
    <3>8. Account'
      <4>1. Crashed' = Crashed /\ Owed' = Owed
        BY <1>1, <2>5, <3>1 DEF Crashed, Owed, Missing
      <4>2. QED
        BY <1>0, <1>1, <1>2, <4>1, AccountKept, OwedTypes DEF CarefulInv
    <3>9. QED
      BY <1>1, <2>3, <3>6, <3>7, <3>8 DEF CarefulInv
  <2>6. CASE SendFails(n)
    <3>1. Broken(n) /\ proc[n] # "up" /\ UNCHANGED inp
      BY <2>6 DEF SendFails
    <3>2. /\ speaking_module' = NULL /\ NoneRevived
          /\ \A m \in Names : proc'[m] = proc[m] \/ proc'[m] # "up"
          /\ \A m \in Names \ {n} : working'[m] = working[m]
          /\ Crashed' \subseteq Crashed /\ n \notin Crashed' /\ n \in Crashed
          /\ ~working'[n]
      BY <1>0, <2>2, <3>1, Noticed
    <3>3. Pipes'
      BY <1>1, <1>2, <2>4, <3>1, <3>2, PipesKept DEF CarefulInv
    <3>4. Polls'
      <4>1. proc'[polled] # "up"
        BY <2>1, <2>2, <3>1, <3>2
      <4>2. QED
        BY <1>0, <1>1, <1>2, <2>1, <2>2, <3>2, <4>1 DEF CarefulInv, Polls
    <3>5. Account'
      <4>1. Owed' <= Owed + 1
        <5>1. lost \in Nat /\ Owed \in {lost, lost + 1} /\ Owed' \in {lost, lost + 1}
          BY <1>0, <1>1 DEF Owed, TypeOK
        <5>2. QED
          BY <5>1
      <4>2. QED
        BY <1>0, <1>1, <2>2, <3>2, <4>1, AccountPaid DEF CarefulInv
    <3>6. QED
      BY <1>1, <2>3, <3>3, <3>4, <3>5 DEF CarefulInv
  <2>7. QED
    BY <1>4, <2>1, <2>5, <2>6 DEF output_stop
<1>5. QED
  BY <1>3, <1>4

LEMMA CareDebug ==
    ASSUME OutputAssumption, Careful, Base, Base', CarefulInv,
           output_send_debug, UNCHANGED reloading
    PROVE  CarefulInv'
<1> USE DEF MainUnchanged, DebugUnchanged, modules, pipes, talking, counters, ghosts
<1>0. /\ TypeOK /\ TypeOK' /\ NULL \notin Names /\ mutex = NULL
      /\ pc["main"] = "debug" /\ Open /\ pc["speak"] \notin {"speak", "set", "say", "said"}
      /\ ~SPEAKING
  BY DEF Base, output_send_debug, ElementFree, Open, OutputAssumption
<1>1. UNCHANGED <<listed, open, talk, crashes, out, SPEAKING, polled, message, lost, swallowed>>
  BY DEF output_send_debug
\* no module speaks, and none is being closed just now
<1>2. /\ speaking_module = NULL
      /\ pc["signal"] \notin {"quit", "wait"} /\ pc["speak"] # "event"
  <2>1. speaking_module = NULL
    BY <1>0 DEF CarefulInv, Polls
  <2>2. pc["signal"] \notin {"quit", "wait"} /\ pc["speak"] # "event"
    BY <1>0 DEF CarefulInv, Locks, OutputAssumption
  <2>3. QED
    BY <2>1, <2>2
<1>3. PICK n \in todo["main"] :
       \/ /\ ~Works(n) /\ Left("main", n)
          /\ UNCHANGED <<working, proc, inp, speaking_module, mutex, pc, target>>
       \/ /\ Works(n) /\ Sends(n, <<"debug">>)
          /\ target' = [target EXCEPT !["main"] = n]
          /\ output_lock("main") /\ Goes("main", "debug_reply")
          /\ UNCHANGED <<speaking_module, todo>>
       \/ /\ Works(n) /\ SendFails(n) /\ Left("main", n)
          /\ UNCHANGED <<mutex, pc, target>>
  BY DEF output_send_debug
<1>4. n \in Names
  BY <1>0 DEF TypeOK, Threads
<1>5. CASE UNCHANGED <<working, proc, inp, speaking_module, mutex, pc, target>>
  <2>1. Open' = Open /\ Serving' = Serving
    BY <1>5 DEF Serving, Open
  <2>2. QED
    BY <1>1, <1>5, <2>1, CareQuiet
<1>6. CASE /\ Works(n) /\ Sends(n, <<"debug">>)
           /\ target' = [target EXCEPT !["main"] = n]
           /\ output_lock("main") /\ Goes("main", "debug_reply")
           /\ UNCHANGED <<speaking_module, todo>>
  <2>1. /\ pc'["speak"] = pc["speak"] /\ pc'["signal"] = pc["signal"]
        /\ pc'["main"] = "debug_reply" /\ mutex' = "main" /\ target'["main"] = n
        /\ target'["speak"] = target["speak"] /\ target'["signal"] = target["signal"]
        /\ working[n]
    BY <1>0, <1>4, <1>6 DEF Goes, output_lock, Works, TypeOK, Threads
  <2>2. /\ inp'[n] = inp[n] \o <<"debug">> /\ inp[n] \in Seq(Commands)
        /\ \A m \in Names \ {n} : inp'[m] = inp[m]
        /\ UNCHANGED <<working, proc>> /\ proc[n] = "up"
    BY <1>0, <1>4, <1>6 DEF Sends, TypeOK
  <2>3. Fits(n)
    BY <1>0, <1>4, <2>1 DEF CarefulInv, Pipes
  <2>4. pc["signal"] \in HasTarget => target["signal"] # n
    <3>1. ASSUME pc["signal"] \in HasTarget, target["signal"] = n PROVE FALSE
      <4>1. Role(n) = "gone"
        BY <1>0, <1>2, <1>4, <3>1 DEF Role
      <4>2. QED
        BY <2>2, <2>3, <4>1 DEF Fits, Suits
    <3>2. QED
      BY <3>1
  <2>5. Role(n) = "idle" /\ Role(n)' = "debug"
    BY <1>0, <1>2, <1>4, <1>6, <2>1, <2>4 DEF Role
  <2>6. Suits("debug", inp'[n], out[n], talk[n], proc[n])
    BY <2>2, <2>3, <2>5, SuitsAsks DEF Fits
  <2>7. Fits(n)'
    BY <1>1, <2>2, <2>5, <2>6 DEF Fits
  <2>8. \A m \in Names \ {n} : Role(m)' = Role(m)
    BY <1>0, <1>2, <1>6, <2>1 DEF Role
  <2>9. Open' /\ (Serving' => Serving)
    BY <1>0, <2>1 DEF Open, Serving
  <2>10. Pipes'
    BY <1>0, <1>1, <2>2, <2>7, <2>8, PipesKept DEF CarefulInv, NoneRevived
  <2>11. Locks'
    BY <1>0, <1>2, <2>1 DEF Locks, CarefulInv, OutputAssumption
  <2>12. Polls'
    BY <1>0, <1>1, <1>2, <1>6, <2>1, <2>2, <2>4 DEF CarefulInv, Polls
  <2>13. Account'
    <3>1. Crashed' = Crashed /\ Owed' = Owed
      BY <1>1, <1>6, <2>1, <2>2 DEF Crashed, Owed, Missing
    <3>2. QED
      BY <1>0, <1>1, <2>9, <3>1, AccountKept, OwedTypes DEF CarefulInv
  <2>14. QED
    BY <1>1, <2>10, <2>11, <2>12, <2>13 DEF CarefulInv
<1>7. CASE Works(n) /\ SendFails(n) /\ UNCHANGED <<mutex, pc, target>>
  <2>1. Broken(n) /\ proc[n] # "up" /\ UNCHANGED inp
    BY <1>7 DEF SendFails
  <2>2. /\ speaking_module' = NULL /\ NoneRevived
        /\ \A m \in Names : proc'[m] = proc[m] \/ proc'[m] # "up"
        /\ Crashed' \subseteq Crashed
    BY <1>0, <1>4, <2>1, Noticed
  <2>3. Open' = Open /\ Serving' = Serving
    BY <1>7 DEF Open, Serving
  <2>4. Locks'
    BY <1>7 DEF CarefulInv, Locks
  <2>5. Polls'
    <3>1. polled # NULL => polled \in Names /\ proc'[polled] # "up"
      <4>1. polled # NULL => polled \in Names /\ proc[polled] # "up"
        BY <1>0 DEF CarefulInv, Polls, TypeOK
      <4>2. QED
        BY <2>2, <4>1
    <3>2. QED
      BY <1>0, <1>1, <1>2, <1>7, <2>2, <3>1 DEF CarefulInv, Polls
  <2>6. Pipes'
    <3>1. \A m \in Names : Role(m)' = Role(m)
      BY <1>0, <1>2, <1>7, <2>2 DEF Role
    <3>2. QED
      BY <1>1, <2>1, <2>2, <2>3, <3>1, PipesKept DEF CarefulInv
  <2>7. Account'
    <3>1. Owed' = Owed
      BY <1>1, <1>2, <1>7, <2>2 DEF Owed, Missing
    <3>2. QED
      BY <1>0, <1>1, <2>2, <2>3, <3>1, AccountKept, OwedTypes DEF CarefulInv
  <2>8. QED
    BY <1>1, <2>4, <2>5, <2>6, <2>7 DEF CarefulInv
<1>8. QED
  BY <1>3, <1>5, <1>6, <1>7

LEMMA CareDebugReply ==
    ASSUME OutputAssumption, Base, Base', CarefulInv, DebugReply, UNCHANGED reloading
    PROVE  CarefulInv'
<1> USE DEF MainUnchanged, DebugUnchanged, modules, pipes, talking, counters, ghosts
<1>0. /\ TypeOK /\ TypeOK' /\ NULL \notin Names
      /\ pc["main"] = "debug_reply" /\ Open
  BY DEF Base, DebugReply, Open, OutputAssumption
<1>n. PICK n \in Names : n = target["main"]
  <2>1. target["main"] \in Names \cup {NULL} /\ target["main"] # NULL
    BY <1>0 DEF Base, Reloads, TypeOK, Threads
  <2>2. QED
    BY <2>1
<1>1. /\ UNCHANGED <<listed, open, talk, crashes, inp, SPEAKING, polled, message, lost, target>>
      /\ mutex' = NULL /\ Goes("main", "debug")
  BY DEF DebugReply, output_unlock
<1>2. /\ pc'["speak"] = pc["speak"] /\ pc'["signal"] = pc["signal"] /\ pc'["main"] = "debug"
      /\ ~SPEAKING /\ working[n] /\ speaking_module = NULL
      /\ pc["speak"] \notin {"event", "set", "say", "said"}
      /\ pc["signal"] \notin {"quit", "wait"}
      /\ pc["signal"] \in HasTarget => target["signal"] # n
  <2>1. pc'["speak"] = pc["speak"] /\ pc'["signal"] = pc["signal"] /\ pc'["main"] = "debug"
    BY <1>0, <1>1 DEF Goes, TypeOK, Threads
  <2>2. /\ ~SPEAKING /\ working[n] /\ pc["speak"] \notin {"set", "say", "said"}
        /\ pc["signal"] \in HasTarget => target["signal"] # n
    BY <1>0, <1>n DEF CarefulInv, Polls
  <2>3. speaking_module = NULL
    BY <1>0, <2>2 DEF CarefulInv, Polls
  <2>4. pc["speak"] # "event" /\ pc["signal"] \notin {"quit", "wait"}
    BY <1>0 DEF CarefulInv, Locks
  <2>5. QED
    BY <2>1, <2>2, <2>3, <2>4
\* the line that is there can only be the answer
<1>3. Role(n) = "debug" /\ Suits("debug", inp[n], out[n], talk[n], proc[n])
  <2>1. Role(n) = "debug"
    BY <1>0, <1>2, <1>n DEF Role
  <2>2. QED
    BY <1>0, <1>2, <2>1 DEF CarefulInv, Pipes, Fits
<1>4. Open' /\ (Serving' => Serving)
  BY <1>0, <1>2 DEF Open, Serving
<1>5. Locks'
  BY <1>2 DEF Locks
<1>6. \A m \in Names \ {n} : speaking_module' = NULL => Role(m)' = Role(m)
  BY <1>0, <1>1, <1>2, <1>n DEF Role
<1>7. CASE /\ UNCHANGED speaking_module
           /\ \E line \in Replies \cup {"begin", "over"} : Reads(n, line) /\ Expects(line)
  <2>1. PICK line : Reads(n, line) /\ Expects(line)
    BY <1>7
  <2>2. /\ out[n] \in Seq(Lines) /\ out[n] # <<>> /\ line = Head(out[n])
        /\ out'[n] = Tail(out[n])
        /\ \A m \in Names \ {n} : out'[m] = out[m]
        /\ UNCHANGED <<working, proc>>
    BY <1>0, <2>1, ReadOff
  <2>3. line = "ok" /\ Suits("idle", inp[n], out'[n], talk[n], proc[n])
    BY <1>3, <2>2, SuitsAnswered
  <2>4. ~swallowed'
    BY <2>1, <2>3 DEF Expects, Replies, CarefulInv
  <2>5. Role(n)' = "idle"
    BY <1>0, <1>1, <1>2, <1>7, <1>n DEF Role
  <2>6. Fits(n)'
    BY <1>1, <2>2, <2>3, <2>5 DEF Fits
  <2>7. Pipes'
    BY <1>0, <1>1, <1>2, <1>6, <1>7, <2>2, <2>6, PipesKept DEF CarefulInv, NoneRevived
  <2>8. Polls'
    BY <1>0, <1>1, <1>2, <1>7, <2>2 DEF CarefulInv, Polls
  <2>9. Account'
    <3>1. Crashed' = Crashed /\ Owed' = Owed
      BY <1>1, <1>2, <1>7, <2>2 DEF Crashed, Owed, Missing
    <3>2. QED
      BY <1>0, <1>1, <1>4, <3>1, AccountKept, OwedTypes DEF CarefulInv
  <2>10. QED
    BY <1>5, <2>4, <2>7, <2>8, <2>9 DEF CarefulInv
<1>8. CASE ReadFails(n) /\ UNCHANGED swallowed
  <2>1. Broken(n) /\ proc[n] # "up" /\ UNCHANGED out
    BY <1>8 DEF ReadFails
  <2>2. /\ speaking_module' = NULL /\ NoneRevived
        /\ \A m \in Names : proc'[m] = proc[m] \/ proc'[m] # "up"
        /\ Crashed' \subseteq Crashed /\ ~working'[n]
    BY <1>0, <2>1, Noticed
  <2>3. Polls'
    <3>1. polled # NULL => proc'[polled] # "up"
      <4>1. polled # NULL => polled \in Names /\ proc[polled] # "up"
        BY <1>0, <1>2 DEF CarefulInv, Polls, TypeOK
      <4>2. QED
        BY <2>2, <4>1
    <3>2. QED
      BY <1>0, <1>1, <1>2, <2>2, <3>1 DEF CarefulInv, Polls
  <2>4. Pipes'
    BY <1>0, <1>1, <1>6, <2>1, <2>2, PipesKept DEF CarefulInv
  <2>5. Account'
    <3>1. Owed' = Owed
      BY <1>1, <1>2, <2>2 DEF Owed, Missing
    <3>2. QED
      BY <1>0, <1>1, <1>4, <2>2, <3>1, AccountKept, OwedTypes DEF CarefulInv
  <2>6. QED
    BY <1>5, <1>8, <2>3, <2>4, <2>5 DEF CarefulInv
<1>9. QED
  BY <1>7, <1>8, <1>n DEF DebugReply

\* what is left of the main thread
LEMMA CareMain ==
    ASSUME OutputAssumption, Careful, Base, Base', CarefulInv, Main \/ Clients
    PROVE  CarefulInv'
<1> USE DEF MainUnchanged, modules, pipes, talking, counters, ghosts
<1>0. /\ TypeOK /\ "main" \in Threads /\ Threads = {"speak", "main", "signal"}
      /\ pc \in [Threads -> SpeakPlaces \cup MainPlaces \cup SignalPlaces]
  BY DEF Base, TypeOK, Threads
<1>1. CASE (output_stop \/ output_send_debug \/ DebugReply) /\ UNCHANGED reloading
  BY <1>1, CareStop, CareDebug, CareDebugReply
<1>2. CASE (\E name \in Names \ {Dummy} : queue_message(name)) /\ UNCHANGED reloading
  <2>1. UNCHANGED <<working, proc, inp, out, talk, speaking_module, SPEAKING, polled,
                    mutex, target, message, lost, swallowed, crashes, pc, reloading>>
    BY <1>2 DEF queue_message
  <2>2. Open' = Open /\ Serving' = Serving
    BY <2>1 DEF Open, Serving
  <2>3. QED
    BY <2>1, <2>2, CareQuiet
<1>3. CASE (modules_debug \/ DebugEnds) /\ UNCHANGED reloading
  <2>1. UNCHANGED <<working, proc, inp, out, talk, speaking_module, SPEAKING, polled,
                    mutex, target, message, lost, swallowed, crashes, reloading>>
    BY <1>3 DEF modules_debug, DebugEnds, DebugUnchanged
  <2>2. /\ pc["main"] \in {"idle", "debug"} /\ pc'["main"] \in {"idle", "debug"}
        /\ pc'["speak"] = pc["speak"] /\ pc'["signal"] = pc["signal"]
    BY <1>0, <1>3 DEF modules_debug, DebugEnds, Goes
  <2>3. Open /\ (Serving' => Serving)
    BY <2>1, <2>2 DEF Open, Serving
  <2>4. QED
    BY <2>1, <2>2, <2>3, CareQuiet
<1>4. CASE (quit \/ QuitEnds) /\ UNCHANGED reloading
  <2>1. ~Open' /\ UNCHANGED <<lost, crashes, swallowed>>
    BY <1>0, <1>4 DEF quit, QuitEnds, Goes, Open
  <2>2. QED
    BY <2>1, CareEnds
<1>5. CASE Closes("main")
  <2>1. pc'["main"] \in Closing
    BY <1>0, <1>5 DEF Closes, output_close, QuitReply, waitpid_with_timeout,
                      unload_output_module, Goes, Closing
  <2>2. UNCHANGED <<lost, crashes, swallowed>>
    BY <1>5 DEF Closes, output_close, QuitReply, waitpid_with_timeout,
                unload_output_module, CloseUnchanged, ShutUnchanged
  <2>3. QED
    BY <2>1, <2>2, CareEnds DEF Open, Closing
<1>6. QED
  BY <1>1, <1>2, <1>3, <1>4, <1>5 DEF Main, Clients

LEMMA FitsKept ==
    ASSUME Pipes, Open, NEW n \in Names, working[n], Role(n)' = Role(n),
           inp'[n] = inp[n], out'[n] = out[n], talk'[n] = talk[n],
           proc'[n] = proc[n] \/ proc'[n] # "up"
    PROVE  Fits(n)'
BY SuitsCrash DEF Pipes, Fits

\* while modules are reloaded nobody speaks
LEMMA Reloading ==
    ASSUME OutputAssumption, Base, CarefulInv, pc["signal"] \in Closing
    PROVE  /\ Open /\ pc["speak"] = "gone" /\ speaking_module = NULL /\ NULL \notin Names
           /\ ~SPEAKING /\ polled = NULL
           /\ reloading = "dead" => Serving
<1>1. pc["speak"] = "gone" /\ Open
  BY DEF Base, Restarts, Closing
<1>2. speaking_module = NULL /\ ~SPEAKING /\ polled = NULL
  BY <1>1 DEF Base, Restarts, CarefulInv, Polls
<1>3. QED
  BY <1>1, <1>2 DEF Serving, OutputAssumption

LEMMA CareClose ==
    ASSUME OutputAssumption, Base, Base', CarefulInv, Closes("signal") PROVE CarefulInv'
<1> USE DEF modules, pipes, talking, counters, ghosts
<1>0. /\ TypeOK /\ TypeOK' /\ pc["signal"] \in Closing
      /\ Threads = {"speak", "main", "signal"}
      /\ pc \in [Threads -> SpeakPlaces \cup MainPlaces \cup SignalPlaces]
      /\ target \in [Threads -> Names \cup {NULL}]
  BY DEF Base, TypeOK, Threads, Closes, output_close, QuitReply, waitpid_with_timeout,
         unload_output_module, Closing
<1>1. /\ Open /\ pc["speak"] = "gone" /\ speaking_module = NULL /\ NULL \notin Names
      /\ ~SPEAKING /\ polled = NULL
      /\ reloading = "dead" => Serving
  BY <1>0, Reloading
<1>2. /\ UNCHANGED <<talk, SPEAKING, polled, message, lost, crashes, swallowed, reloading>>
      /\ speaking_module' = NULL
      /\ \E to \in Closing : Goes("signal", to)
  <2>1. CASE output_close("signal")
    BY <1>1, <2>1 DEF output_close, CloseUnchanged, SendFails, Broken, Closing
  <2>2. CASE QuitReply("signal")
    BY <1>1, <2>2 DEF QuitReply, CloseUnchanged, ReadFails, Broken, Closing
  <2>3. CASE waitpid_with_timeout("signal")
    BY <1>1, <2>3 DEF waitpid_with_timeout, Closing
  <2>4. CASE unload_output_module("signal")
    BY <1>1, <2>4 DEF unload_output_module, ShutUnchanged, Closing
  <2>5. QED
    BY <2>1, <2>2, <2>3, <2>4 DEF Closes
<1>3. /\ pc'["speak"] = "gone" /\ pc'["main"] = pc["main"] /\ pc'["signal"] \in Closing
      /\ Open' /\ (Serving' => Serving)
  <2>1. pc'["speak"] = "gone" /\ pc'["main"] = pc["main"] /\ pc'["signal"] \in Closing
    BY <1>0, <1>1, <1>2 DEF Goes
  <2>2. QED
    BY <1>0, <1>1, <1>2, <2>1 DEF Open, Serving
<1>4. Owed' = Owed
  BY <1>1, <1>2, <1>3 DEF Owed, Missing
<1>5. ASSUME Locks', NoneRevived, Crashed' \subseteq Crashed,
             pc["main"] = "debug_reply" =>
                /\ target'["main"] = target["main"] /\ working'[target["main"]]
                /\ pc'["signal"] \in HasTarget => target'["signal"] # target["main"],
             \A m \in Names : working'[m] =>
              \/ Fits(m)'
              \/ /\ Role(m)' = Role(m)
                 /\ inp'[m] = inp[m] /\ out'[m] = out[m] /\ talk'[m] = talk[m]
                 /\ proc'[m] = proc[m] \/ proc'[m] # "up"
      PROVE  CarefulInv'
  <2>1. Polls'
    BY <1>1, <1>2, <1>3, <1>5 DEF CarefulInv, Polls
  <2>2. Pipes'
    BY <1>1, <1>5, PipesKept DEF CarefulInv
  <2>3. Account'
    BY <1>0, <1>1, <1>2, <1>3, <1>4, <1>5, AccountKept, OwedTypes DEF CarefulInv
  <2>4. QED
    BY <1>2, <1>5, <2>1, <2>2, <2>3 DEF CarefulInv
<1>6. CASE output_close("signal")
  <2>1. PICK n \in todo["signal"] :
       /\ target' = [target EXCEPT !["signal"] = n]
       /\ \/ working[n] /\ Sends(n, <<"stop", "quit">>) /\ Goes("signal", "quit")
             /\ mutex' = "signal" /\ UNCHANGED speaking_module
          \/ working[n] /\ SendFails(n) /\ Goes("signal", "shut") /\ UNCHANGED mutex
          \/ ~working[n] /\ Goes("signal", "wait") /\ mutex' = "signal"
             /\ UNCHANGED <<working, proc, inp, speaking_module>>
    BY <1>6 DEF output_close
  <2>2. /\ pc["signal"] = "close" /\ mutex = NULL /\ UNCHANGED out
        /\ pc["main"] # "debug_reply" /\ n \in Names /\ target'["signal"] = n
    BY <1>0, <1>6, <2>1 DEF output_close, CarefulInv, Locks, OutputAssumption, TypeOK
  <2>3. /\ pc'["signal"] \in {"quit", "wait", "shut"}
        /\ pc'["signal"] # "shut" => mutex' = "signal"
    BY <1>0, <2>1 DEF Goes
  <2>4. Locks'
    BY <1>3, <2>2, <2>3 DEF Locks
  <2>5. \A m \in Names \ {n} : Role(m)' = Role(m)
    BY <1>1, <1>2, <1>3, <2>2 DEF Role, HasTarget
  <2>6. CASE ~working[n] /\ UNCHANGED <<working, proc, inp>>
    <3>1. NoneRevived /\ Crashed' \subseteq Crashed
      BY <2>6 DEF NoneRevived, Crashed
    <3>2. QED
      BY <1>2, <1>5, <2>2, <2>4, <2>5, <2>6, <3>1
  <2>7. CASE SendFails(n)
    <3>1. Broken(n) /\ proc[n] # "up" /\ UNCHANGED inp
      BY <2>7 DEF SendFails
    <3>2. /\ NoneRevived /\ ~working'[n] /\ Crashed' \subseteq Crashed
          /\ \A m \in Names : proc'[m] = proc[m] \/ proc'[m] # "up"
      BY <1>0, <2>2, <3>1, Noticed
    <3>3. QED
      BY <1>2, <1>5, <2>2, <2>4, <2>5, <3>1, <3>2
  <2>8. CASE working[n] /\ Sends(n, <<"stop", "quit">>) /\ Goes("signal", "quit")
    <3>1. /\ inp'[n] = inp[n] \o <<"stop", "quit">> /\ inp[n] \in Seq(Commands)
          /\ \A m \in Names \ {n} : inp'[m] = inp[m]
          /\ UNCHANGED <<working, proc>> /\ pc'["signal"] = "quit"
      BY <1>0, <2>2, <2>8 DEF Sends, TypeOK, Goes
    <3>2. NoneRevived /\ Crashed' \subseteq Crashed
      BY <3>1 DEF NoneRevived, Crashed
    <3>3. Role(n) = "idle" /\ Role(n)' = "quit"
      BY <1>1, <1>2, <2>2, <3>1 DEF Role, HasTarget
    <3>4. Suits("idle", inp[n], out[n], talk[n], proc[n])
      BY <1>1, <2>2, <2>8, <3>3 DEF CarefulInv, Pipes, Fits
    <3>5. Suits("quit", inp'[n], out[n], talk[n], proc[n])
      BY <3>1, <3>4, SuitsAsks
    <3>6. Fits(n)'
      BY <1>2, <2>2, <3>1, <3>3, <3>5 DEF Fits
    <3>7. QED
      BY <1>2, <1>5, <2>2, <2>4, <2>5, <3>1, <3>2, <3>6
  <2>9. QED
    BY <2>1, <2>6, <2>7, <2>8
<1>n. ASSUME pc["signal"] \in HasTarget
      PROVE  \E n \in todo["signal"] : n = target["signal"] /\ n \in Names
  BY <1>0, <1>n DEF Base, Reloads, TypeOK
<1>7. CASE QuitReply("signal")
  <2>0. pc["signal"] = "quit"
    BY <1>7 DEF QuitReply
  <2>1. PICK n \in Names : n = target["signal"]
    BY <1>n, <2>0 DEF HasTarget
  <2>2. /\ UNCHANGED <<inp, target>> /\ pc["main"] # "debug_reply"
        /\ \/ /\ Reads(n, "ok") /\ Goes("signal", "wait") /\ UNCHANGED mutex
           \/ /\ \E line \in {"err", "begin", "over"} : Reads(n, line)
              /\ Goes("signal", "shut") /\ mutex' = NULL
           \/ ReadFails(n) /\ Goes("signal", "shut") /\ mutex' = NULL
    <3>1. pc["main"] # "debug_reply"
      BY <2>0 DEF CarefulInv, Locks
    <3>2. QED
      BY <1>7, <2>1, <3>1 DEF QuitReply, output_unlock
  <2>3. Locks'
    BY <1>0, <1>3, <2>0, <2>2 DEF Locks, CarefulInv, Goes
  <2>4. \A m \in Names \ {n} : Role(m)' = Role(m)
    BY <1>1, <1>2, <1>3, <2>1, <2>2 DEF Role
  <2>5. working[n] => Suits("quit", inp[n], out[n], talk[n], proc[n])
    <3>1. Role(n) = "quit"
      BY <1>1, <2>0, <2>1 DEF Role, HasTarget
    <3>2. QED
      BY <1>1, <3>1 DEF CarefulInv, Pipes, Fits
  <2>6. CASE ReadFails(n)
    <3>1. Broken(n) /\ proc[n] # "up" /\ UNCHANGED out
      BY <2>6 DEF ReadFails
    <3>2. /\ NoneRevived /\ ~working'[n] /\ Crashed' \subseteq Crashed
          /\ \A m \in Names : proc'[m] = proc[m] \/ proc'[m] # "up"
      BY <1>0, <3>1, Noticed
    <3>3. QED
      BY <1>2, <1>5, <2>2, <2>3, <2>4, <3>1, <3>2
  <2>7. ASSUME NEW line, Reads(n, line), line # "ok" \/ Goes("signal", "wait")
        PROVE  CarefulInv'
    <3>1. /\ out[n] \in Seq(Lines) /\ out[n] # <<>> /\ line = Head(out[n])
          /\ \A m \in Names \ {n} : out'[m] = out[m]
          /\ UNCHANGED <<working, proc>>
      BY <1>0, <2>7, ReadOff
    <3>2. working[n] => line = "ok" /\ proc[n] # "up"
      BY <2>5, <3>1, SuitsAnswered
    <3>3. NoneRevived /\ Crashed' \subseteq Crashed
      BY <3>1 DEF NoneRevived, Crashed
    <3>4. working[n] => Fits(n)'
      <4>1. SUFFICES ASSUME working[n] PROVE Fits(n)'
        OBVIOUS
      <4>2. pc'["signal"] = "wait"
        BY <1>0, <2>7, <3>2, <4>1 DEF Goes
      <4>3. Role(n)' = "gone"
        BY <1>1, <1>2, <2>1, <2>2, <4>2 DEF Role, HasTarget
      <4>4. QED
        BY <3>1, <3>2, <4>1, <4>3 DEF Fits, Suits
    <3>5. QED
      BY <1>2, <1>5, <2>2, <2>3, <2>4, <3>1, <3>3, <3>4
  <2>8. QED
    BY <2>2, <2>6, <2>7
<1>8. CASE waitpid_with_timeout("signal")
  <2>0. pc["signal"] = "wait"
    BY <1>8 DEF waitpid_with_timeout
  <2>1. PICK n \in Names : n = target["signal"]
    BY <1>n, <2>0 DEF HasTarget
  <2>2. /\ UNCHANGED <<inp, out, working, target>> /\ pc["main"] # "debug_reply"
        /\ proc'[n] = "reaped" /\ \A m \in Names \ {n} : proc'[m] = proc[m]
        /\ pc'["signal"] = "shut" /\ mutex' = NULL
    <3>1. pc["main"] # "debug_reply"
      BY <2>0 DEF CarefulInv, Locks
    <3>2. QED
      BY <1>0, <1>8, <2>1, <3>1 DEF waitpid_with_timeout, output_unlock, Goes, TypeOK
  <2>3. Locks'
    BY <1>3, <2>2 DEF Locks
  <2>4. Role(n) = "gone" /\ \A m \in Names : Role(m)' = Role(m)
    BY <1>1, <1>2, <1>3, <2>0, <2>1, <2>2 DEF Role, HasTarget
  <2>5. working[n] => proc[n] # "up"
    BY <1>1, <2>4 DEF CarefulInv, Pipes, Fits, Suits
  <2>6. NoneRevived /\ Crashed' \subseteq Crashed
    BY <2>2, <2>5 DEF NoneRevived, Crashed
  <2>7. QED
    BY <1>2, <1>5, <2>2, <2>3, <2>4, <2>6
<1>9. CASE unload_output_module("signal")
  <2>0. pc["signal"] = "shut" /\ pc'["signal"] = "close"
    BY <1>0, <1>9 DEF unload_output_module, Goes
  <2>1. PICK n \in Names : n = target["signal"]
    BY <1>n, <2>0 DEF HasTarget
  <2>2. /\ UNCHANGED <<inp, out, proc, target, mutex>>
        /\ ~working'[n] /\ \A m \in Names \ {n} : working'[m] = working[m]
    BY <1>0, <1>9, <2>1 DEF unload_output_module, ShutUnchanged, TypeOK
  <2>3. Locks'
    BY <1>3, <2>0, <2>2 DEF CarefulInv, Locks
  <2>4. \A m \in Names \ {n} : Role(m)' = Role(m)
    BY <1>1, <1>2, <1>3, <2>0, <2>1, <2>2 DEF Role, HasTarget
  <2>5. NoneRevived /\ Crashed' \subseteq Crashed
    BY <2>2 DEF NoneRevived, Crashed
  <2>6. pc["main"] = "debug_reply" => working'[target["main"]]
    <3>1. SUFFICES ASSUME pc["main"] = "debug_reply" PROVE working'[target["main"]]
      OBVIOUS
    <3>2. working[target["main"]] /\ target["main"] # n
      BY <1>1, <2>0, <2>1, <3>1 DEF CarefulInv, Polls, HasTarget
    <3>3. target["main"] \in Names
      BY <1>0, <3>1 DEF Base, Reloads
    <3>4. QED
      BY <2>2, <3>2, <3>3
  <2>7. QED
    BY <1>2, <1>5, <2>0, <2>2, <2>3, <2>4, <2>5, <2>6 DEF HasTarget
<1>10. QED
  BY <1>6, <1>7, <1>8, <1>9 DEF Closes

LEMMA SuitsFresh ==
    ASSUME NEW p PROVE Suits("idle", <<>>, <<>>, "silent", p)
BY DEF Suits, OnlyStops

LEMMA LoadEffects ==
    ASSUME NEW S \in SUBSET Names, load_output_module(S), NEW m \in Names
    PROVE  /\ m \in S => /\ proc'[m] = "up" /\ inp'[m] = <<>> /\ out'[m] = <<>>
                         /\ talk'[m] = "silent"
           /\ m \notin S => /\ proc'[m] = proc[m] /\ inp'[m] = inp[m] /\ out'[m] = out[m]
                            /\ talk'[m] = talk[m]
BY DEF load_output_module, send_initial_commands

LEMMA CareReload ==
    ASSUME OutputAssumption, Base, Base', CarefulInv, reload_output_module PROVE CarefulInv'
<1> USE DEF modules, pipes, talking, counters, ghosts
<1>0. /\ TypeOK /\ TypeOK' /\ pc["signal"] = "shut" /\ reloading = "dead"
      /\ Threads = {"speak", "main", "signal"}
      /\ pc \in [Threads -> SpeakPlaces \cup MainPlaces \cup SignalPlaces]
  BY DEF Base, TypeOK, Threads, reload_output_module
<1>1. /\ Open /\ pc["speak"] = "gone" /\ speaking_module = NULL /\ NULL \notin Names
      /\ ~SPEAKING /\ polled = NULL /\ Serving
  BY <1>0, Reloading DEF Closing
<1>n. PICK n \in Names : n = target["signal"] /\ ~working[n]
  BY <1>0 DEF Base, Reloads, TypeOK, HasTarget, Closing
<1>2. /\ UNCHANGED <<speaking_module, SPEAKING, polled, mutex, target, message, lost,
                     crashes, swallowed, reloading>>
      /\ pc'["speak"] = "gone" /\ pc'["main"] = pc["main"] /\ pc'["signal"] = "close"
  BY <1>0, <1>1 DEF reload_output_module, ShutUnchanged, Goes
<1>3. /\ \A m \in Names \ {n} : /\ working'[m] = working[m] /\ proc'[m] = proc[m]
                                /\ inp'[m] = inp[m] /\ out'[m] = out[m] /\ talk'[m] = talk[m]
      /\ working'[n] => /\ proc'[n] = "up"
                        /\ inp'[n] = <<>> /\ out'[n] = <<>> /\ talk'[n] = "silent"
  <2>1. CASE load_output_module({n})
    <3>1. \A m \in Names \ {n} : working'[m] = working[m]
      BY <1>0, <2>1 DEF load_output_module, TypeOK
    <3>2. QED
      BY <2>1, <3>1, LoadEffects
  <2>2. CASE UNCHANGED <<working, proc, inp, out, talk>>
    BY <1>n, <2>2
  <2>3. QED
    BY <1>n, <2>1, <2>2 DEF reload_output_module
<1>4. Locks'
  BY <1>0, <1>2 DEF CarefulInv, Locks
<1>5. pc["main"] = "debug_reply"
      => target["main"] \in Names /\ working[target["main"]] /\ target["main"] # n
  BY <1>0, <1>1, <1>n DEF CarefulInv, Polls, HasTarget, Base, Reloads, TypeOK
<1>6. Polls'
  BY <1>0, <1>1, <1>2, <1>3, <1>5 DEF CarefulInv, Polls, HasTarget
<1>7. Pipes'
  <2>1. ASSUME NEW m \in Names \ {n}, working'[m] PROVE Fits(m)'
    <3>1. Role(m)' = Role(m)
      BY <1>0, <1>1, <1>2, <1>n DEF Role, HasTarget
    <3>2. QED
      BY <1>1, <1>3, <2>1, <3>1, FitsKept DEF CarefulInv
  <2>2. ASSUME working'[n] PROVE Fits(n)'
    <3>1. Role(n)' = "idle"
      BY <1>1, <1>2, <1>5 DEF Role, HasTarget
    <3>2. QED
      BY <1>3, <2>2, <3>1, SuitsFresh DEF Fits
  <2>3. QED
    BY <2>1, <2>2 DEF Pipes
<1>8. Account'
  <2>1. Crashed' \subseteq Crashed
    BY <1>3 DEF Crashed
  <2>2. Owed' = Owed
    BY <1>1, <1>2 DEF Owed, Missing
  <2>3. QED
    BY <1>0, <1>1, <1>2, <2>1, <2>2, AccountKept, OwedTypes DEF CarefulInv
<1>9. QED
  BY <1>2, <1>4, <1>6, <1>7, <1>8 DEF CarefulInv

LEMMA CareRestart ==
    ASSUME OutputAssumption, Base, Base', CarefulInv, start_speak_thread PROVE CarefulInv'
<1> USE DEF modules, pipes, talking, counters, ghosts
<1>0. /\ TypeOK /\ TypeOK' /\ pc["signal"] = "close" /\ todo["signal"] = {}
      /\ Threads = {"speak", "main", "signal"}
      /\ pc \in [Threads -> SpeakPlaces \cup MainPlaces \cup SignalPlaces]
  BY DEF Base, TypeOK, Threads, start_speak_thread
<1>1. /\ Open /\ pc["speak"] = "gone" /\ speaking_module = NULL /\ NULL \notin Names
      /\ ~SPEAKING /\ polled = NULL /\ (reloading = "dead" => Serving)
  BY <1>0, Reloading DEF Closing
<1>2. /\ UNCHANGED <<speaking_module, SPEAKING, polled, mutex, target, message, lost,
                     crashes, swallowed>>
      /\ pc'["speak"] = "poll" /\ pc'["main"] = pc["main"] /\ pc'["signal"] = "idle"
  BY <1>0 DEF start_speak_thread
<1>3. Locks'
  BY <1>2 DEF CarefulInv, Locks
<1>4. Owed' = Owed
  BY <1>1, <1>2 DEF Owed, Missing
<1>5. \A m \in Names : Role(m)' = Role(m)
  BY <1>0, <1>1, <1>2 DEF Role, HasTarget
<1>6. CASE reloading = "all"
  <2>1. PICK S \in SUBSET Names : load_output_module(S) /\ listed' = S
    BY <1>6 DEF start_speak_thread, configure
\* every module has been unloaded
  <2>2. \A m \in Names : ~working[m]
    BY <1>0, <1>6 DEF Base, Reloads, Loaded, Closing
  <2>3. pc["main"] # "debug_reply"
    BY <1>0, <1>1, <2>2 DEF CarefulInv, Polls, Base, Reloads, TypeOK
  <2>4. /\ \A m \in Names : working'[m] =>
              /\ proc'[m] = "up"
              /\ inp'[m] = <<>> /\ out'[m] = <<>> /\ talk'[m] = "silent"
    BY <2>1, <2>2 DEF load_output_module, send_initial_commands
  <2>5. Polls'
    BY <1>1, <1>2, <2>3 DEF Polls
  <2>6. Pipes'
    <3>1. \A m \in Names : Role(m)' = "idle"
      BY <1>1, <1>2, <2>3 DEF Role, HasTarget
    <3>2. QED
      BY <2>4, <3>1, SuitsFresh DEF Pipes, Fits
  <2>7. Account'
    <3>1. Crashed' = {}
      BY <2>4 DEF Crashed
    <3>2. Cardinality(Crashed') = 0
      BY <3>1, FS_EmptySet
    <3>3. lost' <= crashes' /\ Owed' <= crashes'
      BY <1>1, <1>2, <1>4 DEF CarefulInv, Account
    <3>4. QED
      BY <1>0, <1>4, <3>2, <3>3, OwedTypes DEF Account
  <2>8. QED
    BY <1>2, <1>3, <2>5, <2>6, <2>7 DEF CarefulInv
<1>7. CASE reloading # "all"
  <2>1. UNCHANGED <<working, proc, inp, out, talk>>
    BY <1>7 DEF start_speak_thread
  <2>2. reloading = "dead" /\ Serving
    BY <1>0, <1>1, <1>7 DEF Base, Restarts, Closing
  <2>3. Polls'
    BY <1>0, <1>1, <1>2, <2>1 DEF CarefulInv, Polls, HasTarget
  <2>4. Pipes'
    BY <1>1, <1>5, <2>1, PipesKept DEF CarefulInv, NoneRevived
  <2>5. Account'
    <3>1. Crashed' = Crashed
      BY <2>1 DEF Crashed
    <3>2. QED
      BY <1>0, <1>1, <1>2, <1>4, <2>2, <3>1, AccountKept, OwedTypes DEF CarefulInv
  <2>6. QED
    BY <1>2, <1>3, <2>3, <2>4, <2>5 DEF CarefulInv
<1>8. QED
  BY <1>6, <1>7

LEMMA CareSignal ==
    ASSUME OutputAssumption, Base, Base', CarefulInv,
           Signal \/ SIGINT \/ (\E kind \in {"dead", "all"} : catch_signals(kind))
    PROVE  CarefulInv'
<1> USE DEF SignalUnchanged, modules, pipes, talking, counters, ghosts
<1>0. /\ Threads = {"speak", "main", "signal"}
      /\ pc \in [Threads -> SpeakPlaces \cup MainPlaces \cup SignalPlaces]
  BY DEF Base, TypeOK, Threads
<1>1. CASE Joined \/ SIGINT \/ (\E kind \in {"dead", "all"} : catch_signals(kind))
  <2>1. UNCHANGED <<working, proc, inp, out, talk, speaking_module, SPEAKING, polled,
                    mutex, target, message, lost, swallowed, crashes>>
    BY <1>1 DEF Joined, SIGINT, catch_signals
  <2>2. /\ pc["signal"] \in {"idle", "stopping"}
        /\ pc'["signal"] \in {"stopping", "close", "ended"}
        /\ pc'["main"] = pc["main"] /\ pc'["speak"] = pc["speak"]
    BY <1>0, <1>1 DEF Joined, SIGINT, catch_signals, Goes
  <2>3. (Open' => Open) /\ (Serving' => Serving)
    BY <2>2 DEF Open, Serving, Closing
  <2>4. QED
    BY <2>1, <2>2, <2>3, CareQuiet DEF HasTarget
<1>2. QED
  BY <1>1, CareClose, CareReload, CareRestart DEF Signal

-----------------------------------------------------------------------------
(* The steps of the modules.                                               *)

LEMMA SuitsQuit ==
    ASSUME NEW r, NEW i \in Seq(Commands), i # <<>>, NEW o, NEW k, Suits(r, i, o, k, "up"),
           Head(i) = "quit"
    PROVE  r = "quit"
<1>1. CASE OnlyStops(i)
  BY <1>1, StopsTail
<1>2. CASE r \in {"set", "debug", "quit"} /\ Asked(i, o, k, r)
  BY <1>2, AskedTail
<1>3. CASE Told(i, o, k)
  <2>1. i = <<"speak">>
    BY <1>3 DEF Told
  <2>2. Head(i) = "speak"
    BY <2>1
  <2>3. QED
    BY <2>2
<1>4. QED
  BY <1>1, <1>2, <1>3 DEF Suits

LEMMA CareModule ==
    ASSUME OutputAssumption, Base, Base', CarefulInv, NEW n \in Names, Module(n)
    PROVE  CarefulInv'
<1> USE DEF ModuleUnchanged, modules, talking, ghosts
<1>0. TypeOK /\ TypeOK'
  BY DEF Base
<1>1. /\ UNCHANGED <<working, listed, speaking_module, SPEAKING, polled, mutex, pc, target,
                     message, lost, swallowed, crashes, reloading>>
      /\ proc[n] = "up"
      /\ \A m \in Names \ {n} : /\ inp'[m] = inp[m] /\ out'[m] = out[m]
                                /\ talk'[m] = talk[m] /\ proc'[m] = proc[m]
  <2>1. CASE Obeys(n)
    BY <1>0, <2>1 DEF Obeys, TypeOK
  <2>2. CASE Reports(n)
    BY <1>0, <2>2 DEF Reports, TypeOK
  <2>3. QED
    BY <2>1, <2>2 DEF Module
<1>2. /\ inp[n] \in Seq(Commands) /\ out[n] \in Seq(Lines)
      /\ talk[n] \in {"silent", "accepted", "begun"}
  BY <1>0 DEF TypeOK
<1>3. Open' = Open /\ Serving' = Serving
  BY <1>1 DEF Open, Serving
<1>4. \A m \in Names : Role(m)' = Role(m)
  BY <1>1 DEF Role
<1>5. \/ proc'[n] = "up"
      \/ proc'[n] = "dead" /\ Obeys(n) /\ Head(inp[n]) = "quit"
  BY <1>0, <1>1 DEF Module, Obeys, Reports, TypeOK
<1>6. working[n] /\ Open => Fits(n)'
  <2>1. SUFFICES ASSUME working[n], Open PROVE Fits(n)'
    OBVIOUS
  <2>2. Suits(Role(n), inp[n], out[n], talk[n], "up")
    BY <1>1, <2>1 DEF CarefulInv, Pipes, Fits
  <2>3. CASE Obeys(n)
    <3>1. inp[n] # <<>> /\ inp'[n] = Tail(inp[n])
      BY <1>0, <2>3 DEF Obeys, TypeOK
    <3>2. \/ /\ Head(inp[n]) \in {"set", "debug"} /\ out'[n] = Append(out[n], "ok")
             /\ talk'[n] = talk[n] /\ proc'[n] = "up"
          \/ /\ Head(inp[n]) = "speak" /\ talk[n] = "silent" /\ out'[n] = Append(out[n], "ok")
             /\ talk'[n] = "accepted" /\ proc'[n] = "up"
          \/ /\ Head(inp[n]) = "speak" /\ talk[n] # "silent"
             /\ out'[n] = Append(out[n], "err") /\ talk'[n] = talk[n] /\ proc'[n] = "up"
          \/ Head(inp[n]) = "stop" /\ out'[n] = out[n] /\ talk'[n] = talk[n] /\ proc'[n] = "up"
          \/ /\ Head(inp[n]) = "quit" /\ out'[n] = Append(out[n], "ok")
             /\ talk'[n] = talk[n] /\ proc'[n] = "dead"
      BY <1>0, <1>1, <2>3, SMTT(30) DEF Obeys, TypeOK
    <3>3. Suits(Role(n), Tail(inp[n]), out'[n], talk'[n], proc'[n])
      BY <1>2, <2>2, <3>1, <3>2, SuitsObeys
    <3>4. QED
      BY <1>4, <3>1, <3>3 DEF Fits
  <2>4. CASE Reports(n)
    <3>1. /\ inp'[n] = inp[n] /\ proc'[n] = "up"
          /\ \/ /\ talk[n] = "accepted" /\ out'[n] = Append(out[n], "begin")
                /\ talk'[n] = "begun"
             \/ /\ talk[n] # "silent" /\ out'[n] = Append(out[n], "over")
                /\ talk'[n] = "silent"
      BY <1>0, <1>1, <2>4 DEF Reports, TypeOK
    <3>2. Suits(Role(n), inp'[n], out'[n], talk'[n], proc'[n])
      BY <1>2, <2>2, <3>1, SuitsReports, SMTT(30)
    <3>3. QED
      BY <1>4, <3>2 DEF Fits
  <2>5. QED
    BY <2>3, <2>4 DEF Module
<1>7. Locks'
  BY <1>1 DEF CarefulInv, Locks
<1>8. Polls'
  <2>1. polled # NULL /\ proc[polled] # "up" => proc'[polled] # "up"
    BY <1>0, <1>1 DEF TypeOK
  <2>2. QED
    BY <1>1, <1>3, <2>1 DEF CarefulInv, Polls
<1>9. Pipes'
  <2>1. CASE Open
    BY <1>1, <1>3, <1>4, <1>6, <2>1, PipesKept DEF CarefulInv, NoneRevived
  <2>2. CASE ~Open
    BY <1>3, <2>2 DEF Pipes
  <2>3. QED
    BY <2>1, <2>2
<1>10. Account'
\* a module that is told to quit is one of those that are all reloaded
  <2>1. Serving /\ working[n] => proc'[n] = "up"
    <3>1. SUFFICES ASSUME Serving, working[n], proc'[n] = "dead" PROVE FALSE
      BY <1>5
    <3>2. Obeys(n) /\ Head(inp[n]) = "quit" /\ inp[n] # <<>>
      BY <1>5, <3>1 DEF Obeys
    <3>3. Suits(Role(n), inp[n], out[n], talk[n], "up")
      BY <1>1, <3>1 DEF CarefulInv, Pipes, Fits, Serving
    <3>4. Role(n) = "quit"
      BY <1>2, <3>2, <3>3, SuitsQuit
    <3>5. pc["signal"] = "quit" /\ n = target["signal"]
      <4>1. pc["speak"] \notin {"set", "say"} \/ n # speaking_module \/ Role(n) # "quit"
        BY DEF Role
      <4>2. QED
        BY <3>4, <4>1 DEF Role
    <3>6. n \in todo["signal"] /\ reloading = "dead"
      BY <3>1, <3>5 DEF Base, Reloads, Restarts, Serving, HasTarget, Closing
    <3>7. QED
      BY <3>1, <3>5, <3>6 DEF Base, Reloads, Closing
  <2>2. Serving => Crashed' \subseteq Crashed
    BY <1>1, <2>1 DEF Crashed
  <2>3. Owed' = Owed
    BY <1>1 DEF Owed, Missing
  <2>4. QED
    BY <1>0, <1>1, <1>3, <2>2, <2>3, AccountKept, OwedTypes DEF CarefulInv
<1>11. QED
  BY <1>1, <1>7, <1>8, <1>9, <1>10 DEF CarefulInv

LEMMA CareCrash ==
    ASSUME OutputAssumption, Base, Base', CarefulInv, NEW n \in Names, Crashes(n)
    PROVE  CarefulInv'
<1> USE DEF ModuleUnchanged, modules, pipes, talking, ghosts
<1>0. TypeOK /\ TypeOK'
  BY DEF Base
<1>1. /\ UNCHANGED <<working, speaking_module, SPEAKING, polled, mutex, pc, target,
                     message, lost, swallowed, reloading, inp, out, talk>>
      /\ crashes' = crashes + 1
      /\ proc'[n] = "dead" /\ \A m \in Names \ {n} : proc'[m] = proc[m]
  BY <1>0 DEF Crashes, TypeOK
<1>2. Open' = Open /\ Serving' = Serving
  BY <1>1 DEF Open, Serving
<1>3. Locks'
  BY <1>1 DEF CarefulInv, Locks
<1>4. Polls'
  <2>1. polled # NULL /\ proc[polled] # "up" => proc'[polled] # "up"
    BY <1>0, <1>1 DEF TypeOK
  <2>2. QED
    BY <1>1, <1>2, <2>1 DEF CarefulInv, Polls
<1>5. Pipes'
  <2>1. \A m \in Names : Role(m)' = Role(m)
    BY <1>1 DEF Role
  <2>2. QED
    BY <1>1, <1>2, <2>1, PipesKept DEF CarefulInv, NoneRevived
<1>6. Account'
  <2>1. Owed' = Owed
    BY <1>1 DEF Owed, Missing
  <2>2. Crashed' \subseteq Crashed \cup {n} /\ Crashed \in SUBSET Names /\ Crashed' \in SUBSET Names
    BY <1>1 DEF Crashed
  <2>3. /\ Cardinality(Crashed) \in Nat /\ Cardinality(Crashed') \in Nat
        /\ Cardinality(Crashed') <= Cardinality(Crashed) + 1
    BY <2>2, Counting
  <2>4. lost' <= crashes'
    BY <1>0, <1>1, OwedTypes DEF CarefulInv, Account
  <2>5. Open' => Owed' <= crashes'
    BY <1>0, <1>1, <1>2, <2>1, OwedTypes DEF CarefulInv, Account
  <2>6. Serving' => Cardinality(Crashed') + Owed' <= crashes'
    BY <1>0, <1>1, <1>2, <2>1, <2>3, OwedTypes DEF CarefulInv, Account
  <2>7. QED
    BY <2>4, <2>5, <2>6 DEF Account
<1>7. QED
  BY <1>1, <1>3, <1>4, <1>5, <1>6 DEF CarefulInv

LEMMA NextCare ==
    ASSUME OutputAssumption, Careful, Base, Base', CarefulInv, [Next]_vars
    PROVE  CarefulInv'
<1>1. CASE UNCHANGED vars
  <2>1. UNCHANGED <<working, proc, inp, out, talk, speaking_module, SPEAKING, polled,
                    mutex, target, message, lost, swallowed, crashes, pc, reloading>>
    BY <1>1 DEF vars, modules, pipes, talking, counters, ghosts
  <2>2. Open' = Open /\ Serving' = Serving
    BY <2>1 DEF Open, Serving
  <2>3. QED
    BY <2>1, <2>2, CareQuiet
<1>2. CASE Next
  BY <1>1, <1>2, CareSpeak, CareMain, CareSignal, CareModule, CareCrash DEF Next, Exited
<1>3. QED
  BY <1>1, <1>2

LEMMA InitCare == ASSUME OutputAssumption, Init PROVE CarefulInv
<1>1. pc["speak"] = "poll" /\ pc["main"] = "idle" /\ pc["signal"] = "idle"
  BY DEF Init
<1>2. Locks /\ Polls
  BY <1>1 DEF Init, Locks, Polls
<1>3. Pipes
  <2>1. \A n \in Names : Role(n) = "idle"
    BY <1>1 DEF Init, Role, HasTarget, OutputAssumption
  <2>2. QED
    BY <2>1, SuitsFresh DEF Pipes, Fits, Init
<1>4. Account
  <2>1. Crashed = {}
    BY DEF Crashed, Init
  <2>2. Cardinality(Crashed) = 0
    BY <2>1, FS_EmptySet
  <2>3. Owed = 0
    BY DEF Owed, Missing, Init
  <2>4. QED
    BY <2>2, <2>3 DEF Account, Init
<1>5. QED
  BY <1>2, <1>3, <1>4 DEF CarefulInv, Init

\* What else holds if STOP and DEBUG keep out of the way.
THEOREM CarefulInvariant == ASSUME Careful PROVE Spec => []CarefulInv
<1>1. Init => CarefulInv
  BY InitCare, OutputAssumption
<1>2. Base /\ Base' /\ CarefulInv /\ [Next]_vars => CarefulInv'
  BY NextCare, OutputAssumption
<1>3. QED
  BY <1>1, <1>2, OutputInvariant, PTL DEF Spec

\* No thread takes an event for the reply it waits for: the line it finds in the
\* pipe of a module that works is the answer.
THEOREM RepliesAreReplies == ASSUME Careful PROVE Spec => []SwallowsNothing
<1>1. CarefulInv => SwallowsNothing
  BY DEF CarefulInv, SwallowsNothing
<1>2. QED
  BY <1>1, CarefulInvariant, PTL

\* A crash costs one message at most: a crash that has not been noticed and a
\* message that nobody speaks are both paid for by a crash of their own.
THEOREM CrashesPayForLosses == ASSUME Careful PROVE Spec => []CrashCostsOne
<1>1. CarefulInv => CrashCostsOne
  BY DEF CarefulInv, Account, CrashCostsOne
<1>2. QED
  BY <1>1, CarefulInvariant, PTL
=============================================================================
