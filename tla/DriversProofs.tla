---------------------------- MODULE DriversProofs ----------------------------
(***************************************************************************)
(* What holds of the output modules that speak from a thread of their own, *)
(* for any texts, any number of messages and of STOP and PAUSE: each keeps *)
(* the promise of Synthesizer.tla, starts at most one part after a STOP,   *)
(* and leaves no child behind.  All three rest on one inductive invariant, *)
(* which says at every place of the speaking thread what the server has    *)
(* been told and what it waits for.                                        *)
(***************************************************************************)
EXTENDS Drivers, TLAPS

Polling == Flagged \ {"festival"}

-----------------------------------------------------------------------------
(* The inductive invariant.                                                *)

\* where the thread of each module can be
PollingPlaces  == {"sleep", "woken", "begin", "loop", "part", "ready",
                   "playing", "end", "stop", "reset", "returned"}
FestivalPlaces == {"sleep", "woken", "begin", "start", "cached", "next",
                   "fetch", "over", "mark", "last_mark", "paused", "ready",
                   "playing", "end", "stop", "pause", "returned"}
ForkingPlaces  == {"sleep", "woken", "begin", "fork", "parts", "answer",
                   "wait", "end", "stop", "returned"}
PicoPlaces     == {"top", "sleep", "woken", "begin", "put", "get", "got",
                   "test_end", "test_stop", "test_pause", "idle", "end",
                   "stop", "pause", "returned"}

TypeOK ==
    /\ driver \in Flagged \cup Forking \cup {"pico"}
    /\ driver \in Polling => pc \in PollingPlaces
    /\ driver = "festival" => pc \in FestivalPlaces
    /\ driver \in Forking => pc \in ForkingPlaces
    /\ driver = "pico" => pc \in PicoPlaces
    /\ cmd \in {"none", "speak", "stop", "pause", "quit", "join", "exited",
                "accepted", "refused"}
    /\ speaking \in BOOLEAN /\ stopped \in BOOLEAN /\ waits \in BOOLEAN
    /\ state \in {"IDLE", "PLAY", "STOP", "PAUSE", "CLOSE"}
    /\ child \in {"none", "forked", "idle", "playing", "exited", "killed"}
    /\ sem \in Nat /\ since \in Int
    /\ told \in Seq({"begin", "mark"} \cup Terminal)

\* a message is sent only when the one before is over
OneAtATime == cmd = "speak" => ~waits

\* where the thread is tells what the server was told
Waiting  == {"woken", "begin"}
Resting  == {"sleep", "reset", "returned"}
Reported == driver # "pico" =>
    /\ pc \in Waiting => waits /\ told = <<>>
    /\ pc \notin Waiting \cup Resting => waits /\ told # <<>>
    /\ sem > 0 => sem = 1 /\ waits /\ told = <<>> /\ pc \in Resting

\* the same for pico, whose state says more than the place does
PicoReported == driver = "pico" =>
    /\ pc \in {"put", "get", "got", "test_end", "end"}
         => waits /\ told # <<>> /\ state # "IDLE"
    /\ pc = "begin" => waits /\ told = <<>> /\ state # "IDLE"
    /\ pc \in {"stop", "pause"} => waits /\ state # "IDLE"
    /\ pc = "idle" => state # "IDLE"
    /\ state \in {"PLAY", "STOP", "PAUSE"} /\ pc # "idle" => waits
    /\ state = "PLAY" /\ pc \in {"top", "sleep", "woken", "test_stop", "test_pause"}
         => told = <<>>
    /\ state = "CLOSE" => cmd \in {"join", "exited"}

\* a STOP that counts is seen before the second part
Seen == driver \in Flagged =>
    /\ since \in {-1, 0, 1}
    /\ since >= 0 => waits /\ told # <<>>
    /\ since >= 0 /\ pc \notin Resting \cup Terminal => stopped
    /\ since = 1 => pc \in {"playing", "cached", "returned"} \cup Terminal

Childless == child # "none" => pc \in {"wait", "parts", "answer", "returned"}

Inv == TypeOK /\ OneAtATime /\ Reported /\ PicoReported /\ Seen /\ Childless

-----------------------------------------------------------------------------
(* The invariant holds initially and every step keeps it.                  *)

LEMMA InitInv == ASSUME DriversAssumption, Init PROVE Inv
<1> USE DEF Init, Flagged, Forking
<1>1. driver \in Flagged \cup Forking \cup {"pico"}
  BY DEF DriversAssumption
<1>2. told \in Seq({"begin", "mark"} \cup Terminal)
  BY DEF Terminal
<1>3. pc = (IF driver = "pico" THEN "top" ELSE "sleep") /\ sem = 0 /\ since = -1
  OBVIOUS
<1>4. /\ driver # "pico" => pc \in PollingPlaces \cap FestivalPlaces \cap ForkingPlaces
      /\ driver = "pico" => pc \in PicoPlaces /\ driver \notin Flagged \cup Forking
  BY <1>3 DEF PollingPlaces, FestivalPlaces, ForkingPlaces, PicoPlaces
<1>5. TypeOK
  <2>1. /\ driver \in Polling => pc \in PollingPlaces
        /\ driver = "festival" => pc \in FestivalPlaces
        /\ driver \in Forking => pc \in ForkingPlaces
        /\ driver = "pico" => pc \in PicoPlaces
    BY <1>4 DEF Polling
  <2>2. speaking \in BOOLEAN /\ stopped \in BOOLEAN /\ waits \in BOOLEAN
    OBVIOUS
  <2>3. sem \in Nat /\ since \in Int
    BY <1>3
  <2>4. /\ cmd = "none" /\ state = "IDLE" /\ child = "none"
    OBVIOUS
  <2> HIDE DEF Init
  <2>5. QED
    BY <1>1, <1>2, <2>1, <2>2, <2>3, <2>4 DEF TypeOK
<1>6. QED
  BY <1>1, <1>3, <1>5 DEF Inv, OneAtATime, Reported, PicoReported, Seen,
                          Childless, Waiting, Resting

LEMMA CommandsInv == ASSUME Inv, Commands PROVE Inv'
<1> USE DEF Inv, TypeOK, OneAtATime, Reported, PicoReported, Seen, Childless,
            Polling, Flagged, Forking, PollingPlaces, FestivalPlaces,
            ForkingPlaces, PicoPlaces, Waiting, Resting, Terminal,
            server, flags, special, message, process, ghosts
<1>1. CASE SendSpeak
  BY <1>1 DEF SendSpeak
<1>2. CASE SendQuit
  BY <1>2 DEF SendQuit
<1>3. ASSUME NEW c \in {"stop", "pause"}, SendControl(c) PROVE Inv'
  BY <1>3 DEF SendControl
<1>4. QED
  BY <1>1, <1>2, <1>3 DEF Commands

LEMMA AppendEvent ==
    ASSUME NEW S, NEW s \in Seq(S), NEW e \in S
    PROVE  Append(s, e) \in Seq(S) /\ Append(s, e) # <<>>
<1>1. Append(s, e) \in Seq(S)
  OBVIOUS
<1>2. Len(Append(s, e)) = Len(s) + 1 /\ Len(s) \in Nat
  OBVIOUS
<1>3. QED
  BY <1>1, <1>2

\* Steps that several modules share.
LEMMA WakesInv == ASSUME Inv, Wakes PROVE Inv'
<1> USE DEF Inv, TypeOK, OneAtATime, Reported, PicoReported, Seen, Childless,
            Polling, Flagged, Forking, PollingPlaces, FestivalPlaces,
            ForkingPlaces, PicoPlaces, Waiting, Resting, Terminal,
            server, flags, special, message, process, ghosts
<1> QED
  BY DEF Wakes, ThreadUnchanged, ToldUnchanged

LEMMA StartsInv == ASSUME Inv, Starts, driver \in Flagged PROVE Inv'
<1> USE DEF Inv, TypeOK, OneAtATime, Reported, PicoReported, Seen, Childless,
            Polling, Flagged, Forking, PollingPlaces, FestivalPlaces,
            ForkingPlaces, PicoPlaces, Waiting, Resting, Terminal,
            server, flags, special, message, process, ghosts
<1> QED
  BY DEF Starts, ThreadUnchanged, ToldUnchanged

LEMMA BeginsInv ==
    ASSUME Inv, NEW to, Begins(to),
           \/ driver \in Polling /\ to = "loop"
           \/ driver = "festival" /\ to = "start"
           \/ driver \in Forking /\ to = "fork"
           \/ driver = "pico" /\ to = "put"
    PROVE  Inv'
<1> USE DEF Inv, TypeOK, OneAtATime, Reported, PicoReported, Seen, Childless,
            Polling, Flagged, Forking, PollingPlaces, FestivalPlaces,
            ForkingPlaces, PicoPlaces, Waiting, Resting, Terminal,
            server, flags, special, message, process, ghosts
<1>1. told' \in Seq({"begin", "mark"} \cup Terminal) /\ told' # <<>>
  BY AppendEvent DEF Begins, Tells
<1> QED
  BY <1>1 DEF Begins, Tells, ThreadUnchanged

LEMMA EndsInv ==
    ASSUME Inv, NEW to, Ends(to),
           \/ driver \in Polling /\ to = "reset"
           \/ driver \in {"festival"} \cup Forking /\ to = "sleep"
           \/ driver = "pico" /\ to = "idle"
    PROVE  Inv'
<1> USE DEF Inv, TypeOK, OneAtATime, Reported, PicoReported, Seen, Childless,
            Polling, Flagged, Forking, PollingPlaces, FestivalPlaces,
            ForkingPlaces, PicoPlaces, Waiting, Resting, Terminal,
            server, flags, special, message, process, ghosts
<1>1. told' \in Seq({"begin", "mark"} \cup Terminal) /\ told' # <<>>
  BY AppendEvent DEF Ends, Tells
<1> QED
  BY <1>1 DEF Ends, Tells, ThreadUnchanged

\* Steps of the modules that poll a flag.
LEMMA MovesInv ==
    ASSUME Inv, driver \in Polling,
           NEW from \in {"loop", "part", "ready", "playing"},
           NEW to \in {"loop", "part", "ready", "end", "stop"},
           Moves(from, to), speaking' \in BOOLEAN,
           from = "playing" => to \in Terminal \/ ~stopped
    PROVE  Inv'
<1> USE DEF Inv, TypeOK, OneAtATime, Reported, PicoReported, Seen, Childless,
            Polling, Flagged, Forking, PollingPlaces, FestivalPlaces,
            ForkingPlaces, PicoPlaces, Waiting, Resting, Terminal,
            server, flags, special, message, process, ghosts
<1> QED
  BY DEF Moves, ThreadUnchanged, ToldUnchanged

LEMMA PlaysInv ==
    ASSUME Inv, driver \in Polling, Plays("ready", "playing") PROVE Inv'
<1> USE DEF Inv, TypeOK, OneAtATime, Reported, PicoReported, Seen, Childless,
            Polling, Flagged, Forking, PollingPlaces, FestivalPlaces,
            ForkingPlaces, PicoPlaces, Waiting, Resting, Terminal,
            server, flags, special, message, process, ghosts
<1> QED
  BY DEF Plays, Started, ThreadUnchanged

LEMMA ResetsInv ==
    ASSUME Inv, driver \in Polling, NEW spoke \in BOOLEAN, Resets(spoke) PROVE Inv'
<1> USE DEF Inv, TypeOK, OneAtATime, Reported, PicoReported, Seen, Childless,
            Polling, Flagged, Forking, PollingPlaces, FestivalPlaces,
            ForkingPlaces, PicoPlaces, Waiting, Resting, Terminal,
            server, flags, special, message, process, ghosts
<1>1. speaking' \in BOOLEAN
  BY DEF Resets
<1>2. stopped' \in BOOLEAN /\ UNCHANGED <<driver, cmd, sem, since, told, waits, state, child>>
  BY DEF Resets, ThreadUnchanged, ToldUnchanged
<1>3. pc = "reset" /\ pc' = "sleep"
  BY DEF Resets
<1> QED
  BY <1>1, <1>2, <1>3

LEMMA GivesUpInv ==
    ASSUME Inv, NEW spoke \in BOOLEAN, NEW from, NEW to, GivesUp(from, to, spoke),
           \/ driver = "flite" /\ from = "begin" /\ to = "sleep"
           \/ driver = "mbrpipe" /\ from = "ready" /\ to = "reset"
           \/ driver \in Forking /\ from \in {"fork", "woken"} /\ to = "sleep"
    PROVE  Inv'
<1> USE DEF Inv, TypeOK, OneAtATime, Reported, PicoReported, Seen, Childless,
            Polling, Flagged, Forking, PollingPlaces, FestivalPlaces,
            ForkingPlaces, PicoPlaces, Waiting, Resting, Terminal,
            server, flags, special, message, process, ghosts
<1> QED
  BY DEF GivesUp, ThreadUnchanged, ToldUnchanged

LEMMA PollingLoopInv == ASSUME Inv, driver \in Polling, PollingLoop PROVE Inv'
<1>1. driver \in Flagged
  BY DEF Polling
<1>2. speaking \in BOOLEAN /\ stopped \in BOOLEAN
  BY DEF Inv, TypeOK
<1>3. CASE StopSeen("loop") \/ StopSeen("playing")
  BY <1>3, MovesInv DEF StopSeen, Finishes, Terminal
<1>4. CASE Checks("loop", "part")
  BY <1>2, <1>4, MovesInv DEF Checks, Silent
<1>5. CASE GetsPart("part", "ready")
  BY <1>2, <1>5, MovesInv DEF GetsPart
<1>6. QED
  BY <1>1, <1>3, <1>4, <1>5, WakesInv, StartsInv, BeginsInv, EndsInv DEF PollingLoop

\* what the modules that poll a flag add to the loop
LEMMA PollingPartsInv ==
    ASSUME Inv, driver \in Polling,
           \/ NoMoreParts("end") \/ LastStopSeen
           \/ PlaysUnlessStopped \/ PlayedPart
    PROVE  Inv'
<1>1. speaking \in BOOLEAN /\ stopped \in BOOLEAN
  BY DEF Inv, TypeOK
<1>2. CASE NoMoreParts("end") \/ LastStopSeen
  BY <1>2, MovesInv DEF NoMoreParts, LastStopSeen, Finishes, Terminal
<1>3. CASE PlaysUnlessStopped
  BY <1>3, MovesInv, PlaysInv DEF PlaysUnlessStopped, StopSeen, Finishes
<1>4. CASE PlayedPart
  BY <1>1, <1>4, MovesInv DEF PlayedPart, Checks, Silent
<1>5. QED
  BY <1>2, <1>3, <1>4

LEMMA PollingInv ==
    ASSUME Inv,
           \/ _flite_speak \/ _ivona_speak \/ _cicero_speak
           \/ milena_speak_routine \/ mbrpipe_speak_routine
    PROVE  Inv'
<1> USE DEF Polling, Flagged
<1>0. speaking \in BOOLEAN
  BY DEF Inv, TypeOK
<1>1. CASE _flite_speak
  <2>1. ASSUME Finishes("ready", "stop") PROVE Inv'
    BY <1>1, <2>1, MovesInv DEF _flite_speak, Finishes
  <2>2. QED
    BY <1>1, <2>1, PollingLoopInv, PollingPartsInv, GivesUpInv, ResetsInv DEF _flite_speak
<1>2. CASE _ivona_speak
  BY <1>2, PollingLoopInv, PollingPartsInv, ResetsInv DEF _ivona_speak
<1>3. CASE _cicero_speak
  <2>1. driver = "cicero"
    BY <1>3 DEF _cicero_speak
  <2>2. ASSUME Silent("part", "end") PROVE Inv'
    BY <1>0, <2>1, <2>2, MovesInv DEF Silent
  <2>3. ASSUME ~stopped, Finishes("playing", "loop") PROVE Inv'
    BY <2>1, <2>3, MovesInv DEF Finishes
  <2>4. ASSUME Silent("playing", "stop") PROVE Inv'
    BY <1>0, <2>1, <2>4, MovesInv DEF Silent, Terminal
  <2>5. QED
    BY <1>3, <2>2, <2>3, <2>4, PollingLoopInv, PlaysInv, ResetsInv DEF _cicero_speak
<1>4. CASE milena_speak_routine
  BY <1>4, PollingLoopInv, PollingPartsInv, PlaysInv, ResetsInv
  DEF milena_speak_routine
<1>5. CASE mbrpipe_speak_routine
  BY <1>5, PollingLoopInv, PollingPartsInv, GivesUpInv, ResetsInv
  DEF mbrpipe_speak_routine
<1>6. QED
  BY <1>1, <1>2, <1>3, <1>4, <1>5

-----------------------------------------------------------------------------
(* festival.                                                               *)

LEMMA CleansUpInv ==
    ASSUME Inv, driver = "festival",
           NEW from \in {"start", "cached", "next", "over", "ready", "playing", "paused"},
           NEW ev \in Terminal, CleansUp(from, ev)
    PROVE  Inv'
<1> USE DEF Inv, TypeOK, OneAtATime, Reported, PicoReported, Seen, Childless,
            Polling, Flagged, Forking, PollingPlaces, FestivalPlaces,
            ForkingPlaces, PicoPlaces, Waiting, Resting, Terminal,
            server, flags, special, message, process, ghosts
<1> QED
  BY ZenonT(40) DEF CleansUp, ThreadUnchanged, ToldUnchanged

LEMMA FestivalMovesInv ==
    ASSUME Inv, driver = "festival",
           NEW from \in {"start", "next", "fetch", "playing"},
           NEW to \in {"next", "fetch", "over", "ready", "mark", "last_mark"},
           Moves(from, to), UNCHANGED speaking,
           from = "playing" => ~stopped
    PROVE  Inv'
<1> USE DEF Inv, TypeOK, OneAtATime, Reported, PicoReported, Seen, Childless,
            Polling, Flagged, Forking, PollingPlaces, FestivalPlaces,
            ForkingPlaces, PicoPlaces, Waiting, Resting, Terminal,
            server, flags, special, message, process, ghosts
<1> QED
  BY DEF Moves, ThreadUnchanged, ToldUnchanged

LEMMA FestivalPlaysInv ==
    ASSUME Inv, driver = "festival",
           \/ Plays("start", "cached")
           \/ Plays("ready", "playing")
    PROVE  Inv'
<1> USE DEF Inv, TypeOK, OneAtATime, Reported, PicoReported, Seen, Childless,
            Polling, Flagged, Forking, PollingPlaces, FestivalPlaces,
            ForkingPlaces, PicoPlaces, Waiting, Resting, Terminal,
            server, flags, special, message, process, ghosts
<1> QED
  BY DEF Plays, Started, ThreadUnchanged

LEMMA FestivalMarksInv == ASSUME Inv, driver = "festival", FestivalMarks PROVE Inv'
<1> USE DEF Inv, TypeOK, OneAtATime, Reported, PicoReported, Seen, Childless,
            Polling, Flagged, Forking, PollingPlaces, FestivalPlaces,
            ForkingPlaces, PicoPlaces, Waiting, Resting, Terminal,
            server, flags, special, message, process, ghosts
<1>1. told' \in Seq({"begin", "mark"} \cup Terminal) /\ told' # <<>>
  BY AppendEvent DEF FestivalMarks, Tells
<1> QED
  BY <1>1 DEF FestivalMarks, Tells, ThreadUnchanged

LEMMA FestivalCrashesInv == ASSUME Inv, driver = "festival", FestivalCrashes PROVE Inv'
<1> USE DEF Inv, TypeOK, OneAtATime, Reported, PicoReported, Seen, Childless,
            Polling, Flagged, Forking, PollingPlaces, FestivalPlaces,
            ForkingPlaces, PicoPlaces, Waiting, Resting, Terminal,
            server, flags, special, message, process, ghosts
<1> QED
  BY DEF FestivalCrashes, ThreadUnchanged, ToldUnchanged

LEMMA FestivalInv == ASSUME Inv, _festival_speak PROVE Inv'
<1>0. driver = "festival" /\ driver \in Flagged
  BY DEF _festival_speak, Flagged
<1> USE DEF Terminal
<1>1. CASE FestivalCached
  BY <1>0, <1>1, FestivalPlaysInv, CleansUpInv DEF FestivalCached
<1>2. CASE FestivalRequests
  BY <1>0, <1>2, FestivalMovesInv, CleansUpInv DEF FestivalRequests, Silent
<1>3. CASE FestivalFetches
  BY <1>0, <1>3, FestivalMovesInv, CleansUpInv DEF FestivalFetches, Silent, GetsPart
<1>4. CASE FestivalPlays
  BY <1>0, <1>4, FestivalMovesInv, FestivalPlaysInv, CleansUpInv
  DEF FestivalPlays, Checks, Silent
<1>5. CASE CleansUp("paused", "pause")
  BY <1>0, <1>5, CleansUpInv
<1>6. QED
  BY <1>0, <1>1, <1>2, <1>3, <1>4, <1>5, WakesInv, StartsInv, BeginsInv, EndsInv,
     FestivalMarksInv, FestivalCrashesInv DEF _festival_speak

-----------------------------------------------------------------------------
(* dummy and generic.                                                      *)

LEMMA ForkingStepsInv ==
    ASSUME Inv, driver \in Forking,
           \/ Silent("woken", "begin") \/ Forks("wait") \/ Forks("parts")
           \/ Reaps \/ module_parent_wfork
    PROVE  Inv'
<1> USE DEF Inv, TypeOK, OneAtATime, Reported, PicoReported, Seen, Childless,
            Polling, Flagged, Forking, PollingPlaces, FestivalPlaces,
            ForkingPlaces, PicoPlaces, Waiting, Resting, Terminal,
            server, flags, special, message, process, ghosts
<1> USE DEF ThreadUnchanged, ToldUnchanged
<1>1. CASE Silent("woken", "begin")
  BY <1>1 DEF Silent, Moves
<1>2. CASE Forks("wait") \/ Forks("parts")
  BY <1>2 DEF Forks
<1>3. CASE Reaps
  BY <1>3 DEF Reaps
<1>4. CASE module_parent_wfork
  BY <1>4 DEF module_parent_wfork, ParentUnchanged
<1> QED
  BY <1>1, <1>2, <1>3, <1>4

LEMMA ForkingInv == ASSUME Inv, _dummy_speak \/ _generic_speak PROVE Inv'
<1>1. driver \in Forking
  BY DEF _dummy_speak, _generic_speak, Forking
<1>2. CASE _dummy_speak
  BY <1>1, <1>2, WakesInv, BeginsInv, EndsInv, GivesUpInv, ForkingStepsInv
  DEF _dummy_speak
<1>3. CASE _generic_speak
  BY <1>1, <1>3, WakesInv, BeginsInv, EndsInv, GivesUpInv, ForkingStepsInv
  DEF _generic_speak
<1>4. QED
  BY <1>2, <1>3

LEMMA ChildInv == ASSUME Inv, Child PROVE Inv'
<1> USE DEF Inv, TypeOK, OneAtATime, Reported, PicoReported, Seen, Childless,
            Polling, Flagged, Forking, PollingPlaces, FestivalPlaces,
            ForkingPlaces, PicoPlaces, Waiting, Resting, Terminal,
            server, flags, special, message, process, ghosts
<1> USE DEF Becomes, Started
<1>1. CASE _dummy_child
  BY <1>1 DEF _dummy_child
<1>2. CASE _generic_child
  BY <1>2 DEF _generic_child
<1>3. CASE generic_child_close
  BY <1>3 DEF generic_child_close
<1>4. QED
  BY <1>1, <1>2, <1>3 DEF Child

-----------------------------------------------------------------------------
(* pico.                                                                   *)

LEMMA PicoInv == ASSUME Inv, pico_play_func PROVE Inv'
<1>0. driver = "pico"
  BY DEF pico_play_func
<1>1. CASE Wakes \/ Begins("put") \/ Ends("idle")
  BY <1>0, <1>1, WakesInv, BeginsInv, EndsInv
<1> USE DEF Inv, TypeOK, OneAtATime, Reported, PicoReported, Seen, Childless,
            Polling, Flagged, Forking, PollingPlaces, FestivalPlaces,
            ForkingPlaces, PicoPlaces, Waiting, Resting, Terminal,
            server, flags, special, message, process, ghosts
<1> USE DEF ThreadUnchanged, ToldUnchanged, PicoMoves, Silent, Moves
<1>2. CASE \/ state = "CLOSE" /\ PicoMoves("top", "returned")
           \/ state # "CLOSE" /\ PicoMoves("top", "sleep")
           \/ state # "PLAY" /\ PicoMoves("woken", "top")
           \/ state = "PLAY" /\ PicoMoves("woken", "begin")
  BY <1>0, <1>2
<1>3. CASE pico_process_tts
  <2>1. pc \in {"put", "get", "got"} /\ pc' \in {"put", "get", "got", "test_end"}
    BY <1>3 DEF pico_process_tts
  <2>2. UNCHANGED <<driver, cmd, speaking, stopped, state, sem, child, told, waits>>
    BY <1>3 DEF pico_process_tts
  <2>3. since' \in Int
    BY <1>3 DEF pico_process_tts, Started
  <2>4. QED
    BY <1>0, <2>1, <2>2, <2>3
<1>4. CASE PicoTested
  <2>1. /\ PicoTests[1][1] = "test_end" /\ PicoTests[1][2] = "PLAY" /\ PicoTests[1][3] = "end"
        /\ PicoTests[2][1] = "test_stop" /\ PicoTests[2][2] = "STOP" /\ PicoTests[2][3] = "stop"
        /\ PicoTests[3][1] = "test_pause" /\ PicoTests[3][2] = "PAUSE" /\ PicoTests[3][3] = "pause"
        /\ PicoTests[4][1] = "top"
    BY DEF PicoTests
  <2>2. \/ pc = "test_end" /\ pc' = IF state = "PLAY" THEN "end" ELSE "test_stop"
        \/ pc = "test_stop" /\ pc' = IF state = "STOP" THEN "stop" ELSE "test_pause"
        \/ pc = "test_pause" /\ pc' = IF state = "PAUSE" THEN "pause" ELSE "top"
    <3>1. PICK i \in 1..3 : pc = PicoTests[i][1]
             /\ pc' = IF state = PicoTests[i][2] THEN PicoTests[i][3] ELSE PicoTests[i + 1][1]
      BY <1>4 DEF PicoTested
    <3>2. i = 1 \/ i = 2 \/ i = 3
      OBVIOUS
    <3>3. CASE i = 1
      <4>1. i + 1 = 2
        BY <3>3
      <4>2. QED
        BY <2>1, <3>1, <3>3, <4>1
    <3>4. CASE i = 2
      <4>1. i + 1 = 3
        BY <3>4
      <4>2. QED
        BY <2>1, <3>1, <3>4, <4>1
    <3>5. CASE i = 3
      <4>1. i + 1 = 4
        BY <3>5
      <4>2. QED
        BY <2>1, <3>1, <3>5, <4>1
    <3>6. QED
      BY <3>2, <3>3, <3>4, <3>5
  <2>3. UNCHANGED <<driver, cmd, speaking, stopped, state, sem, child, told, waits, since>>
    BY <1>4 DEF PicoTested
  <2>4. QED
    BY <1>0, <2>2, <2>3
<1>5. CASE PicoIdles
  BY <1>0, <1>5 DEF PicoIdles
<1>6. QED
  BY <1>1, <1>2, <1>3, <1>4, <1>5 DEF pico_play_func

-----------------------------------------------------------------------------
(* The main thread.                                                        *)

\* what every speak function does besides its own flag
Answers ==
    \/ /\ cmd' = "refused" /\ UNCHANGED <<sem, told, waits, since>>
    \/ /\ cmd' = "accepted" /\ sem' = sem + 1
       /\ told' = <<>> /\ waits' = TRUE /\ since' = -1

LEMMA SpeakAnswers ==
    ASSUME Inv, Speak
    PROVE  /\ cmd = "speak" /\ Answers /\ speaking' \in BOOLEAN
           /\ UNCHANGED <<driver, pc, stopped, child>>
           /\ driver # "pico" => UNCHANGED state
           /\ driver = "pico" => \/ UNCHANGED state /\ cmd' = "refused"
                                 \/ state = "IDLE" /\ state' = "PLAY" /\ cmd' = "accepted"
<1>1. speaking \in BOOLEAN
  BY DEF Inv, TypeOK
<1> USE DEF Answers, Accepts, Refuses, MainUnchanged, message, process, ghosts,
            special, flags, Flagged, Forking
<1>2. ASSUME NEW ds, StartsSpeaking(ds), "pico" \notin ds
      PROVE  /\ cmd = "speak" /\ Answers /\ speaking' \in BOOLEAN
             /\ UNCHANGED <<driver, pc, stopped, child, state>>
             /\ driver # "pico"
  BY <1>1, <1>2 DEF StartsSpeaking
<1>3. CASE \/ fl_speak \/ ivona_speak \/ cicero_speak \/ milena_speak
           \/ mbrpipe_speak \/ dummy_speak
  BY <1>2, <1>3 DEF fl_speak, ivona_speak, cicero_speak, milena_speak,
                    mbrpipe_speak, dummy_speak
<1>4. CASE generic_speak
  BY <1>1, <1>2, <1>4 DEF generic_speak
<1>5. CASE festival_speak
  BY <1>1, <1>5 DEF festival_speak
<1>6. CASE pico_speak
  BY <1>1, <1>6 DEF pico_speak
<1>7. QED
  BY <1>3, <1>4, <1>5, <1>6 DEF Speak

LEMMA SpeakInv == ASSUME Inv, Speak PROVE Inv'
<1> USE DEF Inv, TypeOK, OneAtATime, Reported, PicoReported, Seen, Childless,
            Polling, Flagged, Forking, PollingPlaces, FestivalPlaces,
            ForkingPlaces, PicoPlaces, Waiting, Resting, Terminal
<1>1. /\ cmd = "speak" /\ speaking' \in BOOLEAN
      /\ UNCHANGED <<driver, pc, stopped, child>>
      /\ driver # "pico" => UNCHANGED state
      /\ driver = "pico" => \/ UNCHANGED state /\ cmd' = "refused"
                            \/ state = "IDLE" /\ state' = "PLAY" /\ cmd' = "accepted"
  BY SpeakAnswers
<1>2. CASE cmd' = "refused" /\ UNCHANGED <<sem, told, waits, since>>
  BY <1>1, <1>2
<1>3. CASE /\ cmd' = "accepted" /\ sem' = sem + 1
           /\ told' = <<>> /\ waits' = TRUE /\ since' = -1
  BY <1>1, <1>3
<1>4. QED
  BY <1>2, <1>3, SpeakAnswers DEF Answers

\* what every stop and pause function does
LEMMA ControlEffects ==
    ASSUME Stop \/ Pause
    PROVE  /\ cmd \in {"stop", "pause"} /\ cmd' = "none"
           /\ UNCHANGED <<driver, pc, speaking, sem, told, waits>>
           /\ \/ driver \in Flagged /\ RaisesStopped
              \/ UNCHANGED <<stopped, since>>
           /\ \/ UNCHANGED state
              \/ state = "PLAY" /\ state' \in {"STOP", "PAUSE"}
           /\ \/ UNCHANGED child
              \/ child # "none" /\ child' = "killed"
<1> USE DEF ControlDone, MainUnchanged, message, server, flags, Flagged,
            StopByFlag, StopByKill, KillsGroup, PauseByFlag, PauseLater
<1>1. CASE Stop
  <2>1. CASE fl_stop \/ ivona_stop \/ cicero_stop \/ milena_stop \/ mbrpipe_stop
    BY <2>1 DEF fl_stop, ivona_stop, cicero_stop, milena_stop, mbrpipe_stop
  <2>2. CASE festival_stop
    BY <2>2 DEF festival_stop
  <2>3. CASE dummy_stop \/ generic_stop
    BY <2>3 DEF dummy_stop, generic_stop
  <2>4. CASE pico_stop
    BY <2>4 DEF pico_stop
  <2>5. QED
    BY <1>1, <2>1, <2>2, <2>3, <2>4 DEF Stop
<1>2. CASE Pause
  <2>1. CASE fl_pause \/ ivona_pause \/ milena_pause \/ mbrpipe_pause
    BY <2>1 DEF fl_pause, ivona_pause, milena_pause, mbrpipe_pause
  <2>2. CASE cicero_pause
    BY <2>2 DEF cicero_pause
  <2>3. CASE generic_pause \/ festival_pause \/ dummy_pause
    BY <2>3 DEF generic_pause, festival_pause, dummy_pause
  <2>4. CASE pico_pause
    BY <2>4 DEF pico_pause
  <2>5. QED
    BY <1>2, <2>1, <2>2, <2>3, <2>4 DEF Pause
<1>3. QED
  BY <1>1, <1>2

LEMMA ControlInv == ASSUME Inv, Stop \/ Pause PROVE Inv'
<1> USE DEF Inv, TypeOK, OneAtATime, Reported, PicoReported, Seen, Childless,
            Polling, Flagged, Forking, PollingPlaces, FestivalPlaces,
            ForkingPlaces, PicoPlaces, Waiting, Resting, Terminal
<1>1. /\ cmd \in {"stop", "pause"} /\ cmd' = "none"
      /\ UNCHANGED <<driver, pc, speaking, sem, told, waits>>
      /\ UNCHANGED state \/ (state = "PLAY" /\ state' \in {"STOP", "PAUSE"})
      /\ UNCHANGED child \/ (child # "none" /\ child' = "killed")
  BY ControlEffects
<1>2. CASE driver \in Flagged /\ RaisesStopped
  BY <1>1, <1>2 DEF RaisesStopped, Counts
<1>3. CASE UNCHANGED <<stopped, since>>
  BY <1>1, <1>3
<1>4. QED
  BY <1>2, <1>3, ControlEffects

LEMMA CloseInv == ASSUME Inv, Close PROVE Inv'
<1> USE DEF Inv, TypeOK, OneAtATime, Reported, PicoReported, Seen, Childless,
            Polling, Flagged, Forking, PollingPlaces, FestivalPlaces,
            ForkingPlaces, PicoPlaces, Waiting, Resting, Terminal,
            CloseDone
<1>1. CASE fl_close \/ ivona_close \/ cicero_close \/ milena_close \/ mbrpipe_close
  BY <1>1 DEF fl_close, ivona_close, cicero_close, milena_close, mbrpipe_close,
              CloseByFlag
<1>2. CASE dummy_close \/ generic_close
  BY <1>2 DEF dummy_close, generic_close, CloseByKill, KillsGroup
<1>3. CASE festival_close
  <2>1. /\ cmd = "quit" /\ cmd' \in {"quit", "join"} /\ driver = "festival"
        /\ stopped' \in BOOLEAN
        /\ stopped => stopped'
    BY <1>3 DEF festival_close
  <2>2. UNCHANGED <<driver, pc, speaking, state, sem, child, told, waits, since>>
    BY <1>3 DEF festival_close
  <2>3. QED
    BY <2>1, <2>2
<1>4. CASE pico_close
  BY <1>4 DEF pico_close
<1>5. QED
  BY <1>1, <1>2, <1>3, <1>4 DEF Close

LEMMA RepliesInv == ASSUME Inv, Replies \/ module_terminate_thread PROVE Inv'
<1> USE DEF Inv, TypeOK, OneAtATime, Reported, PicoReported, Seen, Childless,
            Polling, Flagged, Forking, PollingPlaces, FestivalPlaces,
            ForkingPlaces, PicoPlaces, Waiting, Resting, Terminal,
            server, flags, special, message, process, ghosts
<1>1. CASE Replies
  BY <1>1 DEF Replies
<1>2. CASE module_terminate_thread
  BY <1>2 DEF module_terminate_thread
<1>3. QED
  BY <1>1, <1>2

-----------------------------------------------------------------------------
(* The invariant, and what follows from it.                                *)

LEMMA NextInv == ASSUME Inv, [Next]_vars PROVE Inv'
<1>1. CASE Next
  <2>1. CASE Handles
    BY <2>1, SpeakInv, ControlInv, CloseInv, RepliesInv DEF Handles
  <2>2. CASE Thread
    BY <2>2, PollingInv, FestivalInv, ForkingInv, PicoInv DEF Thread
  <2>3. QED
    BY <1>1, <2>1, <2>2, CommandsInv, ChildInv DEF Next
<1>2. CASE UNCHANGED vars
  BY <1>2 DEF vars, server, flags, special, message, process, ghosts, Inv,
              TypeOK, OneAtATime, Reported, PicoReported, Seen, Childless
<1>3. QED
  BY <1>1, <1>2

\* The places of the speaking thread, what the server was told and what it
\* waits for fit together, in every module, whenever a command comes.
THEOREM DriversInvariant == Spec => []Inv
<1>1. Init => Inv
  BY DriversAssumption, InitInv
<1>2. Inv /\ [Next]_vars => Inv'
  BY NextInv
<1>3. QED
  BY <1>1, <1>2, PTL DEF Spec

\* A module that polls a flag starts at most one more part after a STOP.
THEOREM StopSoon == Spec => []StopIsShort
<1>1. Inv => StopIsShort
  BY DEF Inv, Seen, StopIsShort
<1>2. QED
  BY <1>1, DriversInvariant, PTL

\* When the thread does not wait for the child that plays, there is none.
THEOREM ChildrenReaped == Spec => []NoStrayChild
<1>1. Inv => NoStrayChild
  BY DEF Inv, Childless, NoStrayChild
<1>2. QED
  BY <1>1, DriversInvariant, PTL

-----------------------------------------------------------------------------
(* The promise: BEGIN, an index mark, and the end of a message are the     *)
(* only steps the server sees.                                             *)

Unseen == UNCHANGED <<driver, told, waits>>
Reports ==
    /\ driver' = driver
    /\ \/ pc = "begin" /\ Tells("begin")
       \/ pc \in {"mark", "last_mark"} /\ driver = "festival" /\ Tells("mark")
       \/ pc \in Terminal /\ Tells(pc)

LEMMA ThreadReports == ASSUME Thread PROVE Unseen \/ Reports
<1> USE DEF Unseen, Reports, ThreadUnchanged, ToldUnchanged, ghosts
<1>1. ASSUME NEW to, Begins(to) \/ Ends(to) PROVE Reports
  BY <1>1 DEF Begins, Ends, Tells
<1>2. ASSUME NEW from, NEW to, Moves(from, to) PROVE Unseen
  BY <1>2 DEF Moves
<1>3. ASSUME NEW from, NEW to, Plays(from, to) PROVE Unseen
  BY <1>3 DEF Plays
<1>4. ASSUME NEW spoke, Resets(spoke) PROVE Unseen
  BY <1>4 DEF Resets
<1>5. ASSUME NEW from, NEW to, NEW spoke, GivesUp(from, to, spoke) PROVE Unseen
  BY <1>5 DEF GivesUp
<1>6. ASSUME Wakes \/ Starts PROVE Unseen
  BY <1>6 DEF Wakes, Starts
<1>7. ASSUME \/ _flite_speak \/ _ivona_speak \/ _cicero_speak
             \/ milena_speak_routine \/ mbrpipe_speak_routine
      PROVE  Unseen \/ Reports
  <2>1. ASSUME PollingLoop PROVE Unseen \/ Reports
    BY <2>1, <1>1, <1>2, <1>6 DEF PollingLoop, StopSeen, Finishes, Checks, Silent, GetsPart
  <2>2. ASSUME \/ NoMoreParts("end") \/ LastStopSeen \/ PlaysUnlessStopped \/ PlayedPart
        PROVE  Unseen
    BY <2>2, <1>2, <1>3 DEF NoMoreParts, LastStopSeen, PlaysUnlessStopped, PlayedPart,
                            StopSeen, Finishes, Checks, Silent
  <2>3. QED
    BY <1>7, <2>1, <2>2, <1>2, <1>3, <1>4, <1>5
    DEF _flite_speak, _ivona_speak, _cicero_speak, milena_speak_routine,
        mbrpipe_speak_routine, Finishes, Silent
<1>8. ASSUME _festival_speak PROVE Unseen \/ Reports
  <2>1. ASSUME NEW from, NEW ev, CleansUp(from, ev) PROVE Unseen
    BY <2>1 DEF CleansUp
  <2>2. ASSUME FestivalMarks, driver = "festival" PROVE Reports
    BY <2>2 DEF FestivalMarks, Tells
  <2>3. ASSUME \/ FestivalCached \/ FestivalRequests \/ FestivalFetches
               \/ FestivalCrashes \/ FestivalPlays
        PROVE  Unseen
    BY <2>3, <2>1, <1>2, <1>3
    DEF FestivalCached, FestivalRequests, FestivalFetches, FestivalCrashes,
        FestivalPlays, Silent, Checks, GetsPart
  <2>4. QED
    BY <1>8, <1>1, <1>6, <2>1, <2>2, <2>3 DEF _festival_speak
<1>9. ASSUME _dummy_speak \/ _generic_speak PROVE Unseen \/ Reports
  <2>1. ASSUME \/ Reaps \/ module_parent_wfork \/ Forks("wait") \/ Forks("parts")
        PROVE  Unseen
    BY <2>1 DEF Reaps, module_parent_wfork, ParentUnchanged, Forks
  <2>2. QED
    BY <1>9, <1>1, <1>2, <1>5, <1>6, <2>1 DEF _dummy_speak, _generic_speak, Silent
<1>10. ASSUME pico_play_func PROVE Unseen \/ Reports
  <2>1. ASSUME NEW from, NEW to, PicoMoves(from, to) PROVE Unseen
    BY <2>1, <1>2 DEF PicoMoves, Silent
  <2>2. ASSUME pico_process_tts \/ PicoTested \/ PicoIdles PROVE Unseen
    BY <2>2, <2>1 DEF pico_process_tts, PicoTested, PicoIdles
  <2>3. QED
    BY <1>10, <1>1, <1>6, <2>1, <2>2 DEF pico_play_func
<1>11. QED
  BY <1>7, <1>8, <1>9, <1>10 DEF Thread

LEMMA OthersUnseen ==
    ASSUME Commands \/ Replies \/ Stop \/ Pause \/ Close
           \/ module_terminate_thread \/ Child
    PROVE  Unseen
<1> USE DEF Unseen, ghosts
<1>1. CASE Commands
  BY <1>1 DEF Commands, SendSpeak, SendQuit, SendControl
<1>2. CASE Replies \/ module_terminate_thread
  BY <1>2 DEF Replies, module_terminate_thread
<1>3. CASE Stop \/ Pause
  BY <1>3, ControlEffects
<1>4. CASE Close
  BY <1>4 DEF Close, fl_close, ivona_close, cicero_close, milena_close, mbrpipe_close,
              dummy_close, generic_close, festival_close, pico_close, CloseByFlag,
              CloseByKill, CloseDone
<1>5. CASE Child
  BY <1>5 DEF Child, _dummy_child, _generic_child, generic_child_close, Becomes
<1>6. QED
  BY <1>1, <1>2, <1>3, <1>4, <1>5

LEMMA ReportsPromised == ASSUME Inv, Reports PROVE Synth!Next
<1> USE DEF Inv, TypeOK, Polling, Flagged, Forking, Terminal
<1>0. waits \in BOOLEAN
  OBVIOUS
<1>1. ASSUME NEW ev, Tells(ev)
      PROVE  told' = Append(told, ev) /\ (waits' <=> (waits /\ ev \notin Terminal))
  BY <1>1 DEF Tells
<1>2. CASE pc = "begin" /\ Tells("begin")
  <2>1. waits /\ told = <<>>
    BY <1>2 DEF Reported, PicoReported, Waiting
  <2>2. waits' /\ told' = Append(told, "begin")
    BY <1>1, <1>2, <2>1
  <2>3. told' # <<>>
    BY <2>2, AppendEvent
  <2>4. Synth!Begin
    BY <2>1, <2>2, <2>3 DEF Reports, Synth!Begin, Synth!Report, Phase
  <2>5. QED
    BY <2>4 DEF Synth!Next
<1>3. CASE pc \in {"mark", "last_mark"} /\ driver = "festival" /\ Tells("mark")
  <2>1. waits /\ told # <<>>
    BY <1>3 DEF Reported, Waiting, Resting
  <2>2. waits' /\ told' = Append(told, "mark")
    BY <1>1, <1>3, <2>1
  <2>3. told' # <<>>
    BY <2>2, AppendEvent
  <2>4. Synth!Mark
    BY <2>1, <2>2, <2>3 DEF Reports, Synth!Mark, Synth!Report, Phase
  <2>5. QED
    BY <2>4 DEF Synth!Next
<1>4. CASE pc \in Terminal /\ Tells(pc)
  <2>1. /\ waits
        /\ driver # "pico" \/ pc = "end" => told # <<>>
        /\ pc = "pause" => driver \in {"festival", "pico"}
    BY <1>4 DEF Reported, PicoReported, Waiting, Resting, PollingPlaces, ForkingPlaces
  <2>2. ~waits' /\ told' = Append(told, pc)
    BY <1>1, <1>4
  <2>3. Synth!Finish(pc)
    BY <2>1, <2>2 DEF Reports, Synth!Finish, Synth!Report, Phase
  <2>4. QED
    BY <1>4, <2>3 DEF Synth!Next
<1>5. QED
  BY <1>2, <1>3, <1>4 DEF Reports

LEMMA SpeakPromised == ASSUME Inv, Speak PROVE Synth!Next \/ Unseen
<1>1. ~waits /\ driver' = driver
  BY SpeakAnswers DEF Inv, OneAtATime
<1>2. CASE /\ cmd' = "refused" /\ UNCHANGED <<sem, told, waits, since>>
  BY <1>1, <1>2 DEF Unseen
<1>3. CASE /\ cmd' = "accepted" /\ sem' = sem + 1
           /\ told' = <<>> /\ waits' = TRUE /\ since' = -1
  BY <1>1, <1>3 DEF Synth!Next, Synth!Accept, Phase
<1>4. QED
  BY <1>2, <1>3, SpeakAnswers DEF Answers

\* Each module keeps the promise of Synthesizer.tla.
THEOREM PromiseKept == Spec => KeepsPromise
<1>1. Init => Synth!Init
  BY DEF Init, Synth!Init, Phase
<1>2. ASSUME Inv, [Next]_vars PROVE [Synth!Next]_(Synth!vars)
  <2>1. Unseen => UNCHANGED Synth!vars
    BY DEF Unseen, Synth!vars, Phase
  <2>2. CASE UNCHANGED vars
    BY <2>1, <2>2 DEF vars, ghosts, Unseen
  <2>3. CASE Next
    <3>1. CASE Thread
      BY <2>1, <3>1, ThreadReports, ReportsPromised, <1>2
    <3>2. CASE Speak
      BY <2>1, <3>2, SpeakPromised, <1>2
    <3>3. CASE Commands \/ Replies \/ Stop \/ Pause \/ Close
               \/ module_terminate_thread \/ Child
      BY <2>1, <3>3, OthersUnseen
    <3>4. QED
      BY <2>3, <3>1, <3>2, <3>3 DEF Next, Handles
  <2>4. QED
    BY <1>2, <2>2, <2>3
<1>3. QED
  BY <1>1, <1>2, DriversInvariant, PTL DEF Spec, KeepsPromise, Synth!Spec
=============================================================================
