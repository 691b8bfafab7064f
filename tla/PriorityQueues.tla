--------------------------- MODULE PriorityQueues ---------------------------
(***************************************************************************)
(* The five message queues of the OpenTTS server and the rules by which a  *)
(* message that arrives at one priority cancels messages of the others:    *)
(* queue_remove_message() ... resolve_priorities() of speaking.c.          *)
(*                                                                         *)
(* A message is a record: its id, the uid of its client, the group gid of  *)
(* the block it belongs to ("reparted" in the code, 0 outside a block) and *)
(* whether it is the copy kept in last_p5_block or the message itself.     *)
(* The rules thread an "effect" through their calls: the queues, the ids   *)
(* of the messages a CANCEL event was reported for, and whether            *)
(* output_stop() was called.                                               *)
(***************************************************************************)
EXTENDS Integers, Sequences, FiniteSets, SequencesExt

IMPORTANT    == 1
MESSAGE      == 2
TEXT         == 3
NOTIFICATION == 4
PROGRESS     == 5
Priorities   == IMPORTANT..PROGRESS

Ids(s) == {s[i].id : i \in DOMAIN s}

(***************************************************************************)
(* Lists.                                                                  *)
(***************************************************************************)

\* The elements of s at the positions I, in their order.
Kept(s, I) ==
  [k \in 1..Cardinality(I) |->
     s[CHOOSE i \in I : Cardinality({j \in I : j < i}) = k - 1]]

\* Mutant: the element stays in the list.
WithoutNothing(s, i) == SubSeq(s, 1, i) \o SubSeq(s, i + 1, Len(s))

\* g_list_remove_link: s without its i-th element.
Without(s, i) == SubSeq(s, 1, i - 1) \o SubSeq(s, i + 1, Len(s))

\* Mutant: m goes to the end.
InsertLast(s, m) == Append(s, m)

\* g_list_insert_sorted with sortbyuid: m goes before the first message whose
\* id is not smaller.
InsertById(s, m) ==
  LET before == {i \in DOMAIN s : \A j \in 1..i : s[j].id < m.id}
      n      == Cardinality(before)
  IN  SubSeq(s, 1, n) \o <<m>> \o SubSeq(s, n + 1, Len(s))

\* Queue q holds one message or the messages of one block.
OneBlock(q) ==
  \A i, j \in DOMAIN q : i # j => q[i].gid = q[j].gid /\ q[i].gid > 0

(***************************************************************************)
(* Cancelling messages.                                                    *)
(***************************************************************************)

Effect(q) == [queues |-> q, cancelled |-> {}, stop |-> FALSE]

\* output_stop() is called if condition holds.
StopIf(e, condition) == [e EXCEPT !.stop = e.stop \/ condition]

\* Mutant: the messages are freed without a report.
CancelSilently(e, p, I) == [e EXCEPT !.queues[p] = Kept(@, I)]

\* Every message of queue p that is not at one of the positions I leaves the
\* queue and is reported as canceled.
Cancel(e, p, I) ==
  LET q == e.queues[p]
  IN  [e EXCEPT !.queues[p] = Kept(q, I),
                !.cancelled = @ \cup {q[i].id : i \in DOMAIN q \ I}]

\* Mutant: the module is stopped whatever it speaks.
StopAnyway(e, p, current) == Cancel(StopIf(e, TRUE), p, {})

\* Mutant: the module speaks on.
LeaveModule(e, p, current) == Cancel(e, p, {})

stop_priority(e, p, current) ==
  Cancel(StopIf(e, current = p), p, {})

stop_priority_older_than(e, p, id, current) ==
  Cancel(StopIf(e, current = p), p,
         {i \in DOMAIN e.queues[p] : e.queues[p][i].id >= id})

\* Mutant: the shortened lists are not stored.
StopWithoutRemoval(e, uid) ==
  [e EXCEPT !.cancelled = @ \cup
     {m.id : m \in {x \in UNION {Range(e.queues[p]) : p \in Priorities} :
                     x.uid = uid}}]

stop_from_uid(e, uid) ==
  LET others(p) == {i \in DOMAIN e.queues[p] : e.queues[p][i].uid # uid}
  IN  [e EXCEPT
         !.queues    = [p \in Priorities |-> Kept(e.queues[p], others(p))],
         !.cancelled = @ \cup UNION
            {{e.queues[p][i].id : i \in DOMAIN e.queues[p] \ others(p)} :
               p \in Priorities}]

\* Mutant: the messages of other blocks stay.
KeepOtherBlocks(e, p, current, gid) ==
  LET q == e.queues[p]
  IN  IF q = <<>> \/ q[Len(q)].gid > 0 THEN e
      ELSE Cancel(StopIf(e, current = p), p, {Len(q)})

\* Only the newest message of queue p stays, or the messages of its block;
\* what is dropped for a block is freed without a report.
stop_priority_except_first(e, p, current, gid) ==
  LET q      == e.queues[p]
      newest == q[Len(q)].gid
      block  == {i \in DOMAIN q : q[i].gid = newest}
  IN  IF q = <<>> THEN e
      ELSE IF newest <= 0
      THEN Cancel(StopIf(e, current = p), p, {Len(q)})
      ELSE [StopIf(e, current = p /\ gid # newest)
              EXCEPT !.queues[p] = Kept(q, block)]

\* s without the messages at the positions I that end it.
WithoutTrailing(s, I) ==
  Kept(s, {i \in DOMAIN s : \E j \in i..Len(s) : j \notin I})

\* The rest of the block that is being stopped leaves queue p: the trailing
\* messages of uid that are in the block of the newest one.
speaking_stop(e, p, uid) ==
  LET q      == e.queues[p]
      newest == q[Len(q)]
      block  == {i \in DOMAIN q : q[i].gid = newest.gid /\ q[i].uid = uid}
      f      == StopIf(e, TRUE)
  IN  IF q = <<>> \/ newest.gid = 0 \/ newest.uid # uid THEN f
      ELSE [f EXCEPT !.queues[p] = WithoutTrailing(q, block)]

\* As speaking_stop for whoever speaks, but the code compares the messages
\* with the number 1 instead of the gid of the newest.
speaking_stop_all(e, p) ==
  LET q     == e.queues[p]
      block == {i \in DOMAIN q : q[i].gid = 1}
      f     == StopIf(e, TRUE)
  IN  IF q = <<>> \/ q[Len(q)].gid = 0 THEN f
      ELSE [f EXCEPT !.queues[p] = WithoutTrailing(q, block)]

\* What the arrival of a message of priority p does to the others.  speaking,
\* current and gid are SPEAKING, current_priority and speaking_gid.
resolve_priorities(e, p, speaking, current, gid) ==
  LET Stop(f, q) == stop_priority(f, q, current)
      Low(f)     == Stop(Stop(f, NOTIFICATION), PROGRESS)
      First(f)   == stop_priority_except_first(f, p, current, gid)
  IN  CASE p = IMPORTANT ->
             Low(StopIf(e, speaking /\ current # IMPORTANT))
        [] p = MESSAGE ->
             Low(Stop(StopIf(e, speaking
                                /\ current \notin {IMPORTANT, MESSAGE}), TEXT))
        [] p = TEXT -> Low(First(e))
        [] p = NOTIFICATION ->
             IF speaking /\ current # NOTIFICATION
             THEN Stop(First(e), NOTIFICATION)
             ELSE First(e)
        [] p = PROGRESS ->
             LET f == Stop(e, NOTIFICATION)
             IN  IF speaking /\ f.queues[p] # <<>>
                 THEN Cancel(f, p, {Len(f.queues[p])})
                 ELSE f

=============================================================================
