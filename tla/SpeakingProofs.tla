--------------------------- MODULE SpeakingProofs ---------------------------
(***************************************************************************)
(* What the operators of PriorityQueues return, for queues of any length.  *)
(* Theorems about Speaking, for any number of clients, messages, blocks,   *)
(* crashes and so on: the types of its variables, the one voice, the       *)
(* queues that hold one text at a time, the messages of priority important *)
(* that nothing interrupts and CANCEL all, which stops whatever is spoken. *)
(* For servers whose clients never pause: the wake-ups of the speak        *)
(* thread, the order messages wait in, the messages that were canceled and *)
(* the order of their events.  For servers whose clients send no blocks:   *)
(* no message vanishes.                                                    *)
(***************************************************************************)
EXTENDS Speaking, SequenceTheorems, FiniteSetTheorems, TLAPS

-----------------------------------------------------------------------------
(***************************************************************************)
(* PriorityQueues: which positions of a queue Kept() keeps, and that the   *)
(* rules by which messages cancel each other yield queues of messages.     *)
(***************************************************************************)

\* The number of positions of I before i.
Rank(I, i) == Cardinality({j \in I : j < i})

\* The position that Kept(s, I) puts at place k.
Place(I, k) == CHOOSE i \in I : Rank(I, i) = k - 1

\* A larger member of the set has another rank.
LEMMA RankGrows ==
  ASSUME NEW I \in SUBSET Int, IsFiniteSet(I), NEW i \in I, NEW j \in I, i < j
  PROVE  Rank(I, i) # Rank(I, j)
<1>1. /\ {x \in I : x < i} \in SUBSET {x \in I : x < j}
      /\ i \in {x \in I : x < j} \ {x \in I : x < i}
  <2>1. i \in Int /\ j \in Int /\ I \subseteq Int
    OBVIOUS
  <2>2. \A x \in Int : x < i => x < j
    BY <2>1
  <2>3. {x \in I : x < i} \in SUBSET {x \in I : x < j}
    BY <2>1, <2>2, Zenon
  <2>4. ~(i < i)
    BY <2>1
  <2> QED
    BY <2>3, <2>4, Zenon
<1>2. IsFiniteSet({x \in I : x < j})
  BY FS_Subset
<1> QED
  BY <1>1, <1>2, FS_Subset DEF Rank

\* Every rank below the cardinality of a finite set of numbers is taken: the
\* ranks are distinct, and there are as many as there are positions.
LEMMA RankTaken ==
  ASSUME NEW I \in SUBSET Int, IsFiniteSet(I), NEW k \in 1..Cardinality(I)
  PROVE  Place(I, k) \in I /\ Rank(I, Place(I, k)) = k - 1
<1> DEFINE N == Cardinality(I)
           T == 0..(N - 1)
           f == [i \in I |-> Rank(I, i)]
<1>1. N \in Nat
  BY FS_CardinalityType
<1>2. IsFiniteSet(T) /\ Cardinality(T) = N
  <2>1. 0 \in Int /\ N - 1 \in Int
    BY <1>1
  <2>2. IsFiniteSet(T) /\ Cardinality(T) = IF 0 > N - 1 THEN 0 ELSE N - 1 - 0 + 1
    BY <2>1, FS_Interval
  <2> QED
    BY <1>1, <2>2
<1>3. ASSUME NEW i \in I
      PROVE  Rank(I, i) \in T
  <2>1. {j \in I : j < i} \in SUBSET I /\ {j \in I : j < i} # I
    OBVIOUS
  <2>2. /\ IsFiniteSet({j \in I : j < i})
        /\ Cardinality({j \in I : j < i}) <= N
        /\ Cardinality({j \in I : j < i}) # N
    BY <2>1, FS_Subset
  <2>3. Cardinality({j \in I : j < i}) \in Nat
    BY <2>2, FS_CardinalityType
  <2> QED
    BY <1>1, <2>2, <2>3 DEF Rank
<1>4. ASSUME NEW i \in I, NEW j \in I, i < j
      PROVE  Rank(I, i) # Rank(I, j)
  BY <1>4, RankGrows
<1>5. f \in Injection(I, T)
  <2>1. f \in [I -> T]
    BY <1>3
  <2>2. \A i, j \in I : f[i] = f[j] => i = j
    BY <1>4
  <2> QED
    BY <2>1, <2>2 DEF Injection, IsInjective
<1>6. f \in Surjection(I, T)
  BY <1>1, <1>2, <1>5, FS_Injection
<1>7. \E i \in I : Rank(I, i) = k - 1
  <2>1. k - 1 \in T
    BY <1>1
  <2>2. PICK i \in I : f[i] = k - 1
    BY <1>6, <2>1, Zenon DEF Surjection
  <2> QED
    BY <2>2
<1> QED
  BY <1>7 DEF Place

\* Every member of a finite set of integers has a place.
LEMMA PlaceTaken ==
  ASSUME NEW I \in SUBSET Int, IsFiniteSet(I), NEW i \in I
  PROVE  \E k \in 1..Cardinality(I) : Place(I, k) = i
<1> DEFINE k == Rank(I, i) + 1
<1>1. Rank(I, i) \in 0..(Cardinality(I) - 1)
  <2>1. {j \in I : j < i} \in SUBSET I /\ {j \in I : j < i} # I
    OBVIOUS
  <2>2. /\ IsFiniteSet({j \in I : j < i})
        /\ Cardinality({j \in I : j < i}) <= Cardinality(I)
        /\ Cardinality({j \in I : j < i}) # Cardinality(I)
    BY <2>1, FS_Subset
  <2>3. Cardinality({j \in I : j < i}) \in Nat /\ Cardinality(I) \in Nat
    BY <2>2, FS_CardinalityType
  <2> QED
    BY <2>2, <2>3 DEF Rank
<1>2. k \in 1..Cardinality(I) /\ k - 1 = Rank(I, i)
  <2>1. Cardinality(I) \in Nat
    BY FS_CardinalityType
  <2> QED
    BY <1>1, <2>1
<1>3. Place(I, k) \in I /\ Rank(I, Place(I, k)) = Rank(I, i)
  <2> HIDE DEF k
  <2> QED
    BY <1>2, RankTaken
<1>4. ASSUME NEW x \in I, NEW y \in I, x < y
      PROVE  Rank(I, x) # Rank(I, y)
  BY <1>4, RankGrows
<1> HIDE DEF k
<1>5. Place(I, k) = i
  <2>1. Place(I, k) \in Int /\ i \in Int
    BY <1>3
  <2> QED
    BY <1>3, <1>4, <2>1
<1> QED
  BY <1>2, <1>5

\* Kept() lists elements of s from distinct positions of I.
LEMMA KeptElements ==
  ASSUME NEW S, NEW s \in Seq(S), NEW I \in SUBSET (DOMAIN s)
  PROVE  /\ Kept(s, I) \in Seq(S)
         /\ Len(Kept(s, I)) = Cardinality(I)
         /\ \A k \in 1..Len(Kept(s, I)) :
              Place(I, k) \in I /\ Kept(s, I)[k] = s[Place(I, k)]
         /\ \A k, l \in 1..Len(Kept(s, I)) :
              Place(I, k) = Place(I, l) => k = l
<1>1. DOMAIN s = 1..Len(s) /\ Len(s) \in Nat
  BY LenProperties
<1>2. I \in SUBSET Int /\ IsFiniteSet(I)
  <2>1. 1 \in Int /\ Len(s) \in Int
    BY <1>1
  <2>2. IsFiniteSet(1..Len(s)) /\ I \in SUBSET (1..Len(s))
    BY <1>1, <2>1, FS_Interval
  <2>3. IsFiniteSet(I)
    BY <2>2, FS_Subset
  <2> QED
    BY <2>2, <2>3
<1>3. Cardinality(I) \in Nat
  BY <1>2, FS_CardinalityType
<1>4. Kept(s, I) = [k \in 1..Cardinality(I) |-> s[Place(I, k)]]
  BY DEF Kept, Place, Rank
<1>5. \A k \in 1..Cardinality(I) :
        Place(I, k) \in I /\ Rank(I, Place(I, k)) = k - 1
  BY <1>2, RankTaken
<1>6. \A k \in 1..Cardinality(I) : s[Place(I, k)] \in S
  BY <1>1, <1>5, ElementOfSeq
<1>7. Kept(s, I) \in Seq(S) /\ Len(Kept(s, I)) = Cardinality(I)
  BY <1>3, <1>4, <1>6
<1> QED
  BY <1>3, <1>4, <1>5, <1>7

-----------------------------------------------------------------------------
(***************************************************************************)
(* Pruning.  t is a subsequence of s: its elements come from positions of  *)
(* s in the same order.                                                    *)
(***************************************************************************)
Subsequence(t, s) ==
  \E f \in [DOMAIN t -> DOMAIN s] :
    /\ \A k, l \in DOMAIN t : k < l => f[k] < f[l]
    /\ \A k \in DOMAIN t : t[k] = s[f[k]]

\* A queue is a subsequence of itself.
LEMMA SubsequenceReflexive ==
  ASSUME NEW S, NEW s \in Seq(S)
  PROVE  Subsequence(s, s)
<1> DEFINE f == [k \in DOMAIN s |-> k]
<1>1. f \in [DOMAIN s -> DOMAIN s]
  OBVIOUS
<1>2. \A k, l \in DOMAIN s : k < l => f[k] < f[l]
  OBVIOUS
<1>3. \A k \in DOMAIN s : s[k] = s[f[k]]
  OBVIOUS
<1> QED
  BY <1>1, <1>2, <1>3, Zenon DEF Subsequence

\* Pruning twice is pruning.
LEMMA SubsequenceTransitive ==
  ASSUME NEW s, NEW t, NEW u, Subsequence(u, t), Subsequence(t, s)
  PROVE  Subsequence(u, s)
<1>1. PICK f \in [DOMAIN u -> DOMAIN t] :
        /\ \A k, l \in DOMAIN u : k < l => f[k] < f[l]
        /\ \A k \in DOMAIN u : u[k] = t[f[k]]
  BY Zenon DEF Subsequence
<1>2. PICK g \in [DOMAIN t -> DOMAIN s] :
        /\ \A k, l \in DOMAIN t : k < l => g[k] < g[l]
        /\ \A k \in DOMAIN t : t[k] = s[g[k]]
  BY Zenon DEF Subsequence
<1> DEFINE h == [k \in DOMAIN u |-> g[f[k]]]
<1>3. h \in [DOMAIN u -> DOMAIN s]
  BY <1>1, <1>2
<1>4. \A k, l \in DOMAIN u : k < l => h[k] < h[l]
  BY <1>1, <1>2
<1>5. \A k \in DOMAIN u : u[k] = s[h[k]]
  BY <1>1, <1>2
<1> QED
  BY <1>3, <1>4, <1>5, Zenon DEF Subsequence

\* Kept() prunes.
LEMMA KeptPrunes ==
  ASSUME NEW S, NEW s \in Seq(S), NEW I \in SUBSET (DOMAIN s)
  PROVE  /\ Kept(s, I) \in Seq(S)
         /\ Subsequence(Kept(s, I), s)
<1> DEFINE t == Kept(s, I)
           f == [k \in DOMAIN t |-> Place(I, k)]
<1>1. /\ t \in Seq(S)
      /\ Len(t) = Cardinality(I)
      /\ DOMAIN t = 1..Len(t)
      /\ \A k \in DOMAIN t : Place(I, k) \in I /\ t[k] = s[Place(I, k)]
  BY KeptElements, LenProperties
<1>2. I \in SUBSET Int /\ IsFiniteSet(I)
  <2>1. DOMAIN s = 1..Len(s) /\ 1 \in Int /\ Len(s) \in Int
    BY LenProperties
  <2>2. IsFiniteSet(1..Len(s))
    BY <2>1, FS_Interval
  <2> QED
    BY <2>1, <2>2, FS_Subset
<1>3. ASSUME NEW k \in DOMAIN t, NEW l \in DOMAIN t, k < l
      PROVE  Place(I, k) < Place(I, l)
  <2>1. /\ Place(I, k) \in I /\ Rank(I, Place(I, k)) = k - 1
        /\ Place(I, l) \in I /\ Rank(I, Place(I, l)) = l - 1
    BY <1>1, <1>2, RankTaken
  <2>2. SUFFICES ASSUME Place(I, l) <= Place(I, k) PROVE FALSE
    BY <1>2, <2>1
  <2>3. ASSUME NEW x \in I, x < Place(I, l)
        PROVE  x < Place(I, k)
    BY <1>2, <2>1, <2>2, <2>3
  <2>4. /\ {x \in I : x < Place(I, l)} \in SUBSET {x \in I : x < Place(I, k)}
        /\ IsFiniteSet({x \in I : x < Place(I, k)})
    BY <1>2, <2>3, FS_Subset
  <2>5. Rank(I, Place(I, l)) <= Rank(I, Place(I, k))
    BY <2>4, FS_Subset DEF Rank
  <2> QED
    BY <1>1, <1>3, <2>1, <2>5
<1>4. f \in [DOMAIN t -> DOMAIN s]
  BY <1>1
<1>5. \A k, l \in DOMAIN t : k < l => f[k] < f[l]
  BY <1>3
<1>6. \A k \in DOMAIN t : t[k] = s[f[k]]
  BY <1>1
<1> QED
  BY <1>1, <1>4, <1>5, <1>6, Zenon DEF Subsequence

\* Pruning leaves a block a block.
LEMMA SubsequenceOneBlock ==
  ASSUME NEW S, NEW s \in Seq(S), NEW t \in Seq(S),
         Subsequence(t, s), OneBlock(s)
  PROVE  OneBlock(t)
<1>1. PICK f \in [DOMAIN t -> DOMAIN s] :
        /\ \A k, l \in DOMAIN t : k < l => f[k] < f[l]
        /\ \A k \in DOMAIN t : t[k] = s[f[k]]
  BY Zenon DEF Subsequence
<1>2. DOMAIN t \subseteq Int /\ DOMAIN s \subseteq Int
  BY LenProperties
<1>3. SUFFICES ASSUME NEW i \in DOMAIN t, NEW j \in DOMAIN t, i # j
               PROVE  t[i].gid = t[j].gid /\ t[i].gid > 0
  BY DEF OneBlock
<1>4. f[i] # f[j]
  BY <1>1, <1>2, <1>3
<1>5. f[i] \in DOMAIN s /\ f[j] \in DOMAIN s
  BY <1>1
<1>6. s[f[i]].gid = s[f[j]].gid /\ s[f[i]].gid > 0
  BY <1>4, <1>5, Zenon DEF OneBlock
<1> QED
  BY <1>1, <1>6, Zenon

-----------------------------------------------------------------------------
(***************************************************************************)
(* The rules.  S is a set of messages whose ids are in X.                  *)
(***************************************************************************)
MessageSet(S, X) == \A m \in S : m.id \in X /\ m.gid \in Nat

Effects(S, X) ==
  [queues : [Priorities -> Seq(S)], cancelled : SUBSET X, stop : BOOLEAN]

\* Effect f prunes the queues of effect e.
Prunes(f, e) ==
  \A p \in Priorities : Subsequence(f.queues[p], e.queues[p])

\* What a rule promises: from e it makes an effect f that prunes the queues.
Yields(f, e, S, X) == f \in Effects(S, X) /\ Prunes(f, e)

\* Doing nothing prunes.
LEMMA PrunesReflexive ==
  ASSUME NEW S, NEW X, NEW e \in Effects(S, X)
  PROVE  Yields(e, e, S, X)
<1> SUFFICES ASSUME NEW p \in Priorities
             PROVE  Subsequence(e.queues[p], e.queues[p])
  BY DEF Yields, Prunes
<1>1. e.queues[p] \in Seq(S)
  BY DEF Effects
<1> QED
  BY <1>1, SubsequenceReflexive

\* One rule after another prunes.
LEMMA PrunesTransitive ==
  ASSUME NEW S, NEW X, NEW e, NEW f, NEW g,
         Yields(f, e, S, X), Yields(g, f, S, X)
  PROVE  Yields(g, e, S, X)
<1>1. g \in Effects(S, X)
  BY DEF Yields
<1>2. ASSUME NEW p \in Priorities
      PROVE  Subsequence(g.queues[p], e.queues[p])
  <2>1. /\ Subsequence(g.queues[p], f.queues[p])
        /\ Subsequence(f.queues[p], e.queues[p])
    BY DEF Yields, Prunes
  <2> QED
    BY <2>1, SubsequenceTransitive
<1> QED
  BY <1>1, <1>2 DEF Yields, Prunes

\* A new message queue p' of e that is a subsequence of the old one.
LEMMA OneQueuePruned ==
  ASSUME NEW S, NEW X, NEW e \in Effects(S, X), NEW p \in Priorities,
         NEW q \in Seq(S), Subsequence(q, e.queues[p]),
         NEW f \in Effects(S, X), f.queues = [e.queues EXCEPT ![p] = q]
  PROVE  Yields(f, e, S, X)
<1> SUFFICES ASSUME NEW r \in Priorities
             PROVE  Subsequence(f.queues[r], e.queues[r])
  BY DEF Yields, Prunes
<1>1. e.queues \in [Priorities -> Seq(S)]
  BY DEF Effects
<1>2. CASE r = p
  BY <1>1, <1>2
<1>3. CASE r # p
  <2>1. f.queues[r] = e.queues[r] /\ e.queues[r] \in Seq(S)
    BY <1>1, <1>3
  <2> QED
    BY <2>1, SubsequenceReflexive
<1> QED
  BY <1>2, <1>3

\* Cancel() prunes one queue; it does not stop the module.
LEMMA CancelYields ==
  ASSUME NEW S, NEW X, MessageSet(S, X), NEW e \in Effects(S, X),
         NEW p \in Priorities, NEW I \in SUBSET (DOMAIN e.queues[p])
  PROVE  /\ Yields(Cancel(e, p, I), e, S, X)
         /\ Cancel(e, p, I).queues = [e.queues EXCEPT ![p] = Kept(e.queues[p], I)]
         /\ Cancel(e, p, I).stop = e.stop
<1> DEFINE q == e.queues[p]
           f == Cancel(e, p, I)
           gone == {q[i].id : i \in DOMAIN q \ I}
<1>1. q \in Seq(S) /\ e.queues \in [Priorities -> Seq(S)]
  BY DEF Effects
<1>2. Kept(q, I) \in Seq(S) /\ Subsequence(Kept(q, I), q)
  BY <1>1, KeptPrunes
<1>3. \A i \in DOMAIN q : q[i] \in S
  BY <1>1, LenProperties, ElementOfSeq
<1>4. gone \in SUBSET X
  BY <1>3 DEF MessageSet
<1>5. f = [e EXCEPT !.queues[p] = Kept(q, I), !.cancelled = @ \cup gone]
  BY DEF Cancel
<1>6. /\ f \in Effects(S, X)
      /\ f.queues = [e.queues EXCEPT ![p] = Kept(q, I)]
      /\ f.stop = e.stop
  BY <1>1, <1>2, <1>4, <1>5, ZenonT(40) DEF Effects
<1>7. Yields(f, e, S, X)
  BY <1>2, <1>6, OneQueuePruned
<1> QED
  BY <1>6, <1>7

\* stop_priority(): the queue is emptied, the module is stopped if the message
\* it speaks came from there.
LEMMA StopPriorityYields ==
  ASSUME NEW S, NEW X, MessageSet(S, X), NEW e \in Effects(S, X),
         NEW p \in Priorities, NEW current \in Priorities
  PROVE  /\ Yields(stop_priority(e, p, current), e, S, X)
         /\ stop_priority(e, p, current).stop = (e.stop \/ current = p)
<1> DEFINE f == StopIf(e, current = p)
           I == {}
<1>1. /\ f \in Effects(S, X)
      /\ f.queues = e.queues
      /\ f.stop = (e.stop \/ current = p)
  BY DEF StopIf, Effects
<1>2. Cancel(f, p, I) = stop_priority(e, p, current)
  BY DEF stop_priority
<1>3. I \in SUBSET (DOMAIN f.queues[p])
  OBVIOUS
<1> HIDE DEF f, I
<1>4. /\ Yields(Cancel(f, p, I), f, S, X)
      /\ Cancel(f, p, I).queues = [f.queues EXCEPT ![p] = Kept(f.queues[p], I)]
      /\ Cancel(f, p, I).stop = f.stop
  BY <1>1, <1>3, CancelYields
<1>5. Yields(Cancel(f, p, I), e, S, X)
  BY <1>1, <1>4 DEF Yields, Prunes
<1> QED
  BY <1>1, <1>2, <1>4, <1>5

\* stop_priority_older_than(): messages at the positions kept stay.
LEMMA StopOlderYields ==
  ASSUME NEW S, NEW X, MessageSet(S, X), NEW e \in Effects(S, X),
         NEW p \in Priorities, NEW current \in Priorities, NEW id
  PROVE  /\ Yields(stop_priority_older_than(e, p, id, current), e, S, X)
         /\ stop_priority_older_than(e, p, id, current).stop
              = (e.stop \/ current = p)
<1> DEFINE f == StopIf(e, current = p)
           I == {i \in DOMAIN e.queues[p] : e.queues[p][i].id >= id}
<1>1. /\ f \in Effects(S, X)
      /\ f.queues = e.queues
      /\ f.stop = (e.stop \/ current = p)
  BY DEF StopIf, Effects
<1>2. Cancel(f, p, I) = stop_priority_older_than(e, p, id, current)
  BY <1>1 DEF stop_priority_older_than
<1>3. I \in SUBSET (DOMAIN f.queues[p])
  BY <1>1
<1> HIDE DEF f, I
<1>4. /\ Yields(Cancel(f, p, I), f, S, X)
      /\ Cancel(f, p, I).queues = [f.queues EXCEPT ![p] = Kept(f.queues[p], I)]
      /\ Cancel(f, p, I).stop = f.stop
  BY <1>1, <1>3, CancelYields
<1>5. Yields(Cancel(f, p, I), e, S, X)
  BY <1>1, <1>4 DEF Yields, Prunes
<1> QED
  BY <1>1, <1>2, <1>4, <1>5

\* stop_from_uid(): all queues are pruned, the module is left alone.
LEMMA StopFromUidYields ==
  ASSUME NEW S, NEW X, MessageSet(S, X), NEW e \in Effects(S, X), NEW uid
  PROVE  /\ Yields(stop_from_uid(e, uid), e, S, X)
         /\ stop_from_uid(e, uid).stop = e.stop
<1> DEFINE others(p) == {i \in DOMAIN e.queues[p] : e.queues[p][i].uid # uid}
           f == stop_from_uid(e, uid)
           gone == UNION {{e.queues[p][i].id :
                             i \in DOMAIN e.queues[p] \ others(p)} :
                            p \in Priorities}
<1>1. e.queues \in [Priorities -> Seq(S)]
  BY DEF Effects
<1>2. ASSUME NEW p \in Priorities
      PROVE  /\ Kept(e.queues[p], others(p)) \in Seq(S)
             /\ Subsequence(Kept(e.queues[p], others(p)), e.queues[p])
             /\ \A i \in DOMAIN e.queues[p] : e.queues[p][i].id \in X
  <2>1. e.queues[p] \in Seq(S)
    BY <1>1
  <2>2. \A i \in DOMAIN e.queues[p] : e.queues[p][i] \in S
    BY <2>1, LenProperties, ElementOfSeq
  <2> QED
    BY <2>1, <2>2, KeptPrunes DEF MessageSet
<1>3. gone \in SUBSET X
  <2>1. SUFFICES ASSUME NEW p \in Priorities,
                        NEW i \in DOMAIN e.queues[p] \ others(p)
                 PROVE  e.queues[p][i].id \in X
    OBVIOUS
  <2> QED
    BY <1>2
<1>4. f = [e EXCEPT
             !.queues = [p \in Priorities |-> Kept(e.queues[p], others(p))],
             !.cancelled = @ \cup gone]
  BY DEF stop_from_uid
<1>5. /\ f \in Effects(S, X)
      /\ f.stop = e.stop
      /\ f.queues = [p \in Priorities |-> Kept(e.queues[p], others(p))]
  BY <1>2, <1>3, <1>4 DEF Effects
<1> QED
  BY <1>2, <1>5 DEF Yields, Prunes

\* stop_priority_except_first(): what stays is one message or one block.
LEMMA StopExceptFirstYields ==
  ASSUME NEW S, NEW X, MessageSet(S, X), NEW e \in Effects(S, X),
         NEW p \in Priorities, NEW current \in Priorities, NEW gid
  PROVE  /\ Yields(stop_priority_except_first(e, p, current, gid), e, S, X)
         /\ OneBlock(stop_priority_except_first(e, p, current, gid).queues[p])
         /\ current # p =>
              stop_priority_except_first(e, p, current, gid).stop = e.stop
<1> DEFINE q == e.queues[p]
           newest == q[Len(q)].gid
           block == {i \in DOMAIN q : q[i].gid = newest}
           r == stop_priority_except_first(e, p, current, gid)
<1>1. /\ q \in Seq(S)
      /\ e.queues \in [Priorities -> Seq(S)]
      /\ DOMAIN q = 1..Len(q)
      /\ Len(q) \in Nat
  <2>1. q \in Seq(S) /\ e.queues \in [Priorities -> Seq(S)]
    BY DEF Effects
  <2> QED
    BY <2>1, LenProperties
<1>2. CASE q = <<>>
  <2>1. r = e
    BY <1>2 DEF stop_priority_except_first
  <2> QED
    BY <1>2, <2>1, PrunesReflexive DEF OneBlock
<1>3. CASE q # <<>> /\ newest <= 0
  <2> DEFINE f == StopIf(e, current = p)
             I == {Len(q)}
  <2>1. r = Cancel(f, p, I)
    BY <1>3 DEF stop_priority_except_first
  <2>2. /\ f \in Effects(S, X)
        /\ f.queues = e.queues
        /\ f.stop = (e.stop \/ current = p)
    BY DEF StopIf, Effects
  <2>3. I \in SUBSET (DOMAIN q)
    BY <1>1, <1>3, EmptySeq
  <2> HIDE DEF f, I
  <2>4. /\ Yields(r, f, S, X)
        /\ r.queues = [e.queues EXCEPT ![p] = Kept(q, I)]
        /\ r.stop = f.stop
    BY <2>1, <2>2, <2>3, CancelYields
  <2>5. Yields(r, e, S, X)
    BY <2>2, <2>4 DEF Yields, Prunes
  <2>6. r.queues[p] = Kept(q, I)
    BY <1>1, <2>4
  <2>7. Kept(q, I) \in Seq(S) /\ Len(Kept(q, I)) = 1
    <3>1. Cardinality(I) = 1
      BY FS_Singleton DEF I
    <3> HIDE DEF q
    <3>2. Kept(q, I) \in Seq(S) /\ Len(Kept(q, I)) = Cardinality(I)
      BY <1>1, <2>3, KeptElements
    <3> QED
      BY <3>1, <3>2
  <2>8. OneBlock(Kept(q, I))
    BY <2>7, LenProperties DEF OneBlock
  <2>9. e.stop \in BOOLEAN
    BY DEF Effects
  <2> QED
    BY <2>2, <2>4, <2>5, <2>6, <2>8, <2>9
<1>4. CASE q # <<>> /\ ~(newest <= 0)
  <2> DEFINE f == StopIf(e, current = p /\ gid # newest)
  <2>1. r = [f EXCEPT !.queues[p] = Kept(q, block)]
    BY <1>4 DEF stop_priority_except_first
  <2>2. /\ f \in Effects(S, X)
        /\ f.queues = e.queues
        /\ f.stop = (e.stop \/ (current = p /\ gid # newest))
    BY DEF StopIf, Effects
  <2>3. Kept(q, block) \in Seq(S) /\ Subsequence(Kept(q, block), q)
    BY <1>1, KeptPrunes
  <2> HIDE DEF f
  <2>4. /\ r \in Effects(S, X)
        /\ r.queues = [e.queues EXCEPT ![p] = Kept(q, block)]
        /\ r.stop = f.stop
    <3> DEFINE t == Kept(q, block)
    <3>1. /\ r = [f EXCEPT !.queues[p] = t]
          /\ t \in Seq(S)
          /\ f.queues \in [Priorities -> Seq(S)]
      BY <1>1, <2>1, <2>2, <2>3
    <3> HIDE DEF q, block, r, t
    <3>2. /\ r.queues = [f.queues EXCEPT ![p] = t]
          /\ r.queues \in [Priorities -> Seq(S)]
          /\ r.stop = f.stop
          /\ r = [queues |-> r.queues, cancelled |-> f.cancelled, stop |-> f.stop]
      BY <2>2, <3>1 DEF Effects
    <3>3. r \in Effects(S, X)
      <4>1. f.cancelled \in SUBSET X /\ f.stop \in BOOLEAN
        BY <2>2 DEF Effects
      <4>2. \A qs \in [Priorities -> Seq(S)], cs \in SUBSET X, st \in BOOLEAN :
              [queues |-> qs, cancelled |-> cs, stop |-> st] \in Effects(S, X)
        BY DEF Effects
      <4>3. [queues |-> r.queues, cancelled |-> f.cancelled, stop |-> f.stop]
              \in Effects(S, X)
        BY <3>2, <4>1, <4>2
      <4> QED
        BY <3>2, <4>3, Zenon
    <3> QED
      BY <2>2, <3>2, <3>3 DEF t
  <2>5. Yields(r, e, S, X)
    BY <2>3, <2>4, OneQueuePruned
  <2>6. r.queues[p] = Kept(q, block)
    BY <1>1, <2>4
  <2>7. q[Len(q)] \in S
    BY <1>1, <1>4, EmptySeq, ElementOfSeq
  <2>8. newest > 0
    BY <1>4, <2>7 DEF MessageSet
  <2>9. \A k \in DOMAIN Kept(q, block) : Kept(q, block)[k].gid = newest
    <3>1. block \in SUBSET (DOMAIN q) /\ \A i \in block : q[i].gid = newest
      OBVIOUS
    <3> HIDE DEF q, newest, block
    <3>2. \A k \in 1..Len(Kept(q, block)) :
            Place(block, k) \in block /\ Kept(q, block)[k] = q[Place(block, k)]
      BY <1>1, <3>1, KeptElements
    <3>3. DOMAIN Kept(q, block) = 1..Len(Kept(q, block))
      BY <2>3, LenProperties
    <3> QED
      BY <3>1, <3>2, <3>3
  <2>10. OneBlock(Kept(q, block))
    BY <2>8, <2>9 DEF OneBlock
  <2>11. e.stop \in BOOLEAN
    BY DEF Effects
  <2> QED
    BY <2>2, <2>4, <2>5, <2>6, <2>10, <2>11
<1> QED
  BY <1>2, <1>3, <1>4

\* The end of a queue is cut off without a report.
LEMMA TrailingYields ==
  ASSUME NEW S, NEW X, NEW e \in Effects(S, X), NEW p \in Priorities, NEW I,
         NEW f, f = StopIf(e, TRUE),
         NEW r, \/ r = f
                \/ r = [f EXCEPT !.queues[p] = WithoutTrailing(e.queues[p], I)]
  PROVE  Yields(r, e, S, X)
<1> DEFINE q == e.queues[p]
           J == {i \in DOMAIN q : \E j \in i..Len(q) : j \notin I}
<1>1. /\ q \in Seq(S)
      /\ e.queues \in [Priorities -> Seq(S)]
  BY DEF Effects
<1>2. f \in Effects(S, X) /\ f.queues = e.queues
  BY DEF StopIf, Effects
<1>3. WithoutTrailing(q, I) = Kept(q, J)
  BY DEF WithoutTrailing
<1>4. J \in SUBSET (DOMAIN q)
  OBVIOUS
<1>5. Kept(q, J) \in Seq(S) /\ Subsequence(Kept(q, J), q)
  <2> HIDE DEF q, J
  <2> QED
    BY <1>1, <1>4, KeptPrunes
<1>6. r = f \/ r = [f EXCEPT !.queues[p] = Kept(q, J)]
  BY <1>3
<1> HIDE DEF J
<1>7. CASE r = f
  BY <1>2, <1>7, PrunesReflexive DEF Yields, Prunes
<1>8. CASE r = [f EXCEPT !.queues[p] = Kept(q, J)]
  <2>1. /\ r \in Effects(S, X)
        /\ r.queues = [e.queues EXCEPT ![p] = Kept(q, J)]
    BY <1>1, <1>2, <1>5, <1>8 DEF Effects
  <2> QED
    BY <1>5, <2>1, OneQueuePruned
<1> QED
  BY <1>6, <1>7, <1>8

\* STOP of one client prunes the queue of the message that is spoken.
LEMMA SpeakingStopYields ==
  ASSUME NEW S, NEW X, NEW e \in Effects(S, X), NEW p \in Priorities, NEW uid
  PROVE  Yields(speaking_stop(e, p, uid), e, S, X)
<1> DEFINE q == e.queues[p]
           block == {i \in DOMAIN q : q[i].gid = q[Len(q)].gid /\ q[i].uid = uid}
           f == StopIf(e, TRUE)
           r == speaking_stop(e, p, uid)
<1>1. r = f \/ r = [f EXCEPT !.queues[p] = WithoutTrailing(e.queues[p], block)]
  BY DEF speaking_stop
<1>2. f = StopIf(e, TRUE)
  OBVIOUS
<1> HIDE DEF block, f, r
<1>3. Yields(r, e, S, X)
  BY <1>1, <1>2, TrailingYields
<1> QED
  BY <1>3 DEF r

\* So does STOP all.
LEMMA SpeakingStopAllYields ==
  ASSUME NEW S, NEW X, NEW e \in Effects(S, X), NEW p \in Priorities
  PROVE  Yields(speaking_stop_all(e, p), e, S, X)
<1> DEFINE q == e.queues[p]
           block == {i \in DOMAIN q : q[i].gid = 1}
           f == StopIf(e, TRUE)
           r == speaking_stop_all(e, p)
<1>1. r = f \/ r = [f EXCEPT !.queues[p] = WithoutTrailing(e.queues[p], block)]
  BY DEF speaking_stop_all
<1>2. f = StopIf(e, TRUE)
  OBVIOUS
<1> HIDE DEF block, f, r
<1>3. Yields(r, e, S, X)
  BY <1>1, <1>2, TrailingYields
<1> QED
  BY <1>3 DEF r

\* One rule after the other: f comes from e, g from f by stop_priority().
LEMMA StopNextYields ==
  ASSUME NEW S, NEW X, MessageSet(S, X), NEW e, NEW f, NEW current \in Priorities,
         Yields(f, e, S, X), NEW p \in Priorities
  PROVE  /\ Yields(stop_priority(f, p, current), e, S, X)
         /\ current # p => stop_priority(f, p, current).stop = f.stop
<1>1. f \in Effects(S, X) /\ f.stop \in BOOLEAN
  BY DEF Yields, Effects
<1>2. /\ Yields(stop_priority(f, p, current), f, S, X)
      /\ stop_priority(f, p, current).stop = (f.stop \/ current = p)
  BY <1>1, StopPriorityYields
<1>3. Yields(stop_priority(f, p, current), e, S, X)
  BY <1>2, PrunesTransitive
<1> QED
  BY <1>1, <1>2, <1>3

\* The same for the two queues of least priority.
LEMMA LowYields ==
  ASSUME NEW S, NEW X, MessageSet(S, X), NEW e, NEW f, NEW current \in Priorities,
         Yields(f, e, S, X),
         NEW r, r = stop_priority(stop_priority(f, NOTIFICATION, current),
                                  PROGRESS, current)
  PROVE  /\ Yields(r, e, S, X)
         /\ current = IMPORTANT => r.stop = f.stop
<1> DEFINE g == stop_priority(f, NOTIFICATION, current)
<1>1. /\ NOTIFICATION \in Priorities /\ PROGRESS \in Priorities
      /\ IMPORTANT # NOTIFICATION /\ IMPORTANT # PROGRESS
  BY DEF Priorities, IMPORTANT, NOTIFICATION, PROGRESS
<1>2. /\ Yields(g, e, S, X)
      /\ current # NOTIFICATION => g.stop = f.stop
  BY <1>1, StopNextYields
<1> HIDE DEF g
<1>3. /\ Yields(stop_priority(g, PROGRESS, current), e, S, X)
      /\ current # PROGRESS => stop_priority(g, PROGRESS, current).stop = g.stop
  BY <1>1, <1>2, StopNextYields
<1>4. r = stop_priority(g, PROGRESS, current)
  BY DEF g
<1> QED
  BY <1>1, <1>2, <1>3, <1>4

\* What the arrival of a message does: the queues are pruned, the queues of
\* texts and of notifications end up with one message or block when one of
\* theirs arrived, and a message of priority important is not stopped.
THEOREM ResolvePrioritiesYields ==
  ASSUME NEW S, NEW X, MessageSet(S, X), NEW e \in Effects(S, X),
         NEW p \in Priorities, NEW speaking \in BOOLEAN,
         NEW current \in Priorities, NEW gid,
         NEW r, r = resolve_priorities(e, p, speaking, current, gid)
  PROVE  /\ Yields(r, e, S, X)
         /\ p \in {TEXT, NOTIFICATION} => OneBlock(r.queues[p])
         /\ speaking /\ current = IMPORTANT => r.stop = e.stop
<1> USE DEF Priorities, IMPORTANT, MESSAGE, TEXT, NOTIFICATION, PROGRESS
<1> DEFINE first == stop_priority_except_first(e, p, current, gid)
           Low(f) == stop_priority(stop_priority(f, NOTIFICATION, current),
                                   PROGRESS, current)
<1>1. /\ Yields(first, e, S, X)
      /\ OneBlock(first.queues[p])
      /\ current # p => first.stop = e.stop
  BY StopExceptFirstYields
<1>2. /\ first \in Effects(S, X)
      /\ Yields(first, first, S, X)
      /\ Yields(e, e, S, X)
      /\ MessageSet(S, X)
  BY <1>1, PrunesReflexive DEF Yields
<1>3. ASSUME NEW f, Yields(f, first, S, X)
      PROVE  Yields(f, e, S, X) /\ OneBlock(f.queues[p])
  <2>1. Yields(f, e, S, X)
    BY <1>1, <1>3, PrunesTransitive
  <2>2. /\ first.queues[p] \in Seq(S) /\ f.queues[p] \in Seq(S)
        /\ Subsequence(f.queues[p], first.queues[p])
    BY <1>1, <1>3 DEF Yields, Prunes, Effects
  <2>3. OneBlock(f.queues[p])
    BY <1>1, <2>2, SubsequenceOneBlock
  <2> QED
    BY <2>1, <2>3
<1>4. CASE p = IMPORTANT
  <2> DEFINE f == StopIf(e, speaking /\ current # IMPORTANT)
  <2>1. /\ Yields(f, e, S, X)
        /\ speaking /\ current = IMPORTANT => f.stop = e.stop
    <3>1. /\ f \in Effects(S, X)
          /\ f.queues = e.queues
          /\ f.stop = (e.stop \/ (speaking /\ current # IMPORTANT))
      BY DEF StopIf, Effects
    <3>2. e.stop \in BOOLEAN
      BY DEF Effects
    <3> QED
      BY <1>2, <3>1, <3>2 DEF Yields, Prunes
  <2>2. r = Low(f)
    BY <1>4 DEF resolve_priorities
  <2> HIDE DEF f
  <2>3. /\ Yields(r, e, S, X)
        /\ current = IMPORTANT => r.stop = f.stop
    BY <1>2, <2>1, <2>2, LowYields
  <2> QED
    BY <1>4, <2>1, <2>3
<1>5. CASE p = MESSAGE
  <2> DEFINE f == StopIf(e, speaking /\ current \notin {IMPORTANT, MESSAGE})
             g == stop_priority(f, TEXT, current)
  <2>1. /\ Yields(f, e, S, X)
        /\ speaking /\ current = IMPORTANT => f.stop = e.stop
    <3>1. /\ f \in Effects(S, X)
          /\ f.queues = e.queues
          /\ f.stop = (e.stop \/ (speaking /\ current \notin {IMPORTANT, MESSAGE}))
      BY DEF StopIf, Effects
    <3>2. e.stop \in BOOLEAN
      BY DEF Effects
    <3> QED
      BY <1>2, <3>1, <3>2 DEF Yields, Prunes
  <2>2. r = Low(g)
    BY <1>5 DEF resolve_priorities
  <2> HIDE DEF f
  <2>3. /\ Yields(g, e, S, X)
        /\ current # TEXT => g.stop = f.stop
    BY <1>2, <2>1, StopNextYields
  <2> HIDE DEF g
  <2>4. /\ Yields(r, e, S, X)
        /\ current = IMPORTANT => r.stop = g.stop
    BY <1>2, <2>2, <2>3, LowYields
  <2> QED
    BY <1>5, <2>1, <2>3, <2>4
<1>6. CASE p = TEXT
  <2>1. r = Low(first)
    BY <1>6 DEF resolve_priorities
  <2> HIDE DEF first
  <2>2. /\ Yields(r, first, S, X)
        /\ current = IMPORTANT => r.stop = first.stop
    BY <1>2, <2>1, LowYields
  <2> QED
    BY <1>1, <1>3, <1>6, <2>2
<1>7. CASE p = NOTIFICATION
  <2>1. \/ r = first
        \/ speaking /\ r = stop_priority(first, NOTIFICATION, current)
    BY <1>7 DEF resolve_priorities
  <2> HIDE DEF first
  <2>2. /\ Yields(stop_priority(first, NOTIFICATION, current), first, S, X)
        /\ current # NOTIFICATION =>
             stop_priority(first, NOTIFICATION, current).stop = first.stop
    BY <1>2, StopNextYields
  <2>3. /\ Yields(r, first, S, X)
        /\ current = IMPORTANT => r.stop = first.stop
    BY <1>2, <2>1, <2>2
  <2> QED
    BY <1>1, <1>3, <1>7, <2>3
<1>8. CASE p = PROGRESS
  <2> DEFINE f == stop_priority(e, NOTIFICATION, current)
             I == {Len(f.queues[p])}
  <2>1. /\ Yields(f, e, S, X)
        /\ current # NOTIFICATION => f.stop = e.stop
    BY <1>2, StopNextYields
  <2>2. r = f \/ (f.queues[p] # <<>> /\ r = Cancel(f, p, I))
    BY <1>8 DEF resolve_priorities
  <2> HIDE DEF f
  <2>3. f \in Effects(S, X) /\ f.queues[p] \in Seq(S)
    BY <2>1 DEF Yields, Effects
  <2>4. ASSUME f.queues[p] # <<>>
        PROVE  I \in SUBSET (DOMAIN f.queues[p])
    BY <2>3, <2>4, EmptySeq, LenProperties
  <2> HIDE DEF I
  <2>5. ASSUME f.queues[p] # <<>>
        PROVE  /\ Yields(Cancel(f, p, I), f, S, X)
               /\ Cancel(f, p, I).queues =
                    [f.queues EXCEPT ![p] = Kept(f.queues[p], I)]
               /\ Cancel(f, p, I).stop = f.stop
    BY <1>2, <2>3, <2>4, <2>5, CancelYields
  <2>6. ASSUME f.queues[p] # <<>>
        PROVE  Yields(Cancel(f, p, I), e, S, X)
    BY <2>1, <2>5, <2>6, PrunesTransitive
  <2> QED
    BY <1>8, <2>1, <2>2, <2>5, <2>6
<1> QED
  BY <1>4, <1>5, <1>6, <1>7, <1>8

-----------------------------------------------------------------------------
(***************************************************************************)
(* Lists of messages.                                                      *)
(***************************************************************************)

\* The messages of Speaking have the ids and groups the rules expect.
LEMMA MessagesHaveIds == MessageSet(Messages, MessageIds)
<1> QED
  BY BoundsAssumption DEF MessageSet, Messages, MessageIds, Groups

\* A list without one of its elements is a list that was pruned.
LEMMA WithoutPrunes ==
  ASSUME NEW S, NEW s \in Seq(S), NEW i \in DOMAIN s
  PROVE  Without(s, i) \in Seq(S) /\ Subsequence(Without(s, i), s)
<1> DEFINE n == Len(s)
           a == SubSeq(s, 1, i - 1)
           b == SubSeq(s, i + 1, n)
           t == a \o b
           f == [k \in DOMAIN t |-> IF k < i THEN k ELSE k + 1]
<1>1. n \in Nat /\ DOMAIN s = 1..n /\ i \in 1..n
  BY LenProperties
<1>2. \A k \in 1..n : s[k] \in S
  BY ElementOfSeq
<1>3. /\ a \in Seq(S)
      /\ Len(a) = i - 1
      /\ \A k \in 1..(i - 1) : a[k] = s[k]
  <2>1. 1 \in Int /\ i - 1 \in Int /\ \A k \in 1..(i - 1) : s[k] \in S
    BY <1>1, <1>2
  <2>2. /\ a \in Seq(S)
        /\ Len(a) = IF 1 <= i - 1 THEN i - 1 - 1 + 1 ELSE 0
        /\ \A k \in 1..(i - 1 - 1 + 1) : a[k] = s[1 + k - 1]
    BY <2>1, SubSeqProperties
  <2> HIDE DEF a
  <2> QED
    BY <1>1, <2>2
<1>4. /\ b \in Seq(S)
      /\ Len(b) = n - i
      /\ \A k \in 1..(n - i) : b[k] = s[i + k]
  <2>1. i + 1 \in Int /\ n \in Int /\ \A k \in (i + 1)..n : s[k] \in S
    BY <1>1, <1>2
  <2>2. /\ b \in Seq(S)
        /\ Len(b) = IF i + 1 <= n THEN n - (i + 1) + 1 ELSE 0
        /\ \A k \in 1..(n - (i + 1) + 1) : b[k] = s[i + 1 + k - 1]
    BY <2>1, SubSeqProperties
  <2>3. /\ n - (i + 1) + 1 = n - i
        /\ \A k \in 1..(n - i) : i + 1 + k - 1 = i + k
        /\ i + 1 <= n \/ n - i = 0
    BY <1>1
  <2> HIDE DEF b, n
  <2> QED
    BY <2>2, <2>3
<1> HIDE DEF a, b
<1>5. /\ t \in Seq(S)
      /\ Len(t) = Len(a) + Len(b)
      /\ \A k \in 1..(Len(a) + Len(b)) :
           t[k] = IF k <= Len(a) THEN a[k] ELSE b[k - Len(a)]
      /\ DOMAIN t = 1..Len(t)
  <2>1. t \in Seq(S) /\ DOMAIN t = 1..Len(t)
    BY <1>3, <1>4, ConcatProperties, LenProperties
  <2> QED
    BY <1>3, <1>4, <2>1, ConcatProperties
<1> HIDE DEF t, n
<1>6. DOMAIN t = 1..(n - 1)
  BY <1>1, <1>3, <1>4, <1>5
<1>7. f \in [DOMAIN t -> DOMAIN s]
  BY <1>1, <1>6
<1>8. \A k, l \in DOMAIN t : k < l => f[k] < f[l]
  BY <1>1, <1>6
<1>9. \A k \in DOMAIN t : t[k] = s[f[k]]
  <2> SUFFICES ASSUME NEW k \in DOMAIN t
               PROVE  t[k] = s[f[k]]
    OBVIOUS
  <2>1. CASE k < i
    BY <1>1, <1>3, <1>4, <1>5, <1>6, <2>1
  <2>2. CASE ~(k < i)
    <3>1. k - (i - 1) \in 1..(n - i) /\ i + (k - (i - 1)) = k + 1
      BY <1>1, <1>6, <2>2
    <3>2. t[k] = b[k - (i - 1)]
      BY <1>1, <1>3, <1>4, <1>5, <1>6, <2>2, SMTT(30)
    <3>3. b[k - (i - 1)] = s[k + 1]
      BY <1>4, <3>1
    <3> QED
      BY <1>1, <1>6, <2>2, <3>2, <3>3
  <2> QED
    BY <2>1, <2>2
<1>10. Subsequence(t, s)
  BY <1>7, <1>8, <1>9, Zenon DEF Subsequence
<1>11. t = Without(s, i)
  BY DEF Without, t, a, b, n
<1> QED
  BY <1>5, <1>10, <1>11

\* InsertById() adds one message and keeps the others.
LEMMA InsertByIdAdds ==
  ASSUME NEW S, NEW s \in Seq(S), NEW m \in S
  PROVE  /\ InsertById(s, m) \in Seq(S)
         /\ \A k \in DOMAIN InsertById(s, m) :
              InsertById(s, m)[k] = m \/ \E i \in DOMAIN s : InsertById(s, m)[k] = s[i]
<1> DEFINE before == {i \in DOMAIN s : \A j \in 1..i : s[j].id < m.id}
           n == Cardinality(before)
           a == SubSeq(s, 1, n)
           b == SubSeq(s, n + 1, Len(s))
           R == {s[i] : i \in DOMAIN s}
           t == a \o <<m>> \o b
<1>1. Len(s) \in Nat /\ DOMAIN s = 1..Len(s)
  BY LenProperties
<1>2. n \in Nat /\ n <= Len(s)
  <2>1. IsFiniteSet(1..Len(s)) /\ Cardinality(1..Len(s)) = Len(s)
    <3>1. /\ IsFiniteSet(1..Len(s))
          /\ Cardinality(1..Len(s)) = IF 1 > Len(s) THEN 0 ELSE Len(s) - 1 + 1
      BY <1>1, FS_Interval, SMTT(30)
    <3> QED
      BY <1>1, <3>1
  <2>2. before \in SUBSET (1..Len(s))
    BY <1>1
  <2> HIDE DEF before
  <2>3. IsFiniteSet(before) /\ Cardinality(before) <= Len(s)
    BY <2>1, <2>2, FS_Subset
  <2> QED
    BY <2>3, FS_CardinalityType
<1> HIDE DEF n
<1>3. R \subseteq S /\ \A k \in 1..Len(s) : s[k] \in R
  BY <1>1, ElementOfSeq
<1>4. a \in Seq(R) /\ b \in Seq(R)
  <2>1. 1 \in Int /\ n \in Int /\ n + 1 \in Int /\ Len(s) \in Int
    BY <1>1, <1>2
  <2>2. /\ \A k \in 1..n : s[k] \in R
        /\ \A k \in (n + 1)..Len(s) : s[k] \in R
    BY <1>1, <1>2, <1>3
  <2> HIDE DEF R
  <2> QED
    BY <2>1, <2>2, SubSeqProperties
<1> HIDE DEF R, a, b
<1>5. a \in Seq(R \cup {m}) /\ b \in Seq(R \cup {m}) /\ <<m>> \in Seq(R \cup {m})
  BY <1>4
<1>6. t \in Seq(R \cup {m})
  <2>1. a \o <<m>> \in Seq(R \cup {m})
    BY <1>5, ConcatProperties
  <2> QED
    BY <1>5, <2>1, ConcatProperties
<1>7. t = InsertById(s, m)
  BY DEF InsertById, t, a, b, n
<1> HIDE DEF t
<1>8. t \in Seq(S)
  BY <1>3, <1>6
<1>9. \A k \in DOMAIN t : t[k] \in R \cup {m}
  BY <1>6, LenProperties, ElementOfSeq
<1> QED
  BY <1>7, <1>8, <1>9 DEF R

-----------------------------------------------------------------------------
(***************************************************************************)
(* What the helpers of the actions do.                                     *)
(***************************************************************************)
ServerEffects == Effects(Messages, MessageIds)

\* The queues as they are, with nothing done yet.
LEMMA EffectOfQueues ==
  ASSUME TypeOK
  PROVE  /\ Effect(queues) \in ServerEffects
         /\ Yields(Effect(queues), Effect(queues), Messages, MessageIds)
         /\ Effect(queues).queues = queues
         /\ Effect(queues).stop = FALSE
<1>1. queues \in [Priorities -> Seq(Messages)]
  BY DEF TypeOK
<1>2. Effect(queues) \in ServerEffects
  BY <1>1 DEF Effect, Effects, ServerEffects
<1>3. Yields(Effect(queues), Effect(queues), Messages, MessageIds)
  BY <1>2, PrunesReflexive DEF ServerEffects
<1> QED
  BY <1>2, <1>3 DEF Effect

\* Carrying out an effect: the module is only stopped if the effect says so,
\* and is only forgotten when it is dead.
LEMMA ApplyEffect ==
  ASSUME TypeOK, NEW e \in ServerEffects, Apply(e)
  PROVE  /\ queues' = e.queues
         /\ queues' \in [Priorities -> Seq(Messages)]
         /\ reported' \in [MessageIds -> Report]
         /\ orders' \in SUBSET {"stop", "pause"}
         /\ speaking_module' \in BOOLEAN
         /\ UNCHANGED moduleVars
         /\ ~e.stop => orders' = orders
         /\ speaking_module /\ module # "dead" => speaking_module'
<1>1. e.queues \in [Priorities -> Seq(Messages)]
  BY DEF ServerEffects, Effects
<1> QED
  BY <1>1 DEF Apply, OutputStop, TypeOK, Report

\* A message joins a queue: the queues are pruned, one text or block stays, a
\* message of priority important speaks on.
LEMMA EnqueueMessage ==
  ASSUME TypeOK, NEW m \in Messages, NEW p \in Priorities, Enqueue(m, p)
  PROVE  /\ queues' \in [Priorities -> Seq(Messages)]
         /\ \A x \in Priorities :
              Subsequence(queues'[x],
                          IF x = p THEN Append(queues[x], m) ELSE queues[x])
         /\ p \in {TEXT, NOTIFICATION} => OneBlock(queues'[p])
         /\ SPEAKING /\ current_priority = IMPORTANT => orders' = orders
         /\ reported' \in [MessageIds -> Report]
         /\ orders' \in SUBSET {"stop", "pause"}
         /\ speaking_module' \in BOOLEAN
         /\ UNCHANGED moduleVars
         /\ speaking_module /\ module # "dead" => speaking_module'
         /\ last_p5_block' \in Seq(Messages)
         /\ Ids(last_p5_block') \subseteq Ids(last_p5_block) \cup {m.id}
         /\ paused_while_speaking' \in SUBSET Keys
         /\ index_mark' \in SUBSET Keys
<1> DEFINE q == [queues EXCEPT ![p] = Append(@, m)]
           e == Effect(q)
           r == resolve_priorities(e, p, SPEAKING, current_priority, speaking_gid)
<1>1. Apply(r)
  BY DEF Enqueue
<1>2. /\ e \in ServerEffects
      /\ e.queues = q
      /\ e.stop = FALSE
      /\ \A x \in Priorities :
           q[x] = IF x = p THEN Append(queues[x], m) ELSE queues[x]
  <2>1. queues \in [Priorities -> Seq(Messages)]
    BY DEF TypeOK
  <2>2. Append(queues[p], m) \in Seq(Messages)
    BY <2>1, AppendProperties
  <2>3. /\ q \in [Priorities -> Seq(Messages)]
        /\ \A x \in Priorities :
             q[x] = IF x = p THEN Append(queues[x], m) ELSE queues[x]
    BY <2>1, <2>2
  <2> HIDE DEF q
  <2> QED
    BY <2>3 DEF Effect, Effects, ServerEffects
<1> HIDE DEF q, e
<1>3. /\ Yields(r, e, Messages, MessageIds)
      /\ p \in {TEXT, NOTIFICATION} => OneBlock(r.queues[p])
      /\ SPEAKING /\ current_priority = IMPORTANT => r.stop = e.stop
  <2>1. SPEAKING \in BOOLEAN /\ current_priority \in Priorities
    BY DEF TypeOK
  <2> QED
    BY <1>2, <2>1, MessagesHaveIds, ResolvePrioritiesYields DEF ServerEffects
<1> HIDE DEF r
<1>4. r \in ServerEffects /\ Prunes(r, e)
  BY <1>3 DEF Yields, ServerEffects
<1>5. /\ queues' = r.queues
      /\ queues' \in [Priorities -> Seq(Messages)]
      /\ reported' \in [MessageIds -> Report]
      /\ orders' \in SUBSET {"stop", "pause"}
      /\ speaking_module' \in BOOLEAN
      /\ UNCHANGED moduleVars
      /\ ~r.stop => orders' = orders
      /\ speaking_module /\ module # "dead" => speaking_module'
  BY <1>1, <1>4, ApplyEffect
<1>6. \A x \in Priorities :
        Subsequence(queues'[x],
                    IF x = p THEN Append(queues[x], m) ELSE queues[x])
  BY <1>2, <1>4, <1>5 DEF Prunes
<1>7. /\ last_p5_block' \in Seq(Messages)
      /\ Ids(last_p5_block') \subseteq Ids(last_p5_block) \cup {m.id}
  <2> DEFINE copy == [m EXCEPT !.copy = TRUE]
             kept == IF last_p5_block = <<>>
                        \/ last_p5_block[Len(last_p5_block)].gid # m.gid
                     THEN <<>> ELSE last_p5_block
  <2>1. copy \in Messages /\ copy.id = m.id
    BY DEF Messages
  <2>2. last_p5_block \in Seq(Messages)
    BY DEF TypeOK
  <2>3. kept \in Seq(Messages) /\ Ids(kept) \subseteq Ids(last_p5_block)
    BY <2>2 DEF Ids
  <2>4. CASE p = PROGRESS
    <3>1. last_p5_block' = Append(kept, copy)
      BY <2>4 DEF Enqueue
    <3> HIDE DEF kept, copy
    <3>2. /\ Append(kept, copy) \in Seq(Messages)
          /\ Len(Append(kept, copy)) = Len(kept) + 1
          /\ \A i \in 1..Len(kept) : Append(kept, copy)[i] = kept[i]
          /\ Append(kept, copy)[Len(kept) + 1] = copy
          /\ DOMAIN Append(kept, copy) = 1..Len(Append(kept, copy))
          /\ Len(kept) \in Nat /\ DOMAIN kept = 1..Len(kept)
      <4>1. Append(kept, copy) \in Seq(Messages)
        BY <2>1, <2>3, AppendProperties
      <4> QED
        BY <2>1, <2>3, <4>1, AppendProperties, LenProperties
    <3>3. ASSUME NEW i \in DOMAIN Append(kept, copy)
          PROVE  Append(kept, copy)[i].id \in Ids(kept) \cup {m.id}
      <4>1. CASE i \in 1..Len(kept)
        BY <3>2, <4>1 DEF Ids
      <4>2. CASE i = Len(kept) + 1
        BY <2>1, <3>2, <4>2
      <4> QED
        BY <3>2, <4>1, <4>2
    <3> QED
      BY <2>3, <3>1, <3>2, <3>3 DEF Ids
  <2>5. CASE p # PROGRESS
    BY <2>2, <2>5 DEF Enqueue
  <2> QED
    BY <2>4, <2>5
<1>8. paused_while_speaking' \in SUBSET Keys /\ index_mark' \in SUBSET Keys
  <2>1. Key([m EXCEPT !.copy = TRUE]) \in Keys
    BY DEF Messages, Key, Keys
  <2>2. paused_while_speaking \in SUBSET Keys /\ index_mark \in SUBSET Keys
    BY DEF TypeOK
  <2> QED
    BY <2>1, <2>2 DEF Enqueue, flagVars, Mark
<1>9. /\ p \in {TEXT, NOTIFICATION} => OneBlock(queues'[p])
      /\ SPEAKING /\ current_priority = IMPORTANT => orders' = orders
  BY <1>2, <1>3, <1>5
<1> QED
  BY <1>5, <1>6, <1>7, <1>8, <1>9

\* What STOP and CANCEL do to the queues comes down to one effect.
LEMMA StopEffect ==
  ASSUME TypeOK, NEW c,
         Stop(c) \/ CancelClient(c) \/ StopAll \/ CancelAllQueues
  PROVE  \E e \in ServerEffects : Prunes(e, Effect(queues)) /\ Apply(e)
<1> DEFINE e0 == Effect(queues)
           stopped == IF get_speaking_client_uid = c
                      THEN speaking_stop(e0, current_priority, c) ELSE e0
<1> USE DEF ServerEffects
<1>1. /\ e0 \in ServerEffects
      /\ Yields(e0, e0, Messages, MessageIds)
      /\ current_priority \in Priorities
      /\ MessageSet(Messages, MessageIds)
  BY EffectOfQueues, MessagesHaveIds DEF TypeOK
<1> HIDE DEF e0
<1>2. Yields(stopped, e0, Messages, MessageIds)
  <2>1. Yields(speaking_stop(e0, current_priority, c), e0, Messages, MessageIds)
    BY <1>1, SpeakingStopYields
  <2> QED
    BY <1>1, <2>1
<1>3. SUFFICES \E e : Yields(e, e0, Messages, MessageIds) /\ Apply(e)
  BY DEF Yields, e0
<1>4. CASE Stop(c)
  BY <1>2, <1>4 DEF Stop, e0
<1>5. CASE CancelClient(c)
  <2>1. Apply(stop_from_uid(stopped, c))
    BY <1>5 DEF CancelClient, e0
  <2> HIDE DEF stopped
  <2>2. stopped \in Effects(Messages, MessageIds)
    BY <1>2 DEF Yields
  <2>3. Yields(stop_from_uid(stopped, c), stopped, Messages, MessageIds)
    BY <1>1, <2>2, StopFromUidYields
  <2>4. Yields(stop_from_uid(stopped, c), e0, Messages, MessageIds)
    BY <1>2, <2>3, PrunesTransitive
  <2> QED
    BY <2>1, <2>4
<1>6. CASE StopAll
  <2>1. Apply(speaking_stop_all(e0, current_priority))
    BY <1>6 DEF StopAll, e0
  <2>2. Yields(speaking_stop_all(e0, current_priority), e0, Messages, MessageIds)
    BY <1>1, SpeakingStopAllYields
  <2> QED
    BY <2>1, <2>2
<1>7. CASE CancelAllQueues
  <2> DEFINE e1 == stop_priority(e0, IMPORTANT, current_priority)
             e2 == stop_priority(e1, MESSAGE, current_priority)
             e3 == stop_priority(e2, TEXT, current_priority)
             e4 == stop_priority(e3, NOTIFICATION, current_priority)
             e5 == stop_priority(e4, PROGRESS, current_priority)
  <2>1. Apply(e5)
    BY <1>7 DEF CancelAllQueues, e0
  <2>2. {IMPORTANT, MESSAGE, TEXT, NOTIFICATION, PROGRESS} \subseteq Priorities
    BY DEF Priorities, IMPORTANT, MESSAGE, TEXT, NOTIFICATION, PROGRESS
  <2>3. Yields(e1, e0, Messages, MessageIds)
    BY <1>1, <2>2, StopNextYields
  <2> HIDE DEF e1
  <2>4. Yields(e2, e0, Messages, MessageIds)
    BY <1>1, <2>2, <2>3, StopNextYields
  <2> HIDE DEF e2
  <2>5. Yields(e3, e0, Messages, MessageIds)
    BY <1>1, <2>2, <2>4, StopNextYields
  <2> HIDE DEF e3
  <2>6. Yields(e4, e0, Messages, MessageIds)
    BY <1>1, <2>2, <2>5, StopNextYields
  <2> HIDE DEF e4
  <2>7. Yields(e5, e0, Messages, MessageIds)
    BY <1>1, <2>2, <2>6, StopNextYields
  <2> QED
    BY <2>1, <2>7
<1> QED
  BY <1>4, <1>5, <1>6, <1>7

\* Moving a progress message adds it to the queue of priority message and
\* otherwise prunes.
LEMMA PromoteQueues ==
  ASSUME TypeOK, last_p5_block # <<>>, SpeakPromote
  PROVE  /\ queues' \in [Priorities -> Seq(Messages)]
         /\ \A x \in Priorities :
              Subsequence(queues'[x],
                          IF x = MESSAGE
                          THEN InsertById(queues[x], Head(last_p5_block))
                          ELSE queues[x])
         /\ Head(last_p5_block) \in Messages
         /\ last_p5_block' \in Seq(Messages)
         /\ reported' \in [MessageIds -> Report]
         /\ orders' \in SUBSET {"stop", "pause"}
         /\ speaking_module' \in BOOLEAN
         /\ UNCHANGED moduleVars
         /\ speaking_module /\ module # "dead" => speaking_module'
<1> DEFINE m == Head(last_p5_block)
           q == [queues EXCEPT ![MESSAGE] = InsertById(@, m)]
           e0 == Effect(q)
           e1 == stop_priority_older_than(e0, TEXT, m.id, MESSAGE)
           e2 == stop_priority(stop_priority(e1, NOTIFICATION, MESSAGE),
                               PROGRESS, MESSAGE)
<1>1. /\ m \in Messages
      /\ last_p5_block' \in Seq(Messages)
      /\ queues \in [Priorities -> Seq(Messages)]
  BY HeadTailProperties DEF TypeOK, SpeakPromote
<1>2. {MESSAGE, TEXT, NOTIFICATION, PROGRESS} \subseteq Priorities
  BY DEF Priorities, IMPORTANT, MESSAGE, TEXT, NOTIFICATION, PROGRESS
<1>3. \/ Apply(e2)
      \/ queues' = q /\ UNCHANGED <<reported, orderVars, moduleVars>>
  BY DEF SpeakPromote
<1> HIDE DEF m
<1>4. /\ q \in [Priorities -> Seq(Messages)]
      /\ \A x \in Priorities :
           q[x] = IF x = MESSAGE THEN InsertById(queues[x], m) ELSE queues[x]
  <2>1. InsertById(queues[MESSAGE], m) \in Seq(Messages)
    BY <1>1, <1>2, InsertByIdAdds
  <2> QED
    BY <1>1, <1>2, <2>1
<1> HIDE DEF q
<1>5. /\ e0 \in ServerEffects
      /\ e0.queues = q
      /\ Yields(e0, e0, Messages, MessageIds)
  <2>1. e0 \in ServerEffects /\ e0.queues = q
    BY <1>4 DEF Effect, Effects, ServerEffects
  <2> HIDE DEF e0
  <2> QED
    BY <2>1, PrunesReflexive DEF ServerEffects
<1> HIDE DEF e0
<1>6. Yields(e1, e0, Messages, MessageIds)
  BY <1>2, <1>5, MessagesHaveIds, StopOlderYields DEF ServerEffects
<1> HIDE DEF e1
<1>7. Yields(e2, e0, Messages, MessageIds)
  <2>1. e2 = stop_priority(stop_priority(e1, NOTIFICATION, MESSAGE),
                           PROGRESS, MESSAGE)
    OBVIOUS
  <2> HIDE DEF e2
  <2> QED
    BY <1>2, <1>6, <2>1, MessagesHaveIds, LowYields
<1> HIDE DEF e2
<1>8. CASE Apply(e2)
  <2>1. e2 \in ServerEffects /\ Prunes(e2, e0)
    BY <1>7 DEF Yields, ServerEffects
  <2>2. /\ queues' = e2.queues
        /\ queues' \in [Priorities -> Seq(Messages)]
        /\ reported' \in [MessageIds -> Report]
        /\ orders' \in SUBSET {"stop", "pause"}
        /\ speaking_module' \in BOOLEAN
        /\ UNCHANGED moduleVars
        /\ speaking_module /\ module # "dead" => speaking_module'
    BY <1>8, <2>1, ApplyEffect
  <2>3. \A x \in Priorities : Subsequence(queues'[x], q[x])
    BY <1>5, <2>1, <2>2 DEF Prunes
  <2> QED
    BY <1>1, <1>4, <2>2, <2>3 DEF m
<1>9. CASE queues' = q /\ UNCHANGED <<reported, orderVars, moduleVars>>
  <2>1. \A x \in Priorities : Subsequence(queues'[x], q[x])
    <3> SUFFICES ASSUME NEW x \in Priorities
                 PROVE  Subsequence(q[x], q[x])
      BY <1>9
    <3>1. q[x] \in Seq(Messages)
      BY <1>4
    <3> QED
      BY <3>1, SubsequenceReflexive
  <2>2. /\ reported' \in [MessageIds -> Report]
        /\ orders' \in SUBSET {"stop", "pause"}
        /\ speaking_module' = speaking_module
        /\ speaking_module \in BOOLEAN
        /\ UNCHANGED moduleVars
    BY <1>9 DEF TypeOK, Report, orderVars
  <2> QED
    BY <1>1, <1>4, <1>9, <2>1, <2>2 DEF m
<1> QED
  BY <1>3, <1>8, <1>9

\* The first of the positions of a list that are in I.
LEMMA FirstPosition ==
  ASSUME NEW S, NEW s \in Seq(S), NEW I \in SUBSET (DOMAIN s), I # {}
  PROVE  \E i \in I : \A j \in I : i <= j
<1>1. I \in SUBSET Int /\ IsFiniteSet(I)
  <2>1. DOMAIN s = 1..Len(s) /\ 1 \in Int /\ Len(s) \in Int
    BY LenProperties
  <2>2. IsFiniteSet(1..Len(s))
    BY <2>1, FS_Interval
  <2> QED
    BY <2>1, <2>2, FS_Subset
<1>2. 1 \in 1..Cardinality(I)
  <2>1. Cardinality(I) \in Nat /\ Cardinality(I) # 0
    BY <1>1, FS_CardinalityType, FS_EmptySet
  <2> QED
    BY <2>1
<1> DEFINE i == Place(I, 1)
<1>3. i \in I /\ Cardinality({j \in I : j < i}) = 0
  BY <1>1, <1>2, RankTaken DEF Rank
<1>4. {j \in I : j < i} = {}
  <2>1. {j \in I : j < i} \in SUBSET I
    OBVIOUS
  <2>2. IsFiniteSet({j \in I : j < i})
    BY <1>1, <2>1, FS_Subset
  <2> QED
    BY <1>3, <2>2, FS_EmptySet
<1> HIDE DEF i
<1>5. \A j \in I : i <= j
  BY <1>1, <1>3, <1>4
<1> QED
  BY <1>3, <1>5

\* The message to reload is one of those that were set aside.
LEMMA NextReloadIsSetAside ==
  ASSUME TypeOK, NextReload > 0
  PROVE  /\ NextReload \in DOMAIN MessagePausedList
         /\ MessagePausedList[NextReload] \in Messages
         /\ Without(MessagePausedList, NextReload) \in Seq(Messages)
         /\ Subsequence(Without(MessagePausedList, NextReload), MessagePausedList)
<1> DEFINE ready == {i \in DOMAIN MessagePausedList :
                       ~message_nto_speak(MessagePausedList[i])}
<1>1. MessagePausedList \in Seq(Messages)
  BY DEF TypeOK
<1>2. ready # {}
  BY DEF NextReload
<1>3. NextReload = CHOOSE i \in ready : \A j \in ready : i <= j
  BY <1>2 DEF NextReload
<1>4. ready \in SUBSET (DOMAIN MessagePausedList)
  OBVIOUS
<1> HIDE DEF ready
<1>5. \E i \in ready : \A j \in ready : i <= j
  BY <1>1, <1>2, <1>4, FirstPosition
<1>6. NextReload \in DOMAIN MessagePausedList
  BY <1>3, <1>4, <1>5, Zenon
<1>7. MessagePausedList[NextReload] \in Messages
  BY <1>1, <1>6, LenProperties, ElementOfSeq
<1> QED
  BY <1>1, <1>6, <1>7, WithoutPrunes

-----------------------------------------------------------------------------
(***************************************************************************)
(* The types of the variables.  While the speak thread moves the progress  *)
(* messages it holds the mutex, so that some are left.                     *)
(***************************************************************************)
Promoting == spc = "promote" => last_p5_block # <<>>

TypeInv == TypeOK /\ Promoting

\* Speak queues one new message.
LEMMA SpeakEnqueues ==
  ASSUME TypeInv, NEW c \in Clients, Speak(c)
  PROVE  \E m \in Messages, p \in Priorities :
           m.id = last_message_id + 1 /\ Enqueue(m, p)
<1> DEFINE m == [id |-> last_message_id + 1, uid |-> c,
                 gid |-> inside_block[c], copy |-> FALSE]
           p == priority[c]
<1>1. m \in Messages /\ p \in Priorities /\ m.id = last_message_id + 1
  BY BoundsAssumption DEF TypeInv, TypeOK, Speak, Messages, MessageIds
<1>2. Enqueue(m, p)
  BY DEF Speak
<1> HIDE DEF m, p
<1> QED
  BY <1>1, <1>2

\* A reload queues one of the messages that were set aside.
LEMMA SpeakReloadEnqueues ==
  ASSUME TypeInv, SpeakReload
  PROVE  /\ MessagePausedList' \in Seq(Messages)
         /\ Subsequence(MessagePausedList', MessagePausedList)
         /\ \E m \in Messages, p \in Priorities :
              m.id \in Ids(MessagePausedList) /\ Enqueue(m, p)
<1> DEFINE m0 == MessagePausedList[NextReload]
           m == [m0 EXCEPT !.gid = 0]
           p == priority[m0.uid]
<1>1. /\ m0 \in Messages
      /\ m0.id \in Ids(MessagePausedList)
      /\ MessagePausedList' \in Seq(Messages)
      /\ Subsequence(MessagePausedList', MessagePausedList)
  BY NextReloadIsSetAside DEF TypeInv, SpeakReload, Ids
<1>2. Enqueue(m, p)
  BY DEF SpeakReload
<1> HIDE DEF m0
<1>3. m \in Messages /\ p \in Priorities /\ m.id = m0.id
  <2>1. 0 \in Groups
    BY BoundsAssumption DEF Groups
  <2>2. m \in Messages /\ m.id = m0.id
    BY <1>1, <2>1 DEF Messages
  <2>3. m0.uid \in Clients
    BY <1>1 DEF Messages
  <2> QED
    BY <2>2, <2>3 DEF TypeInv, TypeOK
<1> HIDE DEF m, p
<1> QED
  BY <1>1, <1>2, <1>3

\* The types of Speak: a message joins the queue of its client's priority.
LEMMA SpeakTypes ==
  ASSUME TypeInv, NEW c \in Clients, Speak(c)
  PROVE  TypeInv'
<1>1. /\ queues' \in [Priorities -> Seq(Messages)]
      /\ reported' \in [MessageIds -> Report]
      /\ orders' \in SUBSET {"stop", "pause"}
      /\ speaking_module' \in BOOLEAN
      /\ UNCHANGED moduleVars
      /\ last_p5_block' \in Seq(Messages)
      /\ paused_while_speaking' \in SUBSET Keys
      /\ index_mark' \in SUBSET Keys
  BY SpeakEnqueues, EnqueueMessage DEF TypeInv
<1>2. last_message_id' \in 0..MaxMessages
  BY BoundsAssumption DEF TypeInv, TypeOK, Speak
<1>3. wakeups' \in Nat
  BY DEF TypeInv, TypeOK, Speak, speaking_semaphore_post
<1>4. Promoting'
  BY DEF Speak, Unlocked, Promoting
<1>5. UNCHANGED <<MessagePausedList, currentVars, speakerVars, spc, mpc,
                  requestVars, clientVars, max_gid>>
  BY DEF Speak
<1> QED
  BY <1>1, <1>2, <1>3, <1>4, <1>5, SMTT(30)
     DEF TypeInv, TypeOK, currentVars, speakerVars, requestVars, clientVars,
         moduleVars

\* The types of a reload: as Speak, for a message that was set aside.
LEMMA SpeakReloadTypes ==
  ASSUME TypeInv, SpeakReload
  PROVE  TypeInv'
<1>1. /\ queues' \in [Priorities -> Seq(Messages)]
      /\ reported' \in [MessageIds -> Report]
      /\ orders' \in SUBSET {"stop", "pause"}
      /\ speaking_module' \in BOOLEAN
      /\ UNCHANGED moduleVars
      /\ last_p5_block' \in Seq(Messages)
      /\ paused_while_speaking' \in SUBSET Keys
      /\ index_mark' \in SUBSET Keys
  BY SpeakReloadEnqueues, EnqueueMessage DEF TypeInv
<1>2. MessagePausedList' \in Seq(Messages)
  BY SpeakReloadEnqueues
<1>3. wakeups' \in Nat
  BY DEF TypeInv, TypeOK, SpeakReload, speaking_semaphore_post
<1>4. Promoting'
  BY DEF SpeakReload, Promoting
<1>5. UNCHANGED <<currentVars, speakerVars, spc, mpc, requestVars, clientVars,
                  counterVars>>
  BY DEF SpeakReload
<1> QED
  BY <1>1, <1>2, <1>3, <1>4, <1>5, SMTT(30)
     DEF TypeInv, TypeOK, currentVars, speakerVars, requestVars, clientVars,
         counterVars, moduleVars

\* The types of STOP and CANCEL.
LEMMA StopTypes ==
  ASSUME TypeInv, NEW c,
         Stop(c) \/ CancelClient(c) \/ StopAll \/ CancelAllQueues
  PROVE  TypeInv'
<1>1. PICK e \in ServerEffects : Apply(e)
  BY StopEffect DEF TypeInv
<1>2. /\ queues' \in [Priorities -> Seq(Messages)]
      /\ reported' \in [MessageIds -> Report]
      /\ orders' \in SUBSET {"stop", "pause"}
      /\ speaking_module' \in BOOLEAN
      /\ UNCHANGED moduleVars
  BY <1>1, ApplyEffect DEF TypeInv
<1>3. /\ speaking_uid' \in Clients \cup {NoClient}
      /\ mpc' \in {"serve", "cancel_all"}
      /\ UNCHANGED <<last_p5_block, MessagePausedList, flagVars, currentVars,
                     speaking_gid, spc, wakeups, requestVars, clientVars,
                     counterVars>>
  BY DEF TypeInv, TypeOK, Stop, CancelClient, StopAll, CancelAllQueues,
         get_speaking_client_uid, speakerVars
<1>4. Promoting'
  BY <1>3 DEF TypeInv, Promoting
<1> QED
  BY <1>2, <1>3, <1>4, SMTT(30)
     DEF TypeInv, TypeOK, currentVars, flagVars, requestVars, clientVars,
         counterVars, moduleVars

\* The types of a promotion.
LEMMA SpeakPromoteTypes ==
  ASSUME TypeInv, SpeakPromote
  PROVE  TypeInv'
<1>1. last_p5_block \in Seq(Messages) /\ last_p5_block # <<>>
  BY DEF TypeInv, TypeOK, Promoting, SpeakPromote, Postponed
<1>2. /\ queues' \in [Priorities -> Seq(Messages)]
      /\ last_p5_block' \in Seq(Messages)
      /\ reported' \in [MessageIds -> Report]
      /\ orders' \in SUBSET {"stop", "pause"}
      /\ speaking_module' \in BOOLEAN
      /\ UNCHANGED moduleVars
  BY <1>1, PromoteQueues DEF TypeInv
<1>3. /\ current_priority' \in Priorities
      /\ wakeups' \in Nat
      /\ spc' \in {"promote", "poll"}
      /\ UNCHANGED <<MessagePausedList, flagVars, current_message, SPEAKING,
                     poll_count, speakerVars, mpc, requestVars, clientVars,
                     counterVars>>
  <2>1. current_priority' \in Priorities
    BY SMTT(30) DEF TypeInv, TypeOK, SpeakPromote, Priorities, IMPORTANT, MESSAGE,
           PROGRESS
  <2>2. wakeups' \in Nat /\ spc' \in {"promote", "poll"}
    BY DEF TypeInv, TypeOK, SpeakPromote, speaking_semaphore_post
  <2> QED
    BY <2>1, <2>2 DEF SpeakPromote
<1>4. Promoting'
  <2>1. /\ last_p5_block' = Tail(last_p5_block)
        /\ Len(last_p5_block) > 1 \/ spc' = "poll"
    BY DEF SpeakPromote
  <2> DEFINE n == Len(last_p5_block)
             t == Tail(last_p5_block)
  <2>2. Len(t) = n - 1 /\ n \in Nat
    BY <1>1, HeadTailProperties, LenProperties
  <2> HIDE DEF n, t
  <2>3. n > 1 => t # <<>>
    <3>1. n > 1 => Len(t) # 0
      BY <2>2
    <3>2. t = <<>> => Len(t) = 0
      BY EmptySeq
    <3> QED
      BY <3>1, <3>2
  <2> QED
    BY <2>1, <2>3 DEF Promoting, n, t
<1>5. UNCHANGED <<MessagePausedList, paused_while_speaking, index_mark,
                  current_message, SPEAKING, poll_count, speaking_uid,
                  speaking_gid, mpc, pause_requested, pause_requested_uid,
                  resume_requested, connected, paused, priority, inside_block,
                  max_gid, last_message_id, module, events, crashes>>
  BY <1>2, <1>3 DEF flagVars, speakerVars, requestVars, clientVars,
                    counterVars, moduleVars
<1>6. spc' \in {"poll", "pause", "pause_done", "resume", "resume_done", "pick",
                "promote"}
  BY <1>3
<1>7. TypeOK'
  BY <1>2, <1>3, <1>5, <1>6, SMTT(30) DEF TypeInv, TypeOK
<1> QED
  BY <1>4, <1>7 DEF TypeInv

\* The types when a message leaves its queue for the module.
LEMMA TakeTypes ==
  ASSUME TypeInv, NEW p \in Priorities, NEW i \in DOMAIN queues[p], Take(p, i)
  PROVE  /\ queues' \in [Priorities -> Seq(Messages)]
         /\ queues[p][i] \in Messages
         /\ current_priority' \in Priorities
         /\ speaking_uid' \in Clients \cup {NoClient}
         /\ speaking_gid' \in Groups
         /\ spc' = "poll"
         /\ UNCHANGED <<MessagePausedList, flagVars, mpc, wakeups, requestVars,
                        clientVars, counterVars, reported, crashes>>
<1>1. queues \in [Priorities -> Seq(Messages)]
  BY DEF TypeInv, TypeOK
<1>2. queues[p] \in Seq(Messages)
  BY <1>1
<1>3. Without(queues[p], i) \in Seq(Messages) /\ queues[p][i] \in Messages
  BY <1>2, WithoutPrunes, LenProperties, ElementOfSeq
<1>4. queues' = [queues EXCEPT ![p] = Without(queues[p], i)]
  BY DEF Take
<1>5. queues' \in [Priorities -> Seq(Messages)]
  BY <1>1, <1>3, <1>4
<1> QED
  BY <1>3, <1>5 DEF Take, Messages

\* A message that the module takes.
LEMMA SpeakMessageTypes ==
  ASSUME TypeInv, NEW p \in Priorities, NEW i \in DOMAIN queues[p],
         SpeakMessage(p, i)
  PROVE  TypeInv'
<1>1. /\ queues' \in [Priorities -> Seq(Messages)]
      /\ queues[p][i] \in Messages
      /\ current_priority' \in Priorities
      /\ speaking_uid' \in Clients \cup {NoClient}
      /\ speaking_gid' \in Groups
      /\ spc' = "poll"
      /\ UNCHANGED <<MessagePausedList, flagVars, mpc, wakeups, requestVars,
                     clientVars, counterVars, reported, crashes>>
  BY TakeTypes DEF SpeakMessage
<1>2. /\ module' = "starting"
      /\ orders' = {}
      /\ current_message' \in Messages
      /\ SPEAKING' = TRUE /\ poll_count' = 2 /\ speaking_module' = TRUE
      /\ UNCHANGED events
  BY <1>1 DEF SpeakMessage, StartsSpeaking
<1>3. last_p5_block' \in Seq(Messages)
  BY DEF TypeInv, TypeOK, SpeakMessage
<1> QED
  BY <1>1, <1>2, <1>3
     DEF TypeInv, TypeOK, Promoting, flagVars, requestVars, clientVars,
         counterVars

\* A message that is dropped.
LEMMA SpeakFailsTypes ==
  ASSUME TypeInv, NEW p \in Priorities, NEW i \in DOMAIN queues[p],
         SpeakFails(p, i)
  PROVE  TypeInv'
<1>1. /\ queues' \in [Priorities -> Seq(Messages)]
      /\ current_priority' \in Priorities
      /\ speaking_uid' \in Clients \cup {NoClient}
      /\ speaking_gid' \in Groups
      /\ spc' = "poll"
      /\ UNCHANGED <<MessagePausedList, flagVars, mpc, wakeups, requestVars,
                     clientVars, counterVars, reported, crashes>>
  BY TakeTypes DEF SpeakFails
<1>2. /\ speaking_module' \in BOOLEAN
      /\ module' = "idle"
      /\ events' = <<>>
      /\ orders' = {}
      /\ UNCHANGED <<last_p5_block, current_message, SPEAKING, poll_count>>
  BY DEF SpeakFails
<1>3. <<>> \in Seq(Event)
  BY EmptySeq
<1> QED
  BY <1>1, <1>2, <1>3
     DEF TypeInv, TypeOK, Promoting, flagVars, requestVars, clientVars,
         counterVars

\* An event of the module that is read.
LEMMA SpeakEventTypes ==
  ASSUME TypeInv, SpeakEvent
  PROVE  TypeInv'
<1>1. /\ Key(current_message) \in Keys
      /\ current_message \in Messages
      /\ current_message.id \in MessageIds
  BY DEF TypeInv, TypeOK, SpeakEvent, Messages, Key, Keys
<1>2. events' \in Seq(Event)
  BY HeadTailProperties DEF TypeInv, TypeOK, SpeakEvent, EventReady
<1>3. /\ wakeups' \in Nat
      /\ SPEAKING' \in BOOLEAN
      /\ poll_count' \in {1, 2}
      /\ speaking_module' \in BOOLEAN
      /\ current_message' \in Messages \cup {NoMessage}
  <2>1. wakeups \in Nat /\ SPEAKING \in BOOLEAN /\ poll_count \in {1, 2}
        /\ speaking_module \in BOOLEAN
    BY DEF TypeInv, TypeOK
  <2>2. Head(events) \in Event
    BY HeadTailProperties DEF TypeInv, TypeOK, SpeakEvent, EventReady
  <2>3. CASE Head(events) = "begin"
    <3>1. /\ SPEAKING' = TRUE /\ TakeWakeup
          /\ UNCHANGED <<current_message, poll_count, speaking_module>>
      BY <2>3 DEF SpeakEvent
    <3> QED
      BY <1>1, <2>1, <3>1 DEF TakeWakeup
  <2>4. CASE Head(events) = "mark"
    <3>1. /\ TakeWakeup
          /\ UNCHANGED <<SPEAKING, current_message, poll_count, speaking_module>>
      BY <2>4 DEF SpeakEvent
    <3> QED
      BY <1>1, <2>1, <3>1 DEF TakeWakeup
  <2>5. CASE Head(events) \in Terminal
    <3>1. /\ \E ev \in Report : FellSilent(ev)
          /\ TakeWakeup \/ TakeAndPost
      BY <2>5 DEF SpeakEvent, Terminal, Report
    <3>2. /\ SPEAKING' = FALSE
          /\ poll_count' = 1
          /\ speaking_module' = FALSE
          /\ current_message' = NoMessage \/ current_message' = current_message
      BY <3>1 DEF FellSilent
    <3>3. wakeups' \in Nat
      BY <2>1, <3>1 DEF TakeWakeup, TakeAndPost
    <3> QED
      BY <1>1, <3>2, <3>3
  <2> QED
    BY <2>2, <2>3, <2>4, <2>5 DEF Event
<1>4. /\ reported' \in [MessageIds -> Report]
      /\ paused_while_speaking' \in SUBSET Keys
      /\ index_mark' \in SUBSET Keys
  <2>1. /\ reported \in [MessageIds -> Report]
        /\ paused_while_speaking \in SUBSET Keys
        /\ index_mark \in SUBSET Keys
    BY DEF TypeInv, TypeOK
  <2>2. Head(events) \in Event
    BY HeadTailProperties DEF TypeInv, TypeOK, SpeakEvent, EventReady
  <2>3. \A ev \in Report : ReportCurrent(ev) => reported' \in [MessageIds -> Report]
    BY <1>1, <2>1 DEF ReportCurrent
  <2>4. reported' \in [MessageIds -> Report]
    <3>1. \/ \E ev \in Report : ReportCurrent(ev)
          \/ reported' = reported
      BY <2>2 DEF SpeakEvent, FellSilent, Event, Terminal, Report
    <3> QED
      BY <2>1, <2>3, <3>1
  <2>5. /\ paused_while_speaking' \in SUBSET Keys
        /\ index_mark' \in SUBSET Keys
    BY <1>1, <2>1, <2>2 DEF SpeakEvent, FellSilent, Event, Terminal, flagVars
  <2> QED
    BY <2>4, <2>5
<1>5. /\ spc' = "pause"
      /\ UNCHANGED <<queueVars, current_priority, speakerVars, mpc, requestVars,
                     clientVars, counterVars, module, crashes, orders>>
  BY DEF SpeakEvent
<1> QED
  BY <1>2, <1>3, <1>4, <1>5
     DEF TypeInv, TypeOK, Promoting, queueVars, speakerVars, requestVars,
         clientVars, counterVars

\* The module is found dead while a message is spoken.
LEMMA SpeakHangupTypes ==
  ASSUME TypeInv, SpeakHangup
  PROVE  TypeInv'
<1>1. reported' \in [MessageIds -> Report]
  <2>1. reported \in [MessageIds -> Report] /\ "end" \in Report
    BY DEF TypeInv, TypeOK, Report
  <2> QED
    BY <2>1 DEF SpeakHangup, speaking_module_cleanup, ReportCurrent
<1>2. wakeups' \in Nat
  BY DEF TypeInv, TypeOK, SpeakHangup, TakeWakeup
<1>3. /\ current_message' = NoMessage
      /\ SPEAKING' = FALSE
      /\ poll_count' = 1
      /\ speaking_module' = FALSE
      /\ module' = "idle"
      /\ events' = <<>>
      /\ orders' = {}
      /\ spc' = "pause"
      /\ UNCHANGED <<queueVars, flagVars, current_priority, speakerVars, mpc,
                     requestVars, clientVars, counterVars, crashes>>
  BY DEF SpeakHangup, speaking_module_cleanup
<1>4. <<>> \in Seq(Event)
  BY EmptySeq
<1> QED
  BY <1>1, <1>2, <1>3, <1>4
     DEF TypeInv, TypeOK, Promoting, queueVars, flagVars, speakerVars,
         requestVars, clientVars, counterVars

\* A pause that is carried out.
LEMMA SpeakPauseTypes ==
  ASSUME TypeInv, SpeakPause
  PROVE  TypeInv'
<1>1. /\ MessagePausedList' \in Seq(Messages)
      /\ paused_while_speaking' \in SUBSET Keys
      /\ orders' \in SUBSET {"stop", "pause"}
  <2>1. /\ MessagePausedList \in Seq(Messages)
        /\ paused_while_speaking \in SUBSET Keys
        /\ orders \in SUBSET {"stop", "pause"}
        /\ current_message \in Messages \cup {NoMessage}
    BY DEF TypeInv, TypeOK
  <2>2. CASE SetAside /\ current_message # NoMessage
    <3>1. current_message \in Messages /\ Key(current_message) \in Keys
      BY <2>1, <2>2 DEF Messages, Key, Keys
    <3> QED
      BY <2>1, <2>2, <3>1, AppendProperties DEF SetAside
  <2>3. CASE UNCHANGED <<paused_while_speaking, MessagePausedList, orders>>
    BY <2>1, <2>3
  <2> QED
    BY <2>2, <2>3 DEF SpeakPause
<1>2. paused' \in [Clients -> BOOLEAN] /\ speaking_module' \in BOOLEAN
  BY DEF TypeInv, TypeOK, SpeakPause
<1>3. /\ spc' = "pause_done"
      /\ UNCHANGED <<queues, last_p5_block, index_mark, currentVars,
                     speakerVars, mpc, wakeups, requestVars, connected,
                     priority, inside_block, counterVars, reported, moduleVars>>
  BY DEF SpeakPause
<1> QED
  BY <1>1, <1>2, <1>3
     DEF TypeInv, TypeOK, Promoting, currentVars, speakerVars, requestVars,
         counterVars, moduleVars

\* The module reports an event.
LEMMA EmitTypes ==
  ASSUME TypeInv, NEW ev \in Event,
         NEW st \in {"idle", "starting", "talking", "dead"}, Emit(ev, st)
  PROVE  TypeInv'
<1>1. events' \in Seq(Event) /\ module' \in {"idle", "starting", "talking", "dead"}
  BY AppendProperties DEF TypeInv, TypeOK, Emit
<1>2. UNCHANGED <<queueVars, flagVars, currentVars, speakerVars, spc, mpc,
                  wakeups, requestVars, clientVars, counterVars, reported,
                  crashes, orderVars>>
  BY DEF Emit
<1> QED
  BY <1>1, <1>2
     DEF TypeInv, TypeOK, Promoting, queueVars, flagVars, currentVars,
         speakerVars, requestVars, clientVars, counterVars, orderVars

\* Every step keeps the types.
LEMMA TypesKept == TypeInv /\ [Next]_vars => TypeInv'
<1> SUFFICES ASSUME TypeInv, [Next]_vars
             PROVE  TypeInv'
  OBVIOUS
<1> USE DEF queueVars, flagVars, currentVars, speakerVars, requestVars,
            clientVars, counterVars, moduleVars, orderVars
<1>1. ASSUME NEW c \in Clients, SetPriority(c) PROVE TypeInv'
  BY <1>1, LevelsAssumption DEF TypeInv, TypeOK, Promoting, SetPriority
<1>2. ASSUME NEW c \in Clients, BlockBegin(c) PROVE TypeInv'
  BY <1>2, BoundsAssumption DEF TypeInv, TypeOK, Promoting, BlockBegin, Groups
<1>3. ASSUME NEW c \in Clients, BlockEnd(c) PROVE TypeInv'
  BY <1>3, BoundsAssumption DEF TypeInv, TypeOK, Promoting, BlockEnd, Groups
<1>4. ASSUME NEW c \in Clients, Pause(c) PROVE TypeInv'
  BY <1>4 DEF TypeInv, TypeOK, Promoting, Pause, speaking_semaphore_post
<1>5. ASSUME NEW c \in Clients, Resume(c) PROVE TypeInv'
  BY <1>5 DEF TypeInv, TypeOK, Promoting, Resume, speaking_semaphore_post
<1>6. ASSUME NEW c \in Clients, Disconnect(c) PROVE TypeInv'
  BY <1>6 DEF TypeInv, TypeOK, Promoting, Disconnect
<1>7. ASSUME NEW c \in Clients, Speak(c) PROVE TypeInv'
  BY <1>7, SpeakTypes
<1>8. ASSUME NEW c \in Clients, Stop(c) \/ CancelClient(c) PROVE TypeInv'
  BY <1>8, StopTypes
<1>8a. CASE StopAll \/ CancelAllQueues
  BY <1>8a, StopTypes
<1>9. CASE CancelAllStop
  BY <1>9 DEF TypeInv, TypeOK, Promoting, CancelAllStop, OutputStop
<1>10. CASE PauseAll
  BY <1>10 DEF TypeInv, TypeOK, Promoting, PauseAll, speaking_semaphore_post
<1>11. CASE ResumeAll
  <2>1. connected \in SUBSET Clients /\ IsFiniteSet(Clients)
    BY ClientsAssumption DEF TypeInv, TypeOK
  <2>2. Cardinality(connected) \in Nat
    BY <2>1, FS_Subset, FS_CardinalityType
  <2> QED
    BY <1>11, <2>2 DEF TypeInv, TypeOK, Promoting, ResumeAll
<1>12. CASE SpeakWake
  BY <1>12 DEF TypeInv, TypeOK, Promoting, SpeakWake, TakeWakeup
<1>13. CASE SpeakPauseDone
  BY <1>13 DEF TypeInv, TypeOK, Promoting, SpeakPauseDone
<1>14. CASE SpeakCheck
  BY <1>14 DEF TypeInv, TypeOK, Promoting, SpeakCheck
<1>15. CASE SpeakReloadFails
  <2>1. MessagePausedList' \in Seq(Messages)
    BY <1>15, NextReloadIsSetAside DEF TypeInv, SpeakReloadFails
  <2> QED
    BY <1>15, <2>1 DEF TypeInv, TypeOK, Promoting, SpeakReloadFails
<1>16. CASE SpeakReloaded
  BY <1>16 DEF TypeInv, TypeOK, Promoting, SpeakReloaded
<1>17. CASE SpeakResumeDone
  BY <1>17, ZenonT(40) DEF TypeInv, TypeOK, Promoting, SpeakResumeDone
<1>18. CASE SpeakNothing
  BY <1>18 DEF TypeInv, TypeOK, Promoting, SpeakNothing
<1>19. CASE ModuleCrash
  BY <1>19, BoundsAssumption DEF TypeInv, TypeOK, Promoting, ModuleCrash
<1>20. CASE SpeakEvent
  BY <1>20, SpeakEventTypes
<1>21. CASE SpeakHangup
  BY <1>21, SpeakHangupTypes
<1>22. CASE SpeakPause
  BY <1>22, SpeakPauseTypes
<1>23. CASE SpeakReload
  BY <1>23, SpeakReloadTypes
<1>24. CASE SpeakPromote
  BY <1>24, SpeakPromoteTypes
<1>25. ASSUME NEW p \in Priorities, NEW i \in DOMAIN queues[p],
             SpeakMessage(p, i) \/ SpeakFails(p, i)
      PROVE  TypeInv'
  BY <1>25, SpeakMessageTypes, SpeakFailsTypes
<1>26. CASE ModuleFinishes \/ ModuleMark
  <2>1. \E ev \in Event, st \in {"idle", "starting", "talking", "dead"} : Emit(ev, st)
    BY <1>26 DEF ModuleFinishes, ModuleBegin, ModuleMark, ModuleEnd, ModuleStops,
               ModulePauses, Event, Terminal
  <2> QED
    BY <2>1, EmitTypes
<1>27. CASE UNCHANGED vars
  BY <1>27 DEF TypeInv, TypeOK, Promoting, vars
<1> QED
  BY <1>1, <1>2, <1>3, <1>4, <1>5, <1>6, <1>7, <1>8, <1>9, <1>10, <1>11,
     <1>12, <1>13, <1>14, <1>15, <1>16, <1>17, <1>18, <1>19, <1>20, <1>21,
     <1>22, <1>23, <1>24, <1>25, <1>26, <1>27, <1>8a
     DEF Next, MainThread, SpeakThread, OutputModule

\* The initial state has the right types.
LEMMA TypesInitially == Init => TypeInv
<1> SUFFICES ASSUME Init PROVE TypeInv
  OBVIOUS
<1>1. /\ <<>> \in Seq(Messages) /\ <<>> \in Seq(Event)
      /\ TEXT \in Priorities /\ 0 \in Groups /\ 0 \in 0..MaxMessages
      /\ 0 \in 0..MaxCrashes
  BY EmptySeq, BoundsAssumption
     DEF Groups, Priorities, IMPORTANT, TEXT, PROGRESS
<1>2. priority \in [Clients -> Priorities]
  BY LevelsAssumption DEF Init
<1> QED
  BY <1>1, <1>2 DEF Init, TypeInv, TypeOK, Promoting, Report

\* The variables of the server always have the types they are declared with:
\* no counter of bytes gets negative, no index leaves its list, no message of
\* another shape gets into a queue.
THEOREM TypeCorrect == Spec => []TypeOK
<1>1. Spec => []TypeInv
  BY TypesInitially, TypesKept, PTL DEF Spec
<1>2. TypeInv => TypeOK
  BY DEF TypeInv
<1> QED
  BY <1>1, <1>2, PTL

\* The types as a fact the other theorems use.
LEMMA TypeInvariant == Spec => []TypeInv
<1> QED
  BY TypesInitially, TypesKept, PTL DEF Spec

-----------------------------------------------------------------------------
(***************************************************************************)
(* One text at a time.                                                     *)
(***************************************************************************)

\* What is left of one block is one block.
LEMMA PrunedOneText ==
  ASSUME TypeOK, OneTextAtATime, queues' \in [Priorities -> Seq(Messages)],
         NEW x \in {TEXT, NOTIFICATION}, Subsequence(queues'[x], queues[x])
  PROVE  OneBlock(queues'[x])
<1>1. x \in Priorities /\ queues \in [Priorities -> Seq(Messages)]
  BY DEF TypeOK, Priorities, IMPORTANT, TEXT, NOTIFICATION, PROGRESS
<1>2. queues[x] \in Seq(Messages) /\ queues'[x] \in Seq(Messages)
  BY <1>1
<1>3. OneBlock(queues[x])
  BY DEF OneTextAtATime
<1> QED
  BY <1>2, <1>3, SubsequenceOneBlock

\* A message that arrives takes the place of the text or block before.
LEMMA EnqueueOneText ==
  ASSUME TypeOK, OneTextAtATime, NEW m \in Messages, NEW p \in Priorities,
         Enqueue(m, p)
  PROVE  OneTextAtATime'
<1>1. /\ queues' \in [Priorities -> Seq(Messages)]
      /\ \A x \in Priorities :
           Subsequence(queues'[x],
                       IF x = p THEN Append(queues[x], m) ELSE queues[x])
      /\ p \in {TEXT, NOTIFICATION} => OneBlock(queues'[p])
  BY EnqueueMessage
<1>2. ASSUME NEW x \in {TEXT, NOTIFICATION}
      PROVE  OneBlock(queues'[x])
  <2>1. x \in Priorities
    BY DEF Priorities, IMPORTANT, TEXT, NOTIFICATION, PROGRESS
  <2>2. CASE x = p
    BY <1>1, <2>2
  <2>3. CASE x # p
    <3>1. Subsequence(queues'[x], queues[x])
      BY <1>1, <2>1, <2>3
    <3> QED
      BY <1>1, <3>1, PrunedOneText
  <2> QED
    BY <2>2, <2>3
<1> QED
  BY <1>2 DEF OneTextAtATime

\* A step that only prunes.
LEMMA PrunesOneText ==
  ASSUME TypeOK, OneTextAtATime, queues' \in [Priorities -> Seq(Messages)],
         \A x \in {TEXT, NOTIFICATION} : Subsequence(queues'[x], queues[x])
  PROVE  OneTextAtATime'
<1> QED
  BY PrunedOneText DEF OneTextAtATime

\* A message that leaves its queue.
LEMMA TakePrunes ==
  ASSUME TypeInv, NEW p \in Priorities, NEW i \in DOMAIN queues[p], Take(p, i)
  PROVE  \A x \in Priorities : Subsequence(queues'[x], queues[x])
<1>1. queues \in [Priorities -> Seq(Messages)]
  BY DEF TypeInv, TypeOK
<1>2. queues' = [queues EXCEPT ![p] = Without(queues[p], i)]
  BY DEF Take
<1> SUFFICES ASSUME NEW x \in Priorities
             PROVE  Subsequence(queues'[x], queues[x])
  OBVIOUS
<1>3. queues[x] \in Seq(Messages)
  BY <1>1
<1>4. CASE x = p
  BY <1>1, <1>2, <1>3, <1>4, WithoutPrunes
<1>5. CASE x # p
  <2>1. queues'[x] = queues[x]
    BY <1>1, <1>2, <1>5
  <2> QED
    BY <1>3, <2>1, SubsequenceReflexive
<1> QED
  BY <1>4, <1>5

\* STOP and CANCEL prune.
LEMMA StopPrunes ==
  ASSUME TypeInv, NEW c,
         Stop(c) \/ CancelClient(c) \/ StopAll \/ CancelAllQueues
  PROVE  \A x \in Priorities : Subsequence(queues'[x], queues[x])
<1>1. PICK e \in ServerEffects : Prunes(e, Effect(queues)) /\ Apply(e)
  BY StopEffect DEF TypeInv
<1>2. queues' = e.queues /\ Effect(queues).queues = queues
  BY <1>1, ApplyEffect, EffectOfQueues DEF TypeInv
<1> QED
  BY <1>1, <1>2 DEF Prunes

\* The queues change in one of these ways.
LEMMA QueueSteps ==
  ASSUME TypeInv, [Next]_vars
  PROVE  \/ \E m \in Messages, p \in Priorities : Enqueue(m, p)
         \/ SpeakPromote
         \/ \A x \in Priorities : Subsequence(queues'[x], queues[x])
<1> USE DEF queueVars
<1>1. ASSUME NEW c \in Clients, Speak(c)
      PROVE  \E m \in Messages, p \in Priorities : Enqueue(m, p)
  BY <1>1, SpeakEnqueues
<1>2. ASSUME SpeakReload
      PROVE  \E m \in Messages, p \in Priorities : Enqueue(m, p)
  BY <1>2, SpeakReloadEnqueues
<1>3. ASSUME NEW c \in Clients, Stop(c) \/ CancelClient(c)
      PROVE  \A x \in Priorities : Subsequence(queues'[x], queues[x])
  BY <1>3, StopPrunes
<1>4. ASSUME StopAll \/ CancelAllQueues
      PROVE  \A x \in Priorities : Subsequence(queues'[x], queues[x])
  BY <1>4, StopPrunes
<1>5. ASSUME NEW p \in Priorities, NEW i \in DOMAIN queues[p],
             SpeakMessage(p, i) \/ SpeakFails(p, i)
      PROVE  \A x \in Priorities : Subsequence(queues'[x], queues[x])
  BY <1>5, TakePrunes DEF SpeakMessage, SpeakFails
<1>6. ASSUME NEW c \in Clients,
             \/ SetPriority(c) \/ BlockBegin(c) \/ BlockEnd(c)
             \/ Pause(c) \/ Resume(c) \/ Disconnect(c)
      PROVE  UNCHANGED queues
  BY <1>6 DEF SetPriority, BlockBegin, BlockEnd, Pause, Resume, Disconnect
<1>7. ASSUME CancelAllStop \/ PauseAll \/ ResumeAll \/ OutputModule
      PROVE  UNCHANGED queues
  BY <1>7 DEF CancelAllStop, PauseAll, ResumeAll, OutputModule, ModuleFinishes,
              ModuleBegin, ModuleMark, ModuleEnd, ModuleStops, ModulePauses,
              ModuleCrash, Emit
<1>8. ASSUME \/ SpeakWake \/ SpeakEvent \/ SpeakHangup
             \/ SpeakPause \/ SpeakPauseDone \/ SpeakCheck
             \/ SpeakReloadFails \/ SpeakReloaded \/ SpeakResumeDone
             \/ SpeakNothing \/ UNCHANGED vars
      PROVE  UNCHANGED queues
  BY <1>8 DEF SpeakWake, SpeakEvent, SpeakHangup, SpeakPause, SpeakPauseDone,
              SpeakCheck, SpeakReloadFails, SpeakReloaded, SpeakResumeDone,
              SpeakNothing, vars
<1>9. ASSUME UNCHANGED queues
      PROVE  \A x \in Priorities : Subsequence(queues'[x], queues[x])
  <2> SUFFICES ASSUME NEW x \in Priorities
               PROVE  Subsequence(queues[x], queues[x])
    BY <1>9
  <2>1. queues[x] \in Seq(Messages)
    BY DEF TypeInv, TypeOK
  <2> QED
    BY <2>1, SubsequenceReflexive
<1>10. CASE \E c \in Clients :
              \/ Speak(c) \/ SetPriority(c) \/ BlockBegin(c) \/ BlockEnd(c)
              \/ Stop(c) \/ CancelClient(c) \/ Pause(c) \/ Resume(c)
              \/ Disconnect(c)
  BY <1>1, <1>3, <1>6, <1>9, <1>10
<1>11. CASE StopAll \/ CancelAllStop \/ CancelAllQueues \/ PauseAll \/ ResumeAll
  BY <1>4, <1>7, <1>9, <1>11
<1>12. CASE SpeakThread
  BY <1>2, <1>5, <1>8, <1>9, <1>12 DEF SpeakThread
<1>13. CASE OutputModule \/ UNCHANGED vars
  BY <1>7, <1>8, <1>9, <1>13
<1> QED
  BY <1>10, <1>11, <1>12, <1>13 DEF Next, MainThread

\* A step leaves one text at a time.
LEMMA OneTextKept == TypeInv /\ OneTextAtATime /\ [Next]_vars => OneTextAtATime'
<1> SUFFICES ASSUME TypeInv, OneTextAtATime, [Next]_vars
             PROVE  OneTextAtATime'
  OBVIOUS
<1>1. TypeOK /\ queues' \in [Priorities -> Seq(Messages)]
  BY TypesKept DEF TypeInv, TypeOK
<1>2. {TEXT, NOTIFICATION} \subseteq Priorities
      /\ MESSAGE \notin {TEXT, NOTIFICATION}
  BY DEF Priorities, IMPORTANT, MESSAGE, TEXT, NOTIFICATION, PROGRESS
<1>3. ASSUME NEW m \in Messages, NEW p \in Priorities, Enqueue(m, p)
      PROVE  OneTextAtATime'
  BY <1>1, <1>3, EnqueueOneText
<1>4. CASE SpeakPromote
  <2>1. last_p5_block # <<>>
    BY <1>4 DEF TypeInv, Promoting, SpeakPromote, Postponed
  <2>2. \A x \in Priorities :
          Subsequence(queues'[x], IF x = MESSAGE
                                  THEN InsertById(queues[x], Head(last_p5_block))
                                  ELSE queues[x])
    BY <1>1, <1>4, <2>1, PromoteQueues
  <2>3. \A x \in {TEXT, NOTIFICATION} : Subsequence(queues'[x], queues[x])
    BY <1>2, <2>2
  <2> QED
    BY <1>1, <2>3, PrunesOneText
<1>5. CASE \A x \in Priorities : Subsequence(queues'[x], queues[x])
  BY <1>1, <1>2, <1>5, PrunesOneText
<1> QED
  BY <1>3, <1>4, <1>5, QueueSteps

\* Whatever the clients send and however it is stopped, the queues of texts and
\* of notifications never hold more than one message or block.
THEOREM OneText == Spec => []OneTextAtATime
<1>1. Init => OneTextAtATime
  BY DEF Init, OneTextAtATime, OneBlock, Priorities, IMPORTANT, TEXT,
         NOTIFICATION, PROGRESS
<1> QED
  BY <1>1, TypeInvariant, OneTextKept, PTL DEF Spec

-----------------------------------------------------------------------------
(***************************************************************************)
(* One voice.  The speak thread only looks for a message in silence; while *)
(* a message is spoken the module is busy with it, or the last event in    *)
(* its pipe is the end of it.                                              *)
(***************************************************************************)
Looking == {"resume", "resume_done", "pick", "promote"}

VoiceInv ==
  /\ SPEAKING => spc \notin Looking
  /\ SPEAKING => current_message # NoMessage
  /\ module # "dead" =>
       IF SPEAKING
       THEN /\ speaking_module
            /\ poll_count = 2
            /\ Busy => \A i \in DOMAIN events : events[i] \notin Terminal
            /\ ~Busy => events # <<>> /\ events[Len(events)] \in Terminal
            /\ \A i \in 1..(Len(events) - 1) : events[i] \notin Terminal
       ELSE module = "idle" /\ events = <<>>

\* A step that leaves the module alone.
LEMMA VoiceUnmoved ==
  ASSUME VoiceInv, UNCHANGED <<module, events, SPEAKING, poll_count, current_message>>,
         SPEAKING => spc' \notin Looking,
         speaking_module /\ module # "dead" => speaking_module'
  PROVE  VoiceInv'
<1> QED
  BY DEF VoiceInv, Busy

\* The commands of the clients leave the module alone, but for its orders.
LEMMA MainThreadVoice ==
  ASSUME TypeInv, VoiceInv, MainThread
  PROVE  VoiceInv'
<1> DEFINE Apart ==
             /\ UNCHANGED <<module, events, SPEAKING, poll_count,
                            current_message, spc>>
             /\ speaking_module /\ module # "dead" => speaking_module'
<1>1. Apart
  <2> USE DEF currentVars, moduleVars, orderVars
  <2>1. ASSUME NEW c \in Clients, Speak(c)
        PROVE  Apart
    <3>1. UNCHANGED moduleVars /\ (speaking_module /\ module # "dead" => speaking_module')
      BY <2>1, SpeakEnqueues, EnqueueMessage DEF TypeInv
    <3> QED
      BY <2>1, <3>1 DEF Speak
  <2>2. ASSUME NEW c, Stop(c) \/ CancelClient(c) \/ StopAll \/ CancelAllQueues
        PROVE  Apart
    <3>1. PICK e \in ServerEffects : Apply(e)
      BY <2>2, StopEffect DEF TypeInv
    <3>2. UNCHANGED moduleVars /\ (speaking_module /\ module # "dead" => speaking_module')
      BY <3>1, ApplyEffect DEF TypeInv
    <3> QED
      BY <2>2, <3>2 DEF Stop, CancelClient, StopAll, CancelAllQueues
  <2>3. ASSUME NEW c \in Clients,
               \/ SetPriority(c) \/ BlockBegin(c) \/ BlockEnd(c)
               \/ Pause(c) \/ Resume(c) \/ Disconnect(c)
        PROVE  Apart
    BY <2>3 DEF SetPriority, BlockBegin, BlockEnd, Pause, Resume, Disconnect
  <2>4. ASSUME PauseAll \/ ResumeAll
        PROVE  Apart
    BY <2>4 DEF PauseAll, ResumeAll
  <2>5. ASSUME CancelAllStop
        PROVE  Apart
    <3>1. OutputStop(TRUE) /\ UNCHANGED <<currentVars, spc>>
      BY <2>5 DEF CancelAllStop
    <3>2. UNCHANGED moduleVars /\ (speaking_module /\ module # "dead" => speaking_module')
      BY <3>1 DEF OutputStop
    <3> QED
      BY <3>1, <3>2
  <2> QED
    BY <2>1, <2>2, <2>3, <2>4, <2>5 DEF MainThread
<1>2. SPEAKING => spc' \notin Looking
  BY <1>1 DEF VoiceInv
<1> QED
  BY <1>1, <1>2, VoiceUnmoved

\* The steps of the speak thread that do not concern the module.
LEMMA SpeakThreadVoice ==
  ASSUME TypeInv, VoiceInv,
         \/ SpeakWake \/ SpeakPause \/ SpeakPauseDone \/ SpeakCheck
         \/ SpeakReload \/ SpeakReloadFails \/ SpeakReloaded \/ SpeakResumeDone
         \/ SpeakPromote \/ SpeakNothing
  PROVE  VoiceInv'
<1> USE DEF currentVars, moduleVars, orderVars, Looking
<1>1. CASE \/ SpeakWake \/ SpeakPauseDone \/ SpeakCheck \/ SpeakReloadFails
           \/ SpeakReloaded \/ SpeakResumeDone \/ SpeakNothing
  <2>1. /\ UNCHANGED <<module, events, SPEAKING, poll_count, current_message,
                       speaking_module>>
        /\ SPEAKING => spc' \notin Looking
    BY <1>1 DEF VoiceInv, SpeakWake, SpeakPauseDone, SpeakCheck,
                SpeakReloadFails, SpeakReloaded, SpeakResumeDone, SpeakNothing
  <2> QED
    BY <2>1, VoiceUnmoved
<1>2. CASE SpeakPause
  <2>1. /\ UNCHANGED <<module, events, SPEAKING, poll_count, current_message>>
        /\ SPEAKING => spc' \notin Looking
        /\ speaking_module /\ module # "dead" => speaking_module'
    BY <1>2 DEF SpeakPause
  <2> QED
    BY <2>1, VoiceUnmoved
<1>3. CASE SpeakReload
  <2>1. UNCHANGED moduleVars /\ (speaking_module /\ module # "dead" => speaking_module')
    BY <1>3, SpeakReloadEnqueues, EnqueueMessage DEF TypeInv
  <2>2. /\ UNCHANGED <<module, events, SPEAKING, poll_count, current_message, spc>>
        /\ SPEAKING => spc' \notin Looking
    BY <1>3, <2>1 DEF SpeakReload, VoiceInv
  <2> QED
    BY <2>1, <2>2, VoiceUnmoved
<1>4. CASE SpeakPromote
  <2>1. last_p5_block # <<>>
    BY <1>4 DEF TypeInv, Promoting, SpeakPromote, Postponed
  <2>2. UNCHANGED moduleVars /\ (speaking_module /\ module # "dead" => speaking_module')
    BY <1>4, <2>1, PromoteQueues DEF TypeInv
  <2>3. /\ UNCHANGED <<module, events, SPEAKING, poll_count, current_message>>
        /\ SPEAKING => spc' \notin Looking
    BY <1>4, <2>2 DEF SpeakPromote, VoiceInv
  <2> QED
    BY <2>2, <2>3, VoiceUnmoved
<1> QED
  BY <1>1, <1>2, <1>3, <1>4

\* A message is handed to a module that is silent.
LEMMA TakeVoice ==
  ASSUME TypeInv, VoiceInv, NEW p \in Priorities, NEW i \in DOMAIN queues[p],
         SpeakMessage(p, i) \/ SpeakFails(p, i)
  PROVE  VoiceInv'
<1>1. ~SPEAKING /\ spc' = "poll"
  BY DEF VoiceInv, Looking, SpeakMessage, SpeakFails, Take
<1>2. CASE SpeakMessage(p, i)
  <2>1. queues[p][i] \in Messages /\ NoMessage \notin Messages
    BY <1>2, TakeTypes DEF SpeakMessage, Messages, NoMessage, MessageIds
  <2>2. /\ module # "dead" /\ module' = "starting"
        /\ SPEAKING' = TRUE /\ poll_count' = 2 /\ speaking_module' = TRUE
        /\ current_message' = queues[p][i]
        /\ events' = events
    BY <1>2 DEF SpeakMessage, StartsSpeaking
  <2>3. events' = <<>>
    BY <1>1, <2>2 DEF VoiceInv
  <2>4. DOMAIN <<>> = {} /\ Len(<<>>) = 0
    OBVIOUS
  <2> QED
    BY <1>1, <2>1, <2>2, <2>3, <2>4 DEF VoiceInv, Busy, Looking
<1>3. CASE SpeakFails(p, i)
  <2>1. module' = "idle" /\ events' = <<>> /\ SPEAKING' = SPEAKING
    BY <1>3 DEF SpeakFails
  <2> QED
    BY <1>1, <2>1 DEF VoiceInv
<1> QED
  BY <1>2, <1>3

\* An event is read, the last of a message with the message's end.
LEMMA SpeakEventVoice ==
  ASSUME TypeInv, VoiceInv, SpeakEvent
  PROVE  VoiceInv'
<1>1. /\ events \in Seq(Event) /\ events # <<>>
      /\ module # "dead" /\ module' = module
      /\ events' = Tail(events)
      /\ spc' = "pause"
      /\ speaking_module /\ current_message # NoMessage
  BY DEF TypeInv, TypeOK, SpeakEvent, EventReady
<1>2. SPEAKING /\ poll_count = 2
  BY <1>1 DEF VoiceInv
<1>3. /\ Head(events) \in Event /\ Head(events) = events[1]
      /\ Len(events) \in Nat \ {0} /\ DOMAIN events = 1..Len(events)
      /\ Len(events') = Len(events) - 1
      /\ DOMAIN events' = 1..Len(events')
      /\ \A i \in 1..Len(events') : events'[i] = events[i + 1]
  <2>1. Tail(events) \in Seq(Event)
    BY <1>1, HeadTailProperties
  <2>2. Len(events) \in Nat \ {0} /\ Head(events) = events[1]
    BY <1>1, EmptySeq
  <2> QED
    BY <1>1, <2>1, <2>2, HeadTailProperties, LenProperties
<1>4. CASE Head(events) \notin Terminal
  <2>1. /\ SPEAKING' /\ poll_count' = 2 /\ speaking_module'
        /\ current_message' = current_message
    <3>1. CASE Head(events) = "begin"
      BY <1>1, <1>2, <3>1 DEF SpeakEvent
    <3>2. CASE Head(events) = "mark"
      BY <1>1, <1>2, <3>2 DEF SpeakEvent
    <3> QED
      BY <1>3, <1>4, <3>1, <3>2 DEF Event
  <2>2. Busy => \A i \in DOMAIN events' : events'[i] \notin Terminal
    BY <1>1, <1>2, <1>3 DEF VoiceInv
  <2>3. ~Busy => events' # <<>> /\ events'[Len(events')] \in Terminal
    <3> SUFFICES ASSUME ~Busy
                 PROVE  events' # <<>> /\ events'[Len(events')] \in Terminal
      OBVIOUS
    <3>1. events[Len(events)] \in Terminal
      BY <1>1, <1>2 DEF VoiceInv
    <3>2. Len(events) # 1
      BY <1>3, <1>4, <3>1
    <3>3. Len(events') # 0 /\ events'[Len(events')] = events[Len(events)]
      BY <1>3, <3>2
    <3>4. events' = <<>> => Len(events') = 0
      BY EmptySeq
    <3> QED
      BY <3>1, <3>3, <3>4
  <2>4. \A i \in 1..(Len(events') - 1) : events'[i] \notin Terminal
    BY <1>1, <1>2, <1>3 DEF VoiceInv
  <2>5. Busy' = Busy
    BY <1>1 DEF Busy
  <2> QED
    BY <1>1, <2>1, <2>2, <2>3, <2>4, <2>5 DEF VoiceInv, Looking
<1>5. CASE Head(events) \in Terminal
  <2>1. SPEAKING' = FALSE
    BY <1>5 DEF SpeakEvent, FellSilent, Terminal
  <2>2. ~Busy /\ module = "idle"
    <3>1. ~Busy
      BY <1>1, <1>2, <1>3, <1>5 DEF VoiceInv
    <3> QED
      BY <1>1, <3>1 DEF Busy, TypeInv, TypeOK
  <2>3. Len(events) = 1
    BY <1>1, <1>2, <1>3, <1>5 DEF VoiceInv
  <2>4. events' = <<>>
    <3>1. Tail(events) \in Seq(Event)
      BY <1>1, HeadTailProperties
    <3> QED
      BY <1>1, <1>3, <2>3, <3>1, EmptySeq
  <2> QED
    BY <1>1, <2>1, <2>2, <2>4 DEF VoiceInv
<1> QED
  BY <1>4, <1>5

\* The module reports: it is busy with a message, its pipe holds no end yet.
LEMMA ModuleVoice ==
  ASSUME TypeInv, VoiceInv, ModuleFinishes \/ ModuleMark
  PROVE  VoiceInv'
<1>1. PICK ev \in Event, st \in {"idle", "talking"} :
        /\ Emit(ev, st)
        /\ st = "idle" => ev \in Terminal
        /\ st = "talking" => ev \notin Terminal
        /\ Busy
  BY DEF ModuleFinishes, ModuleBegin, ModuleMark, ModuleEnd, ModuleStops,
         ModulePauses, Event, Terminal, Busy
<1>2. /\ events \in Seq(Event)
      /\ events' = Append(events, ev)
      /\ module' = st
      /\ UNCHANGED <<SPEAKING, poll_count, speaking_module, current_message, spc>>
  BY <1>1 DEF Emit, TypeInv, TypeOK, currentVars, orderVars
<1>3. /\ events' # <<>>
      /\ DOMAIN events' = 1..(Len(events) + 1)
      /\ Len(events') = Len(events) + 1
      /\ Len(events) \in Nat /\ DOMAIN events = 1..Len(events)
      /\ \A i \in 1..Len(events) : events'[i] = events[i]
      /\ events'[Len(events) + 1] = ev
  <2>1. Append(events, ev) \in Seq(Event)
    BY <1>1, <1>2, AppendProperties
  <2> QED
    BY <1>1, <1>2, <2>1, AppendProperties, LenProperties
<1>4. module # "dead" /\ SPEAKING
  BY <1>1 DEF VoiceInv, Busy
<1>5. \A i \in 1..Len(events) : events'[i] \notin Terminal
  BY <1>1, <1>3, <1>4 DEF VoiceInv
<1>6. /\ Busy' => \A i \in DOMAIN events' : events'[i] \notin Terminal
      /\ ~Busy' => events' # <<>> /\ events'[Len(events')] \in Terminal
      /\ \A i \in 1..(Len(events') - 1) : events'[i] \notin Terminal
  BY <1>1, <1>2, <1>3, <1>5 DEF Busy
<1> QED
  BY <1>2, <1>4, <1>6 DEF VoiceInv

\* Every step keeps the invariant.
LEMMA VoiceKept == TypeInv /\ VoiceInv /\ [Next]_vars => VoiceInv'
<1> SUFFICES ASSUME TypeInv, VoiceInv, [Next]_vars
             PROVE  VoiceInv'
  OBVIOUS
<1>1. CASE MainThread
  BY <1>1, MainThreadVoice
<1>2. CASE SpeakThread
  <2>1. CASE SpeakHangup
    BY <2>1 DEF SpeakHangup, speaking_module_cleanup, VoiceInv
  <2>2. CASE SpeakEvent
    BY <2>2, SpeakEventVoice
  <2>3. CASE \E q \in Priorities : \E i \in DOMAIN queues[q] :
               SpeakMessage(q, i) \/ SpeakFails(q, i)
    BY <2>3, TakeVoice
  <2>4. CASE \/ SpeakWake \/ SpeakPause \/ SpeakPauseDone \/ SpeakCheck
             \/ SpeakReload \/ SpeakReloadFails \/ SpeakReloaded
             \/ SpeakResumeDone \/ SpeakPromote \/ SpeakNothing
    BY <2>4, SpeakThreadVoice
  <2> QED
    BY <1>2, <2>1, <2>2, <2>3, <2>4 DEF SpeakThread
<1>3. CASE ModuleFinishes \/ ModuleMark
  BY <1>3, ModuleVoice
<1>4. CASE ModuleCrash
  BY <1>4 DEF ModuleCrash, VoiceInv, currentVars
<1>5. CASE UNCHANGED vars
  BY <1>5, VoiceUnmoved DEF VoiceInv, vars, currentVars, moduleVars, orderVars
<1> QED
  BY <1>1, <1>2, <1>3, <1>4, <1>5 DEF Next, OutputModule

\* The invariant holds in every reachable state.
LEMMA VoiceInvariant == Spec => []VoiceInv
<1>1. Init => VoiceInv
  BY DEF Init, VoiceInv
<1> QED
  BY <1>1, TypeInvariant, VoiceKept, PTL DEF Spec

\* The server hands a message only to a module that is silent and whose events
\* were all read, at any number of clients, crashes and events under way.
THEOREM Voice == Spec => []OneVoice
<1>1. VoiceInv => OneVoice
  BY DEF VoiceInv, OneVoice
<1> QED
  BY <1>1, VoiceInvariant, PTL

\* Every event that speak() finds in the module's pipe has a message.
THEOREM Owner == Spec => []EventHasOwner
<1>1. VoiceInv => EventHasOwner
  BY DEF VoiceInv, EventHasOwner, EventReady
<1> QED
  BY <1>1, VoiceInvariant, PTL

-----------------------------------------------------------------------------
(***************************************************************************)
(* Messages of priority important.                                         *)
(***************************************************************************)
ImportantStep ==
  /\ SPEAKING /\ current_priority = IMPORTANT
  /\ ~\E c \in Clients : Stop(c) \/ CancelClient(c)
  /\ ~(StopAll \/ CancelAllStop \/ CancelAllQueues)
  => /\ "stop" \in orders' => "stop" \in orders
     /\ SPEAKING' => current_priority' = current_priority

\* Steps other than those of STOP and CANCEL.
LEMMA ImportantKept ==
  ASSUME TypeInv, VoiceInv, [Next]_vars
  PROVE  ImportantStep
<1> DEFINE Safe == /\ "stop" \in orders' => "stop" \in orders
                   /\ SPEAKING' => current_priority' = current_priority
<1> SUFFICES ASSUME SPEAKING, current_priority = IMPORTANT,
                    ~(\E c \in Clients : Stop(c) \/ CancelClient(c)),
                    ~(StopAll \/ CancelAllStop \/ CancelAllQueues)
             PROVE  Safe
  BY DEF ImportantStep
<1>1. spc \notin Looking
  BY DEF VoiceInv
<1> USE DEF currentVars, orderVars
<1>2. ASSUME NEW c \in Clients, Speak(c)
      PROVE  Safe
  <2>1. orders' = orders
    BY <1>2, SpeakEnqueues, EnqueueMessage DEF TypeInv
  <2> QED
    BY <1>2, <2>1 DEF Speak
<1>3. ASSUME NEW c \in Clients,
             \/ SetPriority(c) \/ BlockBegin(c) \/ BlockEnd(c)
             \/ Pause(c) \/ Resume(c) \/ Disconnect(c)
      PROVE  Safe
  BY <1>3 DEF SetPriority, BlockBegin, BlockEnd, Pause, Resume, Disconnect
<1>4. CASE PauseAll \/ ResumeAll \/ OutputModule
  BY <1>4 DEF PauseAll, ResumeAll, OutputModule, ModuleFinishes, ModuleBegin,
              ModuleMark, ModuleEnd, ModuleStops, ModulePauses, ModuleCrash, Emit
<1>5. CASE SpeakWake \/ SpeakPauseDone \/ SpeakCheck \/ SpeakEvent \/ SpeakHangup
  BY <1>5 DEF SpeakWake, SpeakPauseDone, SpeakCheck, SpeakEvent, SpeakHangup
<1>6. CASE SpeakPause
  <2>1. orders' = orders \cup {"pause"} \/ orders' = orders
    BY <1>6 DEF SpeakPause, SetAside
  <2>2. "stop" \in orders' => "stop" \in orders
    BY <2>1
  <2>3. current_priority' = current_priority
    BY <1>6 DEF SpeakPause
  <2> QED
    BY <2>2, <2>3
<1>7. CASE \/ SpeakReload \/ SpeakReloadFails \/ SpeakReloaded \/ SpeakResumeDone
           \/ SpeakPromote \/ SpeakNothing
           \/ \E p \in Priorities : \E i \in DOMAIN queues[p] :
                SpeakMessage(p, i) \/ SpeakFails(p, i)
  BY <1>1, <1>7 DEF Looking, SpeakReload, SpeakReloadFails, SpeakReloaded,
     SpeakResumeDone, SpeakPromote, SpeakNothing, SpeakMessage, SpeakFails, Take
<1>8. CASE UNCHANGED vars
  BY <1>8 DEF vars
<1> QED
  BY <1>2, <1>3, <1>4, <1>5, <1>6, <1>7, <1>8 DEF Next, MainThread, SpeakThread

\* No message that arrives, is reloaded or promoted, no pause and no event makes
\* the server stop a message of priority important.
THEOREM Important == Spec => ImportantNeverInterrupted
<1>1. TypeInv /\ VoiceInv /\ [Next]_vars => [ImportantStep]_vars
  BY ImportantKept
<1>2. Spec => [][ImportantStep]_vars
  BY <1>1, TypeInvariant, VoiceInvariant, PTL DEF Spec
<1> QED
  BY <1>2, PTL DEF ImportantNeverInterrupted, ImportantStep

-----------------------------------------------------------------------------
(***************************************************************************)
(* The server implements the Announcer.                                    *)
(***************************************************************************)

\* Pruning brings no new message.
LEMMA PrunedIds ==
  ASSUME NEW s, NEW t, Subsequence(t, s)
  PROVE  Ids(t) \subseteq Ids(s)
<1>1. PICK f \in [DOMAIN t -> DOMAIN s] : \A k \in DOMAIN t : t[k] = s[f[k]]
  BY Zenon DEF Subsequence
<1> QED
  BY <1>1 DEF Ids

\* What waits now and what waits after a step.
LEMMA WhatWaits ==
  /\ Ids(last_p5_block) \subseteq Waiting
  /\ Ids(MessagePausedList) \subseteq Waiting
  /\ \A p \in Priorities : Ids(queues[p]) \subseteq Waiting
  /\ \A X : /\ Ids(last_p5_block') \subseteq X
            /\ Ids(MessagePausedList') \subseteq X
            /\ \A p \in Priorities : Ids(queues'[p]) \subseteq X
            => Waiting' \subseteq X
<1> QED
  BY DEF Waiting

\* What waits after a message joined a queue.
LEMMA EnqueueWaits ==
  ASSUME TypeInv, NEW m \in Messages, NEW p \in Priorities, Enqueue(m, p),
         Ids(MessagePausedList') \subseteq Ids(MessagePausedList)
  PROVE  Waiting' \subseteq Waiting \cup {m.id}
<1>1. /\ \A x \in Priorities :
           Subsequence(queues'[x],
                       IF x = p THEN Append(queues[x], m) ELSE queues[x])
      /\ Ids(last_p5_block') \subseteq Ids(last_p5_block) \cup {m.id}
  BY EnqueueMessage DEF TypeInv
<1>2. ASSUME NEW x \in Priorities
      PROVE  Ids(queues'[x]) \subseteq Ids(queues[x]) \cup {m.id}
  <2>1. queues[x] \in Seq(Messages)
    BY DEF TypeInv, TypeOK
  <2>2. Ids(Append(queues[x], m)) \subseteq Ids(queues[x]) \cup {m.id}
    <3> DEFINE q == queues[x]
    <3>1. q \in Seq(Messages)
      BY <2>1
    <3> HIDE DEF q
    <3>2. Append(q, m) \in Seq(Messages)
      BY <3>1, AppendProperties
    <3>3. /\ DOMAIN Append(q, m) = 1..(Len(q) + 1)
          /\ DOMAIN q = 1..Len(q) /\ Len(q) \in Nat
          /\ \A i \in 1..Len(q) : Append(q, m)[i] = q[i]
          /\ Append(q, m)[Len(q) + 1] = m
      BY <3>1, <3>2, AppendProperties, LenProperties
    <3>4. ASSUME NEW i \in DOMAIN Append(q, m)
          PROVE  Append(q, m)[i].id \in Ids(q) \cup {m.id}
      <4>1. CASE i \in 1..Len(q)
        BY <3>3, <4>1 DEF Ids
      <4>2. CASE i = Len(q) + 1
        BY <3>3, <4>2
      <4> QED
        BY <3>3, <4>1, <4>2
    <3>5. Ids(Append(q, m)) \subseteq Ids(q) \cup {m.id}
      BY <3>4 DEF Ids
    <3> QED
      BY <3>5 DEF q
  <2>3. Ids(queues'[x]) \subseteq
          Ids(IF x = p THEN Append(queues[x], m) ELSE queues[x])
    BY <1>1, PrunedIds
  <2> QED
    BY <2>2, <2>3
<1> DEFINE X == Waiting \cup {m.id}
<1>3. /\ Ids(last_p5_block') \subseteq X
      /\ Ids(MessagePausedList') \subseteq X
      /\ \A x \in Priorities : Ids(queues'[x]) \subseteq X
  BY <1>1, <1>2, WhatWaits
<1> HIDE DEF X
<1>4. Waiting' \subseteq X
  BY <1>3, WhatWaits
<1> QED
  BY <1>4 DEF X

\* What waits after a progress message was moved.
LEMMA PromoteWaits ==
  ASSUME TypeInv, SpeakPromote
  PROVE  Waiting' \subseteq Waiting
<1> DEFINE m == Head(last_p5_block)
<1>1. /\ last_p5_block # <<>> /\ last_p5_block \in Seq(Messages)
      /\ queues \in [Priorities -> Seq(Messages)]
  BY DEF TypeInv, TypeOK, Promoting, SpeakPromote, Postponed
<1>2. /\ \A x \in Priorities :
           Subsequence(queues'[x],
                       IF x = MESSAGE THEN InsertById(queues[x], m) ELSE queues[x])
      /\ m \in Messages
      /\ last_p5_block' \in Seq(Messages)
  BY <1>1, PromoteQueues DEF TypeInv
<1>3. /\ last_p5_block' = Tail(last_p5_block)
      /\ MessagePausedList' = MessagePausedList
  BY DEF SpeakPromote
<1>4. m.id \in Ids(last_p5_block) /\ Ids(last_p5_block') \subseteq Ids(last_p5_block)
  <2>1. /\ Len(last_p5_block) \in Nat \ {0}
        /\ DOMAIN last_p5_block = 1..Len(last_p5_block)
        /\ m = last_p5_block[1]
    BY <1>1, EmptySeq, LenProperties
  <2>2. /\ DOMAIN last_p5_block' = 1..Len(last_p5_block')
        /\ Len(last_p5_block') = Len(last_p5_block) - 1
        /\ \A i \in 1..Len(last_p5_block') : last_p5_block'[i] = last_p5_block[i + 1]
    <3>1. DOMAIN last_p5_block' = 1..Len(last_p5_block')
      BY <1>2, LenProperties
    <3> QED
      BY <1>1, <1>3, <3>1, HeadTailProperties
  <2> HIDE DEF m
  <2>3. m.id \in Ids(last_p5_block)
    BY <2>1 DEF Ids
  <2>4. \A i \in DOMAIN last_p5_block' :
          i + 1 \in DOMAIN last_p5_block /\ last_p5_block'[i] = last_p5_block[i + 1]
    BY <2>1, <2>2
  <2>5. Ids(last_p5_block') \subseteq Ids(last_p5_block)
    BY <2>4 DEF Ids
  <2> QED
    BY <2>3, <2>5
<1> HIDE DEF m
<1>5. ASSUME NEW x \in Priorities
      PROVE  Ids(queues'[x]) \subseteq Ids(queues[x]) \cup {m.id}
  <2>1. queues[x] \in Seq(Messages)
    BY <1>1
  <2>2. \A k \in DOMAIN InsertById(queues[x], m) :
          InsertById(queues[x], m)[k] = m
            \/ \E i \in DOMAIN queues[x] : InsertById(queues[x], m)[k] = queues[x][i]
    BY <1>2, <2>1, InsertByIdAdds
  <2>3. Ids(InsertById(queues[x], m)) \subseteq Ids(queues[x]) \cup {m.id}
    BY <2>2 DEF Ids
  <2>4. Ids(queues'[x]) \subseteq
          Ids(IF x = MESSAGE THEN InsertById(queues[x], m) ELSE queues[x])
    BY <1>2, PrunedIds
  <2> QED
    BY <2>3, <2>4
<1> QED
  BY <1>3, <1>4, <1>5, WhatWaits

\* What waits after a step that only prunes the queues.
LEMMA PrunesWaits ==
  ASSUME \A x \in Priorities : Subsequence(queues'[x], queues[x]),
         Ids(last_p5_block') \subseteq Ids(last_p5_block),
         Ids(MessagePausedList') \subseteq Ids(MessagePausedList)
  PROVE  Waiting' \subseteq Waiting
<1>1. \A x \in Priorities : Ids(queues'[x]) \subseteq Ids(queues[x])
  BY PrunedIds
<1> QED
  BY <1>1, WhatWaits

\* The message that is being spoken, for the Announcer.
Saying == IF SPEAKING THEN current_message.id ELSE 0

\* A step of the Announcer that only discards.
LEMMA Discards ==
  ASSUME Waiting' \subseteq Waiting,
         UNCHANGED <<last_message_id, SPEAKING, current_message>>
  PROVE  Abstract!ANext
<1> QED
  BY DEF Abstract!ANext, Abstract!ADiscard

\* A command of a client.
LEMMA MainThreadAnnounces ==
  ASSUME TypeInv, MainThread
  PROVE  [Abstract!ANext]_(Abstract!avars)
<1> USE DEF queueVars, currentVars, counterVars
<1>1. ASSUME NEW c \in Clients, Speak(c)
      PROVE  Abstract!ANext
  <2>1. PICK m \in Messages, p \in Priorities :
          m.id = last_message_id + 1 /\ Enqueue(m, p)
    BY <1>1, SpeakEnqueues
  <2>2. /\ last_message_id < MaxMessages
        /\ last_message_id' = last_message_id + 1
        /\ UNCHANGED <<MessagePausedList, SPEAKING, current_message>>
    BY <1>1 DEF Speak
  <2>3. Waiting' \subseteq Waiting \cup {last_message_id + 1}
    BY <2>1, <2>2, EnqueueWaits
  <2> QED
    BY <2>2, <2>3 DEF Abstract!ANext, Abstract!AReceive
<1>2. ASSUME NEW c, Stop(c) \/ CancelClient(c) \/ StopAll \/ CancelAllQueues
      PROVE  Abstract!ANext
  <2>1. \A x \in Priorities : Subsequence(queues'[x], queues[x])
    BY <1>2, StopPrunes
  <2>2. UNCHANGED <<last_p5_block, MessagePausedList, last_message_id, SPEAKING,
                    current_message>>
    BY <1>2 DEF Stop, CancelClient, StopAll, CancelAllQueues
  <2>3. Waiting' \subseteq Waiting
    BY <2>1, <2>2, PrunesWaits
  <2> QED
    BY <2>2, <2>3, Discards
<1>3. ASSUME UNCHANGED <<queueVars, last_message_id, SPEAKING, current_message>>
      PROVE  Abstract!ANext
  BY <1>3, Discards DEF Waiting
<1>4. ASSUME NEW c \in Clients,
             \/ SetPriority(c) \/ BlockBegin(c) \/ BlockEnd(c)
             \/ Pause(c) \/ Resume(c) \/ Disconnect(c)
      PROVE  UNCHANGED <<queueVars, last_message_id, SPEAKING, current_message>>
  BY <1>4 DEF SetPriority, BlockBegin, BlockEnd, Pause, Resume, Disconnect
<1>5. ASSUME CancelAllStop \/ PauseAll \/ ResumeAll
      PROVE  UNCHANGED <<queueVars, last_message_id, SPEAKING, current_message>>
  BY <1>5 DEF CancelAllStop, PauseAll, ResumeAll
<1> QED
  BY <1>1, <1>2, <1>3, <1>4, <1>5 DEF MainThread

\* A step of the speak thread.
LEMMA SpeakThreadAnnounces ==
  ASSUME TypeInv, VoiceInv, SpeakThread
  PROVE  [Abstract!ANext]_(Abstract!avars)
<1> USE DEF queueVars, currentVars, counterVars
<1>1. ASSUME UNCHANGED <<queueVars, last_message_id, SPEAKING, current_message>>
      PROVE  Abstract!ANext
  BY <1>1, Discards DEF Waiting
<1>2. ASSUME \/ SpeakWake \/ SpeakPauseDone \/ SpeakCheck
             \/ SpeakReloaded \/ SpeakResumeDone \/ SpeakNothing
      PROVE  UNCHANGED <<queueVars, last_message_id, SPEAKING, current_message>>
  BY <1>2 DEF SpeakWake, SpeakPauseDone, SpeakCheck, SpeakReloaded,
              SpeakResumeDone, SpeakNothing
<1>3. CASE SpeakEvent \/ SpeakHangup
  <2>1. UNCHANGED <<queueVars, last_message_id>> /\ Waiting' = Waiting
    BY <1>3 DEF SpeakEvent, SpeakHangup, Waiting
  <2>2. \/ SPEAKING' = FALSE
        \/ UNCHANGED <<SPEAKING, current_message>>
    <3>1. CASE SpeakHangup
      BY <3>1 DEF SpeakHangup, speaking_module_cleanup
    <3>2. CASE SpeakEvent
      <4>1. SPEAKING /\ SPEAKING \in BOOLEAN
        BY <3>2 DEF SpeakEvent, EventReady, VoiceInv, TypeInv, TypeOK
      <4>2. Head(events) \in Event
        BY <3>2, HeadTailProperties DEF TypeInv, TypeOK, SpeakEvent, EventReady
      <4>3. CASE Head(events) = "begin"
        BY <3>2, <4>1, <4>3 DEF SpeakEvent
      <4>4. CASE Head(events) = "mark"
        BY <3>2, <4>4 DEF SpeakEvent
      <4>5. CASE Head(events) \in Terminal
        BY <3>2, <4>5 DEF SpeakEvent, FellSilent, Terminal
      <4> QED
        BY <4>2, <4>3, <4>4, <4>5 DEF Event
    <3> QED
      BY <1>3, <3>1, <3>2
  <2>3. CASE Saying' = Saying
    BY <2>1, <2>3 DEF Saying, Abstract!avars
  <2>4. CASE Saying' # Saying
    <3>1. Saying' = 0 /\ Saying # 0
      BY <2>2, <2>4 DEF Saying
    <3> QED
      BY <2>1, <3>1 DEF Saying, Abstract!ANext, Abstract!ASilence
  <2> QED
    BY <2>3, <2>4
<1>4. CASE SpeakPause
  <2>1. UNCHANGED <<queues, last_p5_block, last_message_id, SPEAKING, current_message>>
    BY <1>4 DEF SpeakPause
  <2>2. CASE MessagePausedList' = MessagePausedList
    BY <1>1, <2>1, <2>2
  <2>3. CASE SetAside /\ SPEAKING /\ current_message # NoMessage
    <3>1. /\ current_message \in Messages
          /\ MessagePausedList \in Seq(Messages)
      BY <2>3 DEF TypeInv, TypeOK
    <3>2. MessagePausedList' = Append(MessagePausedList, current_message)
      BY <2>3 DEF SetAside
    <3>3. Ids(MessagePausedList') = Ids(MessagePausedList) \cup {current_message.id}
      <4> DEFINE L == MessagePausedList
                 m == current_message
      <4>1. L \in Seq(Messages) /\ m \in Messages
        BY <3>1
      <4> HIDE DEF L, m
      <4>2. Append(L, m) \in Seq(Messages)
        BY <4>1, AppendProperties
      <4>3. /\ DOMAIN Append(L, m) = 1..(Len(L) + 1)
            /\ DOMAIN L = 1..Len(L) /\ Len(L) \in Nat
            /\ \A i \in 1..Len(L) : Append(L, m)[i] = L[i]
            /\ Append(L, m)[Len(L) + 1] = m
        BY <4>1, <4>2, AppendProperties, LenProperties
      <4>4. \A i \in DOMAIN L : i \in DOMAIN Append(L, m)
        BY <4>3
      <4>5. \A i \in DOMAIN Append(L, m) : i \in DOMAIN L \/ i = Len(L) + 1
        BY <4>3
      <4>6. Len(L) + 1 \in DOMAIN Append(L, m)
        BY <4>3
      <4>7. Ids(Append(L, m)) = Ids(L) \cup {m.id}
        BY <4>3, <4>4, <4>5, <4>6 DEF Ids
      <4> QED
        BY <3>2, <4>7 DEF L, m
    <3>4. Waiting' = Waiting \cup {current_message.id}
      BY <2>1, <3>3 DEF Waiting
    <3>5. Saying = current_message.id /\ Saying' = Saying /\ Saying # 0
      BY <2>1, <2>3, <3>1 DEF Saying, Messages, MessageIds
    <3> QED
      BY <2>1, <3>4, <3>5 DEF Saying, Abstract!ANext, Abstract!ASetAside
  <2> QED
    BY <1>4, <2>2, <2>3 DEF SpeakPause
<1>5. CASE SpeakReload
  <2>1. PICK m \in Messages, p \in Priorities :
          m.id \in Ids(MessagePausedList) /\ Enqueue(m, p)
    BY <1>5, SpeakReloadEnqueues
  <2>2. Ids(MessagePausedList') \subseteq Ids(MessagePausedList)
    BY <1>5, SpeakReloadEnqueues, PrunedIds
  <2>3. Waiting' \subseteq Waiting
    BY <2>1, <2>2, EnqueueWaits, WhatWaits
  <2>4. UNCHANGED <<last_message_id, SPEAKING, current_message>>
    BY <1>5 DEF SpeakReload
  <2> QED
    BY <2>3, <2>4, Discards
<1>6. CASE SpeakReloadFails
  <2>1. Subsequence(MessagePausedList', MessagePausedList)
    BY <1>6, NextReloadIsSetAside DEF SpeakReloadFails, TypeInv
  <2>2. Ids(MessagePausedList') \subseteq Ids(MessagePausedList)
    BY <2>1, PrunedIds
  <2>3. UNCHANGED <<queues, last_p5_block, last_message_id, SPEAKING, current_message>>
    BY <1>6 DEF SpeakReloadFails
  <2>4. Waiting' \subseteq Waiting
    BY <2>2, <2>3, WhatWaits
  <2> QED
    BY <2>3, <2>4, Discards
<1>7. CASE SpeakPromote
  BY <1>7, PromoteWaits, Discards DEF SpeakPromote
<1>8. ASSUME NEW p \in Priorities, NEW i \in DOMAIN queues[p],
             SpeakMessage(p, i) \/ SpeakFails(p, i)
      PROVE  Abstract!ANext
  <2>1. ~SPEAKING /\ Take(p, i)
    BY <1>8 DEF VoiceInv, Looking, SpeakMessage, SpeakFails, Take
  <2>2. /\ \A x \in Priorities : Subsequence(queues'[x], queues[x])
        /\ UNCHANGED <<MessagePausedList, last_message_id>>
    BY <2>1, TakePrunes DEF Take
  <2>3. Ids(last_p5_block') \subseteq Ids(last_p5_block)
    BY <1>8 DEF SpeakMessage, SpeakFails, Ids
  <2>4. Waiting' \subseteq Waiting
    BY <2>2, <2>3, PrunesWaits
  <2>5. CASE SpeakMessage(p, i)
    <3>1. SPEAKING' = TRUE /\ current_message' = queues[p][i]
      BY <2>5 DEF SpeakMessage, StartsSpeaking
    <3>2. queues[p][i].id \in Ids(queues[p])
      BY DEF Ids
    <3>3. queues[p][i].id \in Waiting
      BY <3>2, WhatWaits
    <3> QED
      BY <2>1, <2>2, <2>4, <3>1, <3>3 DEF Abstract!ANext, Abstract!AStart
  <2>6. CASE SpeakFails(p, i)
    BY <2>2, <2>4, <2>6, Discards DEF SpeakFails
  <2> QED
    BY <1>8, <2>5, <2>6
<1> QED
  BY <1>1, <1>2, <1>3, <1>4, <1>5, <1>6, <1>7, <1>8 DEF SpeakThread

\* The server is one voice: what it does with its queues, pauses, promotions and
\* failing modules is announcing one message at a time, each taken from those
\* that wait, and never one again that was spoken, canceled or dropped.
THEOREM Implements == Spec => OneVoicePromise
<1>1. Init => Abstract!AInit
  BY DEF Init, Abstract!AInit, Waiting, Ids
<1>2. TypeInv /\ VoiceInv /\ [Next]_vars => [Abstract!ANext]_(Abstract!avars)
  <2> SUFFICES ASSUME TypeInv, VoiceInv, [Next]_vars
               PROVE  [Abstract!ANext]_(Abstract!avars)
    OBVIOUS
  <2>1. CASE MainThread
    BY <2>1, MainThreadAnnounces
  <2>2. CASE SpeakThread
    BY <2>2, SpeakThreadAnnounces
  <2>3. CASE OutputModule \/ UNCHANGED vars
    <3>1. UNCHANGED <<queueVars, currentVars, counterVars>>
      BY <2>3 DEF vars, OutputModule, ModuleFinishes, ModuleBegin, ModuleMark,
                  ModuleEnd, ModuleStops, ModulePauses, ModuleCrash, Emit
    <3> QED
      BY <3>1 DEF queueVars, currentVars, counterVars, Waiting, Abstract!avars
  <2> QED
    BY <2>1, <2>2, <2>3 DEF Next
<1> QED
  BY <1>1, <1>2, TypeInvariant, VoiceInvariant, PTL
     DEF Spec, OneVoicePromise, Abstract!ASpec

-----------------------------------------------------------------------------
(***************************************************************************)
(* Servers whose clients do not pause.  Nothing is set aside, so nothing   *)
(* comes back: what waits only grows by messages that arrive.              *)
(***************************************************************************)
NoPauses == Commands \cap {"pause", "pause_all"} = {}

NothingPaused ==
  /\ pause_requested = 0
  /\ MessagePausedList = <<>>
  /\ \A c \in Clients : ~paused[c]
  /\ spc # "pause_done"

\* A list without positions is empty.
LEMMA NoPositions ==
  ASSUME NEW S, NEW s \in Seq(S), DOMAIN s = {}
  PROVE  s = <<>>
<1>1. Len(s) \in Nat /\ DOMAIN s = 1..Len(s)
  BY LenProperties
<1>2. Len(s) = 0
  BY <1>1
<1> QED
  BY <1>2, EmptySeq

\* An empty list holds no ids.
LEMMA NoIds == Ids(<<>>) = {}
<1> QED
  BY DEF Ids

\* Without a pause nothing is there to reload.
LEMMA NothingToReload ==
  ASSUME MessagePausedList = <<>>
  PROVE  NextReload = 0
<1>1. DOMAIN MessagePausedList = {}
  OBVIOUS
<1> QED
  BY <1>1 DEF NextReload

\* Nobody asks for a pause, so nobody is paused.
LEMMA NothingPausedKept ==
  ASSUME NoPauses, TypeInv, NothingPaused, [Next]_vars
  PROVE  NothingPaused'
<1> USE DEF queueVars, currentVars, requestVars, clientVars
<1>1. ASSUME NEW c \in Clients, Speak(c) \/ Stop(c) \/ CancelClient(c)
      PROVE  NothingPaused'
  BY <1>1 DEF NothingPaused, Speak, Stop, CancelClient
<1>2. ASSUME NEW c \in Clients,
             SetPriority(c) \/ BlockBegin(c) \/ BlockEnd(c) \/ Disconnect(c)
      PROVE  NothingPaused'
  BY <1>2 DEF NothingPaused, SetPriority, BlockBegin, BlockEnd, Disconnect
<1>3. ASSUME NEW c \in Clients, Pause(c) \/ PauseAll
      PROVE  FALSE
  BY <1>3 DEF NoPauses, Pause, PauseAll, Control, Serving
<1>4. ASSUME NEW c \in Clients, Resume(c)
      PROVE  NothingPaused'
  <2>1. paused \in [Clients -> BOOLEAN]
    BY DEF TypeInv, TypeOK
  <2> QED
    BY <1>4, <2>1 DEF NothingPaused, Resume
<1>5. CASE StopAll \/ CancelAllStop \/ CancelAllQueues
  BY <1>5 DEF NothingPaused, StopAll, CancelAllStop, CancelAllQueues
<1>6. CASE ResumeAll
  BY <1>6 DEF NothingPaused, ResumeAll
<1>7. CASE PauseAll
  BY <1>7 DEF NoPauses, PauseAll, Control, Serving
<1>8. CASE SpeakWake \/ SpeakEvent \/ SpeakHangup \/ SpeakCheck
  BY <1>8 DEF NothingPaused, SpeakWake, SpeakEvent, SpeakHangup, SpeakCheck
<1>9. CASE SpeakPauseDone \/ SpeakReloaded \/ SpeakResumeDone \/ SpeakNothing
  BY <1>9 DEF NothingPaused, SpeakPauseDone, SpeakReloaded, SpeakResumeDone,
              SpeakNothing
<1>10. CASE SpeakPause \/ SpeakReload \/ SpeakReloadFails
  BY <1>10, NothingToReload DEF NothingPaused, SpeakPause, SpeakReload,
                                SpeakReloadFails
<1>11. CASE SpeakPromote
  BY <1>11 DEF NothingPaused, SpeakPromote
<1>12. ASSUME NEW p \in Priorities, NEW i \in DOMAIN queues[p],
              SpeakMessage(p, i) \/ SpeakFails(p, i)
       PROVE  NothingPaused'
  BY <1>12 DEF NothingPaused, SpeakMessage, SpeakFails, Take
<1>13. CASE OutputModule \/ UNCHANGED vars
  BY <1>13 DEF NothingPaused, vars, OutputModule, ModuleFinishes, ModuleBegin,
               ModuleMark, ModuleEnd, ModuleStops, ModulePauses, ModuleCrash, Emit
<1> QED
  BY <1>1, <1>2, <1>3, <1>4, <1>5, <1>6, <1>7, <1>8, <1>9, <1>10, <1>11,
     <1>12, <1>13 DEF Next, MainThread, SpeakThread

\* The same as a fact of every behaviour.
LEMMA NothingIsPaused ==
  ASSUME NoPauses
  PROVE  Spec => []NothingPaused
<1>1. Init => NothingPaused
  BY DEF Init, NothingPaused
<1>2. TypeInv /\ NothingPaused /\ [Next]_vars => NothingPaused'
  BY NothingPausedKept
<1> QED
  BY <1>1, <1>2, TypeInvariant, PTL DEF Spec

-----------------------------------------------------------------------------
(***************************************************************************)
(* No wake-up is lost, unless a pause or a failing module takes one.       *)
(***************************************************************************)
NoFailures == Faults \cap {"refuse", "crash"} = {}

\* The speak thread sleeps in silence only if nothing waits.
AwakeInv ==
  /\ module # "dead"
  /\ spc = "poll" /\ wakeups = 0 /\ ~SPEAKING => Waiting = {}

\* A step that takes no byte and leaves what waits.
LEMMA SleepsOn ==
  ASSUME AwakeInv, wakeups \in Nat, Waiting' \subseteq Waiting, module' # "dead",
         UNCHANGED <<spc, SPEAKING>>, wakeups' = wakeups
  PROVE  AwakeInv'
<1> QED
  BY DEF AwakeInv

\* A command of a client.
LEMMA MainThreadWakes ==
  ASSUME NoPauses, TypeInv, AwakeInv, MainThread
  PROVE  AwakeInv'
<1> USE DEF queueVars, currentVars, moduleVars
<1>1. wakeups \in Nat
  BY DEF TypeInv, TypeOK
<1>2. ASSUME NEW c \in Clients, Speak(c)
      PROVE  AwakeInv'
  <2>1. module' = module
    BY <1>2, SpeakEnqueues, EnqueueMessage DEF TypeInv
  <2>2. wakeups' = wakeups + 1
    BY <1>2 DEF Speak, speaking_semaphore_post
  <2> QED
    BY <1>1, <2>1, <2>2 DEF AwakeInv
<1>3. ASSUME NEW c, Stop(c) \/ CancelClient(c) \/ StopAll \/ CancelAllQueues
      PROVE  AwakeInv'
  <2>1. \A x \in Priorities : Subsequence(queues'[x], queues[x])
    BY <1>3, StopPrunes
  <2>2. UNCHANGED <<last_p5_block, MessagePausedList, spc, wakeups, SPEAKING>>
    BY <1>3 DEF Stop, CancelClient, StopAll, CancelAllQueues
  <2>3. module' = module
    BY <1>3, StopEffect, ApplyEffect DEF TypeInv
  <2>4. Waiting' \subseteq Waiting
    BY <2>1, <2>2, PrunesWaits
  <2> QED
    BY <1>1, <2>2, <2>3, <2>4, SleepsOn DEF AwakeInv
<1>4. ASSUME NEW c \in Clients,
             SetPriority(c) \/ BlockBegin(c) \/ BlockEnd(c) \/ Disconnect(c)
      PROVE  AwakeInv'
  <2>1. UNCHANGED <<queues, last_p5_block, MessagePausedList, spc, wakeups,
                    SPEAKING, module>>
    BY <1>4 DEF SetPriority, BlockBegin, BlockEnd, Disconnect
  <2> QED
    BY <1>1, <2>1 DEF AwakeInv, Waiting
<1>5. CASE CancelAllStop
  <2>1. UNCHANGED <<queues, last_p5_block, MessagePausedList, spc, wakeups,
                    SPEAKING, module>>
    BY <1>5 DEF CancelAllStop, OutputStop
  <2> QED
    BY <1>1, <2>1 DEF AwakeInv, Waiting
<1>6. ASSUME NEW c \in Clients, Resume(c)
      PROVE  AwakeInv'
  <2>1. module' = module /\ wakeups' = wakeups + 1
    BY <1>6 DEF Resume, speaking_semaphore_post
  <2> QED
    BY <1>1, <2>1 DEF AwakeInv
<1>7. CASE ResumeAll
  <2>1. connected \in SUBSET Clients /\ IsFiniteSet(Clients)
    BY ClientsAssumption DEF TypeInv, TypeOK
  <2>2. Cardinality(connected) \in Nat
    BY <2>1, FS_Subset, FS_CardinalityType
  <2>3. /\ UNCHANGED <<queues, last_p5_block, MessagePausedList, spc, SPEAKING,
                       module>>
        /\ wakeups' = wakeups + Cardinality(connected)
    BY <1>7 DEF ResumeAll
  <2>4. wakeups' = 0 => wakeups = 0
    BY <1>1, <2>2, <2>3
  <2>5. Waiting' = Waiting
    BY <2>3 DEF Waiting
  <2> QED
    BY <2>3, <2>4, <2>5 DEF AwakeInv
<1>8. ASSUME NEW c \in Clients, Pause(c)
      PROVE  FALSE
  BY <1>8 DEF NoPauses, Pause, Control, Serving
<1>9. CASE PauseAll
  BY <1>9 DEF NoPauses, PauseAll, Control, Serving
<1> QED
  BY <1>2, <1>3, <1>4, <1>5, <1>6, <1>7, <1>8, <1>9 DEF MainThread

\* Speakable messages of a client that is not paused: all that wait.
LEMMA NothingLeft ==
  ASSUME TypeInv, NothingPaused, SpeakNothing
  PROVE  Waiting = {}
<1>1. queues \in [Priorities -> Seq(Messages)]
  BY DEF TypeInv, TypeOK
<1>2. ASSUME NEW p \in Priorities
      PROVE  queues[p] = <<>>
  <2>1. queues[p] \in Seq(Messages)
    BY <1>1
  <2>2. \A i \in DOMAIN queues[p] : queues[p][i].uid \in Clients
    <3>1. \A i \in DOMAIN queues[p] : queues[p][i] \in Messages
      BY <2>1, LenProperties, ElementOfSeq
    <3> QED
      BY <3>1 DEF Messages
  <2>3. Speakable(p) = {}
    BY DEF SpeakNothing
  <2>4. DOMAIN queues[p] = {}
    BY <2>2, <2>3 DEF Speakable, message_nto_speak, NothingPaused
  <2> QED
    BY <2>1, <2>4, NoPositions
<1>3. PROGRESS \in Priorities
  BY DEF Priorities, IMPORTANT, PROGRESS
<1>4. last_p5_block = <<>>
  BY <1>2, <1>3 DEF SpeakNothing, Postponed
<1>5. Ids(<<>>) = {}
  BY DEF Ids
<1> QED
  BY <1>2, <1>4, <1>5 DEF Waiting, NothingPaused

\* A step of the speak thread.
LEMMA SpeakThreadWakes ==
  ASSUME NoFailures, TypeInv, NothingPaused, AwakeInv, SpeakThread
  PROVE  AwakeInv'
<1> USE DEF queueVars, currentVars, moduleVars
<1>1. wakeups \in Nat /\ module # "dead" /\ NextReload = 0 /\ pause_requested = 0
  BY NothingToReload DEF TypeInv, TypeOK, AwakeInv, NothingPaused
<1>2. CASE SpeakWake \/ SpeakReloaded \/ SpeakResumeDone
  BY <1>1, <1>2 DEF AwakeInv, SpeakWake, SpeakReloaded, SpeakResumeDone
<1>3. CASE SpeakEvent
  BY <1>1, <1>3 DEF AwakeInv, SpeakEvent
<1>4. CASE SpeakHangup \/ SpeakPause \/ SpeakPauseDone
  <2>1. CASE SpeakHangup \/ SpeakPause
    BY <1>1, <2>1 DEF SpeakHangup, HangupReady, SpeakPause
  <2>2. CASE SpeakPauseDone
    BY <2>2 DEF SpeakPauseDone, NothingPaused
  <2> QED
    BY <1>4, <2>1, <2>2
<1>5. CASE SpeakCheck
  BY <1>1, <1>5 DEF AwakeInv, SpeakCheck
<1>6. CASE SpeakReload \/ SpeakReloadFails
  BY <1>1, <1>6 DEF SpeakReload, SpeakReloadFails
<1>7. CASE SpeakPromote
  <2>1. module' = module
    BY <1>7, PromoteQueues DEF TypeInv, Promoting, SpeakPromote, Postponed
  <2>2. spc' = "promote" \/ wakeups' = wakeups + 1
    BY <1>7 DEF SpeakPromote, speaking_semaphore_post
  <2> QED
    BY <1>1, <2>1, <2>2 DEF AwakeInv
<1>8. ASSUME NEW p \in Priorities, NEW i \in DOMAIN queues[p], SpeakMessage(p, i)
      PROVE  AwakeInv'
  BY <1>8 DEF AwakeInv, SpeakMessage, StartsSpeaking
<1>9. ASSUME NEW p \in Priorities, NEW i \in DOMAIN queues[p], SpeakFails(p, i)
      PROVE  FALSE
  BY <1>1, <1>9 DEF SpeakFails, NoFailures
<1>10. CASE SpeakNothing
  <2>1. UNCHANGED <<queues, last_p5_block, MessagePausedList, module>>
    BY <1>10 DEF SpeakNothing
  <2>2. Waiting' = {}
    BY <1>10, <2>1, NothingLeft DEF Waiting
  <2> QED
    BY <1>1, <2>1, <2>2 DEF AwakeInv
<1> QED
  BY <1>2, <1>3, <1>4, <1>5, <1>6, <1>7, <1>8, <1>9, <1>10 DEF SpeakThread

\* A step of the module.
LEMMA ModuleWakes ==
  ASSUME NoFailures, TypeInv, AwakeInv, OutputModule \/ UNCHANGED vars
  PROVE  AwakeInv'
<1> USE DEF queueVars, currentVars, moduleVars
<1>1. wakeups \in Nat /\ ~ModuleCrash
  BY DEF TypeInv, TypeOK, ModuleCrash, NoFailures
<1>2. UNCHANGED <<queues, last_p5_block, MessagePausedList, spc, wakeups, SPEAKING>>
  BY <1>1 DEF vars, OutputModule, ModuleFinishes, ModuleBegin, ModuleMark,
              ModuleEnd, ModuleStops, ModulePauses, Emit
<1>3. module' = module \/ module' \in {"talking", "idle"}
  BY <1>1 DEF vars, OutputModule, ModuleFinishes, ModuleBegin, ModuleMark,
              ModuleEnd, ModuleStops, ModulePauses, Emit
<1>4. Waiting' = Waiting
  BY <1>2 DEF Waiting
<1> QED
  BY <1>1, <1>2, <1>3, <1>4, SleepsOn DEF AwakeInv

\* As long as no client pauses and no module refuses a message or dies, no
\* wake-up is lost: the bytes that the events of the module take from the pipe
\* leave enough of them for whatever waits, and the speak thread never sleeps in
\* silence while a message may be spoken.
THEOREM WakeupsSuffice ==
  ASSUME NoPauses, NoFailures
  PROVE  Spec => []NoLostWakeup
<1>1. Init => AwakeInv
  BY DEF Init, AwakeInv, Waiting, Ids
<1>2. TypeInv /\ NothingPaused /\ AwakeInv /\ [Next]_vars => AwakeInv'
  <2> SUFFICES ASSUME TypeInv, NothingPaused, AwakeInv, [Next]_vars
               PROVE  AwakeInv'
    OBVIOUS
  <2> QED
    BY MainThreadWakes, SpeakThreadWakes, ModuleWakes DEF Next
<1>3. TypeInv /\ AwakeInv => NoLostWakeup
  <2> SUFFICES ASSUME TypeInv, AwakeInv, Asleep, ~SPEAKING
               PROVE  last_p5_block = <<>> /\ \A p \in Priorities : Speakable(p) = {}
    BY DEF NoLostWakeup
  <2>1. Waiting = {}
    BY DEF AwakeInv, Asleep
  <2>2. Ids(last_p5_block) = {} /\ \A p \in Priorities : Ids(queues[p]) = {}
    BY <2>1, WhatWaits
  <2>3. last_p5_block = <<>>
    <3>1. last_p5_block \in Seq(Messages)
      BY DEF TypeInv, TypeOK
    <3>2. DOMAIN last_p5_block = {}
      BY <2>2 DEF Ids
    <3> QED
      BY <3>1, <3>2, NoPositions
  <2>4. \A p \in Priorities : Speakable(p) = {}
    BY <2>2 DEF Speakable, Ids
  <2> QED
    BY <2>3, <2>4
<1> QED
  BY <1>1, <1>2, <1>3, TypeInvariant, NothingIsPaused, PTL DEF Spec

-----------------------------------------------------------------------------
(***************************************************************************)
(* Messages of one priority stay in the order they came.  The queues are   *)
(* sorted by id, no message waits in two queues, and a copy that waits in  *)
(* last_p5_block waits nowhere else but in the queue of its original.      *)
(***************************************************************************)

\* The elements of a list of messages.
LEMMA ListOfMessages ==
  ASSUME NEW s \in Seq(Messages)
  PROVE  /\ Len(s) \in Nat /\ DOMAIN s = 1..Len(s)
         /\ \A i \in DOMAIN s : i \in Nat /\ s[i] \in Messages /\ s[i].id \in Nat
<1>1. Len(s) \in Nat /\ DOMAIN s = 1..Len(s)
  BY LenProperties
<1>2. \A i \in DOMAIN s : s[i] \in Messages
  BY <1>1, ElementOfSeq
<1>3. \A m \in Messages : m.id \in Nat
  BY BoundsAssumption DEF Messages, MessageIds
<1> QED
  BY <1>1, <1>2, <1>3

\* In a sorted list ids belong to one position.
LEMMA SortedIds ==
  ASSUME NEW s \in Seq(Messages), Sorted(s),
         NEW i \in DOMAIN s, NEW j \in DOMAIN s, s[i].id = s[j].id
  PROVE  i = j
<1>1. i \in Nat /\ j \in Nat /\ s[i].id \in Nat /\ s[j].id \in Nat
  BY ListOfMessages
<1>2. ~(i < j) /\ ~(j < i)
  BY <1>1 DEF Sorted
<1> QED
  BY <1>1, <1>2

\* Pruning keeps a list sorted.
LEMMA SortedPruned ==
  ASSUME NEW s \in Seq(Messages), NEW t \in Seq(Messages), Subsequence(t, s),
         Sorted(s)
  PROVE  Sorted(t)
<1>1. PICK f \in [DOMAIN t -> DOMAIN s] :
        /\ \A k, l \in DOMAIN t : k < l => f[k] < f[l]
        /\ \A k \in DOMAIN t : t[k] = s[f[k]]
  BY Zenon DEF Subsequence
<1> SUFFICES ASSUME NEW k \in DOMAIN t, NEW l \in DOMAIN t, k < l
             PROVE  t[k].id < t[l].id
  BY DEF Sorted
<1>2. f[k] \in DOMAIN s /\ f[l] \in DOMAIN s /\ f[k] < f[l]
  BY <1>1
<1>3. s[f[k]].id < s[f[l]].id
  BY <1>2 DEF Sorted
<1> QED
  BY <1>1, <1>3

\* A list t that is s with a message added at its end.
LEMMA AppendedList ==
  ASSUME NEW s \in Seq(Messages), NEW m \in Messages,
         NEW t, t = Append(s, m)
  PROVE  /\ t \in Seq(Messages)
         /\ Ids(t) = Ids(s) \cup {m.id}
         /\ Sorted(s) /\ (\A i \in Ids(s) : i < m.id) => Sorted(t)
<1>1. t \in Seq(Messages)
  BY AppendProperties
<1>2. /\ Len(s) \in Nat /\ DOMAIN s = 1..Len(s)
      /\ DOMAIN t = 1..(Len(s) + 1)
      /\ \A i \in 1..Len(s) : t[i] = s[i]
      /\ t[Len(s) + 1] = m
  BY <1>1, AppendProperties, LenProperties
<1>3. /\ \A i \in DOMAIN s : i \in DOMAIN t /\ t[i] = s[i]
      /\ Len(s) + 1 \in DOMAIN t
      /\ \A i \in DOMAIN t : i \in DOMAIN s \/ i = Len(s) + 1
  BY <1>2
<1>4. Ids(t) = Ids(s) \cup {m.id}
  BY <1>2, <1>3 DEF Ids
<1>5. ASSUME Sorted(s), \A i \in Ids(s) : i < m.id,
             NEW k \in DOMAIN t, NEW l \in DOMAIN t, k < l
      PROVE  t[k].id < t[l].id
  <2>1. k \in DOMAIN s /\ t[k] = s[k]
    BY <1>2, <1>5
  <2>2. CASE l \in DOMAIN s
    BY <1>3, <1>5, <2>1, <2>2 DEF Sorted
  <2>3. CASE l = Len(s) + 1
    <3>1. s[k].id \in Ids(s)
      BY <2>1 DEF Ids
    <3> QED
      BY <1>2, <1>5, <2>1, <2>3, <3>1
  <2> QED
    BY <1>3, <2>2, <2>3
<1> QED
  BY <1>1, <1>4, <1>5 DEF Sorted

\* A list without its first message.
LEMMA TailOfList ==
  ASSUME NEW s \in Seq(Messages), s # <<>>, NEW t, t = Tail(s)
  PROVE  /\ t \in Seq(Messages)
         /\ Head(s) \in Messages /\ Head(s).id \in Ids(s)
         /\ Ids(t) \subseteq Ids(s)
         /\ Sorted(s) => Sorted(t) /\ Head(s).id \notin Ids(t)
<1>1. t \in Seq(Messages) /\ Head(s) \in Messages
  BY HeadTailProperties
<1>2. /\ Len(s) \in Nat \ {0} /\ DOMAIN s = 1..Len(s) /\ Head(s) = s[1]
      /\ DOMAIN t = 1..Len(t)
      /\ Len(t) = Len(s) - 1
      /\ \A i \in 1..Len(t) : t[i] = s[i + 1]
  <2>1. Len(s) \in Nat \ {0} /\ DOMAIN s = 1..Len(s) /\ DOMAIN t = 1..Len(t)
    BY <1>1, EmptySeq, LenProperties
  <2> QED
    BY <2>1, HeadTailProperties
<1>3. 1 \in DOMAIN s /\ \A i \in DOMAIN t : i + 1 \in DOMAIN s /\ i \in Nat /\ 1 < i + 1
                                            /\ t[i] = s[i + 1]
  BY <1>2
<1>4. Head(s).id \in Ids(s) /\ Ids(t) \subseteq Ids(s)
  BY <1>2, <1>3 DEF Ids
<1>5. ASSUME Sorted(s), NEW k \in DOMAIN t, NEW l \in DOMAIN t, k < l
      PROVE  t[k].id < t[l].id
  <2>1. k + 1 < l + 1
    BY <1>3, <1>5
  <2> QED
    BY <1>3, <1>5, <2>1 DEF Sorted
<1>6. ASSUME Sorted(s), NEW k \in DOMAIN t
      PROVE  t[k].id # Head(s).id
  <2>1. s[1].id < s[k + 1].id /\ s[1].id \in Nat
    BY <1>3, <1>6, ListOfMessages DEF Sorted
  <2> QED
    BY <1>2, <1>3, <2>1, ListOfMessages
<1> QED
  BY <1>1, <1>4, <1>5, <1>6 DEF Sorted, Ids

\* The ids after a message was inserted.
LEMMA InsertedIds ==
  ASSUME NEW s \in Seq(Messages), NEW m \in Messages
  PROVE  Ids(InsertById(s, m)) \subseteq Ids(s) \cup {m.id}
<1>1. \A k \in DOMAIN InsertById(s, m) :
        InsertById(s, m)[k] = m \/ \E i \in DOMAIN s : InsertById(s, m)[k] = s[i]
  BY InsertByIdAdds
<1> QED
  BY <1>1 DEF Ids

\* Where g_list_insert_sorted puts a message of an id that is new to the list:
\* before it are exactly the messages with smaller ids.
LEMMA InsertPosition ==
  ASSUME NEW s \in Seq(Messages), NEW m \in Messages, Sorted(s),
         m.id \notin Ids(s)
  PROVE  \E n \in Nat :
           /\ n <= Len(s)
           /\ {i \in DOMAIN s : \A j \in 1..i : s[j].id < m.id} = 1..n
           /\ \A j \in 1..n : s[j].id < m.id
           /\ \A j \in (n + 1)..Len(s) : m.id < s[j].id
<1> DEFINE before == {i \in DOMAIN s : \A j \in 1..i : s[j].id < m.id}
           after  == {i \in DOMAIN s : ~(s[i].id < m.id)}
           l      == Len(s)
<1>1. /\ l \in Nat /\ DOMAIN s = 1..l
      /\ \A i \in DOMAIN s : i \in Nat /\ s[i].id \in Nat
  BY ListOfMessages
<1>2. m.id \in Nat
  BY BoundsAssumption DEF Messages, MessageIds
<1> HIDE DEF l
<1>3. SUFFICES \E n \in Nat : /\ n <= l
                              /\ before = 1..n
                              /\ \A j \in 1..n : s[j].id < m.id
                              /\ \A j \in (n + 1)..l : m.id < s[j].id
  BY DEF l
<1>4. CASE after = {}
  <2>1. \A j \in 1..l : s[j].id < m.id
    BY <1>1, <1>4
  <2>2. \A i \in 1..l : \A j \in 1..i : j \in 1..l
    BY <1>1
  <2>3. before = 1..l
    BY <1>1, <2>1, <2>2
  <2> HIDE DEF before, after
  <2>4. l <= l /\ (l + 1)..l = {}
    BY <1>1
  <2> QED
    BY <1>1, <2>1, <2>3, <2>4
<1>5. CASE after # {}
  <2>1. after \in SUBSET (DOMAIN s)
    OBVIOUS
  <2>2. PICK a \in after : \A j \in after : a <= j
    <3> HIDE DEF after
    <3> QED
      BY <1>5, <2>1, FirstPosition
  <2>3. a \in 1..l /\ a \in Nat /\ ~(s[a].id < m.id)
    BY <1>1, <2>2
  <2>4. \A j \in 1..(a - 1) : s[j].id < m.id
    <3> SUFFICES ASSUME NEW j \in 1..(a - 1), ~(s[j].id < m.id)
                 PROVE  FALSE
      OBVIOUS
    <3>1. j \in DOMAIN s /\ j < a
      BY <1>1, <2>3
    <3>2. j \in after
      BY <3>1
    <3> QED
      BY <2>2, <2>3, <3>1, <3>2
  <2>5. before = 1..(a - 1)
    <3>1. ASSUME NEW i \in before
          PROVE  i \in 1..(a - 1)
      <4>1. i \in 1..l /\ i \in Nat /\ \A j \in 1..i : s[j].id < m.id
        BY <1>1, <3>1
      <4>2. a \notin 1..i
        BY <2>3, <4>1
      <4> QED
        BY <2>3, <4>1, <4>2
    <3>2. ASSUME NEW i \in 1..(a - 1)
          PROVE  i \in before
      <4>1. i \in DOMAIN s /\ \A j \in 1..i : j \in 1..(a - 1)
        BY <1>1, <2>3
      <4> QED
        BY <2>4, <4>1
    <3> QED
      BY <3>1, <3>2
  <2>6. ASSUME NEW j \in a..l
        PROVE  m.id < s[j].id
    <3>1. /\ j \in DOMAIN s /\ a \in DOMAIN s
          /\ s[j].id \in Nat /\ s[a].id \in Nat /\ j \in Nat
      BY <1>1, <2>3
    <3>2. s[a].id # m.id
      BY <3>1 DEF Ids
    <3>3. j = a \/ s[a].id < s[j].id
      BY <2>3, <3>1 DEF Sorted
    <3> QED
      BY <1>2, <2>3, <3>1, <3>2, <3>3
  <2>7. a - 1 \in Nat /\ a - 1 <= l /\ (a - 1) + 1 = a
    BY <1>1, <2>3
  <2> HIDE DEF before, after
  <2> QED
    BY <2>4, <2>5, <2>6, <2>7
<1> QED
  BY <1>4, <1>5

\* Inserting a message of a new id keeps a list sorted.
LEMMA SortedInserted ==
  ASSUME NEW s \in Seq(Messages), NEW m \in Messages, Sorted(s),
         m.id \notin Ids(s)
  PROVE  Sorted(InsertById(s, m))
<1> DEFINE n == Cardinality({i \in DOMAIN s : \A j \in 1..i : s[j].id < m.id})
           a == SubSeq(s, 1, n)
           b == SubSeq(s, n + 1, Len(s))
           c == a \o <<m>>
           t == c \o b
<1>1. /\ Len(s) \in Nat /\ DOMAIN s = 1..Len(s)
      /\ \A i \in 1..Len(s) : i \in Nat /\ s[i] \in Messages /\ s[i].id \in Nat
  BY ListOfMessages
<1>2. /\ n \in Nat /\ n <= Len(s)
      /\ \A j \in 1..n : s[j].id < m.id
      /\ \A j \in (n + 1)..Len(s) : m.id < s[j].id
  <2>1. PICK k \in Nat :
          /\ k <= Len(s)
          /\ {i \in DOMAIN s : \A j \in 1..i : s[j].id < m.id} = 1..k
          /\ \A j \in 1..k : s[j].id < m.id
          /\ \A j \in (k + 1)..Len(s) : m.id < s[j].id
    BY InsertPosition
  <2>2. n = Cardinality(1..k)
    BY <2>1, Zenon
  <2> HIDE DEF n
  <2>3. Cardinality(1..k) = k
    <3>1. k \in Int /\ 1 \in Int
      OBVIOUS
    <3>2. Cardinality(1..k) = IF 1 > k THEN 0 ELSE k - 1 + 1
      BY <3>1, FS_Interval
    <3> QED
      BY <3>2
  <2>4. n = k
    BY <2>2, <2>3, Zenon
  <2> QED
    BY <2>1, <2>4, Zenon
<1>3. t = InsertById(s, m)
  BY DEF InsertById
<1> HIDE DEF n
<1>4. /\ a \in Seq(Messages)
      /\ Len(a) = n
      /\ \A k \in 1..n : a[k] = s[k]
  <2>1. 1 \in Int /\ n \in Int /\ \A k \in 1..n : s[k] \in Messages
    BY <1>1, <1>2
  <2>2. /\ a \in Seq(Messages)
        /\ Len(a) = IF 1 <= n THEN n - 1 + 1 ELSE 0
        /\ \A k \in 1..(n - 1 + 1) : a[k] = s[1 + k - 1]
    BY <2>1, SubSeqProperties
  <2> HIDE DEF a
  <2> QED
    BY <1>2, <2>2
<1>5. /\ b \in Seq(Messages)
      /\ Len(b) = Len(s) - n
      /\ \A k \in 1..(Len(s) - n) : b[k] = s[n + k]
  <2> DEFINE l == Len(s)
  <2>1. n + 1 \in Int /\ l \in Int /\ \A k \in (n + 1)..l : s[k] \in Messages
    BY <1>1, <1>2
  <2>2. /\ b \in Seq(Messages)
        /\ Len(b) = IF n + 1 <= l THEN l - (n + 1) + 1 ELSE 0
        /\ \A k \in 1..(l - (n + 1) + 1) : b[k] = s[n + 1 + k - 1]
    BY <2>1, SubSeqProperties
  <2>3. l \in Nat /\ n \in Nat /\ n <= l
    BY <1>1, <1>2
  <2> HIDE DEF b, l
  <2>4. /\ b \in Seq(Messages)
        /\ Len(b) = l - n
        /\ \A k \in 1..(l - n) : b[k] = s[n + k]
    BY <2>2, <2>3
  <2> QED
    BY <2>4 DEF l
<1> HIDE DEF a, b
<1>6. /\ c \in Seq(Messages)
      /\ Len(c) = n + 1
      /\ \A k \in 1..n : c[k] = s[k]
      /\ c[n + 1] = m
  <2>1. <<m>> \in Seq(Messages) /\ Len(<<m>>) = 1 /\ <<m>>[1] = m
    OBVIOUS
  <2>2. /\ c \in Seq(Messages)
        /\ Len(c) = Len(a) + Len(<<m>>)
        /\ \A k \in 1..(Len(a) + Len(<<m>>)) :
             c[k] = IF k <= Len(a) THEN a[k] ELSE <<m>>[k - Len(a)]
    BY <1>4, <2>1, ConcatProperties
  <2> HIDE DEF c
  <2> QED
    BY <1>2, <1>4, <2>1, <2>2
<1> HIDE DEF c
<1>7. /\ t \in Seq(Messages)
      /\ DOMAIN t = 1..(Len(s) + 1)
      /\ \A k \in 1..n : t[k] = s[k]
      /\ t[n + 1] = m
      /\ \A k \in (n + 2)..(Len(s) + 1) : t[k] = s[k - 1]
  <2>1. /\ t \in Seq(Messages)
        /\ Len(t) = Len(c) + Len(b)
        /\ \A k \in 1..(Len(c) + Len(b)) :
             t[k] = IF k <= Len(c) THEN c[k] ELSE b[k - Len(c)]
    BY <1>5, <1>6, ConcatProperties
  <2>2. DOMAIN t = 1..Len(t)
    BY <2>1, LenProperties
  <2> HIDE DEF t
  <2>3. Len(t) = Len(s) + 1
    BY <1>1, <1>2, <1>5, <1>6, <2>1
  <2>4. (\A k \in 1..n : t[k] = s[k]) /\ t[n + 1] = m
    <3>1. Len(c) + Len(b) = Len(s) + 1 /\ n + 1 <= Len(s) + 1
      BY <1>1, <1>2, <1>5, <1>6
    <3>2. ASSUME NEW k \in 1..(n + 1)
          PROVE  t[k] = c[k]
      <4>1. k \in 1..(Len(c) + Len(b)) /\ k <= Len(c)
        BY <1>1, <1>2, <1>6, <3>1
      <4> QED
        BY <2>1, <4>1
    <3>3. n + 1 \in 1..(n + 1) /\ \A k \in 1..n : k \in 1..(n + 1)
      BY <1>2
    <3> QED
      BY <1>6, <3>2, <3>3
  <2>5. ASSUME NEW k \in (n + 2)..(Len(s) + 1)
        PROVE  t[k] = s[k - 1]
    <3>1. /\ k \in 1..(Len(c) + Len(b)) /\ ~(k <= Len(c))
          /\ k - Len(c) \in 1..(Len(s) - n)
          /\ n + (k - Len(c)) = k - 1
      BY <1>1, <1>2, <1>5, <1>6
    <3> QED
      BY <1>5, <2>1, <3>1
  <2> QED
    BY <2>1, <2>2, <2>3, <2>4, <2>5
<1> HIDE DEF t
<1>8. m.id \in Nat
  BY BoundsAssumption DEF Messages, MessageIds
<1>9. ASSUME NEW k \in DOMAIN t, NEW l \in DOMAIN t, k < l
      PROVE  t[k].id < t[l].id
  <2>1. CASE l <= n
    BY <1>1, <1>2, <1>7, <1>9, <2>1 DEF Sorted
  <2>2. CASE l = n + 1
    BY <1>1, <1>2, <1>7, <1>9, <2>2
  <2>3. CASE l > n + 1
    <3>1. /\ t[l] = s[l - 1] /\ l - 1 \in (n + 1)..Len(s) /\ l - 1 \in DOMAIN s
          /\ m.id < s[l - 1].id
      BY <1>1, <1>2, <1>7, <2>3
    <3>2. CASE k <= n
      <4>1. t[k] = s[k] /\ k \in DOMAIN s /\ k < l - 1
        BY <1>1, <1>2, <1>7, <1>9, <2>3, <3>2
      <4> QED
        BY <3>1, <4>1 DEF Sorted
    <3>3. CASE k = n + 1
      BY <1>7, <3>1, <3>3
    <3>4. CASE k > n + 1
      <4>1. t[k] = s[k - 1] /\ k - 1 \in DOMAIN s /\ k - 1 < l - 1
        BY <1>1, <1>2, <1>7, <1>9, <3>4
      <4> QED
        BY <3>1, <4>1 DEF Sorted
    <3> QED
      BY <1>2, <1>7, <3>2, <3>3, <3>4
  <2> QED
    BY <1>2, <1>7, <2>1, <2>2, <2>3
<1> QED
  BY <1>3, <1>9 DEF Sorted

OrderInv ==
  /\ \A p \in Priorities : Sorted(queues[p])
  /\ Sorted(last_p5_block)
  /\ \A p, r \in Priorities : p # r => Ids(queues[p]) \cap Ids(queues[r]) = {}
  /\ \A p \in Priorities \ {PROGRESS} :
       Ids(queues[p]) \cap Ids(last_p5_block) = {}
  /\ \A p \in Priorities : \A i \in Ids(queues[p]) : i <= last_message_id
  /\ \A i \in Ids(last_p5_block) : i <= last_message_id
  /\ spc = "promote" => queues[PROGRESS] = <<>>

\* A message of the next id arrives in queue p.
Arrives(m, p) ==
  /\ m.id = last_message_id + 1
  /\ Enqueue(m, p)
  /\ last_message_id' = last_message_id + 1
  /\ spc # "promote" /\ spc' = spc

\* Messages leave the queues, and nothing else happens to the lists.
Leave ==
  /\ \A x \in Priorities : Subsequence(queues'[x], queues[x])
  /\ last_p5_block' \in {last_p5_block, <<>>}
  /\ last_message_id' = last_message_id
  /\ spc' = "promote" => spc = "promote"

\* Without pauses, a step changes the lists in one of three ways.
LEMMA OrderSteps ==
  ASSUME TypeInv, NothingPaused, [Next]_vars
  PROVE  \/ \E m \in Messages, p \in Priorities : Arrives(m, p)
         \/ SpeakPromote
         \/ Leave
<1> USE DEF queueVars, counterVars
<1>1. ASSUME NEW c \in Clients, Speak(c)
      PROVE  \E m \in Messages, p \in Priorities : Arrives(m, p)
  <2>1. PICK m \in Messages, p \in Priorities :
          m.id = last_message_id + 1 /\ Enqueue(m, p)
    BY <1>1, SpeakEnqueues
  <2>2. /\ last_message_id' = last_message_id + 1
        /\ spc # "promote" /\ spc' = spc
    BY <1>1 DEF Speak, Unlocked
  <2> QED
    BY <2>1, <2>2 DEF Arrives
<1>2. CASE SpeakReload \/ SpeakReloadFails
  BY <1>2, NothingToReload DEF NothingPaused, SpeakReload, SpeakReloadFails
<1>3. ASSUME NEW c, Stop(c) \/ CancelClient(c) \/ StopAll \/ CancelAllQueues
      PROVE  Leave
  <2>1. \A x \in Priorities : Subsequence(queues'[x], queues[x])
    BY <1>3, StopPrunes
  <2>2. UNCHANGED <<last_p5_block, last_message_id, spc>>
    BY <1>3 DEF Stop, CancelClient, StopAll, CancelAllQueues
  <2> QED
    BY <2>1, <2>2 DEF Leave
<1>4. ASSUME NEW p \in Priorities, NEW i \in DOMAIN queues[p],
             SpeakMessage(p, i) \/ SpeakFails(p, i)
      PROVE  Leave
  <2>1. \A x \in Priorities : Subsequence(queues'[x], queues[x])
    BY <1>4, TakePrunes DEF SpeakMessage, SpeakFails
  <2>2. last_message_id' = last_message_id /\ spc' = "poll"
    BY <1>4 DEF SpeakMessage, SpeakFails, Take
  <2>3. last_p5_block' \in {last_p5_block, <<>>}
    BY <1>4 DEF SpeakMessage, SpeakFails
  <2> QED
    BY <2>1, <2>2, <2>3 DEF Leave
<1>5. ASSUME UNCHANGED <<queues, last_p5_block, last_message_id>>,
             spc' = "promote" => spc = "promote"
      PROVE  Leave
  <2>1. ASSUME NEW x \in Priorities
        PROVE  Subsequence(queues'[x], queues[x])
    <3>1. queues[x] \in Seq(Messages)
      BY DEF TypeInv, TypeOK
    <3> QED
      BY <1>5, <3>1, SubsequenceReflexive
  <2> QED
    BY <1>5, <2>1 DEF Leave
<1>6. ASSUME NEW c \in Clients,
             \/ SetPriority(c) \/ BlockBegin(c) \/ BlockEnd(c)
             \/ Pause(c) \/ Resume(c) \/ Disconnect(c)
      PROVE  Leave
  <2>1. UNCHANGED <<queues, last_p5_block, last_message_id, spc>>
    BY <1>6 DEF SetPriority, BlockBegin, BlockEnd, Pause, Resume, Disconnect
  <2> QED
    BY <1>5, <2>1
<1>7. CASE CancelAllStop \/ PauseAll \/ ResumeAll \/ OutputModule \/ UNCHANGED vars
  <2>1. UNCHANGED <<queues, last_p5_block, last_message_id, spc>>
    BY <1>7 DEF CancelAllStop, PauseAll, ResumeAll, OutputModule, ModuleFinishes,
                ModuleBegin, ModuleMark, ModuleEnd, ModuleStops, ModulePauses,
                ModuleCrash, Emit, vars
  <2> QED
    BY <1>5, <2>1
<1>8. CASE \/ SpeakWake \/ SpeakEvent \/ SpeakHangup
           \/ SpeakPause \/ SpeakPauseDone \/ SpeakCheck
           \/ SpeakReloaded \/ SpeakResumeDone \/ SpeakNothing
  <2>1. UNCHANGED <<queues, last_p5_block, last_message_id>> /\ spc' # "promote"
    BY <1>8 DEF SpeakWake, SpeakEvent, SpeakHangup, SpeakPause, SpeakPauseDone,
                SpeakCheck, SpeakReloaded, SpeakResumeDone, SpeakNothing
  <2> QED
    BY <1>5, <2>1
<1>9. CASE MainThread
  BY <1>1, <1>3, <1>6, <1>7, <1>9 DEF MainThread
<1>10. CASE SpeakThread
  BY <1>2, <1>4, <1>8, <1>10 DEF SpeakThread
<1> QED
  BY <1>7, <1>9, <1>10 DEF Next

\* The copies that are kept after a message arrived: still sorted.
LEMMA CopiesSorted ==
  ASSUME TypeInv, OrderInv, NEW m \in Messages, NEW p \in Priorities, Arrives(m, p)
  PROVE  /\ Sorted(last_p5_block')
         /\ p # PROGRESS => last_p5_block' = last_p5_block
<1> DEFINE copy == [m EXCEPT !.copy = TRUE]
           kept == IF last_p5_block = <<>>
                      \/ last_p5_block[Len(last_p5_block)].gid # m.gid
                   THEN <<>> ELSE last_p5_block
<1>1. copy \in Messages /\ copy.id = m.id
  BY DEF Messages
<1>2. last_p5_block \in Seq(Messages) /\ last_message_id \in Nat
  BY BoundsAssumption DEF TypeInv, TypeOK
<1>3. /\ kept \in Seq(Messages) /\ Sorted(kept)
      /\ \A i \in Ids(kept) : i <= last_message_id
  BY <1>2 DEF OrderInv, Sorted, Ids
<1>4. CASE p = PROGRESS
  <2>1. last_p5_block' = Append(kept, copy)
    BY <1>4 DEF Arrives, Enqueue
  <2> HIDE DEF kept, copy
  <2>2. \A i \in Ids(kept) : i \in Nat
    BY <1>3, ListOfMessages DEF Ids
  <2>3. \A i \in Ids(kept) : i < copy.id
    BY <1>1, <1>2, <1>3, <2>2 DEF Arrives
  <2> QED
    BY <1>1, <1>3, <1>4, <2>1, <2>3, AppendedList
<1>5. CASE p # PROGRESS
  <2>1. last_p5_block' = last_p5_block
    BY <1>5 DEF Arrives, Enqueue
  <2> QED
    BY <1>5, <2>1 DEF OrderInv
<1> QED
  BY <1>4, <1>5

\* A message that arrives is the newest of its queue.
LEMMA ArrivesInOrder ==
  ASSUME TypeInv, TypeInv', OrderInv, NEW m \in Messages, NEW p \in Priorities,
         Arrives(m, p)
  PROVE  OrderInv'
<1>1. /\ queues \in [Priorities -> Seq(Messages)]
      /\ queues' \in [Priorities -> Seq(Messages)]
      /\ last_message_id \in Nat
      /\ last_message_id' = last_message_id + 1
      /\ m.id = last_message_id + 1
  <2>1. last_message_id \in Nat
    BY BoundsAssumption DEF TypeInv, TypeOK
  <2>2. last_message_id' = last_message_id + 1 /\ m.id = last_message_id + 1
    BY DEF Arrives
  <2> QED
    BY <2>1, <2>2 DEF TypeInv, TypeOK
<1>2. /\ \A x \in Priorities :
           Subsequence(queues'[x],
                       IF x = p THEN Append(queues[x], m) ELSE queues[x])
      /\ Ids(last_p5_block') \subseteq Ids(last_p5_block) \cup {m.id}
  BY EnqueueMessage DEF TypeInv, Arrives
<1>3. ASSUME NEW x \in Priorities
      PROVE  /\ Sorted(queues'[x])
             /\ Ids(queues'[x]) \subseteq
                  IF x = p THEN Ids(queues[x]) \cup {m.id} ELSE Ids(queues[x])
  <2> DEFINE s == queues[x]
             t == Append(s, m)
  <2>1. s \in Seq(Messages) /\ queues'[x] \in Seq(Messages) /\ Sorted(s)
    BY <1>1 DEF OrderInv
  <2>2. \A i \in Ids(s) : i \in Nat /\ i < m.id
    <3>1. \A i \in Ids(s) : i <= last_message_id
      BY DEF OrderInv
    <3>2. \A i \in Ids(s) : i \in Nat
      BY <2>1, ListOfMessages DEF Ids
    <3> QED
      BY <1>1, <3>1, <3>2
  <2>3. CASE x = p
    <3>1. Subsequence(queues'[x], t)
      BY <1>2, <2>3
    <3> HIDE DEF s, t
    <3>2. t = Append(s, m)
      BY DEF t
    <3>3. t \in Seq(Messages) /\ Ids(t) = Ids(s) \cup {m.id} /\ Sorted(t)
      BY <2>1, <2>2, <3>2, AppendedList
    <3>4. Sorted(queues'[x]) /\ Ids(queues'[x]) \subseteq Ids(t)
      BY <2>1, <3>1, <3>3, SortedPruned, PrunedIds
    <3> QED
      BY <2>3, <3>3, <3>4 DEF s
  <2>4. CASE x # p
    <3>1. Subsequence(queues'[x], s)
      BY <1>2, <2>4
    <3> HIDE DEF s
    <3>2. Sorted(queues'[x]) /\ Ids(queues'[x]) \subseteq Ids(s)
      BY <2>1, <3>1, SortedPruned, PrunedIds
    <3> QED
      BY <2>4, <3>2 DEF s
  <2> QED
    BY <2>3, <2>4
<1>4. /\ \A x \in Priorities : m.id \notin Ids(queues[x])
      /\ m.id \notin Ids(last_p5_block)
  BY <1>1 DEF OrderInv
<1>5. ASSUME NEW x \in Priorities, NEW y \in Priorities, x # y
      PROVE  Ids(queues'[x]) \cap Ids(queues'[y]) = {}
  <2>1. Ids(queues[x]) \cap Ids(queues[y]) = {}
    BY <1>5 DEF OrderInv
  <2> QED
    BY <1>3, <1>4, <1>5, <2>1
<1>6. ASSUME NEW x \in Priorities \ {PROGRESS}
      PROVE  Ids(queues'[x]) \cap Ids(last_p5_block') = {}
  <2>1. Ids(queues[x]) \cap Ids(last_p5_block) = {}
    BY DEF OrderInv
  <2>2. CASE p = PROGRESS
    BY <1>2, <1>3, <1>4, <2>1, <2>2
  <2>3. CASE p # PROGRESS
    <3>1. last_p5_block' = last_p5_block
      BY <2>3, CopiesSorted
    <3> QED
      BY <1>3, <1>4, <2>1, <3>1
  <2> QED
    BY <2>2, <2>3
<1>7. ASSUME NEW x \in Priorities, NEW i \in Ids(queues'[x])
      PROVE  i <= last_message_id'
  <2>1. i \in Nat
    <3>1. queues'[x] \in Seq(Messages)
      BY <1>1
    <3> QED
      BY <3>1, ListOfMessages DEF Ids
  <2>2. i \in Ids(queues[x]) \/ i = m.id
    BY <1>3
  <2> QED
    BY <1>1, <2>1, <2>2 DEF OrderInv
<1>8. ASSUME NEW i \in Ids(last_p5_block')
      PROVE  i <= last_message_id'
  <2>1. i \in Nat
    <3>1. last_p5_block' \in Seq(Messages)
      BY DEF TypeInv, TypeOK
    <3> QED
      BY <3>1, ListOfMessages DEF Ids
  <2>2. i \in Ids(last_p5_block) \/ i = m.id
    BY <1>2
  <2> QED
    BY <1>1, <2>1, <2>2 DEF OrderInv
<1>9. spc' # "promote"
  BY DEF Arrives
<1> QED
  BY <1>3, <1>5, <1>6, <1>7, <1>8, <1>9, CopiesSorted DEF OrderInv

\* Messages that leave their queues leave the others in order.
LEMMA LeaveInOrder ==
  ASSUME TypeInv, TypeInv', OrderInv, Leave
  PROVE  OrderInv'
<1>1. /\ queues \in [Priorities -> Seq(Messages)]
      /\ queues' \in [Priorities -> Seq(Messages)]
      /\ last_message_id' = last_message_id
  BY DEF TypeInv, TypeOK, Leave
<1>2. ASSUME NEW x \in Priorities
      PROVE  Sorted(queues'[x]) /\ Ids(queues'[x]) \subseteq Ids(queues[x])
  <2>1. /\ queues[x] \in Seq(Messages) /\ queues'[x] \in Seq(Messages)
        /\ Subsequence(queues'[x], queues[x]) /\ Sorted(queues[x])
    BY <1>1 DEF OrderInv, Leave
  <2> QED
    BY <2>1, SortedPruned, PrunedIds
<1>3. Sorted(last_p5_block') /\ Ids(last_p5_block') \subseteq Ids(last_p5_block)
  BY DEF OrderInv, Leave, Sorted, Ids
<1>4. spc' = "promote" => queues'[PROGRESS] = <<>>
  <2> SUFFICES ASSUME spc' = "promote"
               PROVE  queues'[PROGRESS] = <<>>
    OBVIOUS
  <2>1. PROGRESS \in Priorities
    BY DEF Priorities, IMPORTANT, PROGRESS
  <2>2. queues[PROGRESS] = <<>>
    BY DEF Leave, OrderInv
  <2>3. Ids(queues'[PROGRESS]) \subseteq {}
    BY <1>2, <2>1, <2>2, NoIds
  <2>4. DOMAIN queues'[PROGRESS] = {}
    BY <2>3 DEF Ids
  <2>5. queues'[PROGRESS] \in Seq(Messages)
    BY <1>1, <2>1
  <2> QED
    BY <2>4, <2>5, NoPositions
<1>5. /\ \A x, y \in Priorities :
           x # y => Ids(queues'[x]) \cap Ids(queues'[y]) = {}
      /\ \A x \in Priorities \ {PROGRESS} :
           Ids(queues'[x]) \cap Ids(last_p5_block') = {}
      /\ \A x \in Priorities : \A i \in Ids(queues'[x]) : i <= last_message_id
      /\ \A i \in Ids(last_p5_block') : i <= last_message_id
  BY <1>2, <1>3, Zenon DEF OrderInv
<1> QED
  BY <1>1, <1>2, <1>3, <1>4, <1>5 DEF OrderInv

\* A copy that is moved to the queue of priority message takes its place there.
LEMMA PromotesInOrder ==
  ASSUME TypeInv, TypeInv', OrderInv, SpeakPromote
  PROVE  OrderInv'
<1> DEFINE m == Head(last_p5_block)
<1>1. /\ queues \in [Priorities -> Seq(Messages)]
      /\ queues' \in [Priorities -> Seq(Messages)]
      /\ last_p5_block \in Seq(Messages) /\ last_p5_block # <<>>
      /\ last_p5_block' = Tail(last_p5_block)
      /\ queues[PROGRESS] = <<>>
      /\ last_message_id' = last_message_id
  BY DEF TypeInv, TypeOK, Promoting, SpeakPromote, Postponed, OrderInv, counterVars
<1>2. MESSAGE \in Priorities /\ PROGRESS \in Priorities /\ MESSAGE # PROGRESS
  BY DEF Priorities, IMPORTANT, MESSAGE, PROGRESS
<1>3. /\ m \in Messages /\ m.id \in Ids(last_p5_block)
      /\ Ids(last_p5_block') \subseteq Ids(last_p5_block)
      /\ Sorted(last_p5_block') /\ m.id \notin Ids(last_p5_block')
  BY <1>1, TailOfList DEF OrderInv
<1>4. \A x \in Priorities :
        Subsequence(queues'[x],
                    IF x = MESSAGE THEN InsertById(queues[x], m) ELSE queues[x])
  BY <1>1, PromoteQueues DEF TypeInv
<1> HIDE DEF m
<1>5. \A x \in Priorities : m.id \notin Ids(queues[x])
  <2>1. Ids(queues[PROGRESS]) = {}
    BY <1>1 DEF Ids
  <2> QED
    BY <1>3, <2>1 DEF OrderInv
<1>6. ASSUME NEW x \in Priorities
      PROVE  /\ Sorted(queues'[x])
             /\ Ids(queues'[x]) \subseteq
                  IF x = MESSAGE THEN Ids(queues[x]) \cup {m.id}
                  ELSE Ids(queues[x])
  <2>1. /\ queues[x] \in Seq(Messages) /\ queues'[x] \in Seq(Messages)
        /\ Sorted(queues[x]) /\ m.id \notin Ids(queues[x])
    BY <1>1, <1>5 DEF OrderInv
  <2>2. CASE x = MESSAGE
    <3>1. Subsequence(queues'[x], InsertById(queues[x], m))
      BY <1>4, <2>2
    <3>2. InsertById(queues[x], m) \in Seq(Messages)
      BY <1>3, <2>1, InsertByIdAdds
    <3>3. Sorted(InsertById(queues[x], m))
      BY <1>3, <2>1, SortedInserted
    <3>4. Ids(InsertById(queues[x], m)) \subseteq Ids(queues[x]) \cup {m.id}
      BY <1>3, <2>1, InsertedIds
    <3>5. Sorted(queues'[x])
      BY <2>1, <3>1, <3>2, <3>3, SortedPruned
    <3>6. Ids(queues'[x]) \subseteq Ids(InsertById(queues[x], m))
      BY <3>1, PrunedIds
    <3> QED
      BY <2>2, <3>4, <3>5, <3>6
  <2>3. CASE x # MESSAGE
    <3>1. Subsequence(queues'[x], queues[x])
      BY <1>4, <2>3
    <3>2. Sorted(queues'[x]) /\ Ids(queues'[x]) \subseteq Ids(queues[x])
      BY <2>1, <3>1, SortedPruned, PrunedIds
    <3> QED
      BY <2>3, <3>2
  <2> QED
    BY <2>2, <2>3
<1>7. ASSUME NEW x \in Priorities, NEW y \in Priorities, x # y
      PROVE  Ids(queues'[x]) \cap Ids(queues'[y]) = {}
  <2>1. Ids(queues[x]) \cap Ids(queues[y]) = {}
    BY <1>7 DEF OrderInv
  <2> QED
    BY <1>5, <1>6, <1>7, <2>1
<1>8. ASSUME NEW x \in Priorities \ {PROGRESS}
      PROVE  Ids(queues'[x]) \cap Ids(last_p5_block') = {}
  <2>1. Ids(queues[x]) \cap Ids(last_p5_block) = {}
    BY DEF OrderInv
  <2> QED
    BY <1>3, <1>6, <2>1
<1>9. ASSUME NEW x \in Priorities, NEW i \in Ids(queues'[x])
      PROVE  i <= last_message_id
  <2>1. i \in Ids(queues[x]) \/ i \in Ids(last_p5_block)
    BY <1>3, <1>6
  <2> QED
    BY <2>1 DEF OrderInv
<1>10. \A i \in Ids(last_p5_block') : i <= last_message_id
  BY <1>3 DEF OrderInv
<1>11. queues'[PROGRESS] = <<>>
  <2>1. Ids(queues'[PROGRESS]) \subseteq {}
    BY <1>1, <1>2, <1>6, NoIds
  <2>2. DOMAIN queues'[PROGRESS] = {}
    BY <2>1 DEF Ids
  <2>3. queues'[PROGRESS] \in Seq(Messages)
    BY <1>1, <1>2
  <2> QED
    BY <2>2, <2>3, NoPositions
<1> QED
  BY <1>1, <1>3, <1>6, <1>7, <1>8, <1>9, <1>10, <1>11 DEF OrderInv

\* Every step keeps the order.
LEMMA OrderKept ==
  ASSUME TypeInv, TypeInv', NothingPaused, OrderInv, [Next]_vars
  PROVE  OrderInv'
<1> QED
  BY OrderSteps, ArrivesInOrder, LeaveInOrder, PromotesInOrder

\* The order in every behaviour without pauses.
LEMMA OrderInvariant ==
  ASSUME NoPauses
  PROVE  Spec => []OrderInv
<1>1. Init => OrderInv
  BY DEF Init, OrderInv, Sorted, Ids, Priorities, IMPORTANT, PROGRESS
<1>2. TypeInv /\ TypeInv' /\ NothingPaused /\ OrderInv /\ [Next]_vars => OrderInv'
  BY OrderKept
<1> QED
  BY <1>1, <1>2, TypeInvariant, NothingIsPaused, PTL DEF Spec

\* As long as no client pauses, messages of the priorities important and message
\* wait in the order they came, also the progress messages that are moved to the
\* queue of priority message after others have arrived there.
THEOREM SaidInOrder ==
  ASSUME NoPauses
  PROVE  Spec => []InArrivalOrder
<1>1. OrderInv => InArrivalOrder
  BY DEF OrderInv, InArrivalOrder, Priorities, IMPORTANT, MESSAGE, PROGRESS
<1> QED
  BY <1>1, OrderInvariant, PTL

-----------------------------------------------------------------------------
(***************************************************************************)
(* What the rules report.  A rule only reports messages as canceled that   *)
(* it takes out of their queue; where ids belong to one message of one     *)
(* queue, none of that id is left in any queue.  And it reports whatever   *)
(* it takes out, but for the messages of a block.                          *)
(***************************************************************************)

\* Ids belong to one message of one queue.
Unmixed(e) ==
  /\ \A p \in Priorities : Sorted(e.queues[p])
  /\ \A p, r \in Priorities : p # r => Ids(e.queues[p]) \cap Ids(e.queues[r]) = {}

\* What f reports as canceled beyond e was in a queue of e and is in none of f.
Tells(f, e) ==
  \A i \in f.cancelled \ e.cancelled :
    /\ \E p \in Priorities : i \in Ids(e.queues[p])
    /\ \A p \in Priorities : i \notin Ids(f.queues[p])

\* No message of a list, of a queue is in a block.
Loose(s) == \A i \in DOMAIN s : s[i].gid = 0

Blockless(e) == \A p \in Priorities : Loose(e.queues[p])

\* What f misses of e was reported as canceled.
Accounts(f, e) ==
  /\ e.cancelled \subseteq f.cancelled
  /\ \A p \in Priorities : Ids(e.queues[p]) \subseteq Ids(f.queues[p]) \cup f.cancelled

\* What a rule promises here: it prunes the queues, what it reports is gone, and
\* what is gone was reported.
Frees(f, e) ==
  /\ Yields(f, e, Messages, MessageIds)
  /\ Unmixed(e) => Tells(f, e)
  /\ Blockless(e) => Accounts(f, e)

\* Pruned queues are unmixed.
LEMMA UnmixedPruned ==
  ASSUME NEW e \in ServerEffects, NEW f, Frees(f, e), Unmixed(e)
  PROVE  f \in ServerEffects /\ Unmixed(f)
<1>1. /\ e.queues \in [Priorities -> Seq(Messages)]
      /\ f \in ServerEffects
      /\ f.queues \in [Priorities -> Seq(Messages)]
      /\ Prunes(f, e)
  BY DEF Frees, Yields, ServerEffects, Effects
<1>2. ASSUME NEW x \in Priorities
      PROVE  Sorted(f.queues[x]) /\ Ids(f.queues[x]) \subseteq Ids(e.queues[x])
  <2>1. /\ e.queues[x] \in Seq(Messages) /\ f.queues[x] \in Seq(Messages)
        /\ Subsequence(f.queues[x], e.queues[x]) /\ Sorted(e.queues[x])
    BY <1>1 DEF Prunes, Unmixed
  <2> QED
    BY <2>1, SortedPruned, PrunedIds
<1>3. \A x, y \in Priorities :
        x # y => Ids(f.queues[x]) \cap Ids(f.queues[y]) = {}
  BY <1>2, Zenon DEF Unmixed
<1> QED
  BY <1>1, <1>2, <1>3 DEF Unmixed

\* A pruned list holds no message of a block if the list held none.
LEMMA LoosePruned ==
  ASSUME NEW s, NEW t, Subsequence(t, s), Loose(s)
  PROVE  Loose(t)
<1>1. PICK f \in [DOMAIN t -> DOMAIN s] : \A k \in DOMAIN t : t[k] = s[f[k]]
  BY Zenon DEF Subsequence
<1> QED
  BY <1>1 DEF Loose

\* So are pruned queues without blocks.
LEMMA BlocklessPruned ==
  ASSUME NEW e, NEW f, Frees(f, e), Blockless(e)
  PROVE  Blockless(f)
<1> QED
  BY LoosePruned DEF Blockless, Frees, Yields, Prunes

\* One rule after another.
LEMMA FreesTransitive ==
  ASSUME NEW e \in ServerEffects, NEW f, NEW g, Frees(f, e), Frees(g, f)
  PROVE  Frees(g, e)
<1>1. Yields(g, e, Messages, MessageIds)
  BY PrunesTransitive DEF Frees
<1>2. ASSUME NEW p \in Priorities
      PROVE  /\ Ids(f.queues[p]) \subseteq Ids(e.queues[p])
             /\ Ids(g.queues[p]) \subseteq Ids(f.queues[p])
  BY PrunedIds DEF Frees, Yields, Prunes
<1>3. ASSUME Unmixed(e), NEW i \in g.cancelled \ e.cancelled
      PROVE  /\ \E p \in Priorities : i \in Ids(e.queues[p])
             /\ \A p \in Priorities : i \notin Ids(g.queues[p])
  <2>1. CASE i \in f.cancelled
    <3>1. /\ \E p \in Priorities : i \in Ids(e.queues[p])
          /\ \A p \in Priorities : i \notin Ids(f.queues[p])
      BY <1>3, <2>1 DEF Frees, Tells
    <3> QED
      BY <1>2, <3>1
  <2>2. CASE i \notin f.cancelled
    <3>1. Unmixed(f)
      BY <1>3, UnmixedPruned
    <3>2. /\ \E p \in Priorities : i \in Ids(f.queues[p])
          /\ \A p \in Priorities : i \notin Ids(g.queues[p])
      BY <1>3, <2>2, <3>1 DEF Frees, Tells
    <3> QED
      BY <1>2, <3>2
  <2> QED
    BY <2>1, <2>2
<1>4. ASSUME Blockless(e)
      PROVE  Accounts(g, e)
  <2>1. Blockless(f)
    BY <1>4, BlocklessPruned
  <2>2. Accounts(f, e) /\ Accounts(g, f)
    BY <1>4, <2>1 DEF Frees
  <2> QED
    BY <2>2 DEF Accounts
<1> QED
  BY <1>1, <1>3, <1>4 DEF Frees, Tells

\* A rule that reports nothing, and takes nothing where there are no blocks.
LEMMA SilentlyFrees ==
  ASSUME NEW e, NEW f, Yields(f, e, Messages, MessageIds),
         f.cancelled = e.cancelled, Blockless(e) => f.queues = e.queues
  PROVE  Frees(f, e)
<1> QED
  BY DEF Frees, Tells, Accounts

\* Whether the module is stopped changes no queue.
LEMMA StopIfFrees ==
  ASSUME NEW e \in ServerEffects, NEW c \in BOOLEAN
  PROVE  /\ Frees(StopIf(e, c), e)
         /\ StopIf(e, c) \in ServerEffects
         /\ StopIf(e, c).queues = e.queues
         /\ StopIf(e, c).cancelled = e.cancelled
<1>1. /\ StopIf(e, c) \in Effects(Messages, MessageIds)
      /\ StopIf(e, c).queues = e.queues
      /\ StopIf(e, c).cancelled = e.cancelled
  BY DEF StopIf, ServerEffects, Effects
<1>2. Yields(e, e, Messages, MessageIds)
  BY PrunesReflexive DEF ServerEffects
<1>3. Yields(StopIf(e, c), e, Messages, MessageIds)
  BY <1>1, <1>2 DEF Yields, Prunes
<1> QED
  BY <1>1, <1>3, SilentlyFrees DEF ServerEffects

\* Kept() keeps the elements at all positions of I.
LEMMA KeptIds ==
  ASSUME NEW S, NEW s \in Seq(S), NEW I \in SUBSET (DOMAIN s), NEW i \in I
  PROVE  s[i].id \in Ids(Kept(s, I))
<1>1. /\ I \in SUBSET Int /\ IsFiniteSet(I)
      /\ Kept(s, I) \in Seq(S) /\ Len(Kept(s, I)) = Cardinality(I)
      /\ \A k \in 1..Len(Kept(s, I)) :
           Place(I, k) \in I /\ Kept(s, I)[k] = s[Place(I, k)]
  <2>1. DOMAIN s = 1..Len(s) /\ 1 \in Int /\ Len(s) \in Int
    BY LenProperties
  <2>2. IsFiniteSet(1..Len(s))
    BY <2>1, FS_Interval
  <2>3. IsFiniteSet(I) /\ I \in SUBSET Int
    BY <2>1, <2>2, FS_Subset
  <2> QED
    BY <2>3, KeptElements
<1>2. PICK k \in 1..Cardinality(I) : Place(I, k) = i
  BY <1>1, PlaceTaken
<1>3. k \in DOMAIN Kept(s, I)
  BY <1>1, LenProperties
<1> QED
  BY <1>1, <1>2, <1>3 DEF Ids

\* Cancel() reports what it removes, and nothing of those ids is left.
LEMMA CancelFrees ==
  ASSUME NEW e \in ServerEffects, NEW p \in Priorities,
         NEW I \in SUBSET (DOMAIN e.queues[p])
  PROVE  Frees(Cancel(e, p, I), e)
<1> DEFINE q == e.queues[p]
           f == Cancel(e, p, I)
<1>1. /\ Yields(f, e, Messages, MessageIds)
      /\ f.queues = [e.queues EXCEPT ![p] = Kept(q, I)]
  BY MessagesHaveIds, CancelYields DEF ServerEffects
<1>2. e.queues \in [Priorities -> Seq(Messages)] /\ q \in Seq(Messages)
  BY DEF ServerEffects, Effects
<1>3. f.cancelled = e.cancelled \cup {q[i].id : i \in DOMAIN q \ I}
  <2>1. e.cancelled \in SUBSET MessageIds
    BY DEF ServerEffects, Effects
  <2> QED
    BY <2>1 DEF Cancel, ServerEffects, Effects
<1> HIDE DEF f
<1>4. ASSUME Unmixed(e), NEW j \in DOMAIN q \ I, NEW x \in Priorities
      PROVE  q[j].id \notin Ids(f.queues[x])
  <2>1. CASE x = p
    <3>1. f.queues[x] = Kept(q, I)
      BY <1>1, <1>2, <2>1
    <3>2. Sorted(q)
      BY <1>4 DEF Unmixed
    <3>3. I \in SUBSET (DOMAIN q)
      OBVIOUS
    <3> HIDE DEF q
    <3>4. /\ Kept(q, I) \in Seq(Messages)
          /\ \A k \in 1..Len(Kept(q, I)) :
               Place(I, k) \in I /\ Kept(q, I)[k] = q[Place(I, k)]
      BY <1>2, <3>3, KeptElements
    <3>5. DOMAIN Kept(q, I) = 1..Len(Kept(q, I))
      BY <3>4, LenProperties
    <3>6. ASSUME NEW k \in DOMAIN Kept(q, I), Kept(q, I)[k].id = q[j].id
          PROVE  FALSE
      <4>1. Place(I, k) \in I /\ q[Place(I, k)].id = q[j].id
        BY <3>4, <3>5, <3>6
      <4>2. Place(I, k) \in DOMAIN q /\ j \in DOMAIN q
        BY <3>3, <4>1
      <4>3. Place(I, k) = j
        BY <1>2, <3>2, <4>1, <4>2, SortedIds
      <4> QED
        BY <4>1, <4>3
    <3> QED
      BY <3>1, <3>6 DEF Ids
  <2>2. CASE x # p
    <3>1. f.queues[x] = e.queues[x]
      BY <1>1, <1>2, <2>2
    <3>2. q[j].id \in Ids(e.queues[p])
      BY DEF Ids
    <3>3. Ids(e.queues[x]) \cap Ids(e.queues[p]) = {}
      BY <1>4, <2>2 DEF Unmixed
    <3> QED
      BY <3>1, <3>2, <3>3
  <2> QED
    BY <2>1, <2>2
<1>5. \A j \in DOMAIN q : q[j].id \in Ids(e.queues[p])
  BY DEF Ids
<1>6. Unmixed(e) => Tells(f, e)
  BY <1>3, <1>4, <1>5 DEF Tells
<1>7. ASSUME NEW x \in Priorities, NEW i \in Ids(e.queues[x])
      PROVE  i \in Ids(f.queues[x]) \cup f.cancelled
  <2>1. CASE x = p
    <3>1. f.queues[x] = Kept(q, I)
      BY <1>1, <1>2, <2>1
    <3>2. PICK j \in DOMAIN q : i = q[j].id
      BY <1>7, <2>1 DEF Ids
    <3>3. j \in I => q[j].id \in Ids(Kept(q, I))
      <4>1. I \in SUBSET (DOMAIN q)
        OBVIOUS
      <4> HIDE DEF q
      <4> QED
        BY <1>2, <4>1, KeptIds
    <3> QED
      BY <1>3, <3>1, <3>2, <3>3
  <2>2. CASE x # p
    BY <1>1, <1>2, <1>7, <2>2
  <2> QED
    BY <2>1, <2>2
<1>8. Accounts(f, e)
  BY <1>3, <1>7 DEF Accounts
<1> QED
  BY <1>1, <1>6, <1>8 DEF Frees, f

\* A rule that notes whether the module is stopped and then cancels.
LEMMA StopAndCancelFrees ==
  ASSUME NEW e \in ServerEffects, NEW p \in Priorities,
         NEW c \in BOOLEAN, NEW I \in SUBSET (DOMAIN e.queues[p])
  PROVE  Frees(Cancel(StopIf(e, c), p, I), e)
<1> DEFINE f == StopIf(e, c)
<1>1. Frees(f, e) /\ f \in ServerEffects /\ f.queues = e.queues
  BY StopIfFrees
<1> HIDE DEF f
<1>2. I \in SUBSET (DOMAIN f.queues[p])
  BY <1>1
<1>3. Frees(Cancel(f, p, I), f)
  BY <1>1, <1>2, CancelFrees
<1>4. Frees(Cancel(f, p, I), e)
  BY <1>1, <1>3, FreesTransitive
<1> QED
  BY <1>4 DEF f

\* stop_priority() and stop_priority_older_than().
LEMMA StopPriorityFrees ==
  ASSUME NEW e \in ServerEffects, NEW p \in Priorities, NEW current,
         NEW id
  PROVE  /\ Frees(stop_priority(e, p, current), e)
         /\ Frees(stop_priority_older_than(e, p, id, current), e)
<1> DEFINE I == {i \in DOMAIN e.queues[p] : e.queues[p][i].id >= id}
<1>1. /\ (current = p) \in BOOLEAN
      /\ {} \in SUBSET (DOMAIN e.queues[p])
      /\ I \in SUBSET (DOMAIN e.queues[p])
  OBVIOUS
<1> HIDE DEF I
<1>2. Frees(Cancel(StopIf(e, current = p), p, {}), e)
  BY <1>1, StopAndCancelFrees
<1>3. Frees(Cancel(StopIf(e, current = p), p, I), e)
  BY <1>1, StopAndCancelFrees
<1> QED
  BY <1>2, <1>3 DEF stop_priority, stop_priority_older_than, I

\* One rule after the other: f comes from e, g from f by stop_priority().
LEMMA StopNextFrees ==
  ASSUME NEW e \in ServerEffects, NEW f, Frees(f, e),
         NEW p \in Priorities, NEW current
  PROVE  Frees(stop_priority(f, p, current), e)
<1>1. f \in ServerEffects
  BY DEF Frees, Yields, ServerEffects
<1>2. Frees(stop_priority(f, p, current), f)
  BY <1>1, StopPriorityFrees
<1> QED
  BY <1>2, FreesTransitive

\* stop_from_uid().
LEMMA StopFromUidFrees ==
  ASSUME NEW e \in ServerEffects, NEW uid
  PROVE  Frees(stop_from_uid(e, uid), e)
<1> DEFINE others(p) == {i \in DOMAIN e.queues[p] : e.queues[p][i].uid # uid}
           f == stop_from_uid(e, uid)
           gone == UNION {{e.queues[p][i].id :
                             i \in DOMAIN e.queues[p] \ others(p)} :
                            p \in Priorities}
<1>1. Yields(f, e, Messages, MessageIds)
  BY MessagesHaveIds, StopFromUidYields DEF ServerEffects
<1>2. e.queues \in [Priorities -> Seq(Messages)]
  BY DEF ServerEffects, Effects
<1>3. /\ f.cancelled = e.cancelled \cup gone
      /\ f.queues = [p \in Priorities |-> Kept(e.queues[p], others(p))]
  BY DEF stop_from_uid, ServerEffects, Effects
<1> HIDE DEF f
<1>4. ASSUME Unmixed(e), NEW p \in Priorities,
             NEW j \in DOMAIN e.queues[p] \ others(p), NEW x \in Priorities
      PROVE  e.queues[p][j].id \notin Ids(f.queues[x])
  <2>1. CASE x = p
    <3> DEFINE q == e.queues[p]
               I == others(p)
    <3>1. f.queues[x] = Kept(q, I)
      BY <1>3, <2>1
    <3>2. Sorted(q) /\ q \in Seq(Messages)
      BY <1>2, <1>4 DEF Unmixed
    <3>3. I \in SUBSET (DOMAIN q) /\ j \in DOMAIN q \ I
      OBVIOUS
    <3> HIDE DEF q, I
    <3>4. /\ Kept(q, I) \in Seq(Messages)
          /\ \A k \in 1..Len(Kept(q, I)) :
               Place(I, k) \in I /\ Kept(q, I)[k] = q[Place(I, k)]
      BY <3>2, <3>3, KeptElements
    <3>5. DOMAIN Kept(q, I) = 1..Len(Kept(q, I))
      BY <3>4, LenProperties
    <3>6. ASSUME NEW k \in DOMAIN Kept(q, I), Kept(q, I)[k].id = q[j].id
          PROVE  FALSE
      <4>1. Place(I, k) \in I /\ q[Place(I, k)].id = q[j].id
        BY <3>4, <3>5, <3>6
      <4>2. Place(I, k) \in DOMAIN q /\ j \in DOMAIN q
        BY <3>3, <4>1
      <4>3. Place(I, k) = j
        BY <3>2, <4>1, <4>2, SortedIds
      <4> QED
        BY <3>3, <4>1, <4>3
    <3>7. q[j].id \notin Ids(f.queues[x])
      BY <3>1, <3>6 DEF Ids
    <3> QED
      BY <3>7 DEF q
  <2>2. CASE x # p
    <3>1. Ids(f.queues[x]) \subseteq Ids(e.queues[x])
      BY <1>1, PrunedIds DEF Yields, Prunes
    <3>2. e.queues[p][j].id \in Ids(e.queues[p])
      BY DEF Ids
    <3>3. Ids(e.queues[x]) \cap Ids(e.queues[p]) = {}
      BY <1>4, <2>2 DEF Unmixed
    <3> QED
      BY <3>1, <3>2, <3>3
  <2> QED
    BY <2>1, <2>2
<1>5. ASSUME Unmixed(e), NEW i \in f.cancelled \ e.cancelled
      PROVE  /\ \E p \in Priorities : i \in Ids(e.queues[p])
             /\ \A p \in Priorities : i \notin Ids(f.queues[p])
  <2>1. i \in gone
    BY <1>3
  <2>2. PICK p \in Priorities : i \in {e.queues[p][j].id :
                                         j \in DOMAIN e.queues[p] \ others(p)}
    BY <2>1, Zenon
  <2>3. PICK j \in DOMAIN e.queues[p] \ others(p) : i = e.queues[p][j].id
    BY <2>2, Zenon
  <2>4. i \in Ids(e.queues[p])
    BY <2>3 DEF Ids
  <2>5. \A x \in Priorities : i \notin Ids(f.queues[x])
    <3> HIDE DEF others
    <3> QED
      BY <1>4, <1>5, <2>3
  <2> QED
    BY <2>4, <2>5
<1>6. ASSUME NEW p \in Priorities, NEW i \in Ids(e.queues[p])
      PROVE  i \in Ids(f.queues[p]) \cup f.cancelled
  <2> DEFINE q == e.queues[p]
             I == others(p)
  <2>1. f.queues[p] = Kept(q, I)
    BY <1>3
  <2>2. PICK j \in DOMAIN q : i = q[j].id
    BY <1>6 DEF Ids
  <2>3. j \in I => q[j].id \in Ids(Kept(q, I))
    <3>1. I \in SUBSET (DOMAIN q) /\ q \in Seq(Messages)
      BY <1>2
    <3> HIDE DEF q, I
    <3> QED
      BY <3>1, KeptIds
  <2>4. ASSUME j \notin I
        PROVE  q[j].id \in gone
    <3>1. j \in DOMAIN e.queues[p] \ others(p)
      BY <2>2, <2>4
    <3>2. q[j].id \in {e.queues[p][k].id : k \in DOMAIN e.queues[p] \ others(p)}
      BY <3>1
    <3> QED
      BY <3>2, Zenon
  <2> HIDE DEF q, I, gone
  <2> QED
    BY <1>3, <2>1, <2>2, <2>3, <2>4
<1>7. Accounts(f, e)
  BY <1>3, <1>6 DEF Accounts
<1> QED
  BY <1>1, <1>5, <1>7 DEF Frees, Tells, f

\* stop_priority_except_first(): the rest of an older block is freed without a
\* report.
LEMMA StopExceptFirstFrees ==
  ASSUME NEW e \in ServerEffects, NEW p \in Priorities,
         NEW current \in Priorities, NEW gid
  PROVE  Frees(stop_priority_except_first(e, p, current, gid), e)
<1> DEFINE q == e.queues[p]
           newest == q[Len(q)].gid
           block == {i \in DOMAIN q : q[i].gid = newest}
           r == stop_priority_except_first(e, p, current, gid)
<1>1. Yields(r, e, Messages, MessageIds)
  BY MessagesHaveIds, StopExceptFirstYields DEF ServerEffects
<1>2. q \in Seq(Messages)
  BY DEF ServerEffects, Effects
<1>3. CASE q = <<>>
  <2>1. r = e
    BY <1>3 DEF stop_priority_except_first
  <2> QED
    BY <1>1, <2>1, SilentlyFrees
<1>4. CASE q # <<>> /\ newest <= 0
  <2> DEFINE I == {Len(q)}
  <2>1. r = Cancel(StopIf(e, current = p), p, I)
    BY <1>4 DEF stop_priority_except_first
  <2>2. I \in SUBSET (DOMAIN q)
    BY <1>2, <1>4, EmptySeq, LenProperties
  <2>3. (current = p) \in BOOLEAN
    OBVIOUS
  <2> HIDE DEF I
  <2>4. Frees(Cancel(StopIf(e, current = p), p, I), e)
    BY <2>2, <2>3, StopAndCancelFrees
  <2> QED
    BY <2>1, <2>4
<1>5. CASE q # <<>> /\ ~(newest <= 0)
  <2> DEFINE f == StopIf(e, current = p /\ gid # newest)
  <2>1. r = [f EXCEPT !.queues[p] = Kept(q, block)]
    BY <1>5 DEF stop_priority_except_first
  <2>2. f \in ServerEffects /\ f.cancelled = e.cancelled
    <3>1. (current = p /\ gid # newest) \in BOOLEAN
      OBVIOUS
    <3> QED
      BY <3>1, StopIfFrees
  <2> HIDE DEF f, block
  <2>3. r.cancelled = e.cancelled
    BY <2>1, <2>2 DEF ServerEffects, Effects
  <2>4. ~Blockless(e)
    <3>1. Len(q) \in DOMAIN q
      BY <1>2, <1>5, EmptySeq, LenProperties
    <3> QED
      BY <1>5, <3>1 DEF Blockless, Loose
  <2> QED
    BY <1>1, <2>3, <2>4, SilentlyFrees
<1> QED
  BY <1>3, <1>4, <1>5

\* The rest of a block that is stopped is freed without a report.
LEMMA SpeakingStopFrees ==
  ASSUME NEW e \in ServerEffects, NEW p \in Priorities, NEW uid
  PROVE  /\ Frees(speaking_stop(e, p, uid), e)
         /\ Frees(speaking_stop_all(e, p), e)
<1> DEFINE f == StopIf(e, TRUE)
           q == e.queues[p]
           r == speaking_stop(e, p, uid)
           t == speaking_stop_all(e, p)
<1>1. Yields(r, e, Messages, MessageIds) /\ Yields(t, e, Messages, MessageIds)
  BY SpeakingStopYields, SpeakingStopAllYields DEF ServerEffects
<1>2. /\ f \in ServerEffects /\ f.cancelled = e.cancelled
      /\ f.queues = e.queues
  BY StopIfFrees
<1>3. Blockless(e) => q = <<>> \/ q[Len(q)].gid = 0
  <2>1. q \in Seq(Messages)
    BY DEF ServerEffects, Effects
  <2>2. q # <<>> => Len(q) \in DOMAIN q
    BY <2>1, EmptySeq, LenProperties
  <2> QED
    BY <2>2 DEF Blockless, Loose
<1>4. /\ r = f \/ \E s : r = [f EXCEPT !.queues[p] = s]
      /\ t = f \/ \E s : t = [f EXCEPT !.queues[p] = s]
      /\ Blockless(e) => r = f /\ t = f
  BY <1>3 DEF speaking_stop, speaking_stop_all
<1> HIDE DEF f, r, t, q
<1>5. r.cancelled = e.cancelled /\ t.cancelled = e.cancelled
  BY <1>2, <1>4 DEF ServerEffects, Effects
<1> QED
  BY <1>1, <1>2, <1>4, <1>5, SilentlyFrees DEF r, t

\* What the arrival of a message reports as canceled is gone, and what is gone was
\* reported.
LEMMA ResolvePrioritiesFrees ==
  ASSUME NEW e \in ServerEffects, NEW p \in Priorities,
         NEW speaking \in BOOLEAN, NEW current \in Priorities, NEW gid,
         NEW r, r = resolve_priorities(e, p, speaking, current, gid)
  PROVE  Frees(r, e)
<1> DEFINE first == stop_priority_except_first(e, p, current, gid)
           Low(f) == stop_priority(stop_priority(f, NOTIFICATION, current),
                                   PROGRESS, current)
<1>1. {IMPORTANT, MESSAGE, TEXT, NOTIFICATION, PROGRESS} \subseteq Priorities
  BY DEF Priorities, IMPORTANT, MESSAGE, TEXT, NOTIFICATION, PROGRESS
<1>2. ASSUME NEW f, Frees(f, e)
      PROVE  Frees(Low(f), e)
  <2>1. Frees(stop_priority(f, NOTIFICATION, current), e)
    BY <1>1, <1>2, StopNextFrees
  <2> QED
    BY <1>1, <2>1, StopNextFrees
<1>3. Frees(first, e)
  BY StopExceptFirstFrees
<1>4. CASE p = IMPORTANT
  <2> DEFINE f == StopIf(e, speaking /\ current # IMPORTANT)
  <2>1. r = Low(f)
    BY <1>4
       DEF resolve_priorities, IMPORTANT, MESSAGE, TEXT, NOTIFICATION, PROGRESS
  <2>2. Frees(f, e)
    <3>1. (speaking /\ current # IMPORTANT) \in BOOLEAN
      OBVIOUS
    <3> QED
      BY <3>1, StopIfFrees
  <2> HIDE DEF f
  <2> QED
    BY <1>2, <2>1, <2>2
<1>5. CASE p = MESSAGE
  <2> DEFINE f == StopIf(e, speaking /\ current \notin {IMPORTANT, MESSAGE})
             g == stop_priority(f, TEXT, current)
  <2>1. r = Low(g)
    BY <1>5
       DEF resolve_priorities, IMPORTANT, MESSAGE, TEXT, NOTIFICATION, PROGRESS
  <2>2. Frees(f, e)
    <3>1. (speaking /\ current \notin {IMPORTANT, MESSAGE}) \in BOOLEAN
      OBVIOUS
    <3> QED
      BY <3>1, StopIfFrees
  <2> HIDE DEF f
  <2>3. Frees(g, e)
    BY <1>1, <2>2, StopNextFrees
  <2> HIDE DEF g
  <2> QED
    BY <1>2, <2>1, <2>3
<1>6. CASE p = TEXT
  <2>1. r = Low(first)
    BY <1>6
       DEF resolve_priorities, IMPORTANT, MESSAGE, TEXT, NOTIFICATION, PROGRESS
  <2> HIDE DEF first
  <2> QED
    BY <1>2, <1>3, <2>1
<1>7. CASE p = NOTIFICATION
  <2>1. r = first \/ r = stop_priority(first, NOTIFICATION, current)
    BY <1>7
       DEF resolve_priorities, IMPORTANT, MESSAGE, TEXT, NOTIFICATION, PROGRESS
  <2> HIDE DEF first
  <2>2. Frees(stop_priority(first, NOTIFICATION, current), e)
    BY <1>1, <1>3, StopNextFrees
  <2> QED
    BY <1>3, <2>1, <2>2
<1>8. CASE p = PROGRESS
  <2> DEFINE f == stop_priority(e, NOTIFICATION, current)
             I == {Len(f.queues[p])}
  <2>1. r = f \/ (f.queues[p] # <<>> /\ r = Cancel(f, p, I))
    BY <1>8
       DEF resolve_priorities, IMPORTANT, MESSAGE, TEXT, NOTIFICATION, PROGRESS
  <2>2. Frees(f, e)
    BY <1>1, StopPriorityFrees
  <2> HIDE DEF f
  <2>3. f \in ServerEffects /\ f.queues[p] \in Seq(Messages)
    <3>1. f \in ServerEffects
      BY <2>2 DEF Frees, Yields, ServerEffects
    <3> QED
      BY <3>1 DEF ServerEffects, Effects
  <2>4. ASSUME f.queues[p] # <<>>
        PROVE  Frees(Cancel(f, p, I), e)
    <3>1. I \in SUBSET (DOMAIN f.queues[p])
      BY <2>3, <2>4, EmptySeq, LenProperties
    <3> HIDE DEF I
    <3>2. Frees(Cancel(f, p, I), f)
      BY <2>3, <3>1, CancelFrees
    <3> QED
      BY <2>2, <3>2, FreesTransitive
  <2> QED
    BY <2>1, <2>2, <2>4
<1> QED
  BY <1>4, <1>5, <1>6, <1>7, <1>8
     DEF Priorities, IMPORTANT, MESSAGE, TEXT, NOTIFICATION, PROGRESS

\* The queues as they are are unmixed.
LEMMA QueuesUnmixed ==
  ASSUME TypeInv, OrderInv
  PROVE  Effect(queues) \in ServerEffects /\ Unmixed(Effect(queues))
<1>1. Effect(queues) \in ServerEffects /\ Effect(queues).queues = queues
  BY EffectOfQueues DEF TypeInv
<1> QED
  BY <1>1 DEF Unmixed, OrderInv

\* So are the queues with a message of the next id at the end of one.
LEMMA ArrivalUnmixed ==
  ASSUME TypeInv, OrderInv, NEW m \in Messages, NEW p \in Priorities,
         m.id = last_message_id + 1,
         NEW q, q = [queues EXCEPT ![p] = Append(@, m)]
  PROVE  /\ Effect(q) \in ServerEffects /\ Unmixed(Effect(q))
         /\ Effect(q).queues = q
         /\ \A x \in Priorities : Ids(q[x]) \subseteq Ids(queues[x]) \cup {m.id}
<1>1. queues \in [Priorities -> Seq(Messages)] /\ last_message_id \in Nat
  BY BoundsAssumption DEF TypeInv, TypeOK
<1>2. \A x \in Priorities : \A i \in Ids(queues[x]) : i # m.id /\ i <= last_message_id
  BY <1>1 DEF OrderInv
<1> DEFINE s == queues[p]
           t == Append(s, m)
<1>3. s \in Seq(Messages) /\ Sorted(s)
  BY <1>1 DEF OrderInv
<1>4. \A i \in Ids(s) : i < m.id
  <2>1. \A i \in Ids(s) : i \in Nat
    BY <1>3, ListOfMessages DEF Ids
  <2> QED
    BY <1>1, <1>2, <2>1
<1>5. t = Append(s, m) /\ q = [queues EXCEPT ![p] = t]
  OBVIOUS
<1>6. t \in Seq(Messages) /\ Ids(t) = Ids(s) \cup {m.id} /\ Sorted(t)
  <2> HIDE DEF s, t
  <2> QED
    BY <1>3, <1>4, <1>5, AppendedList
<1> HIDE DEF t
<1>7. /\ q \in [Priorities -> Seq(Messages)]
      /\ q[p] = t
      /\ \A x \in Priorities : x # p => q[x] = queues[x]
  BY <1>1, <1>5, <1>6
<1>8. Effect(q) \in ServerEffects /\ Effect(q).queues = q
  BY <1>7 DEF Effect, Effects, ServerEffects
<1>9. \A x \in Priorities : Sorted(q[x])
  BY <1>6, <1>7 DEF OrderInv
<1>10. ASSUME NEW x \in Priorities
       PROVE  Ids(q[x]) \subseteq IF x = p THEN Ids(queues[x]) \cup {m.id}
                                  ELSE Ids(queues[x])
  BY <1>6, <1>7
<1>11. ASSUME NEW x \in Priorities, NEW y \in Priorities, x # y
       PROVE  Ids(q[x]) \cap Ids(q[y]) = {}
  <2>1. Ids(queues[x]) \cap Ids(queues[y]) = {}
    BY <1>11 DEF OrderInv
  <2> QED
    BY <1>2, <1>10, <1>11, <2>1
<1> QED
  BY <1>8, <1>9, <1>10, <1>11 DEF Unmixed

\* The CANCEL reports of an effect.
LEMMA CancelReports ==
  ASSUME TypeOK, NEW q, Effect(q).queues = q, Unmixed(Effect(q)),
         NEW e \in ServerEffects, Frees(e, Effect(q)), Apply(e)
  PROVE  \A i \in MessageIds :
           reported'[i] # reported[i] =>
             /\ \E p \in Priorities : i \in Ids(q[p])
             /\ \A p \in Priorities : i \notin Ids(queues'[p])
<1> SUFFICES ASSUME NEW i \in MessageIds, reported'[i] # reported[i]
             PROVE  /\ \E p \in Priorities : i \in Ids(q[p])
                    /\ \A p \in Priorities : i \notin Ids(queues'[p])
  OBVIOUS
<1>1. queues' = e.queues
  BY DEF Apply
<1>2. reported'[i] = IF i \in e.cancelled THEN "cancel" ELSE reported[i]
  BY DEF Apply
<1>3. i \in e.cancelled \ Effect(q).cancelled
  <2>1. Effect(q).cancelled = {}
    BY DEF Effect
  <2> QED
    BY <1>2, <2>1
<1> QED
  BY <1>1, <1>3, Zenon DEF Frees, Tells

\* STOP and CANCEL come down to one effect that reports what it removes.
LEMMA StopFrees ==
  ASSUME TypeInv, NEW c,
         Stop(c) \/ CancelClient(c) \/ StopAll \/ CancelAllQueues
  PROVE  \E e \in ServerEffects : Frees(e, Effect(queues)) /\ Apply(e)
<1> DEFINE e0 == Effect(queues)
           stopped == IF get_speaking_client_uid = c
                      THEN speaking_stop(e0, current_priority, c) ELSE e0
<1>1. /\ e0 \in ServerEffects
      /\ current_priority \in Priorities
      /\ Frees(e0, e0)
  <2>1. /\ e0 \in ServerEffects
        /\ Yields(e0, e0, Messages, MessageIds)
        /\ current_priority \in Priorities
    BY EffectOfQueues DEF TypeInv, TypeOK
  <2> HIDE DEF e0
  <2> QED
    BY <2>1, SilentlyFrees
<1> HIDE DEF e0
<1>2. Frees(stopped, e0)
  <2>1. Frees(speaking_stop(e0, current_priority, c), e0)
    BY <1>1, SpeakingStopFrees
  <2> QED
    BY <1>1, <2>1
<1>3. SUFFICES \E e : Frees(e, e0) /\ Apply(e)
  <2>1. PICK e : Frees(e, e0) /\ Apply(e)
    BY <1>3
  <2>2. e \in ServerEffects
    BY <2>1 DEF Frees, Yields, ServerEffects
  <2> QED
    BY <2>1, <2>2 DEF e0
<1>4. CASE Stop(c)
  BY <1>2, <1>4 DEF Stop, e0
<1>5. CASE CancelClient(c)
  <2>1. Apply(stop_from_uid(stopped, c))
    BY <1>5 DEF CancelClient, e0
  <2> HIDE DEF stopped
  <2>2. stopped \in ServerEffects
    BY <1>2 DEF Frees, Yields, ServerEffects
  <2>3. Frees(stop_from_uid(stopped, c), stopped)
    BY <2>2, StopFromUidFrees
  <2>4. Frees(stop_from_uid(stopped, c), e0)
    BY <1>1, <1>2, <2>3, FreesTransitive
  <2> QED
    BY <2>1, <2>4
<1>6. CASE StopAll
  <2>1. Apply(speaking_stop_all(e0, current_priority))
    BY <1>6 DEF StopAll, e0
  <2>2. Frees(speaking_stop_all(e0, current_priority), e0)
    BY <1>1, SpeakingStopFrees
  <2> QED
    BY <2>1, <2>2
<1>7. CASE CancelAllQueues
  <2> DEFINE e1 == stop_priority(e0, IMPORTANT, current_priority)
             e2 == stop_priority(e1, MESSAGE, current_priority)
             e3 == stop_priority(e2, TEXT, current_priority)
             e4 == stop_priority(e3, NOTIFICATION, current_priority)
             e5 == stop_priority(e4, PROGRESS, current_priority)
  <2>1. Apply(e5)
    BY <1>7 DEF CancelAllQueues, e0
  <2>2. {IMPORTANT, MESSAGE, TEXT, NOTIFICATION, PROGRESS} \subseteq Priorities
    BY DEF Priorities, IMPORTANT, MESSAGE, TEXT, NOTIFICATION, PROGRESS
  <2>3. Frees(e1, e0)
    BY <1>1, <2>2, StopNextFrees
  <2> HIDE DEF e1
  <2>4. Frees(e2, e0)
    BY <1>1, <2>2, <2>3, StopNextFrees
  <2> HIDE DEF e2
  <2>5. Frees(e3, e0)
    BY <1>1, <2>2, <2>4, StopNextFrees
  <2> HIDE DEF e3
  <2>6. Frees(e4, e0)
    BY <1>1, <2>2, <2>5, StopNextFrees
  <2> HIDE DEF e4
  <2>7. Frees(e5, e0)
    BY <1>1, <2>2, <2>6, StopNextFrees
  <2> QED
    BY <2>1, <2>7
<1> QED
  BY <1>4, <1>5, <1>6, <1>7

-----------------------------------------------------------------------------
(***************************************************************************)
(* Servers whose clients neither pause nor send progress messages: what    *)
(* was reported as canceled or ended is not said any more.                 *)
(***************************************************************************)
NoProgress == PROGRESS \notin Levels

Over == {"cancel", "end"}

GoneInv ==
  /\ last_p5_block = <<>>
  /\ priority \in [Clients -> Levels]
  /\ \A p \in Priorities : current_message.id \notin Ids(queues[p])
  /\ current_message.id <= last_message_id
  /\ \A i \in MessageIds : i > last_message_id => reported[i] = "none"
  /\ \A p \in Priorities : \A i \in Ids(queues[p]) : reported[i] \notin Over

\* The ids in a queue.
LEMMA QueueIds ==
  ASSUME TypeInv, NEW p \in Priorities, NEW i \in Ids(queues[p])
  PROVE  i \in MessageIds
<1>1. queues[p] \in Seq(Messages)
  BY DEF TypeInv, TypeOK
<1>2. PICK k \in DOMAIN queues[p] : i = queues[p][k].id
  BY DEF Ids
<1>3. queues[p][k] \in Messages
  BY <1>1, LenProperties, ElementOfSeq
<1> QED
  BY <1>2, <1>3 DEF Messages

\* A step that reports nothing and adds nothing.
LEMMA GoneShrinks ==
  ASSUME GoneInv, \A x \in Priorities : Ids(queues'[x]) \subseteq Ids(queues[x]),
         last_p5_block' = <<>>, priority' \in [Clients -> Levels],
         UNCHANGED <<current_message, last_message_id, reported>>
  PROVE  GoneInv'
<1> QED
  BY Zenon DEF GoneInv

\* A step that reports something for the current message, and may forget it.
LEMMA GoneReports ==
  ASSUME TypeInv, GoneInv,
         UNCHANGED <<queues, last_p5_block, priority, last_message_id>>,
         current_message' \in {current_message, NoMessage},
         reported' = reported \/ \E ev : ReportCurrent(ev)
  PROVE  GoneInv'
<1>1. /\ reported \in [MessageIds -> Report]
      /\ last_message_id \in Nat
      /\ current_message.id \in Nat
  BY BoundsAssumption DEF TypeInv, TypeOK, Messages, MessageIds, NoMessage
<1>2. ASSUME NEW i \in MessageIds, i # current_message.id
      PROVE  reported'[i] = reported[i]
  BY <1>1, <1>2 DEF ReportCurrent
<1>3. ASSUME NEW p \in Priorities, NEW i \in Ids(queues[p])
      PROVE  reported'[i] \notin Over /\ i # 0
  <2>1. i \in MessageIds /\ i # current_message.id
    BY <1>3, QueueIds DEF GoneInv
  <2>2. reported'[i] = reported[i] /\ reported[i] \notin Over
    BY <1>2, <2>1 DEF GoneInv
  <2> QED
    BY <2>1, <2>2, BoundsAssumption DEF MessageIds
<1>4. ASSUME NEW i \in MessageIds, i > last_message_id
      PROVE  reported'[i] = "none"
  <2>1. i # current_message.id
    BY <1>1, <1>4, BoundsAssumption DEF GoneInv, MessageIds
  <2> QED
    BY <1>2, <1>4, <2>1 DEF GoneInv
<1>5. /\ current_message'.id \in {current_message.id, 0}
      /\ current_message'.id <= last_message_id
      /\ \A p \in Priorities : current_message'.id \notin Ids(queues[p])
  <2>1. current_message'.id \in {current_message.id, 0}
    BY DEF NoMessage
  <2>2. 0 <= last_message_id /\ \A p \in Priorities : 0 \notin Ids(queues[p])
    BY <1>1, <1>3
  <2> QED
    BY <2>1, <2>2 DEF GoneInv
<1> QED
  BY <1>3, <1>4, <1>5 DEF GoneInv

\* A message that arrives was not reported yet; what it cancels is gone.
LEMMA SpeakGone ==
  ASSUME NoProgress, TypeInv, OrderInv, GoneInv, NEW c \in Clients, Speak(c)
  PROVE  GoneInv'
<1> DEFINE m == [id |-> last_message_id + 1, uid |-> c,
                 gid |-> inside_block[c], copy |-> FALSE]
           p == priority[c]
           q == [queues EXCEPT ![p] = Append(@, m)]
           e == resolve_priorities(Effect(q), p, SPEAKING, current_priority,
                                   speaking_gid)
<1>1. /\ m \in Messages /\ m.id = last_message_id + 1
      /\ p \in Priorities /\ p # PROGRESS
      /\ SPEAKING \in BOOLEAN /\ current_priority \in Priorities
      /\ last_message_id \in Nat
      /\ reported \in [MessageIds -> Report]
  <2>1. m \in Messages /\ m.id = last_message_id + 1
    BY BoundsAssumption DEF TypeInv, TypeOK, Speak, Messages, MessageIds
  <2>2. p \in Levels /\ p \in Priorities
    BY LevelsAssumption DEF GoneInv
  <2> QED
    BY <2>1, <2>2, BoundsAssumption DEF TypeInv, TypeOK, NoProgress
<1>2. /\ Apply(e) /\ last_p5_block' = last_p5_block
      /\ last_message_id' = last_message_id + 1
      /\ UNCHANGED <<current_message, priority>>
  BY <1>1 DEF Speak, Enqueue, currentVars, clientVars
<1>3. q = [queues EXCEPT ![p] = Append(@, m)]
  OBVIOUS
<1>4. e = resolve_priorities(Effect(q), p, SPEAKING, current_priority,
                             speaking_gid)
  OBVIOUS
<1> HIDE DEF m, p, q, e
<1>5. /\ Effect(q) \in ServerEffects /\ Unmixed(Effect(q))
      /\ Effect(q).queues = q
      /\ \A x \in Priorities : Ids(q[x]) \subseteq Ids(queues[x]) \cup {m.id}
  <2>1. m \in Messages /\ p \in Priorities /\ m.id = last_message_id + 1
    BY <1>1
  <2> QED
    BY <1>3, <2>1, ArrivalUnmixed, ZenonT(60)
<1>6. Frees(e, Effect(q))
  BY <1>1, <1>4, <1>5, ResolvePrioritiesFrees
<1>7. e \in ServerEffects
  BY <1>6 DEF Frees, Yields, ServerEffects
<1>8. \A i \in MessageIds :
        reported'[i] # reported[i] =>
          /\ \E x \in Priorities : i \in Ids(q[x])
          /\ \A x \in Priorities : i \notin Ids(queues'[x])
  BY <1>2, <1>5, <1>6, <1>7, CancelReports DEF TypeInv
<1>9. \A x \in Priorities : Ids(queues'[x]) \subseteq Ids(queues[x]) \cup {m.id}
  <2>1. queues' = e.queues
    BY <1>2 DEF Apply
  <2>2. \A x \in Priorities : Ids(queues'[x]) \subseteq Ids(q[x])
    BY <1>5, <1>6, <2>1, PrunedIds DEF Frees, Yields, Prunes
  <2> QED
    BY <1>5, <2>2
<1>10. m.id \in MessageIds
  BY <1>1 DEF Messages
<1>11. ASSUME NEW x \in Priorities, NEW i \in Ids(queues'[x])
       PROVE  reported'[i] \notin Over /\ i # current_message.id
  <2>1. i \in Ids(queues[x]) \/ i = m.id
    BY <1>9
  <2>2. i \in MessageIds
    BY <1>10, <2>1, QueueIds
  <2>3. reported'[i] = reported[i]
    BY <1>8, <2>2
  <2>4. CASE i \in Ids(queues[x])
    BY <2>3, <2>4 DEF GoneInv
  <2>5. CASE i = m.id
    <3>1. i > last_message_id /\ current_message.id \in Nat
      BY <1>1, <2>5, BoundsAssumption
         DEF TypeInv, TypeOK, Messages, MessageIds, NoMessage
    <3>2. reported[i] = "none" /\ i # current_message.id
      BY <1>1, <2>2, <3>1 DEF GoneInv
    <3> QED
      BY <2>3, <3>2 DEF Over
  <2> QED
    BY <2>1, <2>4, <2>5
<1>12. ASSUME NEW i \in MessageIds, i > last_message_id'
       PROVE  reported'[i] = "none"
  <2>1. i \in Nat /\ i > last_message_id /\ i # m.id
    BY <1>1, <1>2, <1>12, BoundsAssumption DEF MessageIds
  <2>2. ASSUME NEW x \in Priorities, i \in Ids(queues[x])
        PROVE  FALSE
    <3>1. i <= last_message_id
      BY <2>2 DEF OrderInv
    <3> QED
      BY <1>1, <2>1, <3>1
  <2>3. \A x \in Priorities : i \notin Ids(q[x])
    BY <1>5, <2>1, <2>2
  <2>4. reported'[i] = reported[i]
    BY <1>8, <2>3
  <2> QED
    BY <2>1, <2>4 DEF GoneInv
<1>13. current_message'.id <= last_message_id'
  <2>1. current_message.id \in Nat /\ current_message.id <= last_message_id
    BY BoundsAssumption
       DEF GoneInv, TypeInv, TypeOK, Messages, MessageIds, NoMessage
  <2> QED
    BY <1>1, <1>2, <2>1
<1> QED
  BY <1>2, <1>11, <1>12, <1>13 DEF GoneInv

\* What STOP and CANCEL report is gone.
LEMMA StopGone ==
  ASSUME TypeInv, OrderInv, GoneInv, NEW c,
         Stop(c) \/ CancelClient(c) \/ StopAll \/ CancelAllQueues
  PROVE  GoneInv'
<1>1. PICK e \in ServerEffects : Frees(e, Effect(queues)) /\ Apply(e)
  BY StopFrees
<1>2. /\ UNCHANGED <<last_p5_block, current_message, priority, last_message_id>>
  BY DEF Stop, CancelClient, StopAll, CancelAllQueues, currentVars, clientVars,
         counterVars
<1>3. Effect(queues).queues = queues /\ queues' = e.queues
  BY <1>1 DEF Effect, Apply
<1>4. \A i \in MessageIds :
        reported'[i] # reported[i] =>
          /\ \E x \in Priorities : i \in Ids(queues[x])
          /\ \A x \in Priorities : i \notin Ids(queues'[x])
  BY <1>1, <1>3, QueuesUnmixed, CancelReports DEF TypeInv
<1>5. \A x \in Priorities : Ids(queues'[x]) \subseteq Ids(queues[x])
  BY <1>1, <1>3, PrunedIds DEF Frees, Yields, Prunes
<1>6. ASSUME NEW x \in Priorities, NEW i \in Ids(queues'[x])
      PROVE  reported'[i] \notin Over
  <2>1. i \in Ids(queues[x]) /\ i \in MessageIds
    BY <1>5, QueueIds
  <2>2. reported'[i] = reported[i]
    BY <1>4, <2>1
  <2> QED
    BY <2>1, <2>2 DEF GoneInv
<1>7. ASSUME NEW i \in MessageIds, i > last_message_id
      PROVE  reported'[i] = "none"
  <2>1. i \in Nat /\ last_message_id \in Nat
    BY BoundsAssumption DEF MessageIds, TypeInv, TypeOK
  <2>2. ASSUME NEW x \in Priorities, i \in Ids(queues[x])
        PROVE  FALSE
    <3>1. i <= last_message_id
      BY <2>2 DEF OrderInv
    <3> QED
      BY <1>7, <2>1, <3>1
  <2> QED
    BY <1>4, <1>7, <2>2 DEF GoneInv
<1> QED
  BY <1>2, <1>5, <1>6, <1>7 DEF GoneInv

\* The message that is taken is in no queue any more.
LEMMA WithoutDrops ==
  ASSUME NEW s \in Seq(Messages), Sorted(s), NEW i \in DOMAIN s
  PROVE  s[i].id \notin Ids(Without(s, i))
<1> SUFFICES ASSUME s[i].id \in Ids(Without(s, i))
             PROVE  FALSE
  OBVIOUS
<1> DEFINE a == SubSeq(s, 1, i - 1)
           b == SubSeq(s, i + 1, Len(s))
<1>1. /\ Len(s) \in Nat /\ DOMAIN s = 1..Len(s) /\ i \in 1..Len(s)
      /\ \A k \in 1..Len(s) : s[k] \in Messages
  BY ListOfMessages
<1>2. /\ a \in Seq(Messages)
      /\ Len(a) = i - 1
      /\ \A k \in 1..(i - 1) : a[k] = s[k]
  <2>1. 1 \in Int /\ i - 1 \in Int /\ \A k \in 1..(i - 1) : s[k] \in Messages
    BY <1>1
  <2>2. /\ a \in Seq(Messages)
        /\ Len(a) = IF 1 <= i - 1 THEN i - 1 - 1 + 1 ELSE 0
        /\ \A k \in 1..(i - 1 - 1 + 1) : a[k] = s[1 + k - 1]
    BY <2>1, SubSeqProperties
  <2> HIDE DEF a
  <2> QED
    BY <1>1, <2>2
<1>3. /\ b \in Seq(Messages)
      /\ Len(b) = Len(s) - i
      /\ \A k \in 1..(Len(s) - i) : b[k] = s[i + k]
  <2> DEFINE l == Len(s)
  <2>1. i + 1 \in Int /\ l \in Int /\ \A k \in (i + 1)..l : s[k] \in Messages
    BY <1>1
  <2>2. /\ b \in Seq(Messages)
        /\ Len(b) = IF i + 1 <= l THEN l - (i + 1) + 1 ELSE 0
        /\ \A k \in 1..(l - (i + 1) + 1) : b[k] = s[i + 1 + k - 1]
    BY <2>1, SubSeqProperties
  <2>3. l \in Nat /\ i \in 1..l
    BY <1>1
  <2> HIDE DEF b, l
  <2>4. /\ b \in Seq(Messages)
        /\ Len(b) = l - i
        /\ \A k \in 1..(l - i) : b[k] = s[i + k]
    BY <2>2, <2>3
  <2> QED
    BY <2>4 DEF l
<1> DEFINE t == a \o b
<1>4. t = Without(s, i)
  BY DEF Without
<1> HIDE DEF a, b
<1>5. /\ t \in Seq(Messages)
      /\ DOMAIN t = 1..(Len(a) + Len(b))
      /\ \A k \in 1..(Len(a) + Len(b)) :
           t[k] = IF k <= Len(a) THEN a[k] ELSE b[k - Len(a)]
  <2>1. /\ t \in Seq(Messages)
        /\ Len(t) = Len(a) + Len(b)
        /\ \A k \in 1..(Len(a) + Len(b)) :
             t[k] = IF k <= Len(a) THEN a[k] ELSE b[k - Len(a)]
    BY <1>2, <1>3, ConcatProperties
  <2>2. DOMAIN t = 1..Len(t)
    BY <2>1, LenProperties
  <2> QED
    BY <2>1, <2>2
<1> HIDE DEF t
<1>6. PICK k \in DOMAIN t : t[k].id = s[i].id
  BY <1>4 DEF Ids
<1>7. PICK j \in DOMAIN s : j # i /\ t[k] = s[j]
  <2>1. k \in 1..(Len(s) - 1)
    BY <1>1, <1>2, <1>3, <1>5, <1>6
  <2>2. CASE k <= i - 1
    <3>1. k \in 1..(i - 1) /\ k \in DOMAIN s /\ k # i
      BY <1>1, <2>1, <2>2
    <3>2. t[k] = s[k]
      BY <1>2, <1>3, <1>5, <1>6, <2>2, <3>1
    <3> QED
      BY <3>1, <3>2
  <2>3. CASE ~(k <= i - 1)
    <3>1. /\ k - (i - 1) \in 1..(Len(s) - i) /\ i + (k - (i - 1)) = k + 1
          /\ k + 1 \in DOMAIN s /\ k + 1 # i
      BY <1>1, <2>1, <2>3
    <3>2. t[k] = b[k - (i - 1)]
      BY <1>2, <1>5, <1>6, <2>3
    <3>3. t[k] = s[k + 1]
      BY <1>3, <3>1, <3>2
    <3> QED
      BY <3>1, <3>3
  <2> QED
    BY <2>2, <2>3
<1> QED
  BY <1>6, <1>7, SortedIds

\* Taking the next message, whether the module accepts or refuses it.
LEMMA TakeGone ==
  ASSUME TypeInv, OrderInv, GoneInv, NEW p \in Priorities,
         NEW i \in DOMAIN queues[p], SpeakMessage(p, i) \/ SpeakFails(p, i)
  PROVE  GoneInv'
<1>1. Take(p, i)
  BY DEF SpeakMessage, SpeakFails
<1>2. /\ \A x \in Priorities : Ids(queues'[x]) \subseteq Ids(queues[x])
      /\ UNCHANGED <<priority, last_message_id, reported>>
      /\ queues' = [queues EXCEPT ![p] = Without(@, i)]
  BY <1>1, TakePrunes, PrunedIds DEF Take, clientVars, counterVars
<1>3. last_p5_block' = <<>>
  BY DEF SpeakMessage, SpeakFails, GoneInv
<1>4. CASE SpeakFails(p, i)
  <2>1. current_message' = current_message
    BY <1>4 DEF SpeakFails
  <2>2. priority' \in [Clients -> Levels]
    BY <1>2 DEF GoneInv
  <2> QED
    BY <1>2, <1>3, <2>1, <2>2, GoneShrinks
<1>5. CASE SpeakMessage(p, i)
  <2> DEFINE m == queues[p][i]
             s == queues[p]
  <2>1. current_message' = m
    BY <1>5 DEF SpeakMessage, StartsSpeaking
  <2>2. queues \in [Priorities -> Seq(Messages)] /\ s \in Seq(Messages) /\ Sorted(s)
    BY DEF TypeInv, TypeOK, OrderInv
  <2>3. m.id \in Ids(queues[p])
    BY DEF Ids
  <2>4. m.id <= last_message_id
    BY <2>3 DEF OrderInv
  <2>5. ASSUME NEW x \in Priorities
        PROVE  m.id \notin Ids(queues'[x])
    <3>1. CASE x = p
      <4>1. queues'[x] = Without(s, i)
        BY <1>2, <2>2, <3>1
      <4>2. m.id = s[i].id /\ i \in DOMAIN s
        OBVIOUS
      <4> HIDE DEF m, s
      <4>3. s[i].id \notin Ids(Without(s, i))
        BY <2>2, <4>2, WithoutDrops
      <4> QED
        BY <4>1, <4>2, <4>3
    <3>2. CASE x # p
      <4>1. Ids(queues[x]) \cap Ids(queues[p]) = {}
        BY <3>2 DEF OrderInv
      <4> QED
        BY <1>2, <2>3, <4>1
    <3> QED
      BY <3>1, <3>2
  <2> HIDE DEF m, s
  <2> QED
    BY <1>2, <1>3, <2>1, <2>4, <2>5, Zenon DEF GoneInv
<1> QED
  BY <1>4, <1>5

\* The events of the module.
LEMMA EventGone ==
  ASSUME TypeInv, GoneInv, SpeakEvent \/ SpeakHangup
  PROVE  GoneInv'
<1>1. UNCHANGED <<queues, last_p5_block, priority, last_message_id>>
  BY DEF SpeakEvent, SpeakHangup, queueVars, clientVars, counterVars
<1>2. /\ current_message' \in {current_message, NoMessage}
      /\ reported' = reported \/ \E ev : ReportCurrent(ev)
  <2>1. CASE SpeakHangup
    BY <2>1 DEF SpeakHangup, speaking_module_cleanup
  <2>2. CASE SpeakEvent
    <3>1. Head(events) \in Event
      BY <2>2, HeadTailProperties DEF TypeInv, TypeOK, SpeakEvent, EventReady
    <3>2. CASE Head(events) = "begin"
      BY <2>2, <3>2 DEF SpeakEvent
    <3>3. CASE Head(events) = "mark"
      BY <2>2, <3>3 DEF SpeakEvent
    <3>4. CASE Head(events) \in Terminal
      BY <2>2, <3>4 DEF SpeakEvent, FellSilent, Terminal
    <3> QED
      BY <3>1, <3>2, <3>3, <3>4 DEF Event
  <2> QED
    BY <2>1, <2>2
<1> QED
  BY <1>1, <1>2, GoneReports

\* Every step.
LEMMA GoneKept ==
  ASSUME NoProgress, TypeInv, NothingPaused, OrderInv, GoneInv, [Next]_vars
  PROVE  GoneInv'
<1> USE DEF queueVars, currentVars, clientVars, counterVars
<1>1. ASSUME UNCHANGED <<queues, last_p5_block, priority, current_message,
                         last_message_id, reported>>
      PROVE  GoneInv'
  BY <1>1 DEF GoneInv
<1>2. ASSUME NEW c \in Clients, SetPriority(c)
      PROVE  GoneInv'
  <2>1. /\ UNCHANGED <<queues, last_p5_block, current_message, last_message_id,
                       reported>>
        /\ priority' \in [Clients -> Levels]
    BY <1>2 DEF SetPriority, GoneInv
  <2> QED
    BY <2>1 DEF GoneInv
<1>3. ASSUME NEW c \in Clients,
             BlockBegin(c) \/ BlockEnd(c) \/ Pause(c) \/ Resume(c) \/ Disconnect(c)
      PROVE  GoneInv'
  <2>1. UNCHANGED <<queues, last_p5_block, priority, current_message,
                    last_message_id, reported>>
    BY <1>3 DEF BlockBegin, BlockEnd, Pause, Resume, Disconnect
  <2> QED
    BY <1>1, <2>1
<1>4. CASE CancelAllStop \/ PauseAll \/ ResumeAll \/ OutputModule \/ UNCHANGED vars
  <2>1. UNCHANGED <<queues, last_p5_block, priority, current_message,
                    last_message_id, reported>>
    BY <1>4 DEF CancelAllStop, PauseAll, ResumeAll, OutputModule, ModuleFinishes,
                ModuleBegin, ModuleMark, ModuleEnd, ModuleStops, ModulePauses,
                ModuleCrash, Emit, vars
  <2> QED
    BY <1>1, <2>1
<1>5. CASE \/ SpeakWake \/ SpeakPause \/ SpeakPauseDone \/ SpeakCheck
           \/ SpeakReloaded \/ SpeakResumeDone \/ SpeakNothing
  <2>1. UNCHANGED <<queues, last_p5_block, priority, current_message,
                    last_message_id, reported>>
    BY <1>5 DEF SpeakWake, SpeakPause, SpeakPauseDone, SpeakCheck, SpeakReloaded,
                SpeakResumeDone, SpeakNothing
  <2> QED
    BY <1>1, <2>1
<1>6. CASE SpeakReload \/ SpeakReloadFails
  BY <1>6, NothingToReload DEF NothingPaused, SpeakReload, SpeakReloadFails
<1>7. CASE SpeakPromote
  BY <1>7 DEF GoneInv, TypeInv, Promoting, SpeakPromote, Postponed
<1>8. ASSUME NEW c \in Clients, Speak(c)
      PROVE  GoneInv'
  BY <1>8, SpeakGone
<1>9. ASSUME NEW c, Stop(c) \/ CancelClient(c) \/ StopAll \/ CancelAllQueues
      PROVE  GoneInv'
  BY <1>9, StopGone
<1>10. CASE MainThread
  BY <1>2, <1>3, <1>4, <1>8, <1>9, <1>10 DEF MainThread
<1>11. CASE SpeakThread
  BY <1>5, <1>6, <1>7, <1>11, EventGone, TakeGone DEF SpeakThread
<1> QED
  BY <1>4, <1>10, <1>11 DEF Next

\* The invariant of such servers.
LEMMA GoneInvariant ==
  ASSUME NoPauses, NoProgress
  PROVE  Spec => []GoneInv
<1>1. Init => GoneInv
  <2> SUFFICES ASSUME Init PROVE GoneInv
    OBVIOUS
  <2>1. \A p \in Priorities : Ids(queues[p]) = {}
    BY NoIds DEF Init
  <2>2. current_message.id = 0 /\ last_message_id = 0
    BY DEF Init, NoMessage
  <2>3. \A i \in MessageIds : reported[i] = "none"
    BY DEF Init
  <2> QED
    BY <2>1, <2>2, <2>3 DEF Init, GoneInv
<1>2. TypeInv /\ NothingPaused /\ OrderInv /\ GoneInv /\ [Next]_vars => GoneInv'
  BY GoneKept
<1> QED
  BY <1>1, <1>2, TypeInvariant, NothingIsPaused, OrderInvariant, PTL DEF Spec

\* As long as no client pauses and none sends progress messages, a message that
\* was reported as canceled or as ended waits in no queue: STOP, CANCEL, a more
\* important message, a hangup or a refusal of the module never leave a message
\* behind that is said after its client was told it is over.
THEOREM CanceledStaysGone ==
  ASSUME NoPauses, NoProgress
  PROVE  Spec => []CanceledIsGone
<1>1. GoneInv => CanceledIsGone
  BY DEF GoneInv, CanceledIsGone, Ids, Over
<1> QED
  BY <1>1, GoneInvariant, PTL

-----------------------------------------------------------------------------
(***************************************************************************)
(* CANCEL all.                                                             *)
(***************************************************************************)

\* The queue of the message that is spoken is one of those that are emptied, so
\* that CANCEL all stops the module, whatever it has begun since the first order.
LEMMA CancelAllStops ==
  ASSUME TypeInv, CancelAllQueues, Busy, speaking_module
  PROVE  "stop" \in orders'
<1> DEFINE e0 == Effect(queues)
           e1 == stop_priority(e0, IMPORTANT, current_priority)
           e2 == stop_priority(e1, MESSAGE, current_priority)
           e3 == stop_priority(e2, TEXT, current_priority)
           e4 == stop_priority(e3, NOTIFICATION, current_priority)
           e5 == stop_priority(e4, PROGRESS, current_priority)
<1>1. Apply(e5)
  BY DEF CancelAllQueues
<1>2. /\ e0 \in ServerEffects
      /\ current_priority \in Priorities
      /\ MessageSet(Messages, MessageIds)
  BY EffectOfQueues, MessagesHaveIds DEF TypeInv, TypeOK
<1>3. /\ Priorities = {IMPORTANT, MESSAGE, TEXT, NOTIFICATION, PROGRESS}
      /\ {IMPORTANT, MESSAGE, TEXT, NOTIFICATION, PROGRESS} \subseteq Priorities
  BY DEF Priorities, IMPORTANT, MESSAGE, TEXT, NOTIFICATION, PROGRESS
<1>4. ASSUME NEW e \in ServerEffects, NEW p \in Priorities
      PROVE  /\ stop_priority(e, p, current_priority) \in ServerEffects
             /\ stop_priority(e, p, current_priority).stop
                  = (e.stop \/ current_priority = p)
  BY <1>2, StopPriorityYields DEF Yields, ServerEffects
<1> HIDE DEF e0
<1>5. e1 \in ServerEffects /\ (current_priority = IMPORTANT => e1.stop)
  BY <1>2, <1>3, <1>4
<1> HIDE DEF e1
<1>6. e2 \in ServerEffects /\ (current_priority \in {IMPORTANT, MESSAGE} => e2.stop)
  BY <1>3, <1>4, <1>5
<1> HIDE DEF e2
<1>7. /\ e3 \in ServerEffects
      /\ current_priority \in {IMPORTANT, MESSAGE, TEXT} => e3.stop
  BY <1>3, <1>4, <1>6
<1> HIDE DEF e3
<1>8. /\ e4 \in ServerEffects
      /\ current_priority \in {IMPORTANT, MESSAGE, TEXT, NOTIFICATION} => e4.stop
  BY <1>3, <1>4, <1>7
<1> HIDE DEF e4
<1>9. e5.stop
  BY <1>2, <1>3, <1>4, <1>8
<1> HIDE DEF e5
<1> QED
  BY <1>1, <1>9 DEF Apply, OutputStop

\* After CANCEL all whatever is spoken has been told to stop, for any number of
\* clients and messages, also if the speak thread has started another message
\* between the two halves of the command.
THEOREM CancelAllStopsModule == Spec => CancelAllSilences
<1> DEFINE Stops == CancelAllQueues /\ Busy /\ speaking_module => "stop" \in orders'
<1>1. TypeInv /\ [Next]_vars => [Stops]_vars
  BY CancelAllStops
<1>2. Spec => [][Stops]_vars
  BY <1>1, TypeInvariant, PTL DEF Spec
<1> QED
  BY <1>2, PTL DEF CancelAllSilences

-----------------------------------------------------------------------------
(***************************************************************************)
(* Servers whose clients send no blocks: no message vanishes.              *)
(***************************************************************************)

\* A part of a list holds the messages of its positions.
LEMMA PartIds ==
  ASSUME NEW s \in Seq(Messages), NEW lo \in Nat \ {0}, NEW hi \in Nat,
         hi <= Len(s), NEW t, t = SubSeq(s, lo, hi)
  PROVE  /\ t \in Seq(Messages)
         /\ \A k \in lo..hi : s[k].id \in Ids(t)
         /\ Loose(s) => Loose(t)
<1> DEFINE l == Len(s)
<1>1. l \in Nat /\ DOMAIN s = 1..l /\ \A k \in 1..l : s[k] \in Messages
  BY ListOfMessages
<1>2. /\ t \in Seq(Messages)
      /\ Len(t) = IF lo <= hi THEN hi - lo + 1 ELSE 0
      /\ \A k \in 1..(hi - lo + 1) : t[k] = s[lo + k - 1]
  <2>1. lo \in Int /\ hi \in Int /\ \A k \in lo..hi : s[k] \in Messages
    BY <1>1
  <2> QED
    BY <2>1, SubSeqProperties
<1>3. DOMAIN t = 1..Len(t)
  BY <1>2, LenProperties
<1>4. hi <= l
  OBVIOUS
<1> HIDE DEF l
<1>5. ASSUME NEW k \in lo..hi
      PROVE  k - lo + 1 \in DOMAIN t /\ t[k - lo + 1] = s[k]
  <2>1. /\ k - lo + 1 \in 1..(hi - lo + 1) /\ lo + (k - lo + 1) - 1 = k
        /\ lo <= hi
    OBVIOUS
  <2> QED
    BY <1>2, <1>3, <2>1
<1>6. ASSUME NEW k \in DOMAIN t
      PROVE  lo + k - 1 \in DOMAIN s /\ t[k] = s[lo + k - 1]
  <2>1. lo <= hi /\ k \in 1..(hi - lo + 1)
    BY <1>2, <1>3
  <2>2. lo + k - 1 \in 1..l
    BY <1>1, <1>4, <2>1
  <2> QED
    BY <1>1, <1>2, <2>1, <2>2
<1>7. \A k \in lo..hi : s[k].id \in Ids(t)
  BY <1>5 DEF Ids
<1>8. Loose(s) => Loose(t)
  BY <1>6 DEF Loose
<1> QED
  BY <1>2, <1>7, <1>8

\* Two lists, one behind the other.
LEMMA JoinedIds ==
  ASSUME NEW a \in Seq(Messages), NEW b \in Seq(Messages), NEW t, t = a \o b
  PROVE  /\ t \in Seq(Messages)
         /\ Ids(a) \cup Ids(b) \subseteq Ids(t)
         /\ Loose(a) /\ Loose(b) => Loose(t)
<1> DEFINE l == Len(a)
           n == Len(b)
<1>1. /\ t \in Seq(Messages)
      /\ Len(t) = l + n
      /\ \A k \in 1..(l + n) : t[k] = IF k <= l THEN a[k] ELSE b[k - l]
  BY ConcatProperties
<1>2. /\ l \in Nat /\ DOMAIN a = 1..l
      /\ n \in Nat /\ DOMAIN b = 1..n
      /\ DOMAIN t = 1..(l + n)
  BY <1>1, LenProperties
<1> HIDE DEF l, n
<1>3. ASSUME NEW k \in DOMAIN a
      PROVE  k \in DOMAIN t /\ t[k] = a[k]
  BY <1>1, <1>2
<1>4. ASSUME NEW k \in DOMAIN b
      PROVE  l + k \in DOMAIN t /\ t[l + k] = b[k]
  <2>1. l + k \in 1..(l + n) /\ ~(l + k <= l) /\ l + k - l = k
    BY <1>2
  <2> QED
    BY <1>1, <1>2, <2>1
<1>5. ASSUME NEW k \in DOMAIN t
      PROVE  \/ k \in DOMAIN a /\ t[k] = a[k]
             \/ k - l \in DOMAIN b /\ t[k] = b[k - l]
  BY <1>1, <1>2
<1>6. Ids(a) \cup Ids(b) \subseteq Ids(t)
  <2>1. \A k \in DOMAIN a : a[k].id \in Ids(t)
    BY <1>3 DEF Ids
  <2>2. ASSUME NEW k \in DOMAIN b
        PROVE  b[k].id \in Ids(t)
    <3>1. PICK j \in DOMAIN t : t[j] = b[k]
      BY <1>4
    <3> QED
      BY <3>1 DEF Ids
  <2> QED
    BY <2>1, <2>2 DEF Ids
<1>7. ASSUME Loose(a), Loose(b), NEW k \in DOMAIN t
      PROVE  t[k].gid = 0
  BY <1>5, <1>7 DEF Loose
<1> QED
  BY <1>1, <1>6, <1>7 DEF Loose

\* A list without one message holds all the others.
LEMMA WithoutKeeps ==
  ASSUME NEW s \in Seq(Messages), NEW i \in DOMAIN s, NEW t, t = Without(s, i)
  PROVE  Ids(s) \subseteq Ids(t) \cup {s[i].id}
<1> DEFINE l == Len(s)
           a == SubSeq(s, 1, i - 1)
           b == SubSeq(s, i + 1, l)
<1>1. l \in Nat /\ DOMAIN s = 1..l /\ i \in 1..l
  BY ListOfMessages
<1>2. a \in Seq(Messages) /\ \A k \in 1..(i - 1) : s[k].id \in Ids(a)
  <2>1. 1 \in Nat \ {0} /\ i - 1 \in Nat /\ i - 1 <= Len(s)
    BY <1>1
  <2> HIDE DEF l
  <2> QED
    BY <2>1, PartIds
<1>3. b \in Seq(Messages) /\ \A k \in (i + 1)..l : s[k].id \in Ids(b)
  <2>1. i + 1 \in Nat \ {0} /\ l \in Nat /\ l <= Len(s)
    BY <1>1
  <2> HIDE DEF l
  <2> QED
    BY <2>1, PartIds
<1>4. t = a \o b
  BY DEF Without
<1> HIDE DEF a, b, l
<1>5. Ids(a) \cup Ids(b) \subseteq Ids(t)
  BY <1>2, <1>3, <1>4, JoinedIds
<1>6. ASSUME NEW k \in DOMAIN s
      PROVE  s[k].id \in Ids(t) \cup {s[i].id}
  <2>1. k \in 1..(i - 1) \/ k = i \/ k \in (i + 1)..l
    BY <1>1
  <2> QED
    BY <1>2, <1>3, <1>5, <2>1
<1> QED
  BY <1>6 DEF Ids

\* Inserting a message loses none.
LEMMA InsertKeeps ==
  ASSUME NEW s \in Seq(Messages), NEW m \in Messages, NEW t, t = InsertById(s, m)
  PROVE  /\ Ids(s) \subseteq Ids(t)
         /\ Loose(s) /\ m.gid = 0 => Loose(t)
<1> DEFINE before == {i \in DOMAIN s : \A j \in 1..i : s[j].id < m.id}
           n == Cardinality(before)
           l == Len(s)
           a == SubSeq(s, 1, n)
           lo == n + 1
           b == SubSeq(s, lo, l)
           c == a \o <<m>>
<1>1. l \in Nat /\ DOMAIN s = 1..l
  BY ListOfMessages
<1>2. n \in Nat /\ n <= l
  <2>1. IsFiniteSet(1..l) /\ Cardinality(1..l) = l
    <3>1. /\ IsFiniteSet(1..l)
          /\ Cardinality(1..l) = IF 1 > l THEN 0 ELSE l - 1 + 1
      BY <1>1, FS_Interval, SMTT(30)
    <3> QED
      BY <1>1, <3>1
  <2>2. before \in SUBSET (1..l)
    BY <1>1
  <2> HIDE DEF before, l
  <2>3. IsFiniteSet(before) /\ Cardinality(before) <= Cardinality(1..l)
    BY <2>1, <2>2, FS_Subset
  <2>4. Cardinality(before) \in Nat
    BY <2>3, FS_CardinalityType
  <2>5. Cardinality(before) <= l
    BY <2>1, <2>3
  <2> QED
    BY <2>4, <2>5
<1>3. /\ a \in Seq(Messages)
      /\ \A k \in 1..n : s[k].id \in Ids(a)
      /\ Loose(s) => Loose(a)
  <2>1. 1 \in Nat \ {0} /\ n \in Nat /\ n <= Len(s)
    BY <1>2
  <2> HIDE DEF n, l
  <2> QED
    BY <2>1, PartIds
<1>4. /\ b \in Seq(Messages)
      /\ \A k \in lo..l : s[k].id \in Ids(b)
      /\ Loose(s) => Loose(b)
  <2>1. lo \in Nat \ {0} /\ l \in Nat /\ l <= Len(s)
    BY <1>1, <1>2
  <2> HIDE DEF lo, l
  <2> QED
    BY <2>1, PartIds
<1>5. t = c \o b
  BY DEF InsertById
<1> HIDE DEF a, b, n, l
<1>6. <<m>> \in Seq(Messages) /\ (m.gid = 0 => Loose(<<m>>))
  BY DEF Loose
<1>7. /\ c \in Seq(Messages)
      /\ Ids(a) \subseteq Ids(c)
      /\ Loose(a) /\ m.gid = 0 => Loose(c)
  BY <1>3, <1>6, JoinedIds
<1> HIDE DEF c
<1>8. /\ Ids(c) \cup Ids(b) \subseteq Ids(t)
      /\ Loose(c) /\ Loose(b) => Loose(t)
  BY <1>4, <1>5, <1>7, JoinedIds
<1>9. ASSUME NEW k \in DOMAIN s
      PROVE  s[k].id \in Ids(t)
  <2>1. k \in 1..n \/ k \in lo..l
    BY <1>1, <1>2
  <2> QED
    BY <1>3, <1>4, <1>7, <1>8, <2>1
<1> QED
  BY <1>3, <1>4, <1>7, <1>8, <1>9 DEF Ids

\* A message of no block at the end of a list.
LEMMA AppendLoose ==
  ASSUME NEW s \in Seq(Messages), Loose(s), NEW m \in Messages, m.gid = 0,
         NEW t, t = Append(s, m)
  PROVE  Loose(t)
<1>1. t \in Seq(Messages)
  BY AppendProperties
<1>2. /\ Len(s) \in Nat /\ DOMAIN s = 1..Len(s)
      /\ DOMAIN t = 1..(Len(s) + 1)
      /\ \A i \in 1..Len(s) : t[i] = s[i]
      /\ t[Len(s) + 1] = m
  BY <1>1, AppendProperties, LenProperties
<1>3. \A i \in DOMAIN t : (i \in DOMAIN s /\ t[i] = s[i]) \/ t[i] = m
  BY <1>2
<1> QED
  BY <1>3 DEF Loose

\* The first message of a list and the others.
LEMMA LooseParts ==
  ASSUME NEW s \in Seq(Messages), s # <<>>, Loose(s)
  PROVE  Head(s).gid = 0 /\ Loose(Tail(s))
<1>1. /\ Len(s) \in Nat /\ DOMAIN s = 1..Len(s) /\ Len(s) # 0
  BY LenProperties, EmptySeq
<1>2. /\ Head(s) = s[1]
      /\ Tail(s) \in Seq(Messages)
      /\ Len(Tail(s)) = Len(s) - 1
      /\ \A k \in 1..Len(Tail(s)) : Tail(s)[k] = s[k + 1]
  BY HeadTailProperties
<1>3. DOMAIN Tail(s) = 1..Len(Tail(s))
  BY <1>2, LenProperties
<1>4. \A k \in DOMAIN Tail(s) : k + 1 \in DOMAIN s /\ Tail(s)[k] = s[k + 1]
  BY <1>1, <1>2, <1>3
<1>5. 1 \in DOMAIN s
  BY <1>1
<1> QED
  BY <1>2, <1>4, <1>5 DEF Loose

\* No client sends blocks, and no message is in one.
NoBlocks == "block" \notin Commands

LooseInv ==
  /\ \A c \in Clients : inside_block[c] = 0
  /\ \A p \in Priorities : Loose(queues[p])
  /\ Loose(last_p5_block)
  /\ Loose(MessagePausedList)
  /\ current_message.gid = 0

\* A message that is told to pause is set aside already.
AsideInv ==
  SPEAKING /\ ("pause" \in orders \/ \E k \in DOMAIN events : events[k] = "paused")
  => current_message.id \in Ids(MessagePausedList)

\* Message i is in a queue after the step, or was reported as canceled.
Accounted(i) ==
  (\E p \in Priorities : i \in Ids(queues'[p])) \/ reported'[i] = "cancel"

\* Carrying out an effect of the queues q.
LEMMA ApplyAccounts ==
  ASSUME TypeInv, NEW q \in [Priorities -> Seq(Messages)],
         \A p \in Priorities : Loose(q[p]),
         NEW e, Frees(e, Effect(q)), Apply(e)
  PROVE  /\ \A p \in Priorities : Loose(queues'[p])
         /\ \A p \in Priorities : \A i \in Ids(q[p]) : Accounted(i)
<1>1. Effect(q).queues = q
  BY DEF Effect
<1>2. Blockless(Effect(q))
  BY <1>1 DEF Blockless
<1>3. queues' = e.queues
  BY DEF Apply
<1>4. \A p \in Priorities : Loose(queues'[p])
  BY <1>2, <1>3, BlocklessPruned DEF Blockless
<1>5. ASSUME NEW p \in Priorities, NEW i \in Ids(q[p])
      PROVE  Accounted(i)
  <2>1. i \in Ids(e.queues[p]) \cup e.cancelled
    BY <1>1, <1>2 DEF Frees, Accounts
  <2>2. i \in MessageIds
    <3>1. q[p] \in Seq(Messages)
      OBVIOUS
    <3>2. PICK k \in DOMAIN q[p] : i = q[p][k].id
      BY DEF Ids
    <3>3. q[p][k] \in Messages
      BY <3>1, <3>2, ListOfMessages
    <3> QED
      BY <3>2, <3>3 DEF Messages
  <2>3. i \in e.cancelled => reported'[i] = "cancel"
    BY <2>2 DEF Apply
  <2> QED
    BY <1>3, <2>1, <2>3 DEF Accounted
<1> QED
  BY <1>4, <1>5

\* A message of no block joins a queue.
LEMMA EnqueueAccounts ==
  ASSUME TypeInv, LooseInv, NEW m \in Messages, m.gid = 0, NEW p \in Priorities,
         Enqueue(m, p)
  PROVE  /\ \A x \in Priorities : Loose(queues'[x])
         /\ Loose(last_p5_block')
         /\ \A x \in Priorities : \A i \in Ids(queues[x]) : Accounted(i)
         /\ Accounted(m.id)
<1> DEFINE s == queues[p]
           t == Append(s, m)
           q == [queues EXCEPT ![p] = Append(@, m)]
           e == resolve_priorities(Effect(q), p, SPEAKING, current_priority,
                                   speaking_gid)
<1>1. /\ queues \in [Priorities -> Seq(Messages)]
      /\ s \in Seq(Messages) /\ Loose(s)
      /\ SPEAKING \in BOOLEAN /\ current_priority \in Priorities
  BY DEF TypeInv, TypeOK, LooseInv
<1>2. Apply(e)
  BY DEF Enqueue
<1>3. t = Append(s, m) /\ q = [queues EXCEPT ![p] = t]
  OBVIOUS
<1>4. t \in Seq(Messages) /\ Ids(t) = Ids(s) \cup {m.id} /\ Loose(t)
  <2> HIDE DEF s, t
  <2> QED
    BY <1>1, <1>3, AppendedList, AppendLoose
<1>5. e = resolve_priorities(Effect(q), p, SPEAKING, current_priority, speaking_gid)
  OBVIOUS
<1> HIDE DEF t, q, e
<1>6. /\ q \in [Priorities -> Seq(Messages)]
      /\ q[p] = t
      /\ \A x \in Priorities : x # p => q[x] = queues[x]
  BY <1>1, <1>3, <1>4
<1>7. Effect(q) \in ServerEffects
  BY <1>6 DEF Effect, Effects, ServerEffects
<1>8. Frees(e, Effect(q))
  BY <1>1, <1>5, <1>7, ResolvePrioritiesFrees
<1>9. \A x \in Priorities : Loose(q[x])
  BY <1>4, <1>6 DEF LooseInv
<1>10. /\ \A x \in Priorities : Loose(queues'[x])
       /\ \A x \in Priorities : \A i \in Ids(q[x]) : Accounted(i)
  BY <1>2, <1>6, <1>8, <1>9, ApplyAccounts
<1>11. /\ \A x \in Priorities : Ids(queues[x]) \subseteq Ids(q[x])
       /\ m.id \in Ids(q[p])
  BY <1>4, <1>6
<1>12. Loose(last_p5_block')
  <2> DEFINE copy == [m EXCEPT !.copy = TRUE]
             kept == IF last_p5_block = <<>>
                        \/ last_p5_block[Len(last_p5_block)].gid # m.gid
                     THEN <<>> ELSE last_p5_block
  <2>1. copy \in Messages /\ copy.gid = 0
    BY DEF Messages
  <2>2. last_p5_block \in Seq(Messages) /\ Loose(last_p5_block)
    BY DEF TypeInv, TypeOK, LooseInv
  <2>3. kept \in Seq(Messages) /\ Loose(kept)
    BY <2>2 DEF Loose
  <2>4. CASE p = PROGRESS
    <3>1. last_p5_block' = Append(kept, copy)
      BY <2>4 DEF Enqueue
    <3> HIDE DEF kept, copy
    <3> QED
      BY <2>1, <2>3, <3>1, AppendLoose
  <2>5. CASE p # PROGRESS
    BY <2>2, <2>5 DEF Enqueue
  <2> QED
    BY <2>4, <2>5
<1> QED
  BY <1>10, <1>11, <1>12

\* SPEAK queues a message of no block.
LEMMA SpeakAccounts ==
  ASSUME TypeInv, LooseInv, NEW c \in Clients, Speak(c)
  PROVE  /\ \A x \in Priorities : Loose(queues'[x])
         /\ Loose(last_p5_block')
         /\ \A x \in Priorities : \A i \in Ids(queues[x]) : Accounted(i)
         /\ Accounted(last_message_id + 1)
<1> DEFINE m == [id |-> last_message_id + 1, uid |-> c,
                 gid |-> inside_block[c], copy |-> FALSE]
           p == priority[c]
<1>1. m \in Messages /\ p \in Priorities /\ m.id = last_message_id + 1
  BY BoundsAssumption DEF TypeInv, TypeOK, Speak, Messages, MessageIds
<1>2. m.gid = 0
  BY DEF LooseInv
<1>3. Enqueue(m, p)
  BY DEF Speak
<1> HIDE DEF m, p
<1> QED
  BY <1>1, <1>2, <1>3, EnqueueAccounts

\* A reload queues the message it takes out of the list.
LEMMA ReloadAccounts ==
  ASSUME TypeInv, LooseInv, SpeakReload
  PROVE  /\ \A x \in Priorities : Loose(queues'[x])
         /\ Loose(last_p5_block')
         /\ Loose(MessagePausedList')
         /\ \A x \in Priorities : \A i \in Ids(queues[x]) : Accounted(i)
         /\ \A i \in Ids(MessagePausedList) :
              i \in Ids(MessagePausedList') \/ Accounted(i)
<1> DEFINE m0 == MessagePausedList[NextReload]
           m == [m0 EXCEPT !.gid = 0]
           p == priority[m0.uid]
           w == Without(MessagePausedList, NextReload)
<1>1. /\ m0 \in Messages
      /\ NextReload \in DOMAIN MessagePausedList
      /\ Subsequence(w, MessagePausedList)
      /\ MessagePausedList' = w
      /\ MessagePausedList \in Seq(Messages)
  BY NextReloadIsSetAside DEF TypeInv, TypeOK, SpeakReload
<1>2. Enqueue(m, p)
  BY DEF SpeakReload
<1>3. w = Without(MessagePausedList, NextReload)
  OBVIOUS
<1> HIDE DEF w
<1>4. Ids(MessagePausedList) \subseteq Ids(w) \cup {m0.id}
  BY <1>1, <1>3, WithoutKeeps
<1> HIDE DEF m0
<1>5. m \in Messages /\ p \in Priorities /\ m.id = m0.id /\ m.gid = 0
  <2>1. priority \in [Clients -> Priorities]
    BY DEF TypeInv, TypeOK
  <2>2. m \in Messages /\ m.id = m0.id /\ m.gid = 0
    <3>1. m0 \in [id : MessageIds, uid : Clients, gid : Groups, copy : BOOLEAN]
      BY <1>1 DEF Messages
    <3>2. 0 \in Groups
      BY BoundsAssumption DEF Groups
    <3> QED
      BY <3>1, <3>2 DEF Messages
  <2>3. m0.uid \in Clients
    BY <1>1 DEF Messages
  <2> QED
    BY <2>1, <2>2, <2>3
<1> HIDE DEF m, p
<1>6. /\ \A x \in Priorities : Loose(queues'[x])
      /\ Loose(last_p5_block')
      /\ \A x \in Priorities : \A i \in Ids(queues[x]) : Accounted(i)
      /\ Accounted(m.id)
  BY <1>2, <1>5, EnqueueAccounts
<1>7. Loose(w)
  BY <1>1, LoosePruned DEF LooseInv
<1> QED
  BY <1>1, <1>4, <1>5, <1>6, <1>7

\* Moving a progress message.
LEMMA PromoteAccounts ==
  ASSUME TypeInv, LooseInv, SpeakPromote
  PROVE  /\ \A x \in Priorities : Loose(queues'[x])
         /\ Loose(last_p5_block')
         /\ \A x \in Priorities : \A i \in Ids(queues[x]) : Accounted(i)
<1> DEFINE m == Head(last_p5_block)
           s == queues[MESSAGE]
           t == InsertById(s, m)
           q == [queues EXCEPT ![MESSAGE] = InsertById(@, m)]
           e0 == Effect(q)
           e1 == stop_priority_older_than(e0, TEXT, m.id, MESSAGE)
           e2 == stop_priority(e1, NOTIFICATION, MESSAGE)
           e3 == stop_priority(e2, PROGRESS, MESSAGE)
<1>1. {MESSAGE, TEXT, NOTIFICATION, PROGRESS} \subseteq Priorities
  BY DEF Priorities, IMPORTANT, MESSAGE, TEXT, NOTIFICATION, PROGRESS
<1>2. /\ last_p5_block \in Seq(Messages) /\ last_p5_block # <<>>
      /\ queues \in [Priorities -> Seq(Messages)]
      /\ s \in Seq(Messages)
      /\ Loose(last_p5_block) /\ Loose(s)
  BY <1>1 DEF TypeInv, TypeOK, Promoting, SpeakPromote, Postponed, LooseInv
<1>3. m \in Messages /\ m.gid = 0 /\ Loose(Tail(last_p5_block))
  BY <1>2, HeadTailProperties, LooseParts
<1>4. last_p5_block' = Tail(last_p5_block)
  BY DEF SpeakPromote
<1>5. Apply(e3) \/ (queues' = q /\ UNCHANGED reported)
  BY DEF SpeakPromote
<1>6. t = InsertById(s, m) /\ q = [queues EXCEPT ![MESSAGE] = t]
  OBVIOUS
<1> HIDE DEF m
<1>7. t \in Seq(Messages) /\ Ids(s) \subseteq Ids(t) /\ Loose(t)
  <2> HIDE DEF s, t
  <2> QED
    BY <1>2, <1>3, <1>6, InsertByIdAdds, InsertKeeps
<1> HIDE DEF t, q
<1>8. /\ q \in [Priorities -> Seq(Messages)]
      /\ q[MESSAGE] = t
      /\ \A x \in Priorities : x # MESSAGE => q[x] = queues[x]
  BY <1>1, <1>2, <1>6, <1>7
<1>9. \A x \in Priorities : Loose(q[x]) /\ Ids(queues[x]) \subseteq Ids(q[x])
  BY <1>7, <1>8 DEF LooseInv
<1>10. e0 \in ServerEffects
  BY <1>8 DEF Effect, Effects, ServerEffects
<1>11. Frees(e1, e0)
  <2> HIDE DEF e0
  <2> QED
    BY <1>1, <1>10, StopPriorityFrees
<1> HIDE DEF e1
<1>12. Frees(e2, e0)
  <2> HIDE DEF e0
  <2> QED
    BY <1>1, <1>10, <1>11, StopNextFrees
<1> HIDE DEF e2
<1>13. Frees(e3, e0)
  <2> HIDE DEF e0
  <2> QED
    BY <1>1, <1>10, <1>12, StopNextFrees
<1> HIDE DEF e3
<1>14. CASE Apply(e3)
  BY <1>3, <1>4, <1>8, <1>9, <1>13, <1>14, ApplyAccounts
<1>15. CASE queues' = q /\ UNCHANGED reported
  BY <1>3, <1>4, <1>9, <1>15 DEF Accounted
<1> QED
  BY <1>5, <1>14, <1>15

\* STOP and CANCEL.
LEMMA StopAccounts ==
  ASSUME TypeInv, LooseInv, NEW c,
         Stop(c) \/ CancelClient(c) \/ StopAll \/ CancelAllQueues
  PROVE  /\ \A x \in Priorities : Loose(queues'[x])
         /\ \A x \in Priorities : \A i \in Ids(queues[x]) : Accounted(i)
<1>1. PICK e \in ServerEffects : Frees(e, Effect(queues)) /\ Apply(e)
  BY StopFrees
<1>2. queues \in [Priorities -> Seq(Messages)]
  BY DEF TypeInv, TypeOK
<1> QED
  BY <1>1, <1>2, ApplyAccounts DEF LooseInv

\* The message that is taken, and those that are not.
LEMMA TakeAccounts ==
  ASSUME TypeInv, LooseInv, NEW p \in Priorities, NEW i \in DOMAIN queues[p],
         Take(p, i)
  PROVE  /\ \A x \in Priorities : Loose(queues'[x])
         /\ \A x \in Priorities : \A j \in Ids(queues[x]) :
              Accounted(j) \/ j = queues[p][i].id
         /\ queues[p][i].gid = 0
<1> DEFINE s == queues[p]
           t == Without(s, i)
<1>1. queues \in [Priorities -> Seq(Messages)] /\ s \in Seq(Messages)
  BY DEF TypeInv, TypeOK
<1>2. queues' = [queues EXCEPT ![p] = t]
  BY DEF Take
<1>3. t = Without(s, i) /\ i \in DOMAIN s
  OBVIOUS
<1>4. \A x \in Priorities : Loose(queues'[x])
  BY TakePrunes, LoosePruned DEF LooseInv
<1>5. queues[p][i].gid = 0
  BY DEF LooseInv, Loose
<1> HIDE DEF t, s
<1>6. Ids(s) \subseteq Ids(t) \cup {s[i].id}
  BY <1>1, <1>3, WithoutKeeps
<1>7. /\ queues'[p] = t
      /\ \A x \in Priorities : x # p => queues'[x] = queues[x]
  BY <1>1, <1>2
<1>8. ASSUME NEW x \in Priorities, NEW j \in Ids(queues[x])
      PROVE  Accounted(j) \/ j = queues[p][i].id
  <2>1. j \in Ids(queues'[x]) \/ j = queues[p][i].id
    BY <1>6, <1>7 DEF s
  <2> QED
    BY <2>1 DEF Accounted
<1> QED
  BY <1>4, <1>5, <1>8

\* The event that is read is the first one.
LEMMA TailOfEvents ==
  ASSUME NEW s \in Seq(Event), s # <<>>, NEW k \in DOMAIN Tail(s)
  PROVE  k + 1 \in DOMAIN s /\ Tail(s)[k] = s[k + 1]
<1>1. /\ Len(s) \in Nat /\ DOMAIN s = 1..Len(s) /\ Len(s) # 0
      /\ Tail(s) \in Seq(Event)
      /\ Len(Tail(s)) = Len(s) - 1
      /\ \A j \in 1..Len(Tail(s)) : Tail(s)[j] = s[j + 1]
  BY LenProperties, EmptySeq, HeadTailProperties
<1>2. DOMAIN Tail(s) = 1..Len(Tail(s))
  BY <1>1, LenProperties
<1> QED
  BY <1>1, <1>2

\* The module's events leave the message in place or forget it.
LEMMA EventKeepsMessage ==
  ASSUME TypeInv, SpeakEvent \/ SpeakHangup
  PROVE  current_message' \in {current_message, NoMessage}
<1>1. CASE SpeakHangup
  BY <1>1 DEF SpeakHangup, speaking_module_cleanup
<1>2. CASE SpeakEvent
  <2>1. Head(events) \in Event
    BY <1>2, HeadTailProperties DEF TypeInv, TypeOK, SpeakEvent, EventReady
  <2>2. CASE Head(events) = "begin" \/ Head(events) = "mark"
    BY <1>2, <2>2 DEF SpeakEvent
  <2>3. CASE Head(events) \in Terminal
    BY <1>2, <2>3 DEF SpeakEvent, FellSilent, Terminal
  <2> QED
    BY <2>1, <2>2, <2>3 DEF Event
<1> QED
  BY <1>1, <1>2

\* A message set aside.
LEMMA SetAsideAccounts ==
  ASSUME TypeInv, LooseInv, VoiceInv, SpeakPause
  PROVE  /\ Loose(MessagePausedList')
         /\ Ids(MessagePausedList) \subseteq Ids(MessagePausedList')
         /\ \/ UNCHANGED <<MessagePausedList, orders>>
            \/ current_message.id \in Ids(MessagePausedList')
<1>1. MessagePausedList \in Seq(Messages) /\ Loose(MessagePausedList)
  BY DEF TypeInv, TypeOK, LooseInv
<1>2. CASE UNCHANGED <<MessagePausedList, orders>>
  BY <1>1, <1>2
<1>3. CASE ~UNCHANGED <<MessagePausedList, orders>>
  <2> DEFINE s == MessagePausedList
             m == current_message
             t == Append(s, m)
  <2>1. SetAside /\ m # NoMessage
    BY <1>3 DEF SpeakPause
  <2>2. m \in Messages /\ m.gid = 0 /\ s \in Seq(Messages) /\ Loose(s)
    BY <1>1, <2>1 DEF TypeInv, TypeOK, LooseInv
  <2>3. MessagePausedList' = t /\ t = Append(s, m)
    BY <2>1 DEF SetAside
  <2> HIDE DEF s, m, t
  <2>4. Loose(t) /\ Ids(t) = Ids(s) \cup {m.id}
    BY <2>2, <2>3, AppendLoose, AppendedList
  <2> QED
    BY <2>3, <2>4 DEF s, m
<1> QED
  BY <1>2, <1>3

\* A reload that fails loses the one message it took out of the list.
LEMMA ReloadFailsAccounts ==
  ASSUME TypeInv, LooseInv, SpeakReloadFails
  PROVE  /\ Loose(MessagePausedList')
         /\ \A i \in Ids(MessagePausedList) :
              i \in Ids(MessagePausedList') \/ i = MessagePausedList[NextReload].id
<1> DEFINE m0 == MessagePausedList[NextReload]
           w == Without(MessagePausedList, NextReload)
<1>1. /\ NextReload \in DOMAIN MessagePausedList
      /\ Subsequence(w, MessagePausedList)
      /\ MessagePausedList' = w
      /\ MessagePausedList \in Seq(Messages)
  BY NextReloadIsSetAside DEF TypeInv, TypeOK, SpeakReloadFails
<1>2. w = Without(MessagePausedList, NextReload)
  OBVIOUS
<1> HIDE DEF w
<1>3. Ids(MessagePausedList) \subseteq Ids(w) \cup {m0.id}
  BY <1>1, <1>2, WithoutKeeps
<1>4. Loose(w)
  BY <1>1, LoosePruned DEF LooseInv
<1> QED
  BY <1>1, <1>3, <1>4

\* No step puts a message into a block.
LEMMA LooseKept ==
  ASSUME NoBlocks, TypeInv, VoiceInv, LooseInv, [Next]_vars
  PROVE  LooseInv'
<1> USE DEF queueVars, currentVars, clientVars
<1>1. ASSUME UNCHANGED <<queueVars, current_message, inside_block>>
      PROVE  LooseInv'
  BY <1>1 DEF LooseInv
<1>2. ASSUME NEW c \in Clients, BlockBegin(c) \/ BlockEnd(c)
      PROVE  LooseInv'
  BY <1>2 DEF NoBlocks, BlockBegin, BlockEnd, Serving
<1>3. ASSUME NEW c \in Clients,
             SetPriority(c) \/ Pause(c) \/ Resume(c) \/ Disconnect(c)
      PROVE  LooseInv'
  <2>1. UNCHANGED <<queueVars, current_message, inside_block>>
    BY <1>3 DEF SetPriority, Pause, Resume, Disconnect
  <2> QED
    BY <1>1, <2>1
<1>4. CASE CancelAllStop \/ PauseAll \/ ResumeAll \/ OutputModule \/ UNCHANGED vars
  <2>1. UNCHANGED <<queueVars, current_message, inside_block>>
    BY <1>4 DEF CancelAllStop, PauseAll, ResumeAll, OutputModule, ModuleFinishes,
                ModuleBegin, ModuleMark, ModuleEnd, ModuleStops, ModulePauses,
                ModuleCrash, Emit, vars
  <2> QED
    BY <1>1, <2>1
<1>5. CASE \/ SpeakWake \/ SpeakPauseDone \/ SpeakCheck
           \/ SpeakReloaded \/ SpeakResumeDone \/ SpeakNothing
  <2>1. UNCHANGED <<queueVars, current_message, inside_block>>
    BY <1>5 DEF SpeakWake, SpeakPauseDone, SpeakCheck, SpeakReloaded,
                SpeakResumeDone, SpeakNothing
  <2> QED
    BY <1>1, <2>1
<1>6. CASE SpeakEvent \/ SpeakHangup
  <2>1. UNCHANGED <<queueVars, inside_block>>
    BY <1>6 DEF SpeakEvent, SpeakHangup
  <2>2. current_message' \in {current_message, NoMessage}
    BY <1>6, EventKeepsMessage
  <2>3. current_message'.gid = 0
    BY <2>2 DEF LooseInv, NoMessage
  <2> QED
    BY <2>1, <2>3 DEF LooseInv
<1>7. CASE SpeakPause
  <2>1. UNCHANGED <<queues, last_p5_block, current_message, inside_block>>
    BY <1>7 DEF SpeakPause
  <2> QED
    BY <1>7, <2>1, SetAsideAccounts DEF LooseInv
<1>8. CASE SpeakReload
  <2>1. UNCHANGED <<current_message, inside_block>>
    BY <1>8 DEF SpeakReload
  <2> QED
    BY <1>8, <2>1, ReloadAccounts DEF LooseInv
<1>9. CASE SpeakReloadFails
  <2>1. UNCHANGED <<queues, last_p5_block, current_message, inside_block>>
    BY <1>9 DEF SpeakReloadFails
  <2> QED
    BY <1>9, <2>1, ReloadFailsAccounts DEF LooseInv
<1>10. CASE SpeakPromote
  <2>1. UNCHANGED <<MessagePausedList, current_message, inside_block>>
    BY <1>10 DEF SpeakPromote
  <2> QED
    BY <1>10, <2>1, PromoteAccounts DEF LooseInv
<1>11. ASSUME NEW c \in Clients, Speak(c)
       PROVE  LooseInv'
  <2>1. UNCHANGED <<MessagePausedList, current_message, inside_block>>
    BY <1>11 DEF Speak
  <2> QED
    BY <1>11, <2>1, SpeakAccounts DEF LooseInv
<1>12. ASSUME NEW c, Stop(c) \/ CancelClient(c) \/ StopAll \/ CancelAllQueues
       PROVE  LooseInv'
  <2>1. UNCHANGED <<last_p5_block, MessagePausedList, current_message, inside_block>>
    BY <1>12 DEF Stop, CancelClient, StopAll, CancelAllQueues
  <2> QED
    BY <1>12, <2>1, StopAccounts DEF LooseInv
<1>13. ASSUME NEW p \in Priorities, NEW i \in DOMAIN queues[p],
              SpeakMessage(p, i) \/ SpeakFails(p, i)
       PROVE  LooseInv'
  <2>1. Take(p, i)
    BY <1>13 DEF SpeakMessage, SpeakFails
  <2>2. UNCHANGED <<MessagePausedList, inside_block>>
    BY <2>1 DEF Take
  <2>3. (\A x \in Priorities : Loose(queues'[x])) /\ queues[p][i].gid = 0
    BY <2>1, TakeAccounts
  <2>4. last_p5_block' = last_p5_block \/ last_p5_block' = <<>>
    BY <1>13 DEF SpeakMessage, SpeakFails
  <2>5. current_message' = current_message \/ current_message' = queues[p][i]
    BY <1>13 DEF SpeakMessage, StartsSpeaking, SpeakFails
  <2>6. Loose(last_p5_block')
    BY <2>4 DEF LooseInv, Loose
  <2>7. current_message'.gid = 0
    BY <2>3, <2>5 DEF LooseInv
  <2> QED
    BY <2>2, <2>3, <2>6, <2>7 DEF LooseInv
<1>14. CASE MainThread
  BY <1>2, <1>3, <1>4, <1>11, <1>12, <1>14 DEF MainThread
<1>15. CASE SpeakThread
  BY <1>5, <1>6, <1>7, <1>8, <1>9, <1>10, <1>13, <1>15 DEF SpeakThread
<1> QED
  BY <1>4, <1>14, <1>15 DEF Next

\* The orders after a command, a message or a reload.
LEMMA OnlyStops ==
  ASSUME TypeInv, NEW e, Apply(e)
  PROVE  ("pause" \in orders' => "pause" \in orders) /\ events' = events
<1> QED
  BY DEF Apply, OutputStop, moduleVars

\* An event that joins a list of events.
LEMMA EmitsEvent ==
  ASSUME TypeInv, NEW ev \in Event, NEW s, Emit(ev, s), NEW k \in DOMAIN events'
  PROVE  events'[k] = ev \/ \E j \in DOMAIN events : events[j] = events'[k]
<1>1. events \in Seq(Event) /\ events' = Append(events, ev)
  BY DEF TypeInv, TypeOK, Emit
<1>2. /\ DOMAIN events' = 1..(Len(events) + 1)
      /\ DOMAIN events = 1..Len(events) /\ Len(events) \in Nat
      /\ \A i \in 1..Len(events) : events'[i] = events[i]
      /\ events'[Len(events) + 1] = ev
  BY <1>1, AppendProperties, LenProperties
<1> QED
  BY <1>2

\* No step forgets a message that is told to pause.
LEMMA AsideKept ==
  ASSUME TypeInv, VoiceInv, LooseInv, AsideInv, [Next]_vars
  PROVE  AsideInv'
<1> USE DEF queueVars, currentVars, moduleVars, orderVars
<1>1. ASSUME UNCHANGED <<SPEAKING, current_message, MessagePausedList, events>>,
             "pause" \in orders' => "pause" \in orders
      PROVE  AsideInv'
  BY <1>1 DEF AsideInv
<1>2. ASSUME ~SPEAKING'
      PROVE  AsideInv'
  BY <1>2 DEF AsideInv
<1>3. ASSUME NEW c \in Clients, Speak(c)
      PROVE  AsideInv'
  <2>1. UNCHANGED <<SPEAKING, current_message, MessagePausedList>>
    BY <1>3 DEF Speak
  <2>2. \E e : Apply(e)
    BY <1>3 DEF Speak, Enqueue
  <2> QED
    BY <1>1, <2>1, <2>2, OnlyStops
<1>4. ASSUME NEW c \in Clients,
             \/ SetPriority(c) \/ BlockBegin(c) \/ BlockEnd(c)
             \/ Pause(c) \/ Resume(c) \/ Disconnect(c)
      PROVE  AsideInv'
  <2>1. UNCHANGED <<SPEAKING, current_message, MessagePausedList, events, orders>>
    BY <1>4 DEF SetPriority, BlockBegin, BlockEnd, Pause, Resume, Disconnect
  <2> QED
    BY <1>1, <2>1
<1>5. CASE \/ PauseAll \/ ResumeAll \/ ModuleCrash \/ UNCHANGED vars
           \/ SpeakWake \/ SpeakPauseDone \/ SpeakCheck
           \/ SpeakReloaded \/ SpeakResumeDone \/ SpeakNothing
  <2>1. UNCHANGED <<SPEAKING, current_message, MessagePausedList, events, orders>>
    BY <1>5 DEF PauseAll, ResumeAll, ModuleCrash, vars, SpeakWake, SpeakPauseDone,
                SpeakCheck, SpeakReloaded, SpeakResumeDone, SpeakNothing
  <2> QED
    BY <1>1, <2>1
<1>6. ASSUME NEW c, Stop(c) \/ CancelClient(c) \/ StopAll \/ CancelAllQueues
      PROVE  AsideInv'
  <2>1. UNCHANGED <<SPEAKING, current_message, MessagePausedList>>
    BY <1>6 DEF Stop, CancelClient, StopAll, CancelAllQueues
  <2>2. \E e : Apply(e)
    BY <1>6, StopEffect DEF TypeInv
  <2> QED
    BY <1>1, <2>1, <2>2, OnlyStops
<1>7. CASE CancelAllStop
  <2>1. UNCHANGED <<SPEAKING, current_message, MessagePausedList>>
    BY <1>7 DEF CancelAllStop
  <2>2. events' = events /\ ("pause" \in orders' => "pause" \in orders)
    BY <1>7 DEF CancelAllStop, OutputStop
  <2> QED
    BY <1>1, <2>1, <2>2
<1>8. CASE SpeakPause
  <2>1. UNCHANGED <<SPEAKING, current_message, events>>
    BY <1>8 DEF SpeakPause
  <2>2. CASE UNCHANGED <<MessagePausedList, orders>>
    BY <1>1, <2>1, <2>2
  <2>3. CASE current_message.id \in Ids(MessagePausedList')
    BY <2>1, <2>3 DEF AsideInv
  <2> QED
    BY <1>8, <2>2, <2>3, SetAsideAccounts
<1>9. CASE SpeakReload \/ SpeakReloadFails \/ SpeakPromote
  <2>1. ~SPEAKING /\ SPEAKING' = SPEAKING
    BY <1>9 DEF VoiceInv, Looking, SpeakReload, SpeakReloadFails, SpeakPromote
  <2> QED
    BY <1>2, <2>1
<1>10. CASE SpeakHangup
  BY <1>2, <1>10 DEF SpeakHangup, speaking_module_cleanup
<1>11. CASE SpeakEvent
  <2>1. /\ events \in Seq(Event) /\ events # <<>> /\ events' = Tail(events)
        /\ UNCHANGED <<MessagePausedList, orders>>
        /\ module # "dead"
    BY <1>11 DEF TypeInv, TypeOK, SpeakEvent, EventReady
  <2>2. SPEAKING
    BY <2>1 DEF VoiceInv
  <2>3. \A k \in DOMAIN events' : k + 1 \in DOMAIN events /\ events'[k] = events[k + 1]
    BY <2>1, TailOfEvents
  <2>4. CASE SPEAKING' /\ current_message' = current_message
    BY <2>1, <2>2, <2>3, <2>4 DEF AsideInv
  <2>5. Head(events) \in Event
    BY <2>1, HeadTailProperties
  <2>6. CASE Head(events) \in Terminal
    <3>1. ~SPEAKING'
      BY <1>11, <2>6 DEF SpeakEvent, FellSilent, Terminal
    <3> QED
      BY <1>2, <3>1
  <2>7. CASE Head(events) = "begin"
    BY <1>11, <2>4, <2>7 DEF SpeakEvent
  <2>8. CASE Head(events) = "mark"
    BY <1>11, <2>2, <2>4, <2>8 DEF SpeakEvent
  <2> QED
    BY <2>5, <2>6, <2>7, <2>8 DEF Event
<1>12. ASSUME NEW p \in Priorities, NEW i \in DOMAIN queues[p],
              SpeakMessage(p, i) \/ SpeakFails(p, i)
       PROVE  AsideInv'
  <2>1. ~SPEAKING
    BY <1>12 DEF VoiceInv, Looking, SpeakMessage, SpeakFails, Take
  <2>2. CASE SpeakMessage(p, i)
    <3>1. orders' = {} /\ events' = events /\ module # "dead"
      BY <2>2 DEF SpeakMessage
    <3>2. events' = <<>>
      BY <2>1, <3>1 DEF VoiceInv
    <3> QED
      BY <3>1, <3>2 DEF AsideInv
  <2>3. CASE SpeakFails(p, i)
    BY <1>2, <2>1, <2>3 DEF SpeakFails
  <2> QED
    BY <1>12, <2>2, <2>3
<1>13. ASSUME NEW ev \in Event, NEW s, Emit(ev, s),
              ev = "paused" => "pause" \in orders
       PROVE  AsideInv'
  <2>1. UNCHANGED <<SPEAKING, current_message, MessagePausedList, orders>>
    BY <1>13 DEF Emit
  <2>2. ASSUME NEW k \in DOMAIN events', events'[k] = "paused"
        PROVE  "pause" \in orders \/ \E j \in DOMAIN events : events[j] = "paused"
    BY <1>13, <2>2, EmitsEvent
  <2> QED
    BY <2>1, <2>2 DEF AsideInv
<1>14. CASE ModuleFinishes \/ ModuleMark
  BY <1>13, <1>14 DEF ModuleFinishes, ModuleBegin, ModuleMark, ModuleEnd,
                      ModuleStops, ModulePauses, Event, Terminal
<1>15. CASE MainThread
  BY <1>3, <1>4, <1>5, <1>6, <1>7, <1>15 DEF MainThread
<1>16. CASE SpeakThread
  BY <1>5, <1>8, <1>9, <1>10, <1>11, <1>12, <1>16 DEF SpeakThread
<1> QED
  BY <1>5, <1>14, <1>15, <1>16 DEF Next, OutputModule

\* What NothingVanishes says of one step and message i.
Stays(i) == Held(i)' \/ reported'[i] \in {"end", "cancel"} \/ Dropped(i)

\* A message that is in a queue or in the list afterwards, or was canceled.
LEMMA AccountedStays ==
  ASSUME NEW i, Accounted(i) \/ i \in Ids(MessagePausedList')
  PROVE  Stays(i)
<1> QED
  BY DEF Accounted, Held, Stays

\* A step that loses no message of the queues and of the list, while whatever is
\* spoken is spoken on.
LEMMA QueuesStay ==
  ASSUME NEW i, Held(i),
         \A p \in Priorities : i \in Ids(queues[p]) => Accounted(i),
         i \in Ids(MessagePausedList) =>
           i \in Ids(MessagePausedList') \/ Accounted(i),
         SPEAKING => SPEAKING' /\ current_message' = current_message
  PROVE  Stays(i)
<1>1. CASE Accounted(i) \/ i \in Ids(MessagePausedList')
  BY <1>1, AccountedStays
<1>2. CASE SPEAKING /\ current_message.id = i
  BY <1>2 DEF Held, Stays
<1> QED
  BY <1>1, <1>2 DEF Held

\* The module's events: what is spoken is spoken on, is over or set aside.
LEMMA EventStays ==
  ASSUME TypeInv, VoiceInv, AsideInv, NEW i \in MessageIds, Held(i),
         SpeakEvent \/ SpeakHangup
  PROVE  Stays(i)
<1> USE DEF queueVars
<1>1. UNCHANGED <<queues, MessagePausedList>>
  BY DEF SpeakEvent, SpeakHangup
<1>2. CASE (\E p \in Priorities : i \in Ids(queues[p])) \/ i \in Ids(MessagePausedList)
  BY <1>1, <1>2, AccountedStays DEF Accounted
<1>3. CASE SPEAKING /\ current_message.id = i
  <2>1. /\ current_message # NoMessage
        /\ reported \in [MessageIds -> Report]
    BY <1>3 DEF VoiceInv, TypeInv, TypeOK
  <2>2. ASSUME NEW ev, ReportCurrent(ev)
        PROVE  reported'[i] = ev
    BY <1>3, <2>1, <2>2 DEF ReportCurrent
  <2>3. CASE SpeakHangup
    <3>1. ReportCurrent("end")
      BY <1>3, <2>1, <2>3 DEF SpeakHangup, speaking_module_cleanup
    <3> QED
      BY <2>2, <3>1 DEF Stays
  <2>4. CASE SpeakEvent
    <3>1. events \in Seq(Event) /\ events # <<>>
      BY <2>4 DEF TypeInv, TypeOK, SpeakEvent, EventReady
    <3>2. Head(events) \in Event /\ Head(events) = events[1] /\ 1 \in DOMAIN events
      BY <3>1, HeadTailProperties, LenProperties, EmptySeq
    <3>3. CASE Head(events) = "begin" \/ Head(events) = "mark"
      <4>1. SPEAKING' /\ current_message' = current_message
        BY <1>3, <2>4, <3>3 DEF SpeakEvent
      <4> QED
        BY <1>3, <4>1 DEF Held, Stays
    <3>4. CASE Head(events) = "end" \/ Head(events) = "stopped"
      <4>1. ReportCurrent("end") \/ ReportCurrent("cancel")
        BY <2>4, <3>4 DEF SpeakEvent, FellSilent
      <4> QED
        BY <2>2, <4>1 DEF Stays
    <3>5. CASE Head(events) = "paused"
      <4>1. i \in Ids(MessagePausedList)
        BY <1>3, <3>2, <3>5 DEF AsideInv
      <4> QED
        BY <1>1, <4>1, AccountedStays
    <3> QED
      BY <3>2, <3>3, <3>4, <3>5 DEF Event, Terminal
  <2> QED
    BY <2>3, <2>4
<1> QED
  BY <1>2, <1>3 DEF Held

\* The message that is taken is spoken then, or the module refuses it.
LEMMA TakeStays ==
  ASSUME TypeInv, VoiceInv, LooseInv, NEW i, Held(i),
         NEW p \in Priorities, NEW k \in DOMAIN queues[p],
         SpeakMessage(p, k) \/ SpeakFails(p, k)
  PROVE  Stays(i)
<1>1. Take(p, k)
  BY DEF SpeakMessage, SpeakFails
<1>2. ~SPEAKING /\ UNCHANGED MessagePausedList
  BY <1>1 DEF VoiceInv, Looking, Take
<1>3. CASE i = queues[p][k].id
  <2>1. CASE SpeakMessage(p, k)
    <3>1. SPEAKING' /\ current_message' = queues[p][k]
      BY <2>1 DEF SpeakMessage, StartsSpeaking
    <3> QED
      BY <1>3, <3>1 DEF Held, Stays
  <2>2. CASE SpeakFails(p, k)
    BY <1>3, <2>2 DEF Dropped, Stays
  <2> QED
    BY <2>1, <2>2
<1>4. CASE i # queues[p][k].id
  <2>1. \A x \in Priorities : i \in Ids(queues[x]) => Accounted(i)
    BY <1>1, <1>4, TakeAccounts
  <2> QED
    BY <1>2, <2>1, QueuesStay
<1> QED
  BY <1>3, <1>4

\* Every step.
LEMMA NoneVanishes ==
  ASSUME TypeInv, VoiceInv, LooseInv, AsideInv, [Next]_vars,
         NEW i \in 1..last_message_id', i > last_message_id \/ Held(i)
  PROVE  Stays(i)
<1> USE DEF queueVars, currentVars, counterVars
<1>1. ASSUME UNCHANGED <<SPEAKING, current_message, queues, last_message_id>>,
             Ids(MessagePausedList) \subseteq Ids(MessagePausedList')
      PROVE  Stays(i)
  <2>1. Held(i)
    BY <1>1 DEF TypeInv, TypeOK
  <2> QED
    BY <1>1, <2>1, QueuesStay DEF Accounted
<1>2. ASSUME NEW c \in Clients, Speak(c)
      PROVE  Stays(i)
  <2>1. /\ UNCHANGED <<SPEAKING, current_message, MessagePausedList>>
        /\ last_message_id' = last_message_id + 1
    BY <1>2 DEF Speak
  <2>2. /\ \A x \in Priorities : \A j \in Ids(queues[x]) : Accounted(j)
        /\ Accounted(last_message_id + 1)
    BY <1>2, SpeakAccounts
  <2>3. CASE Held(i)
    BY <2>1, <2>2, <2>3, QueuesStay
  <2>4. CASE i > last_message_id
    <3>1. i = last_message_id + 1
      BY <2>1, <2>4 DEF TypeInv, TypeOK
    <3> QED
      BY <2>2, <3>1, AccountedStays
  <2> QED
    BY <2>3, <2>4
<1>3. ASSUME UNCHANGED last_message_id
      PROVE  Held(i) /\ i \in MessageIds
  <2>1. last_message_id \in 0..MaxMessages /\ MaxMessages \in Nat
    BY BoundsAssumption DEF TypeInv, TypeOK
  <2> QED
    BY <1>3, <2>1 DEF MessageIds
<1>4. ASSUME NEW c \in Clients,
             \/ SetPriority(c) \/ BlockBegin(c) \/ BlockEnd(c)
             \/ Pause(c) \/ Resume(c) \/ Disconnect(c)
      PROVE  Stays(i)
  <2>1. UNCHANGED <<SPEAKING, current_message, queues, MessagePausedList, last_message_id>>
    BY <1>4 DEF SetPriority, BlockBegin, BlockEnd, Pause, Resume, Disconnect
  <2> QED
    BY <1>1, <2>1
<1>5. CASE CancelAllStop \/ PauseAll \/ ResumeAll \/ OutputModule \/ UNCHANGED vars
  <2>1. UNCHANGED <<SPEAKING, current_message, queues, MessagePausedList, last_message_id>>
    BY <1>5 DEF CancelAllStop, PauseAll, ResumeAll, OutputModule, ModuleFinishes,
                ModuleBegin, ModuleMark, ModuleEnd, ModuleStops, ModulePauses,
                ModuleCrash, Emit, vars
  <2> QED
    BY <1>1, <2>1
<1>6. CASE \/ SpeakWake \/ SpeakPauseDone \/ SpeakCheck
           \/ SpeakReloaded \/ SpeakResumeDone \/ SpeakNothing
  <2>1. UNCHANGED <<SPEAKING, current_message, queues, MessagePausedList, last_message_id>>
    BY <1>6 DEF SpeakWake, SpeakPauseDone, SpeakCheck, SpeakReloaded,
                SpeakResumeDone, SpeakNothing
  <2> QED
    BY <1>1, <2>1
<1>7. CASE SpeakPause
  <2>1. UNCHANGED <<SPEAKING, current_message, queues, last_message_id>>
    BY <1>7 DEF SpeakPause
  <2> QED
    BY <1>1, <1>7, <2>1, SetAsideAccounts
<1>8. CASE SpeakEvent \/ SpeakHangup
  <2>1. UNCHANGED last_message_id
    BY <1>8 DEF SpeakEvent, SpeakHangup
  <2> QED
    BY <1>3, <1>8, <2>1, EventStays
<1>9. CASE SpeakReload
  <2>1. UNCHANGED <<SPEAKING, current_message, last_message_id>>
    BY <1>9 DEF SpeakReload
  <2> QED
    BY <1>3, <1>9, <2>1, ReloadAccounts, QueuesStay
<1>10. CASE SpeakReloadFails
  <2>1. UNCHANGED <<SPEAKING, current_message, queues, last_message_id>>
    BY <1>10 DEF SpeakReloadFails
  <2>2. CASE i = MessagePausedList[NextReload].id
    BY <1>10, <2>2 DEF Dropped, Stays
  <2>3. CASE i # MessagePausedList[NextReload].id
    <3>1. i \in Ids(MessagePausedList) => i \in Ids(MessagePausedList')
      BY <1>10, <2>3, ReloadFailsAccounts
    <3> QED
      BY <1>3, <2>1, <3>1, QueuesStay DEF Accounted
  <2> QED
    BY <2>2, <2>3
<1>11. CASE SpeakPromote
  <2>1. UNCHANGED <<SPEAKING, current_message, MessagePausedList, last_message_id>>
    BY <1>11 DEF SpeakPromote
  <2> QED
    BY <1>3, <1>11, <2>1, PromoteAccounts, QueuesStay
<1>12. ASSUME NEW c, Stop(c) \/ CancelClient(c) \/ StopAll \/ CancelAllQueues
       PROVE  Stays(i)
  <2>1. UNCHANGED <<SPEAKING, current_message, MessagePausedList, last_message_id>>
    BY <1>12 DEF Stop, CancelClient, StopAll, CancelAllQueues
  <2> QED
    BY <1>3, <1>12, <2>1, StopAccounts, QueuesStay
<1>13. ASSUME NEW p \in Priorities, NEW k \in DOMAIN queues[p],
              SpeakMessage(p, k) \/ SpeakFails(p, k)
       PROVE  Stays(i)
  <2>1. UNCHANGED last_message_id
    BY <1>13 DEF SpeakMessage, SpeakFails, Take
  <2> QED
    BY <1>3, <1>13, <2>1, TakeStays
<1>14. CASE MainThread
  BY <1>2, <1>4, <1>5, <1>12, <1>14 DEF MainThread
<1>15. CASE SpeakThread
  BY <1>6, <1>7, <1>8, <1>9, <1>10, <1>11, <1>13, <1>15 DEF SpeakThread
<1> QED
  BY <1>5, <1>14, <1>15 DEF Next

\* What NothingVanishes says of a step.
StaysStep ==
  \A i \in 1..last_message_id' :
    i > last_message_id \/ Held(i)
    => Held(i)' \/ reported'[i] \in {"end", "cancel"} \/ Dropped(i)

\* The invariant of servers without blocks.
LEMMA NothingInBlocks ==
  ASSUME NoBlocks
  PROVE  Spec => [](LooseInv /\ AsideInv)
<1>1. Init => LooseInv /\ AsideInv
  <2> SUFFICES ASSUME Init PROVE LooseInv /\ AsideInv
    OBVIOUS
  <2>1. Loose(<<>>)
    BY DEF Loose
  <2> QED
    BY <2>1 DEF Init, LooseInv, AsideInv, NoMessage
<1>2. TypeInv /\ VoiceInv /\ LooseInv /\ AsideInv /\ [Next]_vars
      => LooseInv' /\ AsideInv'
  BY LooseKept, AsideKept
<1> QED
  BY <1>1, <1>2, TypeInvariant, VoiceInvariant, PTL DEF Spec

\* As long as no client sends blocks, no message vanishes: from its arrival on it
\* waits, is set aside or is spoken until its client is told that it ended or was
\* canceled, or speak() drops it for an error; whoever pauses, resumes, stops,
\* sends progress messages or leaves, and also when the module dies.
THEOREM NoMessageVanishes ==
  ASSUME NoBlocks
  PROVE  Spec => NothingVanishes
<1>1. TypeInv /\ VoiceInv /\ LooseInv /\ AsideInv /\ [Next]_vars => [StaysStep]_vars
  BY NoneVanishes DEF StaysStep, Stays
<1>2. Spec => [][StaysStep]_vars
  BY <1>1, TypeInvariant, VoiceInvariant, NothingInBlocks, PTL DEF Spec
<1> QED
  BY <1>2, PTL DEF NothingVanishes, StaysStep

-----------------------------------------------------------------------------
(***************************************************************************)
(* Servers whose clients neither pause nor send progress messages, with    *)
(* modules that do not crash: the order of the events of a message.        *)
(***************************************************************************)
NoCrashes == "crash" \notin Faults

\* What was reported for the message that is spoken, what the module does and
\* which of its events wait: it has not begun; it was stopped before; its BEGIN
\* waits; its BEGIN was read.
Phase(report, state, waiting) ==
  \/ report = "none" /\ state = "starting" /\ waiting = <<>>
  \/ report = "none" /\ state = "idle" /\ waiting = <<"stopped">>
  \/ /\ report = "none" /\ state # "starting"
     /\ waiting # <<>> /\ waiting[1] = "begin"
     /\ \A k \in DOMAIN waiting \ {1} : waiting[k] \notin {"begin", "paused"}
  \/ /\ report = "begin" /\ state # "starting"
     /\ \A k \in DOMAIN waiting : waiting[k] \notin {"begin", "paused"}

PhaseInv ==
  /\ module # "dead"
  /\ "pause" \notin orders
  /\ paused_while_speaking = {}
  /\ \A p \in Priorities : \A i \in Ids(queues[p]) : reported[i] = "none"
  /\ SPEAKING => Phase(reported[current_message.id], module, events)

OrderStep ==
  \A i \in MessageIds :
    reported'[i] # reported[i] => reported'[i] \in NextReports(reported[i])

\* An event that joins those that wait.
LEMMA PhaseAppends ==
  ASSUME NEW r, NEW s \in Seq(Event), NEW ev \in {"mark", "end", "stopped"},
         Phase(r, "talking", s), NEW m, m # "starting", NEW t, t = Append(s, ev)
  PROVE  Phase(r, m, t)
<1>1. /\ Len(s) \in Nat /\ DOMAIN s = 1..Len(s)
      /\ t \in Seq(Event) /\ Len(t) = Len(s) + 1 /\ DOMAIN t = 1..(Len(s) + 1)
      /\ \A i \in 1..Len(s) : t[i] = s[i]
      /\ t[Len(s) + 1] = ev
  <2>1. ev \in Event
    BY DEF Event, Terminal
  <2> QED
    BY <2>1, AppendProperties, LenProperties
<1>2. \A k \in DOMAIN t : (k \in DOMAIN s /\ t[k] = s[k]) \/ t[k] = ev
  BY <1>1
<1>3. CASE /\ r = "none" /\ s # <<>> /\ s[1] = "begin"
           /\ \A k \in DOMAIN s \ {1} : s[k] \notin {"begin", "paused"}
  <2>1. Len(s) # 0
    BY <1>3, EmptySeq
  <2>2. t[1] = "begin" /\ t # <<>>
    BY <1>1, <1>3, <2>1
  <2> QED
    BY <1>2, <1>3, <2>2 DEF Phase
<1>4. CASE r = "begin" /\ \A k \in DOMAIN s : s[k] \notin {"begin", "paused"}
  BY <1>2, <1>4 DEF Phase
<1> QED
  BY <1>3, <1>4 DEF Phase

\* The first event is read.
LEMMA PhaseReads ==
  ASSUME NEW r, NEW m, NEW s \in Seq(Event), s # <<>>, Phase(r, m, s)
  PROVE  \/ r = "none" /\ Head(s) = "begin" /\ Phase("begin", m, Tail(s))
         \/ r = "none" /\ Head(s) = "stopped"
         \/ /\ r = "begin" /\ Head(s) \in {"mark", "end", "stopped"}
            /\ Phase("begin", m, Tail(s))
<1>1. /\ Head(s) = s[1] /\ 1 \in DOMAIN s /\ Head(s) \in Event
      /\ Tail(s) \in Seq(Event)
  BY HeadTailProperties, LenProperties, EmptySeq
<1>2. \A k \in DOMAIN Tail(s) : /\ k + 1 \in DOMAIN s \ {1}
                                /\ Tail(s)[k] = s[k + 1]
  <2>1. DOMAIN Tail(s) \subseteq Nat \ {0}
    BY <1>1, LenProperties
  <2>2. \A k \in DOMAIN Tail(s) : k + 1 \in DOMAIN s /\ Tail(s)[k] = s[k + 1]
    BY TailOfEvents
  <2> QED
    BY <2>1, <2>2
<1>3. CASE r = "none" /\ s = <<"stopped">>
  BY <1>1, <1>3
<1>4. CASE /\ r = "none" /\ m # "starting" /\ s[1] = "begin"
           /\ \A k \in DOMAIN s \ {1} : s[k] \notin {"begin", "paused"}
  BY <1>1, <1>2, <1>4 DEF Phase
<1>5. CASE /\ r = "begin" /\ m # "starting"
           /\ \A k \in DOMAIN s : s[k] \notin {"begin", "paused"}
  <2>1. Head(s) \in {"mark", "end", "stopped"}
    BY <1>1, <1>5 DEF Event, Terminal
  <2>2. Phase("begin", m, Tail(s))
    BY <1>2, <1>5 DEF Phase
  <2> QED
    BY <1>5, <2>1, <2>2
<1> QED
  BY <1>3, <1>4, <1>5 DEF Phase

\* Carrying out an effect of the queues q only reports messages of q, as
\* canceled, and they are in no queue afterwards.
LEMMA EffectReports ==
  ASSUME TypeInv, NEW q, Effect(q).queues = q, Unmixed(Effect(q)),
         NEW e \in ServerEffects, Frees(e, Effect(q)), Apply(e),
         \A p \in Priorities : Ids(q[p]) \subseteq MessageIds,
         \A p \in Priorities : \A i \in Ids(q[p]) :
           reported[i] = "none" /\ i # current_message.id,
         PhaseInv, VoiceInv,
         UNCHANGED <<SPEAKING, current_message, paused_while_speaking>>
  PROVE  PhaseInv' /\ OrderStep
<1>1. \A i \in MessageIds :
        reported'[i] # reported[i] =>
          /\ \E p \in Priorities : i \in Ids(q[p])
          /\ \A p \in Priorities : i \notin Ids(queues'[p])
  BY CancelReports DEF TypeInv
<1>2. \A i \in MessageIds : reported'[i] # reported[i] => reported'[i] = "cancel"
  BY DEF Apply
<1>3. /\ UNCHANGED <<module, events>>
      /\ orders' \subseteq orders \cup {"stop"}
  BY DEF Apply, OutputStop, moduleVars
<1>4. ASSUME NEW p \in Priorities, NEW i \in Ids(queues'[p])
      PROVE  reported'[i] = "none"
  <2>1. Ids(queues'[p]) \subseteq Ids(q[p])
    BY PrunedIds DEF Apply, Frees, Yields, Prunes
  <2>2. i \in MessageIds /\ reported[i] = "none"
    BY <2>1
  <2> QED
    BY <1>1, <2>2
<1>5. ASSUME SPEAKING
      PROVE  reported'[current_message.id] = reported[current_message.id]
  <2>1. current_message.id \in MessageIds
    BY <1>5 DEF VoiceInv, TypeInv, TypeOK, Messages
  <2> QED
    BY <1>1, <2>1
<1>6. OrderStep
  <2> SUFFICES ASSUME NEW i \in MessageIds, reported'[i] # reported[i]
               PROVE  reported'[i] \in NextReports(reported[i])
    BY DEF OrderStep
  <2>1. reported[i] = "none" /\ reported'[i] = "cancel"
    BY <1>1, <1>2
  <2> QED
    BY <2>1 DEF NextReports
<1>7. module' # "dead" /\ "pause" \notin orders' /\ paused_while_speaking' = {}
  BY <1>3 DEF PhaseInv
<1>8. SPEAKING' => Phase(reported'[current_message'.id], module', events')
  BY <1>3, <1>5 DEF PhaseInv
<1> QED
  BY <1>4, <1>6, <1>7, <1>8 DEF PhaseInv

\* A message that arrives.
LEMMA SpeakPhase ==
  ASSUME NoProgress, TypeInv, VoiceInv, OrderInv, GoneInv, PhaseInv,
         NEW c \in Clients, Speak(c)
  PROVE  PhaseInv' /\ OrderStep
<1> DEFINE m == [id |-> last_message_id + 1, uid |-> c,
                 gid |-> inside_block[c], copy |-> FALSE]
           p == priority[c]
           q == [queues EXCEPT ![p] = Append(@, m)]
           e == resolve_priorities(Effect(q), p, SPEAKING, current_priority,
                                   speaking_gid)
<1>1. /\ m \in Messages /\ m.id = last_message_id + 1
      /\ p \in Priorities /\ p # PROGRESS
      /\ SPEAKING \in BOOLEAN /\ current_priority \in Priorities
      /\ last_message_id \in Nat
  <2>1. m \in Messages /\ m.id = last_message_id + 1
    BY BoundsAssumption DEF TypeInv, TypeOK, Speak, Messages, MessageIds
  <2>2. p \in Levels /\ p \in Priorities
    BY LevelsAssumption DEF GoneInv
  <2> QED
    BY <2>1, <2>2, BoundsAssumption DEF TypeInv, TypeOK, NoProgress
<1>2. /\ Apply(e)
      /\ UNCHANGED <<SPEAKING, current_message, paused_while_speaking>>
  BY <1>1 DEF Speak, Enqueue, currentVars, flagVars
<1>3. q = [queues EXCEPT ![p] = Append(@, m)]
  OBVIOUS
<1>4. e = resolve_priorities(Effect(q), p, SPEAKING, current_priority,
                             speaking_gid)
  OBVIOUS
<1> HIDE DEF m, p, q, e
<1>5. /\ Effect(q) \in ServerEffects /\ Unmixed(Effect(q))
      /\ Effect(q).queues = q
      /\ \A x \in Priorities : Ids(q[x]) \subseteq Ids(queues[x]) \cup {m.id}
  <2>1. m \in Messages /\ p \in Priorities /\ m.id = last_message_id + 1
    BY <1>1
  <2> QED
    BY <1>3, <2>1, ArrivalUnmixed, ZenonT(60)
<1>6. Frees(e, Effect(q)) /\ e \in ServerEffects
  <2>1. Frees(e, Effect(q))
    BY <1>1, <1>4, <1>5, ResolvePrioritiesFrees
  <2> QED
    BY <2>1 DEF Frees, Yields, ServerEffects
<1>7. m.id \in MessageIds /\ reported[m.id] = "none" /\ m.id # current_message.id
  <2>1. m.id \in MessageIds
    BY <1>1 DEF Messages
  <2>2. m.id > last_message_id /\ current_message.id \in Nat
    BY <1>1, BoundsAssumption DEF TypeInv, TypeOK, Messages, MessageIds, NoMessage
  <2> QED
    BY <1>1, <2>1, <2>2 DEF GoneInv
<1>8. ASSUME NEW x \in Priorities, NEW i \in Ids(q[x])
      PROVE  i \in MessageIds /\ reported[i] = "none" /\ i # current_message.id
  <2>1. CASE i = m.id
    BY <1>7, <2>1
  <2>2. CASE i \in Ids(queues[x])
    BY <2>2, QueueIds DEF GoneInv, PhaseInv
  <2> QED
    BY <1>5, <2>1, <2>2
<1> QED
  BY <1>2, <1>5, <1>6, <1>8, EffectReports

\* STOP and CANCEL.
LEMMA StopPhase ==
  ASSUME TypeInv, VoiceInv, OrderInv, GoneInv, PhaseInv, NEW c,
         Stop(c) \/ CancelClient(c) \/ StopAll \/ CancelAllQueues
  PROVE  PhaseInv' /\ OrderStep
<1>1. PICK e \in ServerEffects : Frees(e, Effect(queues)) /\ Apply(e)
  BY StopFrees
<1>2. UNCHANGED <<SPEAKING, current_message, paused_while_speaking>>
  BY DEF Stop, CancelClient, StopAll, CancelAllQueues, currentVars, flagVars
<1>3. Effect(queues).queues = queues /\ Unmixed(Effect(queues))
  BY QueuesUnmixed DEF Effect
<1>4. ASSUME NEW x \in Priorities, NEW i \in Ids(queues[x])
      PROVE  i \in MessageIds /\ reported[i] = "none" /\ i # current_message.id
  BY QueueIds DEF GoneInv, PhaseInv
<1> QED
  BY <1>1, <1>2, <1>3, <1>4, EffectReports

\* A message is handed to the module.
LEMMA TakePhase ==
  ASSUME TypeInv, VoiceInv, PhaseInv, NEW p \in Priorities,
         NEW k \in DOMAIN queues[p], SpeakMessage(p, k) \/ SpeakFails(p, k)
  PROVE  PhaseInv' /\ OrderStep
<1>1. Take(p, k)
  BY DEF SpeakMessage, SpeakFails
<1>2. /\ UNCHANGED <<reported, paused_while_speaking>>
      /\ orders' = {} /\ module' # "dead"
  BY <1>1 DEF Take, flagVars, SpeakMessage, SpeakFails
<1>3. \A x \in Priorities : \A i \in Ids(queues'[x]) : reported'[i] = "none"
  BY <1>1, <1>2, TakePrunes, PrunedIds DEF PhaseInv
<1>4. ~SPEAKING
  BY <1>1 DEF VoiceInv, Looking, Take
<1>5. CASE SpeakMessage(p, k)
  <2>1. /\ events' = <<>> /\ module' = "starting"
        /\ current_message' = queues[p][k]
    BY <1>4, <1>5 DEF VoiceInv, SpeakMessage, StartsSpeaking
  <2>2. reported'[queues[p][k].id] = "none"
    BY <1>2 DEF PhaseInv, Ids
  <2> QED
    BY <1>2, <1>3, <2>1, <2>2 DEF PhaseInv, Phase, OrderStep
<1>6. CASE SpeakFails(p, k)
  <2>1. ~SPEAKING'
    BY <1>4, <1>6 DEF SpeakFails
  <2> QED
    BY <1>2, <1>3, <2>1 DEF PhaseInv, OrderStep
<1> QED
  BY <1>5, <1>6

\* The module's events are read.
LEMMA EventPhase ==
  ASSUME TypeInv, VoiceInv, GoneInv, PhaseInv, SpeakEvent
  PROVE  PhaseInv' /\ OrderStep
<1> DEFINE i0 == current_message.id
           r == reported[i0]
<1>1. /\ UNCHANGED <<queues, module, orders>>
      /\ events \in Seq(Event) /\ events # <<>> /\ events' = Tail(events)
      /\ reported \in [MessageIds -> Report]
  BY DEF SpeakEvent, EventReady, queueVars, TypeInv, TypeOK
<1>2. SPEAKING
  BY <1>1 DEF VoiceInv, PhaseInv
<1>3. i0 \in MessageIds
  BY <1>2 DEF VoiceInv, TypeInv, TypeOK, Messages
<1>4. ASSUME NEW ev, ReportCurrent(ev)
      PROVE  /\ reported'[i0] = ev
             /\ \A i \in MessageIds : i # i0 => reported'[i] = reported[i]
  BY <1>1, <1>3, <1>4 DEF ReportCurrent
<1>5. ASSUME NEW ev, ReportCurrent(ev) \/ (ev = r /\ UNCHANGED reported)
      PROVE  /\ reported'[i0] = ev
             /\ \A x \in Priorities : \A i \in Ids(queues'[x]) : reported'[i] = "none"
             /\ ev = r \/ ev \in NextReports(r) => OrderStep
  <2>1. /\ reported'[i0] = ev
        /\ \A i \in MessageIds : i # i0 => reported'[i] = reported[i]
    BY <1>4, <1>5
  <2>2. \A x \in Priorities : \A i \in Ids(queues[x]) :
          i \in MessageIds /\ i # i0 /\ reported[i] = "none"
    BY QueueIds DEF GoneInv, PhaseInv
  <2> QED
    BY <1>1, <2>1, <2>2 DEF OrderStep
<1>6. CASE r = "none" /\ Head(events) = "begin" /\ Phase("begin", module, Tail(events))
  <2>1. /\ ReportCurrent("begin")
        /\ paused_while_speaking' = {}
        /\ UNCHANGED current_message
    BY <1>6 DEF SpeakEvent, PhaseInv
  <2>2. "begin" \in NextReports(r)
    BY <1>6 DEF NextReports
  <2>3. Phase(reported'[current_message'.id], module', events')
    BY <1>1, <1>5, <1>6, <2>1
  <2> QED
    BY <1>1, <1>5, <2>1, <2>2, <2>3 DEF PhaseInv
<1>7. CASE /\ r \in {"none", "begin"} /\ Head(events) \in {"end", "stopped"}
           /\ r = "none" => Head(events) = "stopped"
  <2> DEFINE ev == IF Head(events) = "end" THEN "end" ELSE "cancel"
  <2>1. FellSilent(ev)
    BY <1>7 DEF SpeakEvent
  <2>2. /\ ~SPEAKING' /\ ReportCurrent(ev)
        /\ UNCHANGED paused_while_speaking
    BY <2>1 DEF FellSilent, flagVars
  <2>3. ev \in NextReports(r)
    BY <1>7 DEF NextReports
  <2> HIDE DEF ev
  <2> QED
    BY <1>1, <1>5, <2>2, <2>3 DEF PhaseInv
<1>8. CASE r = "begin" /\ Head(events) = "mark" /\ Phase("begin", module, Tail(events))
  <2>1. UNCHANGED <<reported, paused_while_speaking, current_message>>
    BY <1>8 DEF SpeakEvent
  <2>2. Phase(reported'[current_message'.id], module', events')
    BY <1>1, <1>8, <2>1
  <2> QED
    BY <1>1, <1>5, <2>1, <2>2 DEF PhaseInv
<1>9. Phase(r, module, events)
  BY <1>2 DEF PhaseInv
<1> HIDE DEF r, i0
<1> QED
  BY <1>1, <1>6, <1>7, <1>8, <1>9, PhaseReads

\* The module goes on.
LEMMA ModulePhase ==
  ASSUME NoCrashes, TypeInv, PhaseInv, OutputModule
  PROVE  PhaseInv' /\ OrderStep
<1> USE DEF queueVars, flagVars, currentVars, orderVars
<1>1. ASSUME NEW ev, NEW s, Emit(ev, s), s # "dead",
             SPEAKING => Phase(reported[current_message.id], s, Append(events, ev))
      PROVE  PhaseInv' /\ OrderStep
  <2>1. /\ UNCHANGED <<queues, reported, paused_while_speaking, SPEAKING,
                       current_message, orders>>
        /\ module' = s /\ events' = Append(events, ev)
    BY <1>1 DEF Emit
  <2> QED
    BY <1>1, <2>1 DEF PhaseInv, OrderStep
<1>2. events \in Seq(Event)
  BY DEF TypeInv, TypeOK
<1>3. CASE ModuleBegin
  <2>1. module = "starting" /\ Emit("begin", "talking")
    BY <1>3 DEF ModuleBegin
  <2>2. ASSUME SPEAKING
        PROVE  Phase(reported[current_message.id], "talking", Append(events, "begin"))
    <3>1. reported[current_message.id] = "none" /\ events = <<>>
      BY <2>1, <2>2 DEF PhaseInv, Phase
    <3>2. Append(events, "begin") = <<"begin">>
      BY <3>1
    <3> QED
      BY <3>1, <3>2 DEF Phase
  <2> QED
    BY <1>1, <2>1, <2>2
<1>4. ASSUME NEW ev \in {"mark", "end", "stopped"}, NEW s \in {"talking", "idle"},
             module = "talking", Emit(ev, s)
      PROVE  PhaseInv' /\ OrderStep
  <2> DEFINE t == Append(events, ev)
             r == reported[current_message.id]
  <2>1. t = Append(events, ev)
    OBVIOUS
  <2>2. SPEAKING => Phase(r, "talking", events)
    BY <1>4 DEF PhaseInv
  <2>3. s # "starting" /\ s # "dead"
    OBVIOUS
  <2> HIDE DEF t, r
  <2>4. SPEAKING => Phase(r, s, t)
    BY <1>2, <2>1, <2>2, <2>3, PhaseAppends
  <2> QED
    BY <1>1, <1>4, <2>3, <2>4 DEF t, r
<1>5. CASE ModuleStops
  <2>1. CASE module = "talking"
    BY <1>4, <1>5, <2>1 DEF ModuleStops
  <2>2. CASE module = "starting"
    <3>1. Emit("stopped", "idle")
      BY <1>5 DEF ModuleStops
    <3>2. ASSUME SPEAKING
          PROVE  Phase(reported[current_message.id], "idle", Append(events, "stopped"))
      <4>1. reported[current_message.id] = "none" /\ events = <<>>
        BY <2>2, <3>2 DEF PhaseInv, Phase
      <4>2. Append(events, "stopped") = <<"stopped">>
        BY <4>1
      <4> QED
        BY <4>1, <4>2 DEF Phase
    <3> QED
      BY <1>1, <3>1, <3>2
  <2> QED
    BY <1>5, <2>1, <2>2 DEF ModuleStops, Busy
<1>6. CASE ModulePauses \/ ModuleCrash
  BY <1>6 DEF ModulePauses, ModuleCrash, PhaseInv, NoCrashes
<1>7. CASE ModuleEnd \/ ModuleMark
  BY <1>4, <1>7 DEF ModuleEnd, ModuleMark
<1> QED
  BY <1>3, <1>5, <1>6, <1>7 DEF OutputModule, ModuleFinishes

\* Every step.
LEMMA PhaseKept ==
  ASSUME NoProgress, NoCrashes, TypeInv, VoiceInv, NothingPaused, OrderInv,
         GoneInv, PhaseInv, [Next]_vars
  PROVE  PhaseInv' /\ OrderStep
<1> USE DEF queueVars, flagVars, currentVars, moduleVars, orderVars
<1>1. ASSUME UNCHANGED <<queues, reported, SPEAKING, current_message, module,
                         events, paused_while_speaking>>,
             orders' \subseteq orders \cup {"stop"}
      PROVE  PhaseInv' /\ OrderStep
  BY <1>1 DEF PhaseInv, OrderStep
<1>2. ASSUME NEW c \in Clients,
             \/ SetPriority(c) \/ BlockBegin(c) \/ BlockEnd(c)
             \/ Pause(c) \/ Resume(c) \/ Disconnect(c)
      PROVE  PhaseInv' /\ OrderStep
  <2>1. UNCHANGED <<queues, reported, SPEAKING, current_message, module,
                    events, paused_while_speaking, orders>>
    BY <1>2 DEF SetPriority, BlockBegin, BlockEnd, Pause, Resume, Disconnect
  <2> QED
    BY <1>1, <2>1
<1>3. CASE \/ PauseAll \/ ResumeAll \/ SpeakWake \/ SpeakPauseDone \/ SpeakCheck
           \/ SpeakReloaded \/ SpeakResumeDone \/ SpeakNothing \/ UNCHANGED vars
  <2>1. UNCHANGED <<queues, reported, SPEAKING, current_message, module,
                    events, paused_while_speaking, orders>>
    BY <1>3 DEF PauseAll, ResumeAll, SpeakWake, SpeakPauseDone, SpeakCheck,
                SpeakReloaded, SpeakResumeDone, SpeakNothing, vars
  <2> QED
    BY <1>1, <2>1
<1>4. CASE CancelAllStop
  <2>1. UNCHANGED <<queues, reported, SPEAKING, current_message, module,
                    events, paused_while_speaking>>
    BY <1>4 DEF CancelAllStop, OutputStop
  <2>2. orders' \subseteq orders \cup {"stop"}
    BY <1>4 DEF CancelAllStop, OutputStop
  <2> QED
    BY <1>1, <2>1, <2>2
<1>5. CASE SpeakPause \/ SpeakReload \/ SpeakReloadFails
  BY <1>5, NothingToReload
     DEF NothingPaused, SpeakPause, SpeakReload, SpeakReloadFails
<1>6. CASE SpeakHangup
  BY <1>6 DEF SpeakHangup, HangupReady, PhaseInv
<1>7. CASE SpeakPromote
  BY <1>7 DEF GoneInv, TypeInv, Promoting, SpeakPromote, Postponed
<1>8. CASE MainThread
  BY <1>2, <1>3, <1>4, <1>8, SpeakPhase, StopPhase DEF MainThread
<1>9. CASE SpeakThread
  BY <1>3, <1>5, <1>6, <1>7, <1>9, EventPhase, TakePhase DEF SpeakThread
<1> QED
  BY <1>3, <1>8, <1>9, ModulePhase DEF Next

\* As long as no client pauses, none sends progress messages and no module
\* crashes, the events of a message reach its client in order: BEGIN first unless
\* it is canceled before, END or CANCEL once, and nothing after them.
THEOREM ReportsInOrder ==
  ASSUME NoPauses, NoProgress, NoCrashes
  PROVE  Spec => EventOrder
<1>1. Init => PhaseInv
  <2> SUFFICES ASSUME Init PROVE PhaseInv
    OBVIOUS
  <2>1. \A p \in Priorities : Ids(queues[p]) = {}
    BY NoIds DEF Init
  <2> QED
    BY <2>1 DEF Init, PhaseInv
<1>2. TypeInv /\ VoiceInv /\ NothingPaused /\ OrderInv /\ GoneInv /\ PhaseInv
      /\ [Next]_vars
      => PhaseInv' /\ [OrderStep]_vars
  BY PhaseKept
<1>3. Spec => [][OrderStep]_vars
  BY <1>1, <1>2, TypeInvariant, VoiceInvariant, NothingIsPaused, OrderInvariant,
     GoneInvariant, PTL DEF Spec
<1> QED
  BY <1>3, PTL DEF EventOrder, OrderStep
=============================================================================
