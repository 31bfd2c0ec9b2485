------------------------- MODULE EventStreamProofs -------------------------
(***************************************************************************)
(* What the event stream guarantees for any capacities, clients, restarts  *)
(* and failing store calls.                                                *)
(***************************************************************************)
EXTENDS EventStream, FiniteSetTheorems, WellFoundedInduction, TLAPS

-----------------------------------------------------------------------------
(* The bridge and the pump *)

Emission == [pc : {"idle", "out", "pump", "hint"}, seq : 0..MaxSeq]

\* A number that is stamped and not offered to the pump yet.
Coming(e) == emit[e].pc \in {"out", "pump"}

BusTypes ==
    /\ seq \in 0..MaxSeq
    /\ emit \in [Emitters -> Emission]
    /\ pumpq \in Seq(Seqs)
    /\ ring \subseteq Seqs /\ Cardinality(ring) <= RingCap
    /\ holes \subseteq Seqs
    /\ errors \in Nat
    /\ \A e \in Emitters : Coming(e) => emit[e].seq \in Seqs

\* While the seed could be read, no number is in two places.
NumberInv ==
    errors = 0 =>
      /\ ring \subseteq 1..seq
      /\ \A i \in DOMAIN pumpq : pumpq[i] <= seq /\ pumpq[i] \notin ring
      /\ \A i, j \in DOMAIN pumpq : pumpq[i] = pumpq[j] => i = j
      /\ \A e \in Emitters : Coming(e) =>
           /\ emit[e].seq \in 1..seq
           /\ emit[e].seq \notin ring
           /\ \A i \in DOMAIN pumpq : pumpq[i] # emit[e].seq
           /\ \A f \in Emitters : Coming(f) /\ emit[f].seq = emit[e].seq => f = e

BusInv == BusTypes /\ NumberInv

\* A number the pump is done with: filed, skipped, or evicted, which only
\* happens to the smallest number of a ring that is full.
Below(n) == Cardinality(ring) = RingCap /\ \A m \in ring : n < m
Done(n) == n \in ring \/ n \in holes \/ Below(n)

\* One emitter stamps and offers in the order of the numbers.
OrderInv ==
    /\ \A i \in DOMAIN pumpq : pumpq[i] <= seq
    /\ \A i, j \in DOMAIN pumpq : i < j => pumpq[i] < pumpq[j]
    /\ \A e \in Emitters : Coming(e) =>
         emit[e].seq = seq /\ \A i \in DOMAIN pumpq : pumpq[i] < seq
    /\ \A n \in 1..seq : \/ Done(n)
                         \/ \E i \in DOMAIN pumpq : pumpq[i] = n
                         \/ \E e \in Emitters : Coming(e) /\ emit[e].seq = n
    /\ \A n \in Seqs, m \in ring : n <= m => Done(n)

-----------------------------------------------------------------------------
(* An SSE client *)

TailTypes ==
    /\ tail \in [Tails -> TailState]
    /\ excused \in [Subs \cup Tails -> SUBSET Int]
    /\ read \in [Tails -> SUBSET Int]
    /\ told \in [Tails -> SUBSET Int]

Accounted(t) == read[t] \cup told[t] \cup holes \cup excused[t]

\* Up to its cursor a client has every number or knows of it; between the two
\* halves of a poll, whatever stands between the cursor and a row of the ring
\* is in the ring or will be told.
TailInv ==
    \A t \in Tails :
      /\ \A n \in Between(tail[t].start, tail[t].cursor) : n \in Accounted(t)
      /\ tail[t].pc = "range" =>
           \A n \in Seqs, m \in ring : tail[t].cursor < n /\ n <= m =>
               n \in ring \cup holes \cup tail[t].gap \cup excused[t]

\* A cursor stands where the client started or at a row that was filed: no number
\* above the ring is behind it.
ReadUpTo(t) == tail[t].cursor <= tail[t].start \/ \E m \in ring : tail[t].cursor <= m

SseInv == BusTypes /\ OrderInv /\ TailTypes /\ TailInv /\ \A t \in Tails : ReadUpTo(t)
-----------------------------------------------------------------------------
(* Facts of the operators *)

\* A set of numbers has a smallest and, being bounded, a largest one.
LEMMA Extremes ==
    ASSUME NEW S \in SUBSET Seqs, S # {}
    PROVE  /\ Smallest(S) \in S /\ \A x \in S : Smallest(S) <= x
           /\ Largest(S) \in S /\ \A x \in S : x <= Largest(S)
<1> DEFINE R == OpToRel(<, Nat)
<1>0. MaxSeq \in Nat
    BY EventStreamAssumption
<1>r. \A x, y \in Nat : <<x, y>> \in R <=> x < y
    BY DEF OpToRel
<1>w. IsWellFoundedOn(R, Nat)
    BY NatLessThanWellFounded
<1> HIDE DEF R
<1>1. \E x \in S : \A y \in S : x <= y
  <2>1. S \subseteq Nat
    BY <1>0 DEF Seqs
  <2>2. PICK x \in S : \A y \in S : ~(<<y, x>> \in R)
    BY <1>w, <2>1, WFMin
  <2>3. \A y \in S : ~(y < x)
    <3> TAKE y \in S
    <3>1. x \in Nat /\ y \in Nat
        BY <2>1
    <3> QED BY <3>1, <2>2, <1>r
  <2>4. \A y \in S : x <= y
    BY <2>1, <2>3
  <2> QED BY <2>4
<1>2. \E x \in S : \A y \in S : y <= x
  <2> DEFINE T == {MaxSeq - x : x \in S}
  <2>0. \A x \in S : MaxSeq - x \in Nat
    BY <1>0 DEF Seqs
  <2>1. T \subseteq Nat /\ T # {}
    BY <2>0
  <2>2. PICK z \in T : \A y \in T : ~(<<y, z>> \in R)
    BY <1>w, <2>1, WFMin
  <2>3. \A y \in T : ~(y < z)
    <3> TAKE y \in T
    <3>1. z \in Nat /\ y \in Nat
        BY <2>1
    <3> QED BY <3>1, <2>2, <1>r
  <2>4. PICK x \in S : z = MaxSeq - x
    OBVIOUS
  <2>5. \A y \in S : ~(MaxSeq - y < MaxSeq - x)
    BY <2>3, <2>4
  <2> QED BY <1>0, <2>5 DEF Seqs
<1> QED BY <1>1, <1>2 DEF Smallest, Largest

LEMMA NewestAndOldest ==
    ASSUME ring \subseteq Seqs
    PROVE  /\ NewestSeq \in 0..MaxSeq /\ ring \subseteq 1..NewestSeq
           /\ OldestSeq \in 0..MaxSeq /\ \A n \in ring : OldestSeq <= n
           /\ ring # {} => NewestSeq \in ring /\ OldestSeq \in ring
           /\ ring = {} => NewestSeq = 0 /\ OldestSeq = 0
<1>0. MaxSeq \in Nat
    BY EventStreamAssumption
<1>1. CASE ring = {}
    BY <1>0, <1>1 DEF NewestSeq, OldestSeq
<1>2. CASE ring # {}
  <2>1. NewestSeq = Largest(ring) /\ OldestSeq = Smallest(ring)
    BY <1>2 DEF NewestSeq, OldestSeq
  <2>2. /\ NewestSeq \in ring /\ \A n \in ring : n <= NewestSeq
        /\ OldestSeq \in ring /\ \A n \in ring : OldestSeq <= n
    BY <1>2, <2>1, Extremes
  <2> QED BY <1>0, <1>2, <2>2 DEF Seqs
<1> QED BY <1>1, <1>2

LEMMA SeqsFinite ==
    ASSUME NEW S \in SUBSET Seqs
    PROVE  IsFiniteSet(S) /\ Cardinality(S) \in Nat
<1>0. 1 \in Int /\ MaxSeq \in Int
    BY EventStreamAssumption
<1>1. IsFiniteSet(Seqs)
    BY <1>0, FS_Interval, Zenon DEF Seqs
<1> QED BY <1>1, FS_Subset, FS_CardinalityType

\* Kept: a row goes only when there are too many, and then it is the smallest.
LEMMA KeptRows ==
    ASSUME ring \subseteq Seqs, Cardinality(ring) <= RingCap,
           NEW n \in Seqs \ ring
    PROVE  LET all == ring \cup {n} IN
           /\ Kept(all) \subseteq all
           /\ Cardinality(Kept(all)) <= RingCap
           /\ \A x \in all \ Kept(all) :
                Cardinality(Kept(all)) = RingCap /\ \A m \in Kept(all) : x < m
           /\ Cardinality(ring) = RingCap => Cardinality(Kept(all)) = RingCap
           /\ Kept(all) # {}
<1> DEFINE all == ring \cup {n}
<1>0. RingCap \in Nat \ {0}
    BY EventStreamAssumption
<1>1. /\ all \subseteq Seqs /\ all # {} /\ IsFiniteSet(all)
      /\ IsFiniteSet(ring) /\ Cardinality(ring) \in Nat
    BY SeqsFinite
<1>2. Cardinality(all) = Cardinality(ring) + 1
    BY <1>1, FS_AddElement
<1>3. /\ Smallest(all) \in all
      /\ \A x \in all : Smallest(all) <= x
    BY <1>1, Extremes
<1>4. Cardinality(all \ {Smallest(all)}) = Cardinality(ring)
  <2>1. Cardinality(all \ {Smallest(all)}) = Cardinality(all) - 1
    BY <1>1, <1>3, FS_RemoveElement
  <2> QED BY <1>1, <1>2, <2>1
<1>5. all \subseteq Int
    BY <1>1 DEF Seqs
<1> HIDE DEF all
<1>6. CASE Cardinality(all) > RingCap
  <2>1. Kept(all) = all \ {Smallest(all)} /\ Cardinality(ring) = RingCap
    BY <1>0, <1>1, <1>2, <1>6 DEF Kept
  <2>2. \A m \in Kept(all) : Smallest(all) < m
    <3> SUFFICES ASSUME NEW m \in Kept(all) PROVE Smallest(all) < m
        OBVIOUS
    <3>1. m \in Int /\ Smallest(all) \in Int /\ m # Smallest(all) /\ Smallest(all) <= m
        BY <1>3, <1>5, <2>1
    <3> QED BY <3>1
  <2>3. Kept(all) # {}
    BY <1>0, <1>4, <2>1, FS_EmptySet
  <2> QED BY <1>4, <2>1, <2>2, <2>3, <1>0 DEF all
<1>7. CASE ~(Cardinality(all) > RingCap)
  <2>1. Kept(all) = all
    BY <1>7 DEF Kept
  <2> QED BY <1>0, <1>1, <1>2, <1>7, <2>1 DEF all
<1> QED BY <1>6, <1>7

\* Rows: an older row above the cursor is in the batch too.
LEMMA RowsFromOldest ==
    ASSUME ring \subseteq Seqs, NEW c \in 0..MaxSeq, NEW n \in Rows(c),
           NEW m \in ring, c < m, m <= n
    PROVE  m \in Rows(c)
<1> DEFINE A(x) == {y \in ring : c < y /\ y < x}
<1>1. ring \subseteq Nat /\ n \in ring /\ MaxSeq \in Nat
    BY EventStreamAssumption DEF Seqs, Rows
<1>2. A(m) \subseteq A(n)
  <2> SUFFICES ASSUME NEW y \in ring, y < m PROVE y < n
    OBVIOUS
  <2> QED BY <1>1
<1>3. IsFiniteSet(A(n)) /\ Cardinality(A(n)) \in Nat /\ Cardinality(A(n)) < Batch
    BY SeqsFinite DEF Rows
<1>4. IsFiniteSet(A(m)) /\ Cardinality(A(m)) \in Nat /\ Cardinality(A(m)) <= Cardinality(A(n))
    BY <1>2, <1>3, FS_Subset, FS_CardinalityType
<1>5. Cardinality(A(m)) < Batch
    BY <1>3, <1>4, EventStreamAssumption
<1> QED BY <1>5 DEF Rows

LEMMA RowsAreRows == ASSUME NEW c PROVE \A n \in Rows(c) : n \in ring /\ n > c
BY DEF Rows

\* What is taken off a queue.
LEMMA Taken ==
    ASSUME NEW q \in Seq(Seqs), q # <<>>
    PROVE  /\ Head(q) \in Seqs /\ Head(q) = q[1] /\ 1 \in DOMAIN q
           /\ Tail(q) \in Seq(Seqs)
           /\ \A i \in DOMAIN Tail(q) : i + 1 \in DOMAIN q /\ i + 1 > 1 /\ Tail(q)[i] = q[i + 1]
           /\ \A i \in DOMAIN q : i # 1 => i - 1 \in DOMAIN Tail(q)
OBVIOUS

\* What is put on one.
LEMMA Offered ==
    ASSUME NEW q \in Seq(Seqs), NEW cap, NEW n \in Seqs
    PROVE  /\ Offer(q, cap, n) \in Seq(Seqs)
           /\ \/ Offer(q, cap, n) = q /\ ~(Len(q) < cap)
              \/ /\ Len(q) < cap
                 /\ DOMAIN Offer(q, cap, n) = 1..(Len(q) + 1)
                 /\ DOMAIN q = 1..Len(q) /\ Len(q) \in Nat
                 /\ \A i \in DOMAIN q : Offer(q, cap, n)[i] = q[i]
                 /\ Offer(q, cap, n)[Len(q) + 1] = n
BY DEF Offer

-----------------------------------------------------------------------------
(* Numbers are in one place *)

busOf == <<seq, emit, pumpq, ring, holes>>

\* The clients' steps and the fan-out leave the bridge and the pump alone.
LEMMA ClientSteps ==
    ASSUME FanTake \/ Socket \/ Sse \/ UNCHANGED vars
    PROVE  UNCHANGED busOf /\ errors' \in {errors, errors + 1}
<1>1. CASE FanTake
    BY <1>1 DEF FanTake, busOf
<1>2. CASE UNCHANGED vars
    BY <1>2 DEF vars, busVars, busOf
<1>3. CASE Socket
  <2>1. PICK s \in Subs :
            \/ Subscribe(s) \/ EmitEvictionGap(s) \/ PollRing(s) \/ PushReplayRecord(s)
            \/ Register(s) \/ FanBuild(s) \/ FanPush(s) \/ Write(s) \/ Disconnect(s)
            \/ ReapRead(s) \/ ReapPush(s) \/ ReapDelete(s)
    BY <1>3 DEF Socket
  <2>2. UNCHANGED busVars
    BY <2>1 DEF Subscribe, HandleSubscribe, EmitEvictionGap, PollRing, PushReplayRecord,
       Register, FanBuild, FanPush, Write, Disconnect, ReapRead, ReapPush, ReapDelete
  <2>3. errors' \in {errors, errors + 1}
    BY <2>1 DEF Subscribe, HandleSubscribe, EmitEvictionGap, PollRing, PushReplayRecord,
       Register, FanBuild, FanPush, Write, Disconnect, ReapRead, ReapPush, ReapDelete, Fails
  <2> QED BY <2>2, <2>3 DEF busVars, busOf
<1>4. CASE Sse
  <2>1. PICK t \in Tails :
            \/ Attach(t) \/ Listen(t) \/ HeartbeatPoll(t) \/ WakeHint(t) \/ SettlePoll(t)
            \/ ReplayStats(t) \/ ReplayRange(t) \/ Detach(t)
    BY <1>4 DEF Sse
  <2>2. UNCHANGED busVars
    BY <2>1 DEF Attach, Listen, HeartbeatPoll, WakeHint, SettlePoll, ReplayStats,
       ReplayRange, Detach
  <2>3. errors' \in {errors, errors + 1}
    BY <2>1 DEF Attach, Listen, HeartbeatPoll, WakeHint, SettlePoll, ReplayStats,
       ReplayRange, Detach, Fails
  <2> QED BY <2>2, <2>3 DEF busVars, busOf
<1> QED BY <1>1, <1>2, <1>3, <1>4

LEMMA EmissionRecord ==
    ASSUME NEW pc \in {"idle", "out", "pump", "hint"}, NEW n \in 0..MaxSeq
    PROVE  [pc |-> pc, seq |-> n] \in Emission
BY DEF Emission

\* An emitter that goes on keeps its number.
LEMMA EmitterMoves ==
    ASSUME BusTypes, NEW e \in Emitters, NEW pc \in {"idle", "out", "pump", "hint"},
           emit' = [emit EXCEPT ![e].pc = pc]
    PROVE  /\ emit' \in [Emitters -> Emission]
           /\ emit'[e].pc = pc /\ emit'[e].seq = emit[e].seq
           /\ \A f \in Emitters : f # e => emit'[f] = emit[f]
<1>1. emit[e] \in Emission
    BY DEF BusTypes
<1>2. emit'[e] = [emit[e] EXCEPT !.pc = pc]
    BY DEF BusTypes
<1>3. emit'[e] \in Emission /\ emit'[e].pc = pc /\ emit'[e].seq = emit[e].seq
    BY <1>1, <1>2 DEF Emission
<1>4. \A f \in Emitters : f # e => emit'[f] = emit[f]
    BY DEF BusTypes
<1>5. emit' = [f \in Emitters |-> emit'[f]]
    BY DEF BusTypes
<1>6. \A f \in Emitters : emit'[f] \in Emission
    BY <1>3, <1>4 DEF BusTypes
<1> QED BY <1>3, <1>4, <1>5, <1>6

LEMMA ComingNumber ==
    ASSUME BusTypes, NEW e \in Emitters
    PROVE  emit[e].seq \in 0..MaxSeq /\ emit[e].pc \in {"idle", "out", "pump", "hint"}
BY DEF BusTypes, Emission

LEMMA BusTypesKept == BusTypes /\ [Next]_vars => BusTypes'
<1> SUFFICES ASSUME BusTypes, [Next]_vars PROVE BusTypes'
    OBVIOUS
<1>t. /\ seq \in 0..MaxSeq /\ MaxSeq \in Nat
      /\ emit \in [Emitters -> Emission]
      /\ pumpq \in Seq(Seqs)
      /\ ring \subseteq Seqs /\ Cardinality(ring) <= RingCap
      /\ holes \subseteq Seqs /\ errors \in Nat
      /\ \A e \in Emitters : Coming(e) => emit[e].seq \in Seqs
    BY EventStreamAssumption DEF BusTypes
<1>1. CASE FanTake \/ Socket \/ Sse \/ UNCHANGED vars
  <2>1. UNCHANGED <<seq, emit, pumpq, ring, holes>> /\ errors' \in Nat
    BY <1>1, <1>t, ClientSteps DEF busOf
  <2> QED BY <1>t, <2>1 DEF BusTypes, Coming
<1>2. ASSUME NEW e \in Emitters, NEW k \in Kinds, Stamp(e, k) PROVE BusTypes'
  <2>1. seq + 1 \in Seqs /\ seq + 1 \in 0..MaxSeq
    BY <1>2, <1>t DEF Stamp, Seqs
  <2> DEFINE r == [pc |-> "out", seq |-> seq + 1]
  <2>2. r \in Emission /\ r.seq = seq + 1
    BY <2>1, EmissionRecord
  <2>3. emit' = [emit EXCEPT ![e] = r]
    BY <1>2 DEF Stamp
  <2> HIDE DEF r
  <2>4. emit' \in [Emitters -> Emission]
    BY <1>t, <2>2, <2>3
  <2>5. \A f \in Emitters : Coming(f)' => emit'[f].seq \in Seqs
    BY <1>t, <2>1, <2>2, <2>3 DEF Coming
  <2>6. /\ seq' \in 0..MaxSeq /\ UNCHANGED <<pumpq, ring, errors>>
        /\ holes' \subseteq holes \cup {seq + 1}
    BY <1>2, <2>1 DEF Stamp
  <2> QED BY <1>t, <2>1, <2>4, <2>5, <2>6 DEF BusTypes
<1>3. ASSUME NEW e \in Emitters, PushOut(e) PROVE BusTypes'
  <2>1. emit' = [emit EXCEPT ![e].pc = "pump"] /\ UNCHANGED <<seq, pumpq, ring, holes, errors>>
        /\ Coming(e)
    BY <1>3 DEF PushOut, Coming
  <2>2. /\ emit' \in [Emitters -> Emission] /\ emit'[e].seq = emit[e].seq
        /\ \A f \in Emitters : f # e => emit'[f] = emit[f]
    BY <2>1, EmitterMoves
  <2> QED BY <1>t, <2>1, <2>2 DEF BusTypes, Coming
<1>4. ASSUME NEW e \in Emitters, PushPump(e) PROVE BusTypes'
  <2>1. /\ emit' = [emit EXCEPT ![e].pc = "hint"] /\ UNCHANGED <<seq, ring, errors>>
        /\ pumpq' = Offer(pumpq, PumpCap, emit[e].seq)
        /\ holes' \subseteq holes \cup {emit[e].seq}
        /\ Coming(e)
    BY <1>4 DEF PushPump, Coming
  <2>2. /\ emit' \in [Emitters -> Emission] /\ emit'[e].pc = "hint"
        /\ \A f \in Emitters : f # e => emit'[f] = emit[f]
    BY <2>1, EmitterMoves
  <2>3. pumpq' \in Seq(Seqs) /\ holes' \subseteq Seqs
    BY <1>t, <2>1, Offered
  <2> QED BY <1>t, <2>1, <2>2, <2>3 DEF BusTypes, Coming
<1>5. ASSUME NEW e \in Emitters, PushHints(e) PROVE BusTypes'
  <2>1. emit' = [emit EXCEPT ![e] = Silent] /\ UNCHANGED <<seq, pumpq, ring, holes, errors>>
    BY <1>5 DEF PushHints
  <2>2. Silent \in Emission /\ Silent.pc = "idle"
    BY <1>t, EmissionRecord DEF Silent
  <2>3. emit' \in [Emitters -> Emission]
    BY <1>t, <2>1, <2>2
  <2> QED BY <1>t, <2>1, <2>2, <2>3 DEF BusTypes, Coming
<1>6. CASE PumpAppend
  <2>1. /\ pumpq # <<>> /\ pumpq' = Tail(pumpq) /\ UNCHANGED <<seq, emit, holes, errors>>
        /\ Head(pumpq) \notin ring
        /\ ring' = Kept(ring \cup {Head(pumpq)})
    BY <1>6 DEF PumpAppend
  <2>2. Head(pumpq) \in Seqs /\ pumpq' \in Seq(Seqs)
    BY <1>t, <2>1, Taken
  <2>3. ring' \subseteq ring \cup {Head(pumpq)} /\ Cardinality(ring') <= RingCap
    BY <1>t, <2>1, <2>2, KeptRows
  <2> QED BY <1>t, <2>1, <2>2, <2>3 DEF BusTypes, Coming
<1>7. CASE PumpSkip
  <2>1. /\ pumpq # <<>> /\ pumpq' = Tail(pumpq) /\ UNCHANGED <<seq, emit, ring>>
        /\ holes' = holes \cup {Head(pumpq)} /\ errors' \in {errors, errors + 1}
    BY <1>7 DEF PumpSkip, Fails
  <2>2. Head(pumpq) \in Seqs /\ pumpq' \in Seq(Seqs)
    BY <1>t, <2>1, Taken
  <2> QED BY <1>t, <2>1, <2>2 DEF BusTypes, Coming
<1>8. CASE Restart
  <2>1. /\ emit' = [e \in Emitters |-> Silent] /\ pumpq' = <<>> /\ UNCHANGED <<ring, holes>>
        /\ seq' \in {NewestSeq, 0} /\ errors' \in {errors, errors + 1}
    BY <1>8 DEF Restart, Seed, Fails
  <2>2. Silent \in Emission /\ Silent.pc = "idle"
    BY <1>t, EmissionRecord DEF Silent
  <2>3. NewestSeq \in 0..MaxSeq
    BY <1>t, NewestAndOldest
  <2>4. emit' \in [Emitters -> Emission] /\ \A e \in Emitters : ~Coming(e)'
    BY <2>1, <2>2 DEF Coming
  <2>5. seq' \in 0..MaxSeq /\ errors' \in Nat /\ pumpq' \in Seq(Seqs)
    BY <1>t, <2>1, <2>3
  <2> QED BY <1>t, <2>1, <2>4, <2>5 DEF BusTypes
<1> QED
    BY <1>1, <1>2, <1>3, <1>4, <1>5, <1>6, <1>7, <1>8 DEF Next, Bridge, Pump

LEMMA NumberKept == BusInv /\ [Next]_vars => NumberInv'
<1> SUFFICES ASSUME BusInv, [Next]_vars, errors' = 0
             PROVE  /\ ring' \subseteq 1..seq'
                    /\ \A i \in DOMAIN pumpq' : pumpq'[i] <= seq' /\ pumpq'[i] \notin ring'
                    /\ \A i, j \in DOMAIN pumpq' : pumpq'[i] = pumpq'[j] => i = j
                    /\ \A e \in Emitters : Coming(e)' =>
                         /\ emit'[e].seq \in 1..seq'
                         /\ emit'[e].seq \notin ring'
                         /\ \A i \in DOMAIN pumpq' : pumpq'[i] # emit'[e].seq
                         /\ \A f \in Emitters : Coming(f)' /\ emit'[f].seq = emit'[e].seq => f = e
    BY DEF NumberInv
<1>t. /\ seq \in 0..MaxSeq /\ MaxSeq \in Nat
      /\ emit \in [Emitters -> Emission]
      /\ pumpq \in Seq(Seqs)
      /\ ring \subseteq Seqs /\ Cardinality(ring) <= RingCap
      /\ errors \in Nat
      /\ \A e \in Emitters : Coming(e) => emit[e].seq \in Seqs
    BY EventStreamAssumption DEF BusInv, BusTypes
<1>n. errors = 0 => /\ ring \subseteq 1..seq
                    /\ \A i \in DOMAIN pumpq : pumpq[i] <= seq /\ pumpq[i] \notin ring
                    /\ \A i, j \in DOMAIN pumpq : pumpq[i] = pumpq[j] => i = j
                    /\ \A e \in Emitters : Coming(e) =>
                         /\ emit[e].seq \in 1..seq
                         /\ emit[e].seq \notin ring
                         /\ \A i \in DOMAIN pumpq : pumpq[i] # emit[e].seq
                         /\ \A f \in Emitters : Coming(f) /\ emit[f].seq = emit[e].seq => f = e
    BY DEF BusInv, NumberInv
<1>q. \A i \in DOMAIN pumpq : pumpq[i] \in Seqs /\ pumpq[i] \in Nat
    BY <1>t DEF Seqs
<1>1. CASE FanTake \/ Socket \/ Sse \/ UNCHANGED vars
  <2>1. UNCHANGED <<seq, emit, pumpq, ring, holes>> /\ errors = 0
    BY <1>1, <1>t, ClientSteps DEF busOf
  <2> QED BY <1>n, <2>1 DEF Coming
<1>2. ASSUME NEW e \in Emitters, NEW k \in Kinds, Stamp(e, k) PROVE NumberInv'
  <2>1. emit' = [emit EXCEPT ![e] = [pc |-> "out", seq |-> seq + 1]] /\ seq' = seq + 1
        /\ UNCHANGED <<pumpq, ring>> /\ errors = 0
    BY <1>2 DEF Stamp
  <2>2. /\ emit'[e].seq = seq + 1
        /\ \A f \in Emitters : f # e => emit'[f] = emit[f]
    BY <1>t, <2>1
  <2>3. ring \subseteq 1..seq /\ seq + 1 \notin ring /\ seq + 1 \in 1..(seq + 1)
        /\ 1..seq \subseteq 1..(seq + 1)
    BY <1>n, <1>t, <2>1
  <2>4. \A i \in DOMAIN pumpq : pumpq[i] <= seq + 1 /\ pumpq[i] # seq + 1
    BY <1>n, <1>q, <1>t, <2>1
  <2>5. \A f \in Emitters : f # e /\ Coming(f) => emit[f].seq # seq + 1
    BY <1>n, <1>t, <2>1
  <2>6. \A f \in Emitters : Coming(f)' =>
             /\ emit'[f].seq \in 1..seq'
             /\ emit'[f].seq \notin ring'
             /\ \A i \in DOMAIN pumpq' : pumpq'[i] # emit'[f].seq
    BY <1>n, <2>1, <2>2, <2>3, <2>4 DEF Coming
  <2>7. \A f, g \in Emitters : Coming(f)' /\ Coming(g)' /\ emit'[g].seq = emit'[f].seq => g = f
    BY <1>n, <2>1, <2>2, <2>5 DEF Coming
  <2> QED BY <1>n, <2>1, <2>3, <2>4, <2>6, <2>7 DEF NumberInv
<1>3. ASSUME NEW e \in Emitters, PushOut(e) PROVE NumberInv'
  <2>1. emit' = [emit EXCEPT ![e].pc = "pump"] /\ UNCHANGED <<seq, pumpq, ring>> /\ errors = 0
        /\ Coming(e)
    BY <1>3 DEF PushOut, Coming
  <2>2. \A f \in Emitters : emit'[f].seq = emit[f].seq /\ (Coming(f)' => Coming(f))
    BY <2>1, EmitterMoves DEF BusInv, Coming
  <2> QED BY <1>n, <2>1, <2>2 DEF NumberInv
<1>4. ASSUME NEW e \in Emitters, PushPump(e) PROVE NumberInv'
  <2>1. /\ emit' = [emit EXCEPT ![e].pc = "hint"] /\ UNCHANGED <<seq, ring>> /\ errors = 0
        /\ pumpq' = Offer(pumpq, PumpCap, emit[e].seq)
        /\ Coming(e)
    BY <1>4 DEF PushPump, Coming
  <2>2. /\ ~Coming(e)'
        /\ \A f \in Emitters : emit'[f].seq = emit[f].seq /\ (Coming(f)' => Coming(f))
    BY <2>1, EmitterMoves DEF BusInv, Coming
  <2>3. emit[e].seq \in 1..seq /\ emit[e].seq \notin ring /\ emit[e].seq <= seq
    BY <1>n, <1>t, <2>1
  <2>4. \A i \in DOMAIN pumpq' : \/ i \in DOMAIN pumpq /\ pumpq'[i] = pumpq[i]
                                 \/ i = Len(pumpq) + 1 /\ pumpq'[i] = emit[e].seq
    BY <1>t, <2>1, Offered
  <2>5. \A i \in DOMAIN pumpq : i # Len(pumpq) + 1
    BY <1>t
  <2>6. \A i \in DOMAIN pumpq' : pumpq'[i] <= seq' /\ pumpq'[i] \notin ring'
    BY <1>n, <2>1, <2>3, <2>4
  <2>7. \A i, j \in DOMAIN pumpq' : pumpq'[i] = pumpq'[j] => i = j
    BY <1>n, <2>1, <2>4, <2>5
  <2>8. \A f \in Emitters : Coming(f)' => \A i \in DOMAIN pumpq' : pumpq'[i] # emit'[f].seq
    BY <1>n, <2>1, <2>2, <2>4
  <2> QED BY <1>n, <2>1, <2>2, <2>6, <2>7, <2>8 DEF NumberInv
<1>5. ASSUME NEW e \in Emitters, PushHints(e) PROVE NumberInv'
  <2>1. emit' = [emit EXCEPT ![e] = Silent] /\ UNCHANGED <<seq, pumpq, ring>> /\ errors = 0
    BY <1>5 DEF PushHints
  <2>2. \A f \in Emitters : Coming(f)' => emit'[f] = emit[f] /\ Coming(f)
    BY <1>t, <2>1 DEF Silent, Coming
  <2> QED BY <1>n, <2>1, <2>2 DEF NumberInv
<1>6. CASE PumpAppend
  <2>1. /\ pumpq # <<>> /\ pumpq' = Tail(pumpq) /\ UNCHANGED <<seq, emit, holes>> /\ errors = 0
        /\ Head(pumpq) \notin ring
        /\ ring' = Kept(ring \cup {Head(pumpq)})
    BY <1>6 DEF PumpAppend
  <2>2. Head(pumpq) \in Seqs /\ Head(pumpq) = pumpq[1] /\ 1 \in DOMAIN pumpq
        /\ \A i \in DOMAIN pumpq' : i + 1 \in DOMAIN pumpq /\ i + 1 > 1 /\ pumpq'[i] = pumpq[i + 1]
    BY <1>t, <2>1, Taken
  <2>3. ring' \subseteq ring \cup {pumpq[1]}
    BY <1>t, <2>1, <2>2, KeptRows
  <2>4. pumpq[1] \in 1..seq
    BY <1>n, <1>q, <1>t, <2>1, <2>2 DEF Seqs
  <2>5. \A i \in DOMAIN pumpq' : i \in Int /\ i + 1 # 1
    BY <1>t, <2>1, <2>2
  <2>6. \A i \in DOMAIN pumpq' : pumpq'[i] <= seq' /\ pumpq'[i] \notin ring'
    BY <1>n, <2>1, <2>2, <2>3, <2>5
  <2>7. \A i, j \in DOMAIN pumpq' : pumpq'[i] = pumpq'[j] => i = j
    BY <1>n, <2>1, <2>2, <2>5
  <2>8. \A f \in Emitters : Coming(f)' => Coming(f) /\ emit'[f] = emit[f]
    BY <2>1 DEF Coming
  <2>9. ASSUME NEW f \in Emitters, Coming(f)' PROVE emit'[f].seq \notin ring'
    <3>1. Coming(f) /\ emit'[f] = emit[f]
        BY <2>8, <2>9
    <3>2. emit[f].seq \notin ring /\ pumpq[1] # emit[f].seq
        BY <1>n, <2>1, <2>2, <3>1
    <3> QED BY <2>3, <3>1, <3>2
  <2>10. ASSUME NEW f \in Emitters, Coming(f)', NEW i \in DOMAIN pumpq'
         PROVE  pumpq'[i] # emit'[f].seq
    <3>1. pumpq'[i] = pumpq[i + 1] /\ i + 1 \in DOMAIN pumpq
        BY <2>2
    <3>2. Coming(f) /\ emit'[f] = emit[f]
        BY <2>8, <2>10
    <3> QED BY <1>n, <2>1, <3>1, <3>2
  <2> QED BY <1>n, <2>1, <2>3, <2>4, <2>6, <2>7, <2>8, <2>9, <2>10 DEF NumberInv
<1>7. CASE PumpSkip
  <2>1. /\ pumpq # <<>> /\ pumpq' = Tail(pumpq) /\ UNCHANGED <<seq, emit, ring>>
        /\ errors = 0
    BY <1>7, <1>t DEF PumpSkip, Fails
  <2>2. \A i \in DOMAIN pumpq' : i + 1 \in DOMAIN pumpq /\ pumpq'[i] = pumpq[i + 1] /\ i \in Int
    BY <1>t, <2>1, Taken
  <2> QED BY <1>n, <2>1, <2>2 DEF NumberInv, Coming
<1>8. CASE Restart
  <2>0. ~Fails("stats")
    BY <1>t DEF Fails
  <2>1. /\ emit' = [e \in Emitters |-> Silent] /\ pumpq' = <<>> /\ UNCHANGED ring
        /\ seq' = NewestSeq
    BY <1>8, <2>0 DEF Restart, Seed
  <2>2. ring \subseteq 1..NewestSeq
    BY <1>t, NewestAndOldest
  <2>3. \A e \in Emitters : ~Coming(e)'
    BY <2>1 DEF Coming, Silent
  <2>4. DOMAIN pumpq' = {}
    BY <2>1
  <2> QED BY <2>1, <2>2, <2>3, <2>4
<1> QED
    BY <1>1, <1>2, <1>3, <1>4, <1>5, <1>6, <1>7, <1>8 DEF Next, Bridge, Pump, NumberInv

\* Numbering continues above the ring after a restart whose seed could be read,
\* so what the pump has in hand never collides with a row, for any number of
\* concurrent emitters and any capacities.
THEOREM NumbersAboveRingHolds == Spec => []NumbersAboveRing
<1>1. Init => BusInv
  <2> SUFFICES ASSUME Init PROVE BusInv
    OBVIOUS
  <2>0. Silent \in Emission /\ Silent.pc = "idle" /\ Cardinality({}) = 0
    BY EventStreamAssumption, EmissionRecord, FS_EmptySet DEF Silent
  <2>1. /\ BusTypes
        /\ \A e \in Emitters : ~Coming(e)
    BY <2>0, EventStreamAssumption DEF Init, BusTypes, Coming
  <2>2. NumberInv
    BY <2>1 DEF Init, NumberInv
  <2> QED BY <2>1, <2>2 DEF BusInv
<1>2. BusInv /\ [Next]_vars => BusInv'
    BY BusTypesKept, NumberKept DEF BusInv
<1>3. BusInv => NumbersAboveRing
    BY DEF BusInv, NumberInv, NumbersAboveRing
<1> QED BY <1>1, <1>2, <1>3, PTL DEF Spec

-----------------------------------------------------------------------------
(* One emitter: numbers arrive in order *)

\* EmitSynthetic's callers are a second emitter: then a number may overtake
\* another between the stamp and the pump.
OneEmitter == \A e, f \in Emitters : e = f

\* What the pump files stays accounted for.
LEMMA DoneKept ==
    ASSUME BusTypes, PumpAppend, NEW CONSTANT h, h = Head(pumpq)
    PROVE  /\ \A n \in Seqs : Done(n) => Done(n)'
           /\ Done(h)'
           /\ \A n \in Seqs : (\E m \in ring' : n <= m) => (\E m \in ring : n <= m) \/ n <= h
<1> DEFINE all == ring \cup {h}
<1>t. /\ pumpq \in Seq(Seqs) /\ ring \subseteq Seqs /\ Cardinality(ring) <= RingCap
      /\ RingCap \in Nat
    BY EventStreamAssumption DEF BusTypes
<1>1. /\ pumpq # <<>> /\ h \notin ring /\ ring' = Kept(all) /\ holes' = holes
    BY DEF PumpAppend
<1>2. h \in Seqs
    BY <1>t, <1>1, Taken
<1>3. /\ ring' \subseteq all
      /\ \A x \in all \ ring' : Cardinality(ring') = RingCap /\ \A m \in ring' : x < m
      /\ Cardinality(ring) = RingCap => Cardinality(ring') = RingCap
    BY <1>t, <1>1, <1>2, KeptRows
<1>4. ASSUME NEW x \in all PROVE Done(x)'
    BY <1>3 DEF Done, Below
<1>5. ASSUME NEW n \in Seqs, Below(n) PROVE Done(n)'
  <2>1. Cardinality(ring') = RingCap
    BY <1>3, <1>5 DEF Below
  <2>2. CASE n < h \/ h \notin ring'
    <3>1. \A m \in ring' : n < m
        BY <1>3, <1>5, <2>2 DEF Below
    <3> QED BY <2>1, <3>1 DEF Done, Below
  <2>3. CASE ~(n < h) /\ h \in ring'
    <3>1. CASE n = h
        BY <2>3, <3>1 DEF Done
    <3>2. CASE n # h
      <4>1. h < n
        BY <1>2, <2>3, <3>2 DEF Seqs
      <4>2. \A m \in ring : h < m
        BY <1>t, <1>2, <1>5, <4>1 DEF Below, Seqs
      <4>3. \A x \in ring : x \in ring'
        BY <1>t, <1>2, <1>3, <2>3, <4>2 DEF Seqs
      <4>4. all \subseteq ring'
        BY <2>3, <4>3
      <4>5. Cardinality(all) = Cardinality(ring) + 1 /\ ring' = all
        BY <1>t, <1>1, <1>3, <4>4, SeqsFinite, FS_AddElement
      <4> QED BY <1>t, <1>5, <2>1, <4>5 DEF Below
    <3> QED BY <3>1, <3>2
  <2> QED BY <2>2, <2>3
<1>6. \A n \in Seqs : Done(n) => Done(n)'
  <2> SUFFICES ASSUME NEW n \in Seqs, Done(n) PROVE Done(n)'
    OBVIOUS
  <2>1. CASE n \in ring
    BY <1>4, <2>1
  <2>2. CASE n \in holes
    BY <1>1, <2>2 DEF Done
  <2>3. CASE Below(n)
    BY <1>5, <2>3
  <2> QED BY <2>1, <2>2, <2>3 DEF Done
<1>7. \A n \in Seqs : (\E m \in ring' : n <= m) => (\E m \in ring : n <= m) \/ n <= h
    BY <1>3
<1> QED BY <1>4, <1>6, <1>7

\* A number given out again stands for no older event: it leaves the holes, and it
\* is above the ring then.
LEMMA StampedHoles ==
    ASSUME BusTypes, NEW e, NEW k, Stamp(e, k)
    PROVE  /\ \A n \in holes : n # seq + 1 => n \in holes'
           /\ \A n \in holes : n \in holes' \/ (n = seq + 1 /\ \A m \in ring : m < n)
<1>1. /\ NewestSeq \in 0..MaxSeq /\ ring \subseteq 1..NewestSeq /\ MaxSeq \in Nat
      /\ seq \in 0..MaxSeq
    BY NewestAndOldest, EventStreamAssumption DEF BusTypes
<1>2. holes' = IF seq + 1 <= NewestSeq THEN holes \cup {seq + 1} ELSE holes \ {seq + 1}
    BY DEF Stamp
<1>3. ~(seq + 1 <= NewestSeq) => \A m \in ring : m < seq + 1
    BY <1>1
<1> QED BY <1>2, <1>3

LEMMA OrderKept ==
    ASSUME OneEmitter, BusTypes, OrderInv, [Next]_vars
    PROVE  OrderInv'
<1>t. /\ seq \in 0..MaxSeq /\ MaxSeq \in Nat
      /\ emit \in [Emitters -> Emission]
      /\ pumpq \in Seq(Seqs)
      /\ ring \subseteq Seqs
      /\ errors \in Nat
      /\ \A e \in Emitters : Coming(e) => emit[e].seq \in Seqs
    BY EventStreamAssumption DEF BusTypes
<1>n. /\ \A i \in DOMAIN pumpq : pumpq[i] <= seq
      /\ \A i, j \in DOMAIN pumpq : i < j => pumpq[i] < pumpq[j]
      /\ \A e \in Emitters : Coming(e) =>
           emit[e].seq = seq /\ \A i \in DOMAIN pumpq : pumpq[i] < seq
      /\ \A n \in 1..seq : \/ Done(n)
                           \/ \E i \in DOMAIN pumpq : pumpq[i] = n
                           \/ \E e \in Emitters : Coming(e) /\ emit[e].seq = n
      /\ \A n \in Seqs, m \in ring : n <= m => Done(n)
    BY DEF OrderInv
<1>q. \A i \in DOMAIN pumpq : pumpq[i] \in Seqs /\ pumpq[i] \in Nat /\ i \in Nat
    BY <1>t DEF Seqs
<1>1. CASE FanTake \/ Socket \/ Sse \/ UNCHANGED vars
  <2>1. UNCHANGED <<seq, emit, pumpq, ring, holes>>
    BY <1>1, ClientSteps DEF busOf
  <2> QED BY <1>n, <2>1 DEF OrderInv, Coming, Done, Below
<1>2. ASSUME NEW e \in Emitters, NEW k \in Kinds, Stamp(e, k) PROVE OrderInv'
  <2>1. /\ emit' = [emit EXCEPT ![e] = [pc |-> "out", seq |-> seq + 1]] /\ seq' = seq + 1
        /\ UNCHANGED <<pumpq, ring>> /\ emit[e].pc = "idle"
        /\ \A n \in holes : n # seq + 1 => n \in holes'
        /\ \A n \in holes : n \in holes' \/ \A m \in ring : m < n
    BY <1>2, <1>t, StampedHoles DEF Stamp
  <2>2. emit'[e].seq = seq + 1 /\ Coming(e)' /\ \A f \in Emitters : f = e
    BY <1>t, <2>1 DEF OneEmitter, Coming
  <2>3. \A i \in DOMAIN pumpq : pumpq[i] <= seq + 1 /\ pumpq[i] < seq + 1
    BY <1>n, <1>q, <1>t
  <2>4. \A n \in 1..seq' : \/ Done(n)'
                           \/ \E i \in DOMAIN pumpq' : pumpq'[i] = n
                           \/ \E f \in Emitters : Coming(f)' /\ emit'[f].seq = n
    <3> SUFFICES ASSUME NEW n \in 1..(seq + 1)
                 PROVE  \/ Done(n)'
                        \/ \E i \in DOMAIN pumpq' : pumpq'[i] = n
                        \/ \E f \in Emitters : Coming(f)' /\ emit'[f].seq = n
        BY <2>1
    <3>1. CASE n = seq + 1
        BY <2>2, <3>1
    <3>2. CASE n # seq + 1
      <4>1. n \in 1..seq
        BY <1>t, <3>2
      <4>2. \A f \in Emitters : ~Coming(f)
        BY <2>1, <2>2 DEF Coming
      <4> QED BY <1>n, <2>1, <3>2, <4>1, <4>2 DEF Done, Below
    <3> QED BY <3>1, <3>2
  <2>5. \A n \in Seqs, m \in ring' : n <= m => Done(n)'
    <3> SUFFICES ASSUME NEW n \in Seqs, NEW m \in ring, n <= m PROVE Done(n)'
        BY <2>1
    <3>1. ~(m < n)
        BY <1>t DEF Seqs
    <3>2. Done(n)
        BY <1>n
    <3> QED BY <2>1, <3>1, <3>2 DEF Done, Below
  <2> QED BY <1>n, <2>1, <2>2, <2>3, <2>4, <2>5 DEF OrderInv
<1>3. ASSUME NEW e \in Emitters, PushOut(e) PROVE OrderInv'
  <2>1. emit' = [emit EXCEPT ![e].pc = "pump"] /\ UNCHANGED <<seq, pumpq, ring, holes>>
        /\ Coming(e)
    BY <1>3 DEF PushOut, Coming
  <2>2. \A f \in Emitters : emit'[f].seq = emit[f].seq /\ (Coming(f)' <=> Coming(f))
    BY <2>1, EmitterMoves DEF Coming
  <2> QED BY <1>n, <2>1, <2>2 DEF OrderInv, Done, Below
<1>4. ASSUME NEW e \in Emitters, PushPump(e) PROVE OrderInv'
  <2>1. /\ emit' = [emit EXCEPT ![e].pc = "hint"] /\ UNCHANGED <<seq, ring>>
        /\ pumpq' = Offer(pumpq, PumpCap, emit[e].seq)
        /\ holes' = IF Len(pumpq) < PumpCap THEN holes ELSE holes \cup {emit[e].seq}
        /\ Coming(e)
    BY <1>4 DEF PushPump, Coming
  <2>2. ~Coming(e)' /\ \A f \in Emitters : f = e
    BY <2>1, EmitterMoves DEF Coming, OneEmitter
  <2>3. emit[e].seq = seq /\ seq \in Seqs /\ \A i \in DOMAIN pumpq : pumpq[i] < seq
    BY <1>n, <1>t, <2>1
  <2>4. \A n : Done(n) => Done(n)'
    BY <2>1 DEF Done, Below
  <2>5. CASE Len(pumpq) < PumpCap
    <3> DEFINE l == Len(pumpq) + 1
    <3>1. /\ l \in Nat /\ DOMAIN pumpq' = 1..l /\ DOMAIN pumpq = 1..(l - 1)
          /\ \A i \in DOMAIN pumpq : pumpq'[i] = pumpq[i]
          /\ pumpq'[l] = seq
        BY <1>t, <2>1, <2>3, <2>5, Offered
    <3> HIDE DEF l
    <3>2. \A i \in DOMAIN pumpq' : i = l \/ i \in DOMAIN pumpq
        BY <3>1
    <3>3. \A i \in DOMAIN pumpq' : pumpq'[i] <= seq'
        BY <1>n, <1>t, <2>1, <3>1, <3>2
    <3>4. \A i, j \in DOMAIN pumpq' : i < j => pumpq'[i] < pumpq'[j]
        BY <1>n, <2>3, <3>1, <3>2
    <3>5. l \in DOMAIN pumpq' /\ \A i \in DOMAIN pumpq : i \in DOMAIN pumpq'
      <4>1. l # 0
        BY <1>t DEF l
      <4> QED BY <3>1, <4>1
    <3>6. \A n \in 1..seq' : Done(n)' \/ \E i \in DOMAIN pumpq' : pumpq'[i] = n
        BY <1>n, <2>1, <2>2, <2>3, <2>4, <3>1, <3>5
    <3> QED BY <1>n, <2>1, <2>2, <2>4, <3>3, <3>4, <3>6 DEF OrderInv
  <2>6. CASE ~(Len(pumpq) < PumpCap)
    <3>1. pumpq' = pumpq /\ seq \in holes'
        BY <1>t, <2>1, <2>3, <2>6, Offered
    <3>2. \A n \in 1..seq' : Done(n)' \/ \E i \in DOMAIN pumpq' : pumpq'[i] = n
        BY <1>n, <2>1, <2>2, <2>3, <2>4, <3>1 DEF Done
    <3> QED BY <1>n, <2>1, <2>2, <2>4, <3>1, <3>2 DEF OrderInv
  <2> QED BY <2>5, <2>6
<1>5. ASSUME NEW e \in Emitters, PushHints(e) PROVE OrderInv'
  <2>1. emit' = [emit EXCEPT ![e] = Silent] /\ UNCHANGED <<seq, pumpq, ring, holes>>
        /\ emit[e].pc = "hint"
    BY <1>5 DEF PushHints
  <2>2. \A f \in Emitters : ~Coming(f)' /\ ~Coming(f)
    BY <1>t, <2>1 DEF Silent, Coming, OneEmitter
  <2> QED BY <1>n, <2>1, <2>2 DEF OrderInv, Done, Below
<1>6. CASE PumpAppend
  <2>1. /\ pumpq # <<>> /\ pumpq' = Tail(pumpq) /\ UNCHANGED <<seq, emit>>
    BY <1>6 DEF PumpAppend
  <2>h. PICK h : h = Head(pumpq)
    OBVIOUS
  <2>2. /\ h \in Seqs /\ h = pumpq[1] /\ 1 \in DOMAIN pumpq
        /\ \A i \in DOMAIN pumpq' : i + 1 \in DOMAIN pumpq /\ i + 1 > 1 /\ pumpq'[i] = pumpq[i + 1]
        /\ \A i \in DOMAIN pumpq : i # 1 => i - 1 \in DOMAIN pumpq'
    BY <1>t, <2>1, <2>h, Taken
  <2>3. /\ \A n \in Seqs : Done(n) => Done(n)'
        /\ Done(h)'
        /\ \A n \in Seqs : (\E m \in ring' : n <= m) => (\E m \in ring : n <= m) \/ n <= h
    BY <1>6, <2>h, DoneKept
  <2>4. \A i \in DOMAIN pumpq' : i \in Nat /\ i + 1 - 1 = i
    BY <2>1, <1>t
  <2>5. \A i, j \in DOMAIN pumpq' : i < j => pumpq'[i] < pumpq'[j]
    BY <1>n, <2>2, <2>4
  <2>6. \A e \in Emitters : Coming(e)' =>
             emit'[e].seq = seq' /\ \A i \in DOMAIN pumpq' : pumpq'[i] < seq'
    BY <1>n, <2>1, <2>2 DEF Coming
  <2>7. \A i \in DOMAIN pumpq' : pumpq'[i] <= seq'
    BY <1>n, <2>1, <2>2
  <2>8. \A n \in 1..seq' : \/ Done(n)'
                           \/ \E i \in DOMAIN pumpq' : pumpq'[i] = n
                           \/ \E e \in Emitters : Coming(e)' /\ emit'[e].seq = n
    <3> SUFFICES ASSUME NEW n \in 1..seq
                 PROVE  \/ Done(n)'
                        \/ \E i \in DOMAIN pumpq' : pumpq'[i] = n
                        \/ \E e \in Emitters : Coming(e)' /\ emit'[e].seq = n
        BY <2>1
    <3>0. n \in Seqs
        BY <1>t DEF Seqs
    <3>1. CASE Done(n)
        BY <2>3, <3>0, <3>1
    <3>2. CASE \E e \in Emitters : Coming(e) /\ emit[e].seq = n
        BY <2>1, <3>2 DEF Coming
    <3>3. ASSUME NEW i \in DOMAIN pumpq, pumpq[i] = n
          PROVE  Done(n)' \/ \E j \in DOMAIN pumpq' : pumpq'[j] = n
      <4>1. CASE i = 1
        BY <2>2, <2>3, <3>3, <4>1
      <4>2. CASE i # 1
        <5>1. i - 1 \in DOMAIN pumpq' /\ pumpq'[i - 1] = pumpq[(i - 1) + 1] /\ i \in Nat
            BY <1>q, <2>2, <4>2
        <5>2. (i - 1) + 1 = i
            BY <5>1
        <5> QED BY <3>3, <5>1, <5>2
      <4> QED BY <4>1, <4>2
    <3> QED BY <1>n, <3>1, <3>2, <3>3
  <2>9. \A n \in Seqs, m \in ring' : n <= m => Done(n)'
    <3> SUFFICES ASSUME NEW n \in Seqs, NEW m \in ring', n <= m PROVE Done(n)'
        OBVIOUS
    <3>1. CASE \E x \in ring : n <= x
        BY <1>n, <2>3, <3>1
    <3>2. CASE n <= h
      <4>1. h <= seq /\ n \in 1..seq
        BY <1>n, <1>t, <2>2, <3>2 DEF Seqs
      <4>2. CASE Done(n)
        BY <2>3, <4>2
      <4>3. ASSUME NEW i \in DOMAIN pumpq, pumpq[i] = n PROVE Done(n)'
        <5>1. i = 1
            BY <1>n, <1>q, <2>2, <3>2, <4>3
        <5> QED BY <2>2, <2>3, <4>3, <5>1
      <4>4. ASSUME NEW e \in Emitters, Coming(e), emit[e].seq = n PROVE Done(n)'
        <5>1. h < n
            BY <1>n, <2>2, <4>4
        <5> QED BY <2>2, <3>2, <5>1 DEF Seqs
      <4> QED BY <1>n, <4>1, <4>2, <4>3, <4>4
    <3> QED BY <2>3, <3>1, <3>2
  <2> QED BY <2>5, <2>6, <2>7, <2>8, <2>9 DEF OrderInv
<1>7. CASE PumpSkip
  <2>1. /\ pumpq # <<>> /\ pumpq' = Tail(pumpq) /\ UNCHANGED <<seq, emit, ring>>
        /\ holes' = holes \cup {Head(pumpq)}
    BY <1>7 DEF PumpSkip
  <2>2. /\ Head(pumpq) = pumpq[1]
        /\ \A i \in DOMAIN pumpq' : i + 1 \in DOMAIN pumpq /\ pumpq'[i] = pumpq[i + 1] /\ i \in Nat
        /\ \A i \in DOMAIN pumpq : i # 1 => i - 1 \in DOMAIN pumpq' /\ i \in Nat
    BY <1>t, <2>1, Taken
  <2>3. \A n : Done(n) => Done(n)'
    BY <2>1 DEF Done, Below
  <2>4. \A n, i : i \in DOMAIN pumpq /\ pumpq[i] = n =>
                     Done(n)' \/ \E j \in DOMAIN pumpq' : pumpq'[j] = n
    <3> SUFFICES ASSUME NEW n, NEW i, i \in DOMAIN pumpq, pumpq[i] = n
                 PROVE  Done(n)' \/ \E j \in DOMAIN pumpq' : pumpq'[j] = n
        OBVIOUS
    <3>1. CASE i = 1
        BY <2>1, <2>2, <3>1 DEF Done
    <3>2. CASE i # 1
        BY <2>2, <3>2
    <3> QED BY <3>1, <3>2
  <2>5. \A i, j \in DOMAIN pumpq' : i < j => pumpq'[i] < pumpq'[j]
    BY <1>n, <2>2
  <2>6. \A n \in 1..seq' : \/ Done(n)'
                           \/ \E i \in DOMAIN pumpq' : pumpq'[i] = n
                           \/ \E e \in Emitters : Coming(e)' /\ emit'[e].seq = n
    BY <1>n, <2>1, <2>3, <2>4 DEF Coming
  <2>7. \A e \in Emitters : Coming(e)' =>
             emit'[e].seq = seq' /\ \A i \in DOMAIN pumpq' : pumpq'[i] < seq'
    BY <1>n, <2>1, <2>2 DEF Coming
  <2> QED BY <1>n, <2>1, <2>2, <2>3, <2>5, <2>6, <2>7 DEF OrderInv
<1>8. CASE Restart
  <2>1. /\ emit' = [e \in Emitters |-> Silent] /\ pumpq' = <<>> /\ UNCHANGED <<ring, holes>>
        /\ seq' \in {NewestSeq, 0}
    BY <1>8 DEF Restart, Seed
  <2>2. NewestSeq \in 0..MaxSeq /\ (NewestSeq \in ring \/ NewestSeq = 0)
    BY <1>t, NewestAndOldest
  <2>3. \A e \in Emitters : ~Coming(e)'
    BY <2>1 DEF Coming, Silent
  <2>4. DOMAIN pumpq' = {}
    BY <2>1
  <2>5. ASSUME NEW n \in 1..seq' PROVE Done(n)'
    <3>1. NewestSeq \in ring /\ n \in Seqs /\ n <= NewestSeq
        BY <1>t, <2>1, <2>2 DEF Seqs
    <3> QED BY <1>n, <2>1, <3>1 DEF Done, Below
  <2> QED BY <1>n, <2>1, <2>3, <2>4, <2>5 DEF OrderInv, Done, Below
<1> QED
    BY <1>1, <1>2, <1>3, <1>4, <1>5, <1>6, <1>7, <1>8 DEF Next, Bridge, Pump


-----------------------------------------------------------------------------
(* SSE clients *)

\* What happens to a client's accounts: they grow, or nothing happens.
Grows(f, g, S) == g \in [S -> SUBSET Int] /\ \A x \in S : f[x] \subseteq g[x]

LEMMA GrowsByOne ==
    ASSUME NEW S, NEW f \in [S -> SUBSET Int], NEW x \in S, NEW A \in SUBSET Int,
           NEW g, g = [f EXCEPT ![x] = @ \cup A]
    PROVE  Grows(f, g, S) /\ A \subseteq g[x]
BY DEF Grows

\* The steps of the socket leave the SSE clients alone; a failed OldestSeq of
\* theirs excuses no less.
LEMMA SocketSteps ==
    ASSUME BusTypes, TailTypes, Socket \/ FanTake \/ Bridge \/ PumpSkip \/ UNCHANGED vars
    PROVE  /\ UNCHANGED <<tail, read, told, ring>>
           /\ Grows(excused, excused', Subs \cup Tails)
           /\ \A n \in holes : n \in holes' \/ \A m \in ring : m < n
<1>g. Grows(excused, excused, Subs \cup Tails)
    BY DEF Grows, TailTypes
<1>1. CASE UNCHANGED vars
    BY <1>1, <1>g DEF vars, busVars, sseVars
<1>2. CASE FanTake
    BY <1>2, <1>g DEF FanTake, sseVars
<1>3. CASE PumpSkip
    BY <1>3, <1>g DEF PumpSkip, sseVars
<1>4. CASE Bridge
  <2>1. PICK e \in Emitters : \/ \E k \in Kinds : Stamp(e, k)
                             \/ PushOut(e) \/ PushPump(e) \/ PushHints(e)
    BY <1>4 DEF Bridge
  <2>2. CASE \E k \in Kinds : Stamp(e, k)
    BY <1>g, <2>2, StampedHoles DEF Stamp, sseVars
  <2>3. CASE PushOut(e) \/ PushPump(e) \/ PushHints(e)
    BY <1>g, <2>3 DEF PushOut, PushPump, PushHints, sseVars
  <2> QED BY <2>1, <2>2, <2>3
<1>5. CASE Socket
  <2>1. PICK s \in Subs :
            \/ Subscribe(s) \/ EmitEvictionGap(s) \/ PollRing(s) \/ PushReplayRecord(s)
            \/ Register(s) \/ FanBuild(s) \/ FanPush(s) \/ Write(s) \/ Disconnect(s)
            \/ ReapRead(s) \/ ReapPush(s) \/ ReapDelete(s)
    BY <1>5 DEF Socket
  <2>2. UNCHANGED <<busVars, sseVars>>
    BY <2>1 DEF Subscribe, HandleSubscribe, EmitEvictionGap, PollRing, PushReplayRecord,
       Register, FanBuild, FanPush, Write, Disconnect, ReapRead, ReapPush, ReapDelete
  <2>3. CASE EmitEvictionGap(s)
    <3> DEFINE A == Behind(sub[s].since)
    <3>1. A \subseteq Int
        BY DEF Behind
    <3>2. excused' = excused \/ excused' = [excused EXCEPT ![s] = @ \cup A]
        BY <2>3 DEF EmitEvictionGap
    <3> HIDE DEF A
    <3>3. Grows(excused, excused', Subs \cup Tails)
        BY <1>g, <3>1, <3>2, GrowsByOne DEF TailTypes
    <3> QED BY <2>2, <3>3 DEF busVars, sseVars
  <2>4. CASE ~EmitEvictionGap(s)
    <3>1. UNCHANGED excused
        BY <2>1, <2>4 DEF Subscribe, HandleSubscribe, PollRing, PushReplayRecord,
           Register, FanBuild, FanPush, Write, Disconnect, ReapRead, ReapPush, ReapDelete
    <3> QED BY <1>g, <2>2, <3>1 DEF busVars, sseVars
  <2> QED BY <2>3, <2>4
<1> QED BY <1>1, <1>2, <1>3, <1>4, <1>5

\* A client whose place does not change keeps what it has accounted for.
LEMMA PlaceKept ==
    ASSUME NEW t \in Tails, holes \subseteq holes', read[t] \subseteq read'[t],
           told[t] \subseteq told'[t], excused[t] \subseteq excused'[t],
           tail'[t].start = tail[t].start, tail'[t].cursor = tail[t].cursor,
           \A n \in Between(tail[t].start, tail[t].cursor) : n \in Accounted(t)
    PROVE  \A n \in Between(tail'[t].start, tail'[t].cursor) : n \in Accounted(t)'
BY DEF Accounted, Between

\* The fields of a client's state.
LEMMA TailFields ==
    ASSUME TailTypes, NEW t \in Tails
    PROVE  /\ tail[t] \in TailState
           /\ tail[t].cursor \in 0..MaxSeq /\ tail[t].start \in 0..MaxSeq
           /\ tail[t].gap \in SUBSET Seqs /\ tail[t].uses \in 0..MaxResumes
           /\ tail[t].before \in -1..MaxSeq
BY DEF TailTypes, TailState

\* A client moves: the other ones stay where they are.
Moves(t, r) == tail' = [tail EXCEPT ![t] = r]

LEMMA TailMoves ==
    ASSUME TailTypes, NEW t \in Tails, NEW r \in TailState, Moves(t, r)
    PROVE  /\ tail' \in [Tails -> TailState]
           /\ tail'[t] = r
           /\ \A u \in Tails : u # t => tail'[u] = tail[u]
BY DEF TailTypes, Moves

LEMMA TailRecord ==
    ASSUME NEW pc \in {"off", "open", "idle", "stats", "range", "settle"},
           NEW c \in 0..MaxSeq, NEW a \in 0..MaxSeq, NEW b \in -1..MaxSeq,
           NEW g \in SUBSET Seqs, NEW u \in 0..MaxResumes
    PROVE  [pc |-> pc, cursor |-> c, start |-> a, before |-> b, gap |-> g, uses |-> u] \in TailState
BY DEF TailState

\* What TailInv says of one client.
Placed(t) ==
    /\ \A n \in Between(tail[t].start, tail[t].cursor) : n \in Accounted(t)
    /\ tail[t].pc = "range" =>
         \A n \in Seqs, m \in ring : tail[t].cursor < n /\ n <= m =>
             n \in ring \cup holes \cup tail[t].gap \cup excused[t]

\* A client that is left alone while the ring does not change.
LEMMA StaysPlaced ==
    ASSUME NEW t \in Tails, Placed(t), holes \subseteq holes', read[t] \subseteq read'[t],
           told[t] \subseteq told'[t], excused[t] \subseteq excused'[t], ring' = ring,
           tail'[t].start = tail[t].start, tail'[t].cursor = tail[t].cursor,
           tail'[t].pc # "range" \/ tail'[t] = tail[t]
    PROVE  Placed(t)'
BY PlaceKept DEF Placed

\* A number of the holes goes to another event: it is not behind a cursor.
LEMMA StillPlaced ==
    ASSUME TailTypes, ring \subseteq Seqs, NEW t \in Tails, Placed(t), ReadUpTo(t),
           \A n \in holes : n \in holes' \/ \A m \in ring : m < n,
           UNCHANGED <<tail, read, told, ring>>, excused[t] \subseteq excused'[t]
    PROVE  Placed(t)' /\ ReadUpTo(t)'
<1>f. tail[t].cursor \in 0..MaxSeq /\ tail[t].start \in 0..MaxSeq
    BY TailFields
<1>1. ASSUME NEW n \in Between(tail[t].start, tail[t].cursor) PROVE n \in Accounted(t)'
  <2>1. n \in Seqs /\ tail[t].start < n /\ n <= tail[t].cursor
    BY DEF Between
  <2>2. ~\A m \in ring : m < n
    BY <1>f, <2>1 DEF ReadUpTo, Seqs
  <2>3. n \in Accounted(t)
    BY DEF Placed
  <2> QED BY <2>2, <2>3 DEF Accounted
<1>2. ASSUME tail[t].pc = "range", NEW n \in Seqs, NEW m \in ring, tail[t].cursor < n, n <= m
      PROVE  n \in ring \cup holes' \cup tail[t].gap \cup excused'[t]
  <2>1. ~(m < n)
    BY <1>2 DEF Seqs
  <2>2. n \in ring \cup holes \cup tail[t].gap \cup excused[t]
    BY <1>2 DEF Placed
  <2> QED BY <2>1, <2>2
<1> QED BY <1>1, <1>2 DEF Placed, ReadUpTo

\* Steps that neither move the cursor nor begin a poll.
LEMMA TailTurns ==
    ASSUME TailTypes, NEW t \in Tails,
           Listen(t) \/ HeartbeatPoll(t) \/ WakeHint(t) \/ SettlePoll(t) \/ Detach(t)
    PROVE  /\ tail' \in [Tails -> TailState]
           /\ tail'[t].start = tail[t].start /\ tail'[t].cursor = tail[t].cursor
           /\ tail'[t].pc # "range"
           /\ \A u \in Tails : u # t => tail'[u] = tail[u]
           /\ UNCHANGED <<read, told, excused, ring, holes>>
<1>f. /\ tail[t] \in TailState /\ tail[t].cursor \in -1..MaxSeq
      /\ tail[t].cursor \in 0..MaxSeq
      /\ -1 \in -1..MaxSeq /\ {} \in SUBSET Seqs
    BY TailFields, EventStreamAssumption
<1>1. CASE Listen(t) \/ HeartbeatPoll(t) \/ SettlePoll(t)
  <2> DEFINE r == [tail[t] EXCEPT !.pc = "stats", !.before = -1]
  <2>1. r \in TailState /\ r.start = tail[t].start /\ r.cursor = tail[t].cursor /\ r.pc # "range"
    BY <1>f DEF TailState
  <2>2. Moves(t, r)
    BY <1>1 DEF Listen, HeartbeatPoll, SettlePoll, Moves, TailTypes
  <2> HIDE DEF r
  <2>3. UNCHANGED <<read, told, excused, ring, holes>>
    BY <1>1 DEF Listen, HeartbeatPoll, SettlePoll, busVars
  <2> QED BY <2>1, <2>2, <2>3, TailMoves
<1>2. CASE WakeHint(t)
  <2> DEFINE r == [tail[t] EXCEPT !.pc = "stats", !.before = tail[t].cursor]
  <2>1. r \in TailState /\ r.start = tail[t].start /\ r.cursor = tail[t].cursor /\ r.pc # "range"
    BY <1>f DEF TailState
  <2>2. Moves(t, r)
    BY <1>2 DEF WakeHint, Moves, TailTypes
  <2> HIDE DEF r
  <2>3. UNCHANGED <<read, told, excused, ring, holes>>
    BY <1>2 DEF WakeHint, busVars
  <2> QED BY <2>1, <2>2, <2>3, TailMoves
<1>3. CASE Detach(t)
  <2> DEFINE r == [tail[t] EXCEPT !.pc = "off", !.gap = {}, !.before = -1]
  <2>1. r \in TailState /\ r.start = tail[t].start /\ r.cursor = tail[t].cursor /\ r.pc # "range"
    BY <1>f DEF TailState
  <2>2. Moves(t, r)
    BY <1>3 DEF Detach, Moves, TailTypes
  <2> HIDE DEF r
  <2>3. UNCHANGED <<read, told, excused, ring, holes>>
    BY <1>3 DEF Detach, busVars
  <2> QED BY <2>1, <2>2, <2>3, TailMoves
<1> QED BY <1>1, <1>2, <1>3

LEMMA AttachKept ==
    ASSUME SseInv, NEW t \in Tails, Attach(t)
    PROVE  TailTypes' /\ TailInv'
<1>t. TailTypes /\ BusTypes /\ TailInv
    BY DEF SseInv
<1>u. UNCHANGED <<read, told, excused, ring, holes>>
    BY DEF Attach, busVars
<1>f. /\ tail[t] \in TailState /\ tail[t].cursor \in 0..MaxSeq /\ tail[t].start \in 0..MaxSeq
      /\ tail[t].uses \in 0..MaxResumes
    BY <1>t, TailFields
<1>1. PICK c \in IF tail[t].uses = 0 THEN (0..seq) \cup {NewestSeq} ELSE {tail[t].cursor} :
        tail' = [tail EXCEPT ![t].pc = "open", ![t].cursor = c, ![t].uses = @ + 1,
                             ![t].start = IF tail[t].uses = 0 THEN c ELSE @]
    BY DEF Attach
<1>2. c \in 0..MaxSeq /\ (tail[t].uses # 0 => c = tail[t].cursor)
  <2>1. NewestSeq \in 0..MaxSeq /\ seq \in 0..MaxSeq /\ MaxSeq \in Nat
    BY <1>t, NewestAndOldest, EventStreamAssumption DEF BusTypes
  <2> QED BY <1>f, <2>1
<1>3. tail[t].uses + 1 \in 0..MaxResumes
    BY <1>f, EventStreamAssumption DEF Attach
<1> DEFINE r == [tail[t] EXCEPT !.pc = "open", !.cursor = c, !.uses = tail[t].uses + 1,
                                !.start = IF tail[t].uses = 0 THEN c ELSE tail[t].start]
<1>4. /\ r \in TailState /\ r.pc = "open" /\ r.cursor = c
      /\ r.start = IF tail[t].uses = 0 THEN c ELSE tail[t].start
    BY <1>f, <1>2, <1>3 DEF TailState
<1>5. Moves(t, r)
    BY <1>t, <1>1 DEF Moves, TailTypes
<1> HIDE DEF r
<1>6. /\ tail' \in [Tails -> TailState] /\ tail'[t] = r
      /\ \A x \in Tails : x # t => tail'[x] = tail[x]
    BY <1>t, <1>4, <1>5, TailMoves
<1>7. Placed(t)'
  <2>1. CASE tail[t].uses = 0
    <3>1. \A n \in Int : ~(c < n /\ n <= c)
        BY <1>2
    <3> QED BY <1>2, <1>4, <1>6, <2>1, <3>1 DEF Placed, Between, Seqs
  <2>2. CASE tail[t].uses # 0
    <3>1. tail'[t].start = tail[t].start /\ tail'[t].cursor = tail[t].cursor
          /\ tail'[t].pc # "range"
        BY <1>2, <1>4, <1>6, <2>2
    <3>2. Placed(t)
        BY <1>t DEF TailInv, Placed
    <3> QED BY <1>u, <3>1, <3>2, StaysPlaced
  <2> QED BY <2>1, <2>2
<1>8. \A x \in Tails : x # t => Placed(x)'
    BY <1>t, <1>u, <1>6, StaysPlaced DEF TailInv, Placed
<1>9. TailInv'
    BY <1>7, <1>8 DEF TailInv, Placed
<1> QED BY <1>t, <1>u, <1>6, <1>9 DEF TailTypes

\* The first half of a poll: what lies between the cursor and the ring is told,
\* or excused when OldestSeq failed.
LEMMA StatsKept ==
    ASSUME SseInv, NEW t \in Tails, ReplayStats(t)
    PROVE  TailTypes' /\ TailInv'
<1>t. /\ TailTypes /\ BusTypes /\ TailInv /\ OrderInv
      /\ ring \subseteq Seqs /\ errors \in Nat
    BY DEF SseInv, BusTypes
<1>u. UNCHANGED <<read, told, ring, holes>>
    BY DEF ReplayStats, busVars
<1>f. tail[t] \in TailState /\ tail[t].cursor \in 0..MaxSeq
    BY <1>t, TailFields
<1> DEFINE A == Behind(tail[t].cursor)
<1>1. A \in SUBSET Seqs /\ {} \in SUBSET Seqs /\ A \in SUBSET Int
  <2>1. OldestSeq \in 0..MaxSeq /\ MaxSeq \in Nat
    BY <1>t, NewestAndOldest, EventStreamAssumption
  <2> QED BY <1>f, <2>1 DEF Behind, Seqs
<1>2. PICK g \in {A, {}} :
        /\ tail' = [tail EXCEPT ![t].pc = "range", ![t].gap = g]
        /\ \/ g = A /\ excused' = excused
           \/ excused' = [excused EXCEPT ![t] = @ \cup A]
  <2>1. CASE UNCHANGED errors
    <3>1. ~Fails("oldest")
        BY <1>t, <2>1 DEF Fails
    <3> QED BY <2>1, <3>1 DEF ReplayStats
  <2>2. CASE errors' # errors
    BY <2>2 DEF ReplayStats
  <2> QED BY <2>1, <2>2
<1>a. \A n \in Seqs, m \in ring : tail[t].cursor < n /\ n <= m => n \in ring \cup holes \cup A
  <2> SUFFICES ASSUME NEW n \in Seqs, NEW m \in ring, tail[t].cursor < n, n <= m,
                      n \notin ring, n \notin holes
               PROVE  n \in A
    OBVIOUS
  <2>1. Below(n)
    BY <1>t DEF OrderInv, Done
  <2>2. OldestSeq \in ring /\ OldestSeq \in Nat /\ MaxSeq \in Nat
    BY <1>t, NewestAndOldest, EventStreamAssumption
  <2>3. n < OldestSeq
    BY <2>1, <2>2 DEF Below
  <2> QED BY <1>f, <2>2, <2>3 DEF Behind, Seqs
<1> DEFINE r == [tail[t] EXCEPT !.pc = "range", !.gap = g]
<1>3. /\ r \in TailState /\ r.gap = g /\ r.cursor = tail[t].cursor /\ r.start = tail[t].start
    BY <1>f, <1>1 DEF TailState
<1>4. Moves(t, r)
    BY <1>t, <1>2 DEF Moves, TailTypes
<1> HIDE DEF r, A
<1>5. /\ tail' \in [Tails -> TailState] /\ tail'[t] = r
      /\ \A x \in Tails : x # t => tail'[x] = tail[x]
    BY <1>t, <1>3, <1>4, TailMoves
<1>6. Grows(excused, excused', Subs \cup Tails) /\ A \subseteq g \cup excused'[t]
  <2>0. excused \in [Subs \cup Tails -> SUBSET Int] /\ t \in Subs \cup Tails
    BY <1>t DEF TailTypes
  <2>1. CASE g = A /\ excused' = excused
    BY <2>0, <2>1 DEF Grows
  <2>2. CASE excused' = [excused EXCEPT ![t] = @ \cup A]
    <3>1. Grows(excused, excused', Subs \cup Tails) /\ A \subseteq excused'[t]
        BY <1>1, <2>0, <2>2, GrowsByOne
    <3> QED BY <3>1
  <2> QED BY <1>2, <2>1, <2>2
<1>7. Placed(t)'
  <2>1. \A n \in Between(tail'[t].start, tail'[t].cursor) : n \in Accounted(t)'
    BY <1>t, <1>u, <1>3, <1>5, <1>6, PlaceKept DEF TailInv, Grows
  <2>2. \A n \in Seqs, m \in ring : tail'[t].cursor < n /\ n <= m =>
             n \in ring' \cup holes' \cup tail'[t].gap \cup excused'[t]
    BY <1>a, <1>u, <1>3, <1>5, <1>6
  <2> QED BY <1>u, <2>1, <2>2 DEF Placed
<1>8. \A x \in Tails : x # t => Placed(x)'
    BY <1>t, <1>u, <1>5, <1>6, StaysPlaced DEF TailInv, Placed, Grows
<1>9. TailInv'
    BY <1>7, <1>8 DEF TailInv, Placed
<1> QED BY <1>t, <1>u, <1>5, <1>6, <1>9 DEF TailTypes, Grows

\* The second half: every row up to the new cursor is written, and the gap told.
LEMMA RangeKept ==
    ASSUME SseInv, NEW t \in Tails, ReplayRange(t)
    PROVE  TailTypes' /\ TailInv'
<1>t. /\ TailTypes /\ BusTypes /\ TailInv
      /\ ring \subseteq Seqs
    BY DEF SseInv, BusTypes
<1>u. UNCHANGED <<excused, ring, holes>>
    BY DEF ReplayRange, busVars
<1>f. /\ tail[t] \in TailState /\ tail[t].cursor \in 0..MaxSeq /\ tail[t].start \in 0..MaxSeq
      /\ tail[t].before \in -1..MaxSeq
      /\ tail[t].gap \in SUBSET Seqs
    BY <1>t, TailFields
<1> DEFINE rows == Rows(tail[t].cursor)
           extra == IF tail[t].gap = {} THEN 0 ELSE 1
           written(c) == {n \in rows : n <= c}
           after(c) == IF Cardinality(rows) + extra >= Batch THEN "stats"
                       ELSE IF c = tail[t].before THEN "settle" ELSE "idle"
           before(c) == IF written(c) = rows /\ after(c) = "stats" THEN tail[t].before ELSE -1
           pc(c) == IF written(c) = rows THEN after(c) ELSE "off"
<1>1. PICK c \in {tail[t].cursor} \cup rows :
        /\ tail' = [tail EXCEPT ![t].cursor = c, ![t].gap = {},
                                ![t].before = before(c), ![t].pc = pc(c)]
        /\ read' = [read EXCEPT ![t] = @ \cup written(c)]
        /\ told' = [told EXCEPT ![t] = @ \cup tail[t].gap]
    BY DEF ReplayRange
<1>2. pc(c) \in {"stats", "settle", "idle", "off"} /\ before(c) \in -1..MaxSeq
    BY <1>f, EventStreamAssumption
<1>3. c \in 0..MaxSeq /\ (c \in rows \/ c = tail[t].cursor) /\ rows \subseteq ring
  <2>1. rows \subseteq ring
    BY RowsAreRows
  <2> HIDE DEF rows
  <2>2. c \in rows \/ c = tail[t].cursor
    BY <1>1
  <2>3. c \in rows => c \in 0..MaxSeq
    BY <1>t, <2>1 DEF Seqs
  <2> QED BY <1>f, <2>1, <2>2, <2>3
<1>4. written(c) \in SUBSET Int /\ tail[t].gap \in SUBSET Int
  <2>1. Seqs \subseteq Int
    BY DEF Seqs
  <2>2. written(c) \subseteq rows
    OBVIOUS
  <2> HIDE DEF rows, written
  <2> QED BY <1>t, <1>f, <1>3, <2>1, <2>2
<1>w. \A n \in ring : tail[t].cursor < n /\ n <= c => n \in written(c)
  <2> SUFFICES ASSUME NEW n \in ring, tail[t].cursor < n, n <= c PROVE n \in rows
    OBVIOUS
  <2>1. c # tail[t].cursor
    BY <1>t, <1>f DEF Seqs
  <2> QED BY <1>t, <1>f, <1>3, <2>1, RowsFromOldest
<1> HIDE DEF written, rows, after, before, pc, extra
<1> DEFINE r == [tail[t] EXCEPT !.cursor = c, !.gap = {}, !.before = before(c), !.pc = pc(c)]
<1>5. r \in TailState /\ r.pc # "range" /\ r.start = tail[t].start /\ r.cursor = c
    BY <1>f, <1>2, <1>3 DEF TailState
<1>6. Moves(t, r)
    BY <1>t, <1>1 DEF Moves, TailTypes
<1> HIDE DEF r
<1>7. /\ tail' \in [Tails -> TailState] /\ tail'[t] = r
      /\ \A x \in Tails : x # t => tail'[x] = tail[x]
    BY <1>t, <1>5, <1>6, TailMoves
<1>8. /\ Grows(read, read', Tails) /\ written(c) \subseteq read'[t]
      /\ Grows(told, told', Tails) /\ tail[t].gap \subseteq told'[t]
    BY <1>t, <1>1, <1>4, GrowsByOne DEF TailTypes
<1>9. Placed(t)'
  <2> SUFFICES ASSUME NEW n \in Between(tail[t].start, c) PROVE n \in Accounted(t)'
    BY <1>5, <1>7 DEF Placed
  <2>0. n \in Seqs /\ tail[t].start < n /\ n <= c
    BY DEF Between
  <2>1. CASE n <= tail[t].cursor
    <3>1. n \in Accounted(t)
        BY <1>t, <2>0, <2>1 DEF TailInv, Between
    <3> QED BY <1>u, <1>8, <3>1 DEF Accounted, Grows
  <2>2. CASE tail[t].cursor < n
    <3>1. c \in ring
        BY <1>f, <1>3, <2>0, <2>2 DEF Seqs
    <3>2. tail[t].pc = "range"
        BY DEF ReplayRange
    <3>3. n \in ring \cup holes \cup tail[t].gap \cup excused[t]
        BY <1>t, <2>0, <2>2, <3>1, <3>2 DEF TailInv
    <3>4. n \in ring => n \in read'[t]
        BY <1>w, <1>8, <2>0, <2>2
    <3> QED BY <1>u, <1>8, <3>3, <3>4 DEF Accounted
  <2> QED BY <1>f, <2>0, <2>1, <2>2 DEF Seqs
<1>10. \A x \in Tails : x # t => Placed(x)'
    BY <1>t, <1>u, <1>7, <1>8, StaysPlaced DEF TailInv, Placed, Grows
<1>11. TailInv'
    BY <1>9, <1>10 DEF TailInv, Placed
<1> QED BY <1>t, <1>u, <1>7, <1>8, <1>11 DEF TailTypes, Grows

\* Everything below the pump's next number is done with.
LEMMA BelowHead ==
    ASSUME BusTypes, OrderInv, pumpq # <<>>, NEW n \in Seqs, n < Head(pumpq)
    PROVE  Done(n)
<1>t. pumpq \in Seq(Seqs) /\ seq \in 0..MaxSeq /\ MaxSeq \in Nat
    BY EventStreamAssumption DEF BusTypes
<1>1. Head(pumpq) = pumpq[1] /\ 1 \in DOMAIN pumpq /\ pumpq[1] \in Seqs
    BY <1>t, Taken
<1>2. n \in 1..seq
    BY <1>t, <1>1 DEF OrderInv, Seqs
<1>3. \A i \in DOMAIN pumpq : pumpq[i] # n
  <2> SUFFICES ASSUME NEW i \in DOMAIN pumpq PROVE pumpq[i] # n
    OBVIOUS
  <2>1. i \in Nat /\ (i = 1 \/ 1 < i) /\ pumpq[i] \in Seqs
    BY <1>t
  <2>2. i = 1 \/ pumpq[1] < pumpq[i]
    BY <1>1, <2>1 DEF OrderInv
  <2> QED BY <1>1, <2>1, <2>2 DEF Seqs
<1>4. \A e \in Emitters : Coming(e) => emit[e].seq # n
  <2> SUFFICES ASSUME NEW e \in Emitters, Coming(e) PROVE emit[e].seq # n
    OBVIOUS
  <2>1. emit[e].seq = seq /\ pumpq[1] < seq
    BY <1>1 DEF OrderInv
  <2> QED BY <1>t, <1>1, <2>1 DEF Seqs
<1> QED BY <1>2, <1>3, <1>4 DEF OrderInv

\* The pump files a row while clients are between the halves of a poll: what it
\* evicts from under them is excused.
LEMMA AppendKept ==
    ASSUME SseInv, PumpAppend
    PROVE  TailTypes' /\ TailInv'
<1>t. /\ TailTypes /\ BusTypes /\ TailInv /\ OrderInv
      /\ ring \subseteq Seqs /\ Cardinality(ring) <= RingCap /\ RingCap \in Nat \ {0}
      /\ pumpq \in Seq(Seqs)
    BY EventStreamAssumption DEF SseInv, BusTypes
<1>1. PICK h : h = Head(pumpq)
    OBVIOUS
<1>2. /\ pumpq # <<>> /\ h \notin ring /\ ring' = Kept(ring \cup {h})
      /\ UNCHANGED <<tail, read, told, holes>>
      /\ excused' = [c \in Subs \cup Tails |->
                       IF Replaying(c) THEN excused[c] \cup ((ring \cup {h}) \ ring') ELSE excused[c]]
    BY <1>1 DEF PumpAppend, sseVars
<1>3. h \in Seqs
    BY <1>t, <1>1, <1>2, Taken
<1>4. ring' \subseteq ring \cup {h} /\ ring' \subseteq Seqs
    BY <1>t, <1>2, <1>3, KeptRows
<1>5. Grows(excused, excused', Subs \cup Tails)
  <2>1. Seqs \subseteq Int
    BY DEF Seqs
  <2>2. PICK gone : gone = (ring \cup {h}) \ ring'
    OBVIOUS
  <2>3. gone \in SUBSET Int
    BY <1>t, <1>3, <2>1, <2>2
  <2>4. excused \in [Subs \cup Tails -> SUBSET Int]
    BY <1>t DEF TailTypes
  <2>5. excused' = [c \in Subs \cup Tails |->
                     IF Replaying(c) THEN excused[c] \cup gone ELSE excused[c]]
    BY <1>2, <2>2
  <2> QED BY <2>3, <2>4, <2>5 DEF Grows
<1>6. ASSUME NEW t \in Tails PROVE Placed(t)'
  <2>1. \A n \in Between(tail'[t].start, tail'[t].cursor) : n \in Accounted(t)'
    BY <1>t, <1>2, <1>5, PlaceKept DEF TailInv, Grows
  <2>2. ASSUME tail[t].pc = "range", NEW n \in Seqs, NEW m \in ring', tail[t].cursor < n, n <= m
        PROVE  n \in ring' \cup holes' \cup tail'[t].gap \cup excused'[t]
    <3>1. (ring \cup {h}) \ ring' \subseteq excused'[t] /\ excused[t] \subseteq excused'[t]
        BY <1>2, <1>5, <2>2, EventStreamAssumption DEF Replaying, Grows
    <3>2. CASE \E x \in ring : n <= x
      <4>1. n \in ring \cup holes \cup tail[t].gap \cup excused[t]
        BY <1>t, <2>2, <3>2 DEF TailInv
      <4> QED BY <1>2, <3>1, <4>1
    <3>3. CASE ~\E x \in ring : n <= x
      <4>1. m = h /\ n <= h
        BY <1>4, <2>2, <3>3
      <4>2. CASE n = h
        BY <4>1, <4>2
      <4>3. CASE n # h
        <5>1. n < h
            BY <1>3, <4>1, <4>3 DEF Seqs
        <5>2. Done(n)
            BY <1>t, <1>1, <1>2, <5>1, BelowHead
        <5>3. n \notin ring
            BY <1>t, <3>3 DEF Seqs
        <5>4. ~Below(n)
          <6>1. CASE ring = {}
            BY <1>t, <6>1, FS_EmptySet DEF Below
          <6>2. CASE ring # {}
            <7>1. PICK x \in ring : TRUE
                BY <6>2
            <7>2. x < n
                BY <1>t, <3>3 DEF Seqs
            <7> QED BY <1>t, <7>2 DEF Below, Seqs
          <6> QED BY <6>1, <6>2
        <5> QED BY <1>2, <5>2, <5>3, <5>4 DEF Done
      <4> QED BY <4>2, <4>3
    <3> QED BY <3>2, <3>3
  <2> QED BY <1>2, <2>1, <2>2 DEF Placed
<1> QED BY <1>t, <1>2, <1>5, <1>6 DEF TailTypes, TailInv, Placed, Grows

LEMMA RestartKept ==
    ASSUME SseInv, Restart
    PROVE  TailTypes' /\ TailInv'
<1>t. TailTypes /\ TailInv
    BY DEF SseInv
<1>1. /\ tail' = [t \in Tails |-> [tail[t] EXCEPT !.pc = "off", !.gap = {}, !.before = -1]]
      /\ UNCHANGED <<ring, holes, read, told, excused>>
    BY DEF Restart
<1>2. ASSUME NEW t \in Tails
      PROVE  /\ tail'[t] \in TailState
             /\ tail'[t].start = tail[t].start /\ tail'[t].cursor = tail[t].cursor
             /\ tail'[t].pc # "range"
  <2>1. tail[t] \in TailState /\ -1 \in -1..MaxSeq
    BY <1>t, TailFields, EventStreamAssumption
  <2>2. tail'[t] = [tail[t] EXCEPT !.pc = "off", !.gap = {}, !.before = -1]
    BY <1>1
  <2> QED BY <2>1, <2>2 DEF TailState
<1>3. \A t \in Tails : Placed(t)'
    BY <1>t, <1>1, <1>2, StaysPlaced DEF TailInv, Placed
<1>4. tail' \in [Tails -> TailState]
    BY <1>1, <1>2
<1> QED BY <1>t, <1>1, <1>3, <1>4 DEF TailTypes, TailInv, Placed

\* A cursor moves to a row of the ring only, and the newest row is never evicted.
LEMMA ReadUpToKept ==
    ASSUME SseInv, [Next]_vars, NEW x \in Tails
    PROVE  ReadUpTo(x)'
<1>t. /\ TailTypes /\ BusTypes /\ ReadUpTo(x) /\ ring \subseteq Seqs
      /\ Cardinality(ring) <= RingCap /\ RingCap \in Nat \ {0} /\ pumpq \in Seq(Seqs)
    BY EventStreamAssumption DEF SseInv, BusTypes
<1>f. tail[x].cursor \in 0..MaxSeq /\ tail[x].start \in 0..MaxSeq
    BY <1>t, TailFields
<1>1. ASSUME tail'[x].start = tail[x].start, tail'[x].cursor = tail[x].cursor, ring' = ring
      PROVE  ReadUpTo(x)'
    BY <1>1, <1>t DEF ReadUpTo
<1>2. CASE Socket \/ FanTake \/ Bridge \/ PumpSkip \/ UNCHANGED vars
    BY <1>1, <1>2, <1>t, SocketSteps
<1>3. CASE Sse
  <2>1. PICK t \in Tails :
            \/ Attach(t) \/ Listen(t) \/ HeartbeatPoll(t) \/ WakeHint(t) \/ SettlePoll(t)
            \/ ReplayStats(t) \/ ReplayRange(t) \/ Detach(t)
    BY <1>3 DEF Sse
  <2>2. CASE Listen(t) \/ HeartbeatPoll(t) \/ WakeHint(t) \/ SettlePoll(t) \/ Detach(t)
    BY <1>1, <1>t, <2>2, TailTurns
  <2>3. tail[t] \in TailState /\ tail \in [Tails -> TailState] /\ tail[t].cursor \in 0..MaxSeq
    BY <1>t, TailFields DEF TailTypes
  <2>4. CASE t # x
    <3>1. ring' = ring
        BY <2>1 DEF Attach, Listen, HeartbeatPoll, WakeHint, SettlePoll, ReplayStats,
           ReplayRange, Detach, busVars
    <3>2. tail'[x] = tail[x]
        BY <2>1, <2>3, <2>4 DEF Attach, Listen, HeartbeatPoll, WakeHint, SettlePoll,
           ReplayStats, ReplayRange, Detach
    <3> QED BY <1>1, <3>1, <3>2
  <2>5. CASE t = x /\ Attach(t)
    <3>1. PICK c \in IF tail[t].uses = 0 THEN (0..seq) \cup {NewestSeq} ELSE {tail[t].cursor} :
            tail' = [tail EXCEPT ![t].pc = "open", ![t].cursor = c, ![t].uses = @ + 1,
                                 ![t].start = IF tail[t].uses = 0 THEN c ELSE @]
        BY <2>5 DEF Attach
    <3>2. ring' = ring /\ tail'[t].cursor = c
          /\ tail'[t].start = IF tail[t].uses = 0 THEN c ELSE tail[t].start
        BY <2>3, <2>5, <3>1 DEF Attach, busVars, TailState
    <3>3. NewestSeq \in Int /\ seq \in Int
        BY <1>t, NewestAndOldest DEF BusTypes
    <3>4. CASE tail[t].uses = 0
        BY <2>5, <3>1, <3>2, <3>3, <3>4 DEF ReadUpTo
    <3>5. CASE tail[t].uses # 0
        BY <1>1, <2>5, <3>1, <3>2, <3>5
    <3> QED BY <3>4, <3>5
  <2>6. CASE t = x /\ ReplayStats(t)
    <3>1. ring' = ring /\ tail'[t].cursor = tail[t].cursor /\ tail'[t].start = tail[t].start
        BY <2>3, <2>6 DEF ReplayStats, busVars, TailState
    <3> QED BY <1>1, <2>6, <3>1
  <2>7. CASE t = x /\ ReplayRange(t)
    <3> DEFINE rows == Rows(tail[t].cursor)
               extra == IF tail[t].gap = {} THEN 0 ELSE 1
               written(c) == {n \in rows : n <= c}
               after(c) == IF Cardinality(rows) + extra >= Batch THEN "stats"
                           ELSE IF c = tail[t].before THEN "settle" ELSE "idle"
               before(c) == IF written(c) = rows /\ after(c) = "stats" THEN tail[t].before ELSE -1
               pc(c) == IF written(c) = rows THEN after(c) ELSE "off"
    <3>1. PICK c \in {tail[t].cursor} \cup rows :
            tail' = [tail EXCEPT ![t].cursor = c, ![t].gap = {},
                                 ![t].before = before(c), ![t].pc = pc(c)]
        BY <2>7 DEF ReplayRange
    <3> HIDE DEF written, after, before, pc, extra
    <3>2. ring' = ring /\ tail'[t].cursor = c /\ tail'[t].start = tail[t].start
        BY <2>3, <2>7, <3>1 DEF ReplayRange, busVars, TailState
    <3>3. c = tail[t].cursor \/ c \in ring
        BY <3>1, RowsAreRows
    <3>4. CASE c \in ring
      <4>1. c <= c
        BY <1>t, <3>4 DEF Seqs
      <4> QED BY <2>7, <3>2, <3>4, <4>1 DEF ReadUpTo
    <3> QED BY <1>1, <2>7, <3>2, <3>3, <3>4
  <2> QED BY <2>1, <2>2, <2>4, <2>5, <2>6, <2>7
<1>4. CASE PumpAppend
  <2>1. PICK h : h = Head(pumpq)
    OBVIOUS
  <2>2. pumpq # <<>> /\ h \notin ring /\ ring' = Kept(ring \cup {h}) /\ tail' = tail
    BY <1>4, <2>1 DEF PumpAppend, sseVars
  <2>3. h \in Seqs
    BY <1>t, <2>1, <2>2, Taken
  <2>4. /\ ring' \subseteq ring \cup {h}
        /\ \A y \in (ring \cup {h}) \ ring' : Cardinality(ring') = RingCap /\ \A m \in ring' : y < m
    BY <1>t, <2>2, <2>3, KeptRows
  <2>5. ASSUME NEW m \in ring, tail[x].cursor <= m PROVE \E y \in ring' : tail[x].cursor <= y
    <3>1. CASE m \notin ring'
      <4>1. Cardinality(ring') = RingCap
        BY <2>4, <3>1
      <4>2. ring' # {}
        BY <1>t, <4>1, FS_EmptySet
      <4>3. PICK y \in ring' : m < y
        BY <2>4, <3>1, <4>2
      <4>4. y \in Seqs
        BY <1>t, <2>3, <2>4
      <4> QED BY <1>t, <1>f, <2>5, <4>3, <4>4 DEF Seqs
    <3> QED BY <2>5, <3>1
  <2> QED BY <1>t, <2>2, <2>5 DEF ReadUpTo
<1>5. CASE Restart
  <2>1. tail' = [t \in Tails |-> [tail[t] EXCEPT !.pc = "off", !.gap = {}, !.before = -1]]
        /\ ring' = ring
    BY <1>5 DEF Restart
  <2>2. tail[x] \in TailState
    BY <1>t, TailFields
  <2>3. tail'[x].start = tail[x].start /\ tail'[x].cursor = tail[x].cursor
    BY <2>1, <2>2 DEF TailState
  <2> QED BY <1>1, <2>1, <2>3
<1> QED BY <1>2, <1>3, <1>4, <1>5 DEF Next, Pump

LEMMA SseKept ==
    ASSUME OneEmitter, SseInv, [Next]_vars
    PROVE  SseInv'
<1>1. BusTypes' /\ OrderInv' /\ \A t \in Tails : ReadUpTo(t)'
    BY BusTypesKept, OrderKept, ReadUpToKept DEF SseInv
<1> SUFFICES TailTypes' /\ TailInv'
    BY <1>1 DEF SseInv
<1>t. TailTypes /\ TailInv /\ BusTypes /\ ring \subseteq Seqs
    BY DEF SseInv, BusTypes
<1>2. CASE Socket \/ FanTake \/ Bridge \/ PumpSkip \/ UNCHANGED vars
  <2>1. /\ UNCHANGED <<tail, read, told, ring>>
        /\ Grows(excused, excused', Subs \cup Tails)
        /\ \A n \in holes : n \in holes' \/ \A m \in ring : m < n
    BY <1>2, <1>t, SocketSteps
  <2>2. ASSUME NEW t \in Tails PROVE Placed(t)'
    <3>1. Placed(t) /\ ReadUpTo(t) /\ excused[t] \subseteq excused'[t]
        BY <1>t, <2>1 DEF SseInv, TailInv, Placed, Grows
    <3> QED BY <1>t, <2>1, <3>1, StillPlaced
  <2> QED BY <1>t, <2>1, <2>2 DEF TailTypes, TailInv, Placed, Grows
<1>3. CASE Sse
  <2>1. PICK t \in Tails :
            \/ Attach(t) \/ Listen(t) \/ HeartbeatPoll(t) \/ WakeHint(t) \/ SettlePoll(t)
            \/ ReplayStats(t) \/ ReplayRange(t) \/ Detach(t)
    BY <1>3 DEF Sse
  <2>2. CASE Listen(t) \/ HeartbeatPoll(t) \/ WakeHint(t) \/ SettlePoll(t) \/ Detach(t)
    <3>1. /\ tail' \in [Tails -> TailState]
          /\ tail'[t].start = tail[t].start /\ tail'[t].cursor = tail[t].cursor
          /\ tail'[t].pc # "range"
          /\ \A u \in Tails : u # t => tail'[u] = tail[u]
          /\ UNCHANGED <<read, told, excused, ring, holes>>
        BY <1>t, <2>2, TailTurns
    <3>2. Placed(t)'
        BY <1>t, <3>1, StaysPlaced DEF TailInv, Placed
    <3>3. \A u \in Tails : u # t => Placed(u)'
        BY <1>t, <3>1, StaysPlaced DEF TailInv, Placed
    <3> QED BY <1>t, <3>1, <3>2, <3>3 DEF TailTypes, TailInv, Placed
  <2> QED BY <2>1, <2>2, AttachKept, StatsKept, RangeKept
<1>4. CASE PumpAppend
    BY <1>4, AppendKept
<1>5. CASE Restart
    BY <1>5, RestartKept
<1> QED BY <1>2, <1>3, <1>4, <1>5 DEF Next, Pump

\* With one emitter, an SSE client that comes back with its Last-Event-ID has
\* read every number since it first attached, or was told of the gap: over any
\* restarts, evictions, failed writes and failing store calls. Excepted are events
\* that never reached the ring, or were numbered below it after a seed that could not
\* be read, and rows evicted under a poll.
THEOREM SseNoSilentLossHolds ==
    ASSUME OneEmitter
    PROVE  Spec => []SseNoSilentLoss
<1>1. Init => SseInv
  <2> SUFFICES ASSUME Init PROVE SseInv
    OBVIOUS
  <2>0. /\ Silent \in Emission /\ Silent.pc = "idle" /\ Cardinality({}) = 0
        /\ MaxSeq \in Nat /\ MaxResumes \in Nat /\ RingCap \in Nat
    BY EventStreamAssumption, EmissionRecord, FS_EmptySet DEF Silent
  <2>1. BusTypes /\ \A e \in Emitters : ~Coming(e)
    BY <2>0 DEF Init, BusTypes, Coming
  <2>2. OrderInv
    BY <2>1 DEF Init, OrderInv
  <2>3. NoTail \in TailState /\ NoTail.cursor = 0 /\ NoTail.start = 0 /\ NoTail.pc = "off"
    BY <2>0 DEF NoTail, TailState
  <2>4. TailTypes
    BY <2>3 DEF Init, TailTypes
  <2>5. TailInv
    BY <2>0, <2>3 DEF Init, TailInv, Between, Seqs
  <2>6. \A t \in Tails : ReadUpTo(t)
    BY <2>3 DEF Init, ReadUpTo
  <2> QED BY <2>1, <2>2, <2>4, <2>5, <2>6 DEF SseInv
<1>2. SseInv /\ [Next]_vars => SseInv'
    BY SseKept
<1>3. SseInv => SseNoSilentLoss
    BY DEF SseInv, TailInv, Accounted, SseNoSilentLoss
<1> QED BY <1>1, <1>2, <1>3, PTL DEF Spec

-----------------------------------------------------------------------------
(* A socket client *)

\* A frame that tells its reader of n.
Covers(f, n) == \/ f.type = "event" /\ f.lo = n
                \/ f.type = "drop" /\ f.lo <= n /\ n <= f.hi

\* n is accounted for, or one of the first i frames of a mailbox tells of it.
Told(acc, m, i, n) == n \in acc \/ \E j \in DOMAIN m : j <= i /\ Covers(m[j], n)

\* A client's count starts with its first event, or with what it subscribed to;
\* before that it is owed nothing.
FirstEvent(m, j) ==
    /\ j \in DOMAIN m /\ m[j].type = "event"
    /\ \A i \in DOMAIN m : m[i].type = "event" => j <= i
Started(c, m, n) ==
    IF c.high > 0 THEN n > c.base ELSE \E j \in DOMAIN m : FirstEvent(m, j) /\ m[j].lo <= n
Begun(c, m) == c.high > 0 \/ \E j \in DOMAIN m : m[j].type = "event"

\* Of the numbers W up to k, a client that reads i more frames misses none
\* silently.
Promise(W, acc, c, m, k, i) ==
    \A n \in W : Started(c, m, n) /\ n <= k => Told(acc, m, i, n)

\* A client and its mailbox: what it has read, and what it
\* will have read at each event or subscribe.closed of its mailbox.
ReadOk(W, acc, c, m) ==
    /\ c.high <= MaxSeq /\ Promise(W, acc, c, m, c.high, 0)
    /\ \A i \in DOMAIN m : m[i].type # "drop" =>
         /\ m[i].lo <= MaxSeq
         /\ Promise(W, acc, c, m, m[i].lo, i)
         /\ m[i].type = "event" => m[i].lo > 0
         /\ m[i].type = "closed" /\ m[i].lo > 0 =>
              c.high > 0 \/ \E j \in DOMAIN m : j < i /\ m[j].type = "event"

\* Its subscription: what that has sent.
SentOk(W, acc, c, m, u) ==
    /\ u.pc = "off" => m = <<>>
    /\ u.pc # "off" =>
         /\ Promise(W, acc, c, m, u.last, Len(m))
         /\ Promise(W, acc, c, m, u.cursor, Len(m))
         /\ Begun(c, m) <=> u.last > 0
         /\ u.cursor > 0 => u.last > 0

\* Above a cursor and up to a row ahead there are only rows that will be read
\* and numbers that are accounted for.
Bridged(acc, m, cursor, rows, ahead) ==
    \A x \in Seqs, r \in ahead : cursor < x /\ x <= r => x \in rows \/ Told(acc, m, Len(m), x)

\* Its replay: what that has before it.
ReplayOk(acc, m, u, rows) ==
    /\ u.pc = "oldest" => u.cursor = u.since
    /\ u.pc \in {"oldest", "range", "push"} => u.since <= u.cursor /\ u.last > 0
    /\ u.pc = "range" => Bridged(acc, m, u.cursor, rows, rows)
    /\ u.pc = "push" =>
         /\ u.batch # {}
         /\ \A n \in u.batch : u.cursor < n /\ \E r \in rows : n <= r
         /\ Bridged(acc, m, u.cursor, u.batch, u.batch)
         /\ Bridged(acc, m, u.cursor, rows \cup u.batch, rows)

\* What the fan-out goroutine has for its connection.
FanOk(W, acc, c, m, u, s, f) ==
    s \in f.on /\ f.frames # <<>> =>
      /\ f.on = {s} /\ u.pc # "off" /\ f.seq \in Seqs
      /\ \/ f.frames = <<EventFrame(f.seq)>>
         \/ \E lo, hi \in Nat : f.frames = <<DropFrame(lo, hi), EventFrame(f.seq)>>
      /\ \A n \in W : Started(c, m, n) /\ n <= f.seq =>
           Told(acc, m, Len(m), n) \/ \E i \in DOMAIN f.frames : Covers(f.frames[i], n)

\* A number that is not above the ring: it is never given out again.
Settled(n) == \E r \in ring : n <= r

\* What a client must hear of: its events, and any number that a restart may give
\* to another event.
Wants(s) == {n \in Seqs : Wanted(s, n) \/ ~Settled(n)}
Knows(s) == client[s].got \cup client[s].named \cup client[s].reused \cup (holes \cup excused[s])

ClientInv(s) ==
    /\ ReadOk(Wants(s), Knows(s), client[s], mail[s])
    /\ SentOk(Wants(s), Knows(s), client[s], mail[s], sub[s])
    /\ ReplayOk(Knows(s), mail[s], sub[s], ring)
    /\ FanOk(Wants(s), Knows(s), client[s], mail[s], sub[s], s, fan)

\* The next number is above the ring, and the fan-out has one to send.
BoundInv == ring \subseteq 1..seq /\ (fan.todo # {} => fan.seq \in Seqs)

Reader == [base : Nat, high : Nat,
           got : SUBSET Int, named : SUBSET Int, reused : SUBSET Int]

SockTypes ==
    /\ fan \in Fan
    /\ sub \in [Subs -> Sub]
    /\ mail \in [Subs -> Seq(Frame)]
    /\ client \in [Subs -> Reader]
    /\ out \in Seq(Seqs)
    /\ kindOf \in [Seqs -> Kinds \cup {NoKind}]

\* Nothing that is on its way to a client is above the numbers given out, unless
\* the client itself came back with a higher one.
Seen(s, k) == k <= seq \/ k <= client[s].high
Reaches(s) ==
    /\ Seen(s, sub[s].last) /\ Seen(s, sub[s].cursor)
    /\ \A i \in DOMAIN mail[s] : mail[s][i].type # "drop" => Seen(s, mail[s][i].lo)
ReachInv ==
    /\ fan.seq <= seq
    /\ \A i \in DOMAIN out : out[i] <= seq
    /\ \A s \in Subs : Reaches(s)

SocketInv ==
    /\ BusTypes /\ OrderInv /\ SockTypes /\ BoundInv
    /\ excused \in [Subs \cup Tails -> SUBSET Int]
    /\ \A s \in Subs : ClientInv(s)

-----------------------------------------------------------------------------
(* Frames and mailboxes *)

\* The fields of a frame and of a client.
LEMMA FrameFields ==
    ASSUME NEW f \in Frame
    PROVE  f.lo \in Nat /\ f.hi \in Nat /\ f.type \in {"event", "drop", "closed"}
BY DEF Frame

LEMMA ClientFields ==
    ASSUME NEW c \in Reader
    PROVE  /\ c.high \in Nat /\ c.base \in Nat
           /\ c.got \in SUBSET Int /\ c.named \in SUBSET Int /\ c.reused \in SUBSET Int
BY DEF Reader

LEMMA FramesTyped ==
    /\ \A n \in Nat : /\ EventFrame(n) \in Frame /\ EventFrame(n).type = "event"
                      /\ EventFrame(n).lo = n
                      /\ ClosedFrame(n) \in Frame /\ ClosedFrame(n).type = "closed"
                      /\ ClosedFrame(n).lo = n
    /\ \A lo, hi \in Nat : /\ DropFrame(lo, hi) \in Frame /\ DropFrame(lo, hi).type = "drop"
                           /\ DropFrame(lo, hi).lo = lo /\ DropFrame(lo, hi).hi = hi
BY DEF EventFrame, ClosedFrame, DropFrame, Frame

\* A mailbox with one frame more, and with one frame less.
LEMMA Appended ==
    ASSUME NEW m \in Seq(Frame), NEW f \in Frame, NEW m2, m2 = Append(m, f)
    PROVE  /\ m2 \in Seq(Frame) /\ Len(m2) = Len(m) + 1 /\ Len(m) \in Nat
           /\ DOMAIN m = 1..Len(m) /\ DOMAIN m2 = 1..(Len(m) + 1)
           /\ \A i \in DOMAIN m : i \in DOMAIN m2 /\ m2[i] = m[i] /\ i <= Len(m)
           /\ m2[Len(m) + 1] = f
           /\ \A i \in DOMAIN m2 : i \in DOMAIN m \/ i = Len(m) + 1
OBVIOUS

LEMMA Dequeued ==
    ASSUME NEW m \in Seq(Frame), m # <<>>, NEW m2, m2 = Tail(m)
    PROVE  /\ m2 \in Seq(Frame) /\ Len(m2) = Len(m) - 1 /\ Len(m) \in Nat
           /\ Head(m) \in Frame /\ Head(m) = m[1] /\ 1 \in DOMAIN m
           /\ \A i \in DOMAIN m2 : i \in Nat /\ i + 1 \in DOMAIN m /\ m2[i] = m[i + 1] /\ i + 1 > 1
           /\ \A i \in DOMAIN m : i \in Nat /\ (i = 1 \/ (i - 1 \in DOMAIN m2 /\ m2[i - 1] = m[i] /\ i > 1))
OBVIOUS

\* More is accounted for, or more is read: a promise stays one.
LEMMA PromiseGrows ==
    ASSUME NEW W, NEW acc, NEW acc2, acc \subseteq acc2, NEW c, NEW m \in Seq(Frame),
           NEW k, NEW i \in Nat, NEW j \in Nat, i <= j, Promise(W, acc, c, m, k, i)
    PROVE  Promise(W, acc2, c, m, k, j)
<1>1. \A x \in DOMAIN m : x \in Nat
    OBVIOUS
<1>2. \A x \in Nat : x <= i => x <= j
    OBVIOUS
<1>3. \A n : Told(acc, m, i, n) => Told(acc2, m, j, n)
    BY <1>1, <1>2 DEF Told
<1> QED BY <1>3 DEF Promise

LEMMA ToldGrows ==
    ASSUME NEW acc, NEW acc2, acc \subseteq acc2, NEW m \in Seq(Frame),
           NEW i \in Nat, NEW j \in Nat, i <= j, NEW n, Told(acc, m, i, n)
    PROVE  Told(acc2, m, j, n)
<1>1. \A x \in DOMAIN m : x \in Nat
    OBVIOUS
<1>2. \A x \in Nat : x <= i => x <= j
    OBVIOUS
<1> QED BY <1>1, <1>2 DEF Told

\* A promise up to k is one up to anything less.
LEMMA PromiseBelow ==
    ASSUME NEW W \in SUBSET Seqs, NEW acc, NEW c, NEW m, NEW i,
           NEW k \in Nat, NEW j \in Nat, j <= k, Promise(W, acc, c, m, k, i)
    PROVE  Promise(W, acc, c, m, j, i)
<1>1. \A n \in W : n \in Nat
    BY DEF Seqs
<1>2. \A n \in W : n <= j => n <= k
    BY <1>1
<1> QED BY <1>2 DEF Promise

\* Nothing is owed up to 0, nor before a client has begun.
LEMMA NothingOwed ==
    ASSUME NEW W \in SUBSET Seqs, NEW acc, NEW c, NEW m, NEW i, NEW k \in Nat,
           k = 0 \/ ~Begun(c, m)
    PROVE  Promise(W, acc, c, m, k, i)
<1>1. \A n \in W : n \in Nat /\ ~(n <= 0)
    BY DEF Seqs
<1>2. CASE k = 0
    BY <1>1, <1>2 DEF Promise
<1>3. CASE ~Begun(c, m)
    BY <1>3 DEF Begun, Started, FirstEvent, Promise
<1> QED BY <1>2, <1>3

\* A frame is posted that is not the client's first event: what is owed stays the
\* same.
LEMMA PostedStarted ==
    ASSUME NEW c \in Reader, NEW m \in Seq(Frame), NEW f \in Frame,
           Begun(c, m) \/ f.type # "event", NEW m2, m2 = Append(m, f), NEW n
    PROVE  Started(c, m2, n) <=> Started(c, m, n)
<1>1. /\ Len(m) \in Nat
      /\ \A i \in DOMAIN m : i \in DOMAIN m2 /\ m2[i] = m[i] /\ i <= Len(m) /\ i \in Nat
      /\ m2[Len(m) + 1] = f
      /\ \A i \in DOMAIN m2 : i \in DOMAIN m \/ i = Len(m) + 1
    BY Appended
<1>2. CASE c.high > 0
    BY <1>2 DEF Started
<1>3. CASE ~(c.high > 0)
  <2>1. \A j \in DOMAIN m : FirstEvent(m2, j) <=> FirstEvent(m, j)
    BY <1>1 DEF FirstEvent
  <2>2. ~FirstEvent(m2, Len(m) + 1)
    <3>1. CASE f.type # "event"
        BY <1>1, <3>1 DEF FirstEvent
    <3>2. CASE f.type = "event"
      <4>1. PICK j \in DOMAIN m : m[j].type = "event"
        BY <1>3, <3>2 DEF Begun
      <4>2. j \in DOMAIN m2 /\ m2[j].type = "event" /\ ~(Len(m) + 1 <= j)
        BY <1>1, <4>1
      <4> QED BY <4>2 DEF FirstEvent
    <3> QED BY <3>1, <3>2
  <2>3. \A j \in DOMAIN m2 : FirstEvent(m2, j) /\ m2[j].lo <= n => j \in DOMAIN m /\ FirstEvent(m, j) /\ m[j].lo <= n
    BY <1>1, <2>1, <2>2
  <2>4. \A j \in DOMAIN m : FirstEvent(m, j) /\ m[j].lo <= n => j \in DOMAIN m2 /\ FirstEvent(m2, j) /\ m2[j].lo <= n
    BY <1>1, <2>1
  <2> QED BY <1>3, <2>3, <2>4 DEF Started
<1> QED BY <1>2, <1>3

LEMMA PostedTold ==
    ASSUME NEW acc, NEW m \in Seq(Frame), NEW f \in Frame, NEW m2, m2 = Append(m, f), NEW n
    PROVE  /\ \A i \in Nat : i <= Len(m) => (Told(acc, m2, i, n) <=> Told(acc, m, i, n))
           /\ Told(acc, m2, Len(m2), n) <=> Told(acc, m, Len(m), n) \/ Covers(f, n)
<1>1. /\ Len(m) \in Nat /\ Len(m2) = Len(m) + 1 /\ Len(m) + 1 \in DOMAIN m2
      /\ \A i \in DOMAIN m : i \in DOMAIN m2 /\ m2[i] = m[i] /\ i <= Len(m) /\ i \in Nat /\ i <= Len(m) + 1
      /\ m2[Len(m) + 1] = f
      /\ \A i \in DOMAIN m2 : i \in DOMAIN m \/ i = Len(m) + 1
    BY Appended
<1>2. ASSUME NEW i \in Nat, i <= Len(m) PROVE Told(acc, m2, i, n) <=> Told(acc, m, i, n)
  <2>1. ~(Len(m) + 1 <= i)
    BY <1>1, <1>2
  <2> QED BY <1>1, <2>1 DEF Told
<1>3. Len(m) + 1 <= Len(m2)
    BY <1>1
<1>4. Told(acc, m2, Len(m2), n) <=> Told(acc, m, Len(m), n) \/ Covers(f, n)
    BY <1>1, <1>3 DEF Told
<1> QED BY <1>2, <1>4

LEMMA PromisePosted ==
    ASSUME NEW W, NEW acc, NEW c \in Reader, NEW m \in Seq(Frame), NEW f \in Frame,
           Begun(c, m) \/ f.type # "event", NEW m2, m2 = Append(m, f), NEW k
    PROVE  /\ \A i \in Nat : i <= Len(m) /\ Promise(W, acc, c, m, k, i) => Promise(W, acc, c, m2, k, i)
           /\ (\A n \in W : Started(c, m, n) /\ n <= k => Told(acc, m, Len(m), n) \/ Covers(f, n))
                <=> Promise(W, acc, c, m2, k, Len(m2))
<1>1. \A n : Started(c, m2, n) <=> Started(c, m, n)
    BY PostedStarted
<1>2. \A n : /\ \A i \in Nat : i <= Len(m) => (Told(acc, m2, i, n) <=> Told(acc, m, i, n))
             /\ Told(acc, m2, Len(m2), n) <=> Told(acc, m, Len(m), n) \/ Covers(f, n)
    BY PostedTold
<1> QED BY <1>1, <1>2 DEF Promise

\* The first event of a client that has not begun: it is owed nothing below it.
LEMMA FirstPosted ==
    ASSUME NEW W \in SUBSET Seqs, NEW acc, NEW c \in Reader, NEW m \in Seq(Frame),
           NEW f \in Frame, f.type = "event", ~Begun(c, m), NEW m2, m2 = Append(m, f)
    PROVE  /\ \A k \in Nat : \A i : k < f.lo => Promise(W, acc, c, m2, k, i)
           /\ Promise(W, acc, c, m2, f.lo, Len(m2))
<1>1. /\ Len(m) \in Nat /\ Len(m2) = Len(m) + 1 /\ Len(m) + 1 \in DOMAIN m2
      /\ \A i \in DOMAIN m : m2[i] = m[i]
      /\ m2[Len(m) + 1] = f
      /\ \A i \in DOMAIN m2 : i \in DOMAIN m \/ i = Len(m) + 1
    BY Appended
<1>2. \A i \in DOMAIN m : m2[i].type # "event"
    BY <1>1 DEF Begun
<1>3. ASSUME NEW n \in W, Started(c, m2, n) PROVE f.lo <= n
  <2>1. ~(c.high > 0)
    BY DEF Begun
  <2>2. PICK j \in DOMAIN m2 : m2[j].type = "event" /\ m2[j].lo <= n
    BY <1>3, <2>1 DEF Started, FirstEvent
  <2> QED BY <1>1, <1>2, <2>2
<1>4. f.lo \in Nat /\ \A n \in W : n \in Nat
    BY FrameFields DEF Seqs
<1>5. ASSUME NEW k \in Nat, NEW i, k < f.lo PROVE Promise(W, acc, c, m2, k, i)
  <2>1. \A n \in W : ~(Started(c, m2, n) /\ n <= k)
    BY <1>3, <1>4, <1>5
  <2> QED BY <2>1 DEF Promise
<1>6. \A n \in W : Started(c, m2, n) /\ n <= f.lo => Covers(f, n)
    BY <1>3, <1>4 DEF Covers
<1>7. \A n \in W : Covers(f, n) => Told(acc, m2, Len(m2), n)
    BY PostedTold
<1> QED BY <1>5, <1>6, <1>7 DEF Promise

\* A frame is read: what was promised after it is promised without it.
AfterRead(c, f) ==
    [base |-> IF f.type = "event" /\ c.high = 0 THEN f.lo - 1 ELSE c.base,
     high |-> IF f.type = "drop" \/ f.lo < c.high THEN c.high ELSE f.lo,
     got |-> IF f.type = "event" THEN c.got \cup {f.lo} ELSE c.got,
     named |-> IF f.type = "drop" THEN c.named \cup (f.lo..f.hi) ELSE c.named,
     reused |-> c.reused]

LEMMA AfterReadTyped ==
    ASSUME NEW c \in Reader, NEW f \in Frame, f.type = "event" => f.lo > 0
    PROVE  /\ AfterRead(c, f) \in Reader
           /\ f.type = "drop" => AfterRead(c, f).high = c.high
           /\ f.type # "drop" /\ f.lo < c.high => AfterRead(c, f).high = c.high
           /\ f.type # "drop" /\ ~(f.lo < c.high) => AfterRead(c, f).high = f.lo
           /\ f.type = "event" /\ c.high = 0 => AfterRead(c, f).base = f.lo - 1
           /\ f.type # "event" \/ c.high # 0 => AfterRead(c, f).base = c.base
           /\ AfterRead(c, f).got = IF f.type = "event" THEN c.got \cup {f.lo} ELSE c.got
           /\ AfterRead(c, f).named = IF f.type = "drop" THEN c.named \cup (f.lo..f.hi) ELSE c.named
           /\ AfterRead(c, f).reused = c.reused
<1>1. /\ c.high \in Nat /\ c.base \in Nat /\ c.got \in SUBSET Int /\ c.named \in SUBSET Int
      /\ c.reused \in SUBSET Int
      /\ f.lo \in Nat /\ f.hi \in Nat
    BY ClientFields, FrameFields
<1>2. f.type = "event" => f.lo - 1 \in Nat
    BY <1>1
<1>3. c.got \cup {f.lo} \in SUBSET Int /\ c.named \cup (f.lo..f.hi) \in SUBSET Int
    BY <1>1
<1>4. AfterRead(c, f) \in Reader
    BY <1>1, <1>2, <1>3 DEF AfterRead, Reader
<1> QED BY <1>4 DEF AfterRead

LEMMA ReadKeeps ==
    ASSUME NEW c \in Reader, NEW m \in Seq(Frame), m # <<>>, NEW f, f = Head(m),
           f.type = "event" => f.lo > 0, f.type = "closed" /\ f.lo > 0 => c.high > 0,
           NEW m2, m2 = Tail(m), NEW c2, c2 = AfterRead(c, f)
    PROVE  /\ Begun(c2, m2) <=> Begun(c, m)
           /\ \A n \in Seqs : Started(c2, m2, n) <=> Started(c, m, n)
<1>1. /\ m2 \in Seq(Frame) /\ f \in Frame /\ f = m[1] /\ 1 \in DOMAIN m
      /\ \A i \in DOMAIN m2 : i \in Nat /\ i + 1 \in DOMAIN m /\ m2[i] = m[i + 1] /\ i + 1 > 1
      /\ \A i \in DOMAIN m : i \in Nat /\ (i = 1 \/ (i - 1 \in DOMAIN m2 /\ m2[i - 1] = m[i] /\ i > 1))
    BY Dequeued
<1>2. /\ c2 \in Reader
      /\ f.type = "drop" => c2.high = c.high
      /\ f.type # "drop" /\ f.lo < c.high => c2.high = c.high
      /\ f.type # "drop" /\ ~(f.lo < c.high) => c2.high = f.lo
      /\ f.type = "event" /\ c.high = 0 => c2.base = f.lo - 1
      /\ f.type # "event" \/ c.high # 0 => c2.base = c.base
    BY <1>1, AfterReadTyped
<1>3. c.high \in Nat /\ c.base \in Nat /\ c2.high \in Nat /\ c2.base \in Nat /\ f.lo \in Nat
      /\ f.type \in {"event", "drop", "closed"}
    BY <1>1, <1>2, ClientFields, FrameFields
<1>4. CASE c.high > 0
  <2>1. c2.high > 0 /\ c2.base = c.base
    BY <1>2, <1>3, <1>4
  <2> QED BY <1>4, <2>1 DEF Begun, Started
<1>5. CASE ~(c.high > 0) /\ f.type = "event"
  <2>1. c2.high > 0 /\ c2.base = f.lo - 1
    BY <1>2, <1>3, <1>5
  <2>2. FirstEvent(m, 1)
    BY <1>1, <1>5 DEF FirstEvent
  <2>3. \A j \in DOMAIN m : FirstEvent(m, j) => j = 1
    BY <1>1, <1>5 DEF FirstEvent
  <2>4. \A n \in Seqs : n \in Nat /\ (n > c2.base <=> f.lo <= n)
    BY <1>3, <2>1 DEF Seqs
  <2>5. \A n \in Seqs : (\E j \in DOMAIN m : FirstEvent(m, j) /\ m[j].lo <= n) <=> f.lo <= n
    BY <1>1, <2>2, <2>3
  <2> QED BY <1>1, <1>5, <2>1, <2>4, <2>5 DEF Begun, Started
<1>6. CASE ~(c.high > 0) /\ f.type # "event"
  <2>1. ~(c2.high > 0)
    BY <1>2, <1>3, <1>6
  <2>2. \A i \in DOMAIN m2 : m2[i].type = "event" => m[i + 1].type = "event" /\ i + 1 \in DOMAIN m
    BY <1>1
  <2>3. \A i \in DOMAIN m : m[i].type = "event" => i - 1 \in DOMAIN m2 /\ m2[i - 1].type = "event"
    BY <1>1, <1>6
  <2>4. Begun(c2, m2) <=> Begun(c, m)
    BY <1>6, <2>1, <2>2, <2>3 DEF Begun
  <2>5. ASSUME NEW j \in DOMAIN m2, FirstEvent(m2, j) PROVE FirstEvent(m, j + 1) /\ j + 1 \in DOMAIN m /\ m[j + 1] = m2[j]
    <3>1. ASSUME NEW i \in DOMAIN m, m[i].type = "event" PROVE j + 1 <= i
      <4>1. i - 1 \in DOMAIN m2 /\ m2[i - 1].type = "event"
        BY <2>3, <3>1
      <4>2. j <= i - 1
        BY <2>5, <4>1 DEF FirstEvent
      <4> QED BY <1>1, <4>2
    <3> QED BY <1>1, <2>2, <2>5, <3>1 DEF FirstEvent
  <2>6. ASSUME NEW j \in DOMAIN m, FirstEvent(m, j) PROVE FirstEvent(m2, j - 1) /\ j - 1 \in DOMAIN m2 /\ m[j] = m2[j - 1]
    <3>1. ASSUME NEW i \in DOMAIN m2, m2[i].type = "event" PROVE j - 1 <= i
      <4>1. j <= i + 1
        BY <2>2, <2>6, <3>1 DEF FirstEvent
      <4> QED BY <1>1, <4>1
    <3>2. m[j].type = "event" /\ j # 1
        BY <1>1, <1>6, <2>6 DEF FirstEvent
    <3> QED BY <1>1, <2>3, <3>1, <3>2 DEF FirstEvent
  <2>7. \A n : Started(c2, m2, n) <=> Started(c, m, n)
    BY <1>6, <2>1, <2>5, <2>6 DEF Started
  <2> QED BY <2>4, <2>7
<1> QED BY <1>4, <1>5, <1>6

LEMMA ReadTells ==
    ASSUME NEW c \in Reader, NEW m \in Seq(Frame), m # <<>>, NEW f, f = Head(m),
           f.type = "event" => f.lo > 0,
           NEW m2, m2 = Tail(m), NEW c2, c2 = AfterRead(c, f), NEW rest,
           NEW n \in Seqs, NEW i \in Nat, Told(c.got \cup c.named \cup c.reused \cup rest, m, i + 1, n)
    PROVE  Told(c2.got \cup c2.named \cup c2.reused \cup rest, m2, i, n)
<1>1. /\ f \in Frame /\ f = m[1]
      /\ \A x \in DOMAIN m : x \in Nat /\ (x = 1 \/ (x - 1 \in DOMAIN m2 /\ m2[x - 1] = m[x] /\ x > 1))
    BY Dequeued
<1>2. /\ c2.got = IF f.type = "event" THEN c.got \cup {f.lo} ELSE c.got
      /\ c2.named = IF f.type = "drop" THEN c.named \cup (f.lo..f.hi) ELSE c.named
      /\ c2.reused = c.reused
    BY <1>1, AfterReadTyped
<1>3. c.got \subseteq c2.got /\ c.named \subseteq c2.named /\ c.reused \subseteq c2.reused
    BY <1>2
<1>4. CASE n \in c.got \cup c.named \cup c.reused \cup rest
    BY <1>3, <1>4 DEF Told
<1>5. ASSUME NEW x \in DOMAIN m, x <= i + 1, Covers(m[x], n)
      PROVE  Told(c2.got \cup c2.named \cup c2.reused \cup rest, m2, i, n)
  <2>1. CASE x = 1
    <3>1. n \in Int /\ f.lo \in Nat /\ f.hi \in Nat
        BY <1>1, FrameFields DEF Seqs
    <3>2. n \in c2.got \cup c2.named
        BY <1>1, <1>2, <1>5, <2>1, <3>1 DEF Covers
    <3> QED BY <3>2 DEF Told
  <2>2. CASE x # 1
    <3>1. x - 1 \in DOMAIN m2 /\ m2[x - 1] = m[x] /\ x - 1 <= i
        BY <1>1, <1>5, <2>2
    <3> QED BY <1>5, <3>1 DEF Told
  <2> QED BY <2>1, <2>2
<1> QED BY <1>4, <1>5 DEF Told

LEMMA SubFields ==
    ASSUME NEW u \in Sub
    PROVE  /\ u.since \in 0..MaxSeq /\ u.last \in 0..MaxSeq /\ u.cursor \in 0..MaxSeq
           /\ u.batch \in SUBSET Seqs /\ u.more \in BOOLEAN /\ u.uses \in 0..MaxResumes
           /\ u.pc \in {"off", "oldest", "range", "push", "register", "live", "reap",
                        "closing", "drained"}
           /\ u.since \in Nat /\ u.last \in Nat /\ u.cursor \in Nat
<1>1. MaxSeq \in Nat
    BY EventStreamAssumption
<1>2. /\ u.since \in 0..MaxSeq /\ u.last \in 0..MaxSeq /\ u.cursor \in 0..MaxSeq
      /\ u.batch \in SUBSET Seqs /\ u.more \in BOOLEAN /\ u.uses \in 0..MaxResumes
      /\ u.pc \in {"off", "oldest", "range", "push", "register", "live", "reap",
                   "closing", "drained"}
    BY DEF Sub
<1> QED BY <1>1, <1>2

LEMMA FanFields ==
    ASSUME NEW f \in Fan
    PROVE  /\ f.seq \in 0..MaxSeq /\ f.todo \in SUBSET Subs /\ f.on \in SUBSET Subs
           /\ f.frames \in Seq(Frame)
BY DEF Fan

-----------------------------------------------------------------------------
(* A client that is left alone *)

\* No more is wanted, and more is accounted for.
LEMMA PromiseAgrees ==
    ASSUME NEW W, NEW W2, NEW acc, NEW acc2, acc \subseteq acc2, NEW c, NEW m, NEW i, NEW k,
           W2 \subseteq W, Promise(W, acc, c, m, k, i)
    PROVE  Promise(W2, acc2, c, m, k, i)
BY DEF Promise, Told

LEMMA QuietRead ==
    ASSUME NEW W, NEW W2, W2 \subseteq W, NEW acc, NEW acc2, acc \subseteq acc2, NEW c, NEW m,
           ReadOk(W, acc, c, m)
    PROVE  ReadOk(W2, acc2, c, m)
<1>1. \A k, i : Promise(W, acc, c, m, k, i) => Promise(W2, acc2, c, m, k, i)
    BY PromiseAgrees
<1> QED BY <1>1 DEF ReadOk

LEMMA QuietSent ==
    ASSUME NEW W, NEW W2, W2 \subseteq W, NEW acc, NEW acc2, acc \subseteq acc2, NEW c, NEW m,
           NEW u, SentOk(W, acc, c, m, u)
    PROVE  SentOk(W2, acc2, c, m, u)
<1>1. \A k : Promise(W, acc, c, m, k, Len(m)) => Promise(W2, acc2, c, m, k, Len(m))
    BY PromiseAgrees
<1> QED BY <1>1 DEF SentOk

LEMMA BridgedGrows ==
    ASSUME NEW acc, NEW acc2, acc \subseteq acc2, NEW m, NEW k, NEW rows, NEW ahead,
           Bridged(acc, m, k, rows, ahead)
    PROVE  Bridged(acc2, m, k, rows, ahead)
BY DEF Bridged, Told

LEMMA QuietReplay ==
    ASSUME NEW acc, NEW acc2, acc \subseteq acc2, NEW m, NEW u, NEW rows,
           ReplayOk(acc, m, u, rows)
    PROVE  ReplayOk(acc2, m, u, rows)
<1>1. \A k, R, A : Bridged(acc, m, k, R, A) => Bridged(acc2, m, k, R, A)
    BY BridgedGrows
<1> QED BY <1>1 DEF ReplayOk

LEMMA QuietFan ==
    ASSUME NEW W, NEW W2, W2 \subseteq W, NEW acc, NEW acc2, acc \subseteq acc2,
           NEW c, NEW m, NEW u, NEW s, NEW f, NEW f2,
           s \in f2.on /\ f2.frames # <<>> =>
             s \in f.on /\ f2.on = {s} /\ f2.frames = f.frames /\ f2.seq = f.seq,
           FanOk(W, acc, c, m, u, s, f)
    PROVE  FanOk(W2, acc2, c, m, u, s, f2)
<1> SUFFICES ASSUME s \in f2.on, f2.frames # <<>> PROVE FanOk(W2, acc2, c, m, u, s, f2)
    BY DEF FanOk
<1>1. s \in f.on /\ f2.on = {s} /\ f2.frames = f.frames /\ f2.seq = f.seq /\ f.frames # <<>>
    OBVIOUS
<1>2. /\ u.pc # "off" /\ f.seq \in Seqs
      /\ \/ f.frames = <<EventFrame(f.seq)>>
         \/ \E lo, hi \in Nat : f.frames = <<DropFrame(lo, hi), EventFrame(f.seq)>>
      /\ \A n \in W : Started(c, m, n) /\ n <= f.seq =>
           Told(acc, m, Len(m), n) \/ \E i \in DOMAIN f.frames : Covers(f.frames[i], n)
    BY <1>1 DEF FanOk
<1>3. f2.seq \in Seqs
    BY <1>1, <1>2
<1>4. \A n : Told(acc, m, Len(m), n) => Told(acc2, m, Len(m), n)
    BY DEF Told
<1>5. \A n \in W2 : Started(c, m, n) /\ n <= f2.seq =>
           Told(acc2, m, Len(m), n) \/ \E i \in DOMAIN f2.frames : Covers(f2.frames[i], n)
    BY <1>1, <1>2, <1>3, <1>4
<1>6. \/ f2.frames = <<EventFrame(f2.seq)>>
      \/ \E lo, hi \in Nat : f2.frames = <<DropFrame(lo, hi), EventFrame(f2.seq)>>
    BY <1>1, <1>2
<1> QED BY <1>1, <1>2, <1>3, <1>5, <1>6 DEF FanOk

-----------------------------------------------------------------------------
(* A frame is posted *)

LEMMA PostedBegun ==
    ASSUME NEW c, NEW m \in Seq(Frame), NEW f \in Frame, NEW m2, m2 = Append(m, f)
    PROVE  Begun(c, m2) <=> Begun(c, m) \/ f.type = "event"
<1>1. /\ \A i \in DOMAIN m : i \in DOMAIN m2 /\ m2[i] = m[i]
      /\ m2[Len(m) + 1] = f /\ Len(m) + 1 \in DOMAIN m2
      /\ \A i \in DOMAIN m2 : i \in DOMAIN m \/ i = Len(m) + 1
    BY Appended
<1> QED BY <1>1 DEF Begun

LEMMA PostedRead ==
    ASSUME NEW W, NEW acc, NEW c \in Reader, NEW m \in Seq(Frame), NEW f \in Frame,
           NEW m2, m2 = Append(m, f), ReadOk(W, acc, c, m),
           Begun(c, m) \/ f.type # "event",
           f.type # "drop" => f.lo <= MaxSeq /\ Promise(W, acc, c, m2, f.lo, Len(m2)),
           f.type = "event" => f.lo > 0,
           f.type = "closed" /\ f.lo > 0 => Begun(c, m)
    PROVE  ReadOk(W, acc, c, m2)
<1>1. /\ Len(m) \in Nat /\ Len(m2) = Len(m) + 1
      /\ \A i \in DOMAIN m : i \in DOMAIN m2 /\ m2[i] = m[i] /\ i <= Len(m) /\ i \in Nat
                             /\ i < Len(m) + 1
      /\ m2[Len(m) + 1] = f
      /\ \A i \in DOMAIN m2 : i \in DOMAIN m \/ i = Len(m) + 1
    BY Appended
<1>2. \A k, i : i \in Nat /\ i <= Len(m) /\ Promise(W, acc, c, m, k, i) => Promise(W, acc, c, m2, k, i)
    BY PromisePosted
<1>3. c.high <= MaxSeq /\ Promise(W, acc, c, m2, c.high, 0)
    BY <1>1, <1>2 DEF ReadOk
<1>4. ASSUME NEW i \in DOMAIN m2, m2[i].type # "drop"
      PROVE  /\ m2[i].lo <= MaxSeq
             /\ Promise(W, acc, c, m2, m2[i].lo, i)
             /\ m2[i].type = "event" => m2[i].lo > 0
             /\ m2[i].type = "closed" /\ m2[i].lo > 0 =>
                  c.high > 0 \/ \E j \in DOMAIN m2 : j < i /\ m2[j].type = "event"
  <2>1. CASE i \in DOMAIN m
    <3>1. m2[i] = m[i] /\ i <= Len(m) /\ i \in Nat
        BY <1>1, <2>1
    <3>2. /\ m[i].lo <= MaxSeq
          /\ Promise(W, acc, c, m, m[i].lo, i)
          /\ m[i].type = "event" => m[i].lo > 0
          /\ m[i].type = "closed" /\ m[i].lo > 0 =>
               c.high > 0 \/ \E j \in DOMAIN m : j < i /\ m[j].type = "event"
        BY <1>4, <2>1, <3>1 DEF ReadOk
    <3> QED BY <1>1, <1>2, <3>1, <3>2
  <2>2. CASE i = Len(m) + 1
    <3>1. m2[i] = f /\ i = Len(m2)
        BY <1>1, <2>2
    <3>2. Begun(c, m) => c.high > 0 \/ \E j \in DOMAIN m2 : j < i /\ m2[j].type = "event"
        BY <1>1, <2>2 DEF Begun
    <3> QED BY <1>4, <3>1, <3>2
  <2> QED BY <1>1, <2>1, <2>2
<1> QED BY <1>3, <1>4 DEF ReadOk

\* The first event: whatever is in the mailbox before it says nothing.
LEMMA FirstRead ==
    ASSUME NEW W \in SUBSET Seqs, NEW acc, NEW c \in Reader, NEW m \in Seq(Frame),
           NEW f \in Frame, f.type = "event", f.lo > 0,
           NEW m2, m2 = Append(m, f), f.lo <= MaxSeq,
           ReadOk(W, acc, c, m), ~Begun(c, m)
    PROVE  ReadOk(W, acc, c, m2)
<1>1. /\ Len(m2) = Len(m) + 1
      /\ \A i \in DOMAIN m : i \in DOMAIN m2 /\ m2[i] = m[i]
      /\ m2[Len(m) + 1] = f
      /\ \A i \in DOMAIN m2 : i \in DOMAIN m \/ i = Len(m) + 1
    BY Appended
<1>2. /\ \A k \in Nat : \A i : k < f.lo => Promise(W, acc, c, m2, k, i)
      /\ Promise(W, acc, c, m2, f.lo, Len(m2))
    BY FirstPosted
<1>3. c.high = 0 /\ 0 \in Nat /\ 0 < f.lo
  <2>1. ~(c.high > 0) /\ c.high \in Nat /\ f.lo \in Nat
    BY ClientFields, FrameFields DEF Begun
  <2> QED BY <2>1
<1>4. ASSUME NEW i \in DOMAIN m2, m2[i].type # "drop"
      PROVE  /\ m2[i].lo <= MaxSeq
             /\ Promise(W, acc, c, m2, m2[i].lo, i)
             /\ m2[i].type = "event" => m2[i].lo > 0
             /\ m2[i].type = "closed" => ~(m2[i].lo > 0)
  <2>1. CASE i \in DOMAIN m
    <3>1. m2[i] = m[i] /\ m[i].lo \in Nat /\ m[i].type \in {"event", "drop", "closed"}
        BY <1>1, <2>1, FrameFields
    <3>2. m[i].type = "closed" /\ \A j \in DOMAIN m : m[j].type # "event"
        BY <1>4, <2>1, <3>1 DEF Begun
    <3>3. ~(m[i].lo > 0) /\ m[i].lo <= MaxSeq
        BY <1>3, <2>1, <3>2 DEF ReadOk
    <3>4. m[i].lo = 0
        BY <3>1, <3>3
    <3> QED BY <1>2, <1>3, <3>1, <3>2, <3>3, <3>4
  <2>2. CASE i = Len(m) + 1
    BY <1>1, <1>2, <2>2
  <2> QED BY <1>1, <2>1, <2>2
<1>5. c.high <= MaxSeq
    BY DEF ReadOk
<1> QED BY <1>2, <1>3, <1>4, <1>5 DEF ReadOk

-----------------------------------------------------------------------------
(* The steps of one connection *)

SockPart ==
    /\ SockTypes /\ BoundInv
    /\ excused \in [Subs \cup Tails -> SUBSET Int]
    /\ \A s \in Subs : ClientInv(s)

LEMMA ClientTypes ==
    ASSUME SockTypes, NEW s \in Subs
    PROVE  sub[s] \in Sub /\ mail[s] \in Seq(Frame) /\ client[s] \in Reader
BY DEF SockTypes

LEMMA WantsTyped == ASSUME NEW s PROVE Wants(s) \in SUBSET Seqs
BY DEF Wants

LEMMA PendingFan ==
    ASSUME NEW f \in Fan
    PROVE  /\ Pending(f) \in Fan
           /\ Pending(f).todo = f.todo /\ Pending(f).frames = f.frames
           /\ f.todo # {} \/ f.frames # <<>> => Pending(f) = f
<1>1. NoFan \in Fan /\ NoFan.todo = {} /\ NoFan.frames = <<>>
    BY EventStreamAssumption DEF NoFan, Fan
<1> QED BY <1>1 DEF Pending

\* What HangUp leaves of the fan-out's event.
Without(f, s) == [f EXCEPT !.todo = @ \ {s}, !.on = @ \ {s},
                           !.frames = IF s \in f.on THEN <<>> ELSE @]

LEMMA RestOfFan ==
    ASSUME NEW f \in Fan, NEW s, NEW g, g = Without(f, s)
    PROVE  /\ g \in Fan /\ g.todo \subseteq f.todo /\ g.on = f.on \ {s} /\ g.seq = f.seq
           /\ g.frames = IF s \in f.on THEN <<>> ELSE f.frames
<1>1. PICK h : h = IF s \in f.on THEN <<>> ELSE f.frames
    OBVIOUS
<1>2. /\ h \in Seq(Frame) /\ f.todo \ {s} \in SUBSET Subs /\ f.on \ {s} \in SUBSET Subs
      /\ f.seq \in 0..MaxSeq
    BY <1>1, FanFields
<1>3. g = [f EXCEPT !.todo = f.todo \ {s}, !.on = f.on \ {s}, !.frames = h]
    BY <1>1 DEF Without
<1>4. g = [seq |-> f.seq, todo |-> f.todo \ {s}, on |-> f.on \ {s}, frames |-> h]
    BY <1>3 DEF Fan
<1> QED BY <1>1, <1>2, <1>4 DEF Fan

\* A step that is none of a client's business.
LEMMA QuietClient ==
    ASSUME NEW t \in Subs, ClientInv(t), UNCHANGED <<sub[t], mail[t], client[t], ring>>,
           Wants(t)' \subseteq Wants(t),
           holes \subseteq holes', excused[t] \subseteq excused'[t],
           t \in fan'.on /\ fan'.frames # <<>> =>
             t \in fan.on /\ fan'.on = {t} /\ fan'.frames = fan.frames /\ fan'.seq = fan.seq
    PROVE  ClientInv(t)'
<1>1. Knows(t) \subseteq Knows(t)'
    BY DEF Knows
<1>2. PICK W, W2, acc, acc2, f, f2 :
        /\ W = Wants(t) /\ W2 = Wants(t)' /\ acc = Knows(t) /\ acc2 = Knows(t)'
        /\ f = fan /\ f2 = fan'
    OBVIOUS
<1>3. ReadOk(W2, acc2, client[t], mail[t])
    BY <1>1, <1>2, QuietRead DEF ClientInv
<1>4. SentOk(W2, acc2, client[t], mail[t], sub[t])
    BY <1>1, <1>2, QuietSent DEF ClientInv
<1>5. ReplayOk(acc2, mail[t], sub[t], ring)
    BY <1>1, <1>2, QuietReplay DEF ClientInv
<1>6. FanOk(W2, acc2, client[t], mail[t], sub[t], t, f2)
    BY <1>1, <1>2, QuietFan DEF ClientInv
<1> QED BY <1>2, <1>3, <1>4, <1>5, <1>6 DEF ClientInv

\* A step of one connection: the others are left alone.
LEMMA SoloStep ==
    ASSUME SocketInv, NEW s \in Subs, NEW u \in Sub, NEW m \in Seq(Frame), NEW c \in Reader,
           UNCHANGED busVars, sub' = [sub EXCEPT ![s] = u], mail' = [mail EXCEPT ![s] = m],
           client' = [client EXCEPT ![s] = c],
           fan' \in Fan, fan'.todo # {} => fan'.seq \in Seqs,
           \A t \in Subs : t # s /\ t \in fan'.on /\ fan'.frames # <<>> =>
             t \in fan.on /\ fan'.on = {t} /\ fan'.frames = fan.frames /\ fan'.seq = fan.seq,
           Grows(excused, excused', Subs \cup Tails),
           NEW acc, acc = c.got \cup c.named \cup c.reused \cup (holes \cup excused'[s]),
           ReadOk(Wants(s), acc, c, m), SentOk(Wants(s), acc, c, m, u),
           ReplayOk(acc, m, u, ring), FanOk(Wants(s), acc, c, m, u, s, fan')
    PROVE  SockPart'
<1>t. /\ SockTypes /\ BoundInv /\ \A t \in Subs : ClientInv(t)
      /\ sub \in [Subs -> Sub] /\ mail \in [Subs -> Seq(Frame)] /\ client \in [Subs -> Reader]
      /\ seq \in 0..MaxSeq /\ seq \in Nat
    BY EventStreamAssumption DEF SocketInv, SockTypes, BusTypes
<1>u. UNCHANGED <<seq, kindOf, emit, out, ring, holes>>
    BY DEF busVars
<1>1. /\ sub' \in [Subs -> Sub] /\ mail' \in [Subs -> Seq(Frame)] /\ client' \in [Subs -> Reader]
      /\ sub'[s] = u /\ mail'[s] = m /\ client'[s] = c
      /\ \A t \in Subs : t # s => sub'[t] = sub[t] /\ mail'[t] = mail[t] /\ client'[t] = client[t]
    BY <1>t
<1>2. SockTypes'
    BY <1>t, <1>u, <1>1 DEF SockTypes
<1>3. BoundInv'
    BY <1>t, <1>u DEF BoundInv
<1>4. excused' \in [Subs \cup Tails -> SUBSET Int]
    BY DEF Grows
<1>5. ClientInv(s)'
  <2>1. Wants(s)' = Wants(s) /\ Knows(s)' = acc
    BY <1>u, <1>1 DEF Wants, Wanted, Settled, Knows
  <2> QED BY <1>u, <1>1, <2>1 DEF ClientInv
<1>6. ASSUME NEW t \in Subs, t # s PROVE ClientInv(t)'
  <2>1. excused[t] \subseteq excused'[t]
    BY DEF Grows
  <2>2. Wants(t)' = Wants(t)
    BY <1>u DEF Wants, Wanted, Settled
  <2> QED BY <1>t, <1>u, <1>1, <1>6, <2>1, <2>2, QuietClient
<1> QED BY <1>2, <1>3, <1>4, <1>5, <1>6 DEF SockPart

\* What a step starts from.
LEMMA SoloFacts ==
    ASSUME SocketInv, NEW s \in Subs
    PROVE  /\ sub \in [Subs -> Sub] /\ mail \in [Subs -> Seq(Frame)] /\ client \in [Subs -> Reader]
           /\ sub[s] \in Sub /\ mail[s] \in Seq(Frame) /\ client[s] \in Reader /\ fan \in Fan
           /\ sub = [sub EXCEPT ![s] = sub[s]] /\ mail = [mail EXCEPT ![s] = mail[s]]
           /\ client = [client EXCEPT ![s] = client[s]]
           /\ Grows(excused, excused, Subs \cup Tails)
           /\ seq \in 0..MaxSeq /\ seq \in Nat /\ MaxSeq \in Nat
           /\ ring \subseteq Seqs /\ ring \subseteq 1..seq
           /\ fan.todo # {} => fan.seq \in Seqs
           /\ Wants(s) \in SUBSET Seqs
           /\ ReadOk(Wants(s), Knows(s), client[s], mail[s])
           /\ SentOk(Wants(s), Knows(s), client[s], mail[s], sub[s])
           /\ ReplayOk(Knows(s), mail[s], sub[s], ring)
           /\ FanOk(Wants(s), Knows(s), client[s], mail[s], sub[s], s, fan)
           /\ \A t \in Subs : t \in fan.on /\ fan.frames # <<>> => fan.on = {t} /\ sub[t].pc # "off"
<1>1. /\ SockTypes /\ BoundInv /\ BusTypes /\ excused \in [Subs \cup Tails -> SUBSET Int]
      /\ \A t \in Subs : ClientInv(t)
    BY DEF SocketInv
<1>2. /\ sub \in [Subs -> Sub] /\ mail \in [Subs -> Seq(Frame)] /\ client \in [Subs -> Reader]
      /\ fan \in Fan
    BY <1>1 DEF SockTypes
<1>3. seq \in 0..MaxSeq /\ MaxSeq \in Nat /\ ring \subseteq Seqs
    BY <1>1, EventStreamAssumption DEF BusTypes
<1>4. \A t \in Subs : t \in fan.on /\ fan.frames # <<>> => fan.on = {t} /\ sub[t].pc # "off"
    BY <1>1 DEF ClientInv, FanOk
<1>5. ring \subseteq 1..seq /\ (fan.todo # {} => fan.seq \in Seqs)
    BY <1>1 DEF BoundInv
<1>6. seq \in Nat
    BY <1>3
<1>7. Grows(excused, excused, Subs \cup Tails)
    BY <1>1 DEF Grows
<1>8. /\ ReadOk(Wants(s), Knows(s), client[s], mail[s])
      /\ SentOk(Wants(s), Knows(s), client[s], mail[s], sub[s])
      /\ ReplayOk(Knows(s), mail[s], sub[s], ring)
      /\ FanOk(Wants(s), Knows(s), client[s], mail[s], sub[s], s, fan)
    BY <1>1 DEF ClientInv
<1>9. /\ sub = [sub EXCEPT ![s] = sub[s]] /\ mail = [mail EXCEPT ![s] = mail[s]]
      /\ client = [client EXCEPT ![s] = client[s]]
    BY <1>2
<1>10. sub[s] \in Sub /\ mail[s] \in Seq(Frame) /\ client[s] \in Reader
    BY <1>2
<1> QED BY <1>2, <1>3, <1>4, <1>5, <1>6, <1>7, <1>8, <1>9, <1>10, WantsTyped

\* A client whose mailbox is thrown away keeps what it has read.
LEMMA EmptyRead ==
    ASSUME SocketInv, NEW s \in Subs
    PROVE  ReadOk(Wants(s), Knows(s), client[s], <<>>)
<1>f. /\ mail[s] \in Seq(Frame) /\ client[s] \in Reader /\ Wants(s) \in SUBSET Seqs
      /\ ReadOk(Wants(s), Knows(s), client[s], mail[s])
    BY SoloFacts
<1>0. PICK acc : acc = Knows(s)
    OBVIOUS
<1>1. client[s].high \in Nat
    BY <1>f, ClientFields
<1>2. client[s].high <= MaxSeq /\ Promise(Wants(s), acc, client[s], mail[s], client[s].high, 0)
    BY <1>f, <1>0 DEF ReadOk
<1>3. Promise(Wants(s), acc, client[s], <<>>, client[s].high, 0)
  <2>1. CASE client[s].high > 0
    <3>1. \A n : Told(acc, mail[s], 0, n) => n \in acc
      <4>1. \A j \in DOMAIN mail[s] : ~(j <= 0)
        BY <1>f
      <4> QED BY <4>1 DEF Told
    <3>2. \A n : Started(client[s], <<>>, n) => Started(client[s], mail[s], n)
        BY <2>1 DEF Started
    <3> QED BY <1>2, <3>1, <3>2 DEF Promise, Told
  <2>2. CASE client[s].high = 0
    BY <1>f, <2>2, NothingOwed
  <2> QED BY <1>1, <2>1, <2>2
<1>4. DOMAIN <<>> = {}
    OBVIOUS
<1> QED BY <1>0, <1>2, <1>3, <1>4 DEF ReadOk

\* A connection that ends.
LEMMA HangUpKept ==
    ASSUME SocketInv, NEW s \in Subs, HangUp(s), UNCHANGED <<busVars, client, excused>>
    PROVE  SockPart'
<1>f. /\ sub[s] \in Sub /\ mail[s] \in Seq(Frame) /\ client[s] \in Reader /\ fan \in Fan
      /\ client = [client EXCEPT ![s] = client[s]]
      /\ Grows(excused, excused, Subs \cup Tails)
      /\ seq \in Nat /\ Wants(s) \in SUBSET Seqs
      /\ fan.todo # {} => fan.seq \in Seqs
      /\ ReadOk(Wants(s), Knows(s), client[s], mail[s])
      /\ \A t \in Subs : t \in fan.on /\ fan.frames # <<>> => fan.on = {t}
    BY SoloFacts
<1> DEFINE u == [NoSub EXCEPT !.uses = sub[s].uses]
<1>g. PICK g : g = Without(fan, s)
    OBVIOUS
<1>1. u \in Sub /\ u.pc = "off"
  <2>1. sub[s].uses \in 0..MaxResumes /\ 0 \in 0..MaxSeq
    BY <1>f, SubFields, EventStreamAssumption
  <2> QED BY <2>1 DEF NoSub, Sub
<1>2. /\ g \in Fan /\ g.todo \subseteq fan.todo /\ g.on = fan.on \ {s} /\ g.seq = fan.seq
      /\ g.frames = IF s \in fan.on THEN <<>> ELSE fan.frames
    BY <1>f, <1>g, RestOfFan
<1>3. /\ sub' = [sub EXCEPT ![s] = u] /\ mail' = [mail EXCEPT ![s] = <<>>] /\ fan' = Pending(g)
      /\ client' = client /\ excused' = excused
    BY <1>g DEF HangUp, Without
<1> HIDE DEF u
<1>4. /\ fan' \in Fan /\ fan'.todo = g.todo /\ fan'.frames = g.frames
      /\ g.todo # {} \/ g.frames # <<>> => fan' = g
    BY <1>2, <1>3, PendingFan
<1>5. fan'.todo # {} => fan'.seq \in Seqs
    BY <1>f, <1>2, <1>4
<1>6. \A t \in Subs : t \in fan'.on /\ fan'.frames # <<>> =>
             t # s /\ t \in fan.on /\ fan'.on = {t} /\ fan'.frames = fan.frames /\ fan'.seq = fan.seq
  <2> SUFFICES ASSUME NEW t \in Subs, t \in fan'.on, fan'.frames # <<>>
               PROVE  t # s /\ t \in fan.on /\ fan'.on = {t} /\ fan'.frames = fan.frames /\ fan'.seq = fan.seq
    OBVIOUS
  <2>1. fan' = g /\ s \notin fan.on /\ g.frames = fan.frames
    BY <1>2, <1>4
  <2>2. g.on = fan.on
    BY <1>2, <2>1
  <2> QED BY <1>f, <1>2, <2>1, <2>2
<1> DEFINE acc == client[s].got \cup client[s].named \cup client[s].reused \cup (holes \cup excused[s])
<1>7. acc = Knows(s)
    BY DEF Knows
<1> HIDE DEF acc
<1>8. ReadOk(Wants(s), acc, client[s], <<>>)
    BY <1>7, EmptyRead
<1>9. SentOk(Wants(s), acc, client[s], <<>>, u) /\ ReplayOk(acc, <<>>, u, ring)
    BY <1>1 DEF SentOk, ReplayOk
<1>10. FanOk(Wants(s), acc, client[s], <<>>, u, s, fan')
    BY <1>6 DEF FanOk
<1>11. <<>> \in Seq(Frame)
    OBVIOUS
<1>12. /\ UNCHANGED busVars /\ Grows(excused, excused', Subs \cup Tails)
       /\ client' = [client EXCEPT ![s] = client[s]]
       /\ acc = client[s].got \cup client[s].named \cup client[s].reused \cup (holes \cup excused'[s])
    BY <1>f, <1>3 DEF acc
<1> QED BY <1>f, <1>1, <1>3, <1>4, <1>5, <1>6, <1>8, <1>9, <1>10, <1>11, <1>12, SoloStep

\* A client with a frame less in its mailbox and that much wiser.
Account(c, rest) == c.got \cup c.named \cup c.reused \cup rest
ClientOk(W, acc, c, m, u, rows, s, g) ==
    /\ c \in Reader /\ m \in Seq(Frame)
    /\ ReadOk(W, acc, c, m) /\ SentOk(W, acc, c, m, u)
    /\ ReplayOk(acc, m, u, rows) /\ FanOk(W, acc, c, m, u, s, g)

LEMMA WriteOk ==
    ASSUME NEW W \in SUBSET Seqs, NEW c, NEW m, m # <<>>, NEW rest,
           NEW u, NEW rows, NEW s, NEW g,
           ClientOk(W, Account(c, rest), c, m, u, rows, s, g)
    PROVE  ClientOk(W, Account(AfterRead(c, Head(m)), rest), AfterRead(c, Head(m)), Tail(m),
                    u, rows, s, g)
<1>d. PICK m2, c2, acc, acc2 : /\ m2 = Tail(m) /\ c2 = AfterRead(c, Head(m))
                               /\ acc = Account(c, rest) /\ acc2 = Account(c2, rest)
    OBVIOUS
<1>e. /\ acc = c.got \cup c.named \cup c.reused \cup rest /\ acc2 = c2.got \cup c2.named \cup c2.reused \cup rest
      /\ c \in Reader /\ m \in Seq(Frame)
      /\ ReadOk(W, acc, c, m) /\ SentOk(W, acc, c, m, u)
      /\ ReplayOk(acc, m, u, rows) /\ FanOk(W, acc, c, m, u, s, g)
    BY <1>d DEF Account, ClientOk
<1>f. PICK f : f = Head(m)
    OBVIOUS
<1>1. /\ m2 \in Seq(Frame) /\ Len(m2) = Len(m) - 1 /\ Len(m) \in Nat /\ Len(m2) \in Nat
      /\ f \in Frame /\ f = m[1] /\ 1 \in DOMAIN m
      /\ \A i \in DOMAIN m2 : i \in Nat /\ i + 1 \in DOMAIN m /\ m2[i] = m[i + 1] /\ i + 1 > 1
      /\ \A i \in DOMAIN m : i \in Nat /\ (i = 1 \/ (i - 1 \in DOMAIN m2 /\ m2[i - 1] = m[i] /\ i > 1))
    BY <1>d, <1>e, <1>f, Dequeued
<1>2. /\ f.type # "drop" => f.lo <= MaxSeq /\ Promise(W, acc, c, m, f.lo, 1)
      /\ f.type = "event" => f.lo > 0
      /\ f.type = "closed" /\ f.lo > 0 => c.high > 0
  <2>1. \A j \in DOMAIN m : ~(j < 1)
    BY <1>1
  <2> QED BY <1>e, <1>1, <2>1 DEF ReadOk
<1>3. /\ c2 \in Reader
      /\ f.type = "drop" => c2.high = c.high
      /\ f.type # "drop" /\ f.lo < c.high => c2.high = c.high
      /\ f.type # "drop" /\ ~(f.lo < c.high) => c2.high = f.lo
  <2>1. c2 = AfterRead(c, f)
    BY <1>d, <1>f
  <2>2. /\ AfterRead(c, f) \in Reader
        /\ f.type = "drop" => AfterRead(c, f).high = c.high
        /\ f.type # "drop" /\ f.lo < c.high => AfterRead(c, f).high = c.high
        /\ f.type # "drop" /\ ~(f.lo < c.high) => AfterRead(c, f).high = f.lo
    BY <1>e, <1>1, <1>2, AfterReadTyped
  <2> QED BY <2>1, <2>2
<1>4. /\ Begun(c2, m2) <=> Begun(c, m)
      /\ \A n \in Seqs : Started(c2, m2, n) <=> Started(c, m, n)
    BY <1>d, <1>e, <1>f, <1>2, ReadKeeps
<1>5. \A n \in Seqs, i \in Nat : Told(acc, m, i + 1, n) => Told(acc2, m2, i, n)
  <2>1. c2 = AfterRead(c, f)
    BY <1>d, <1>f
  <2> SUFFICES ASSUME NEW n \in Seqs, NEW i \in Nat, Told(acc, m, i + 1, n)
               PROVE  Told(acc2, m2, i, n)
    OBVIOUS
  <2>2. Told(c.got \cup c.named \cup c.reused \cup rest, m, i + 1, n)
    BY <1>e
  <2>3. Told(c2.got \cup c2.named \cup c2.reused \cup rest, m2, i, n)
    BY <1>d, <1>e, <1>f, <1>2, <2>1, <2>2, ReadTells
  <2> QED BY <1>e, <2>3
<1>6. \A k, i : i \in Nat /\ Promise(W, acc, c, m, k, i + 1) => Promise(W, acc2, c2, m2, k, i)
    BY <1>4, <1>5 DEF Promise
<1>7. \A n \in Seqs : Told(acc, m, Len(m), n) => Told(acc2, m2, Len(m2), n)
  <2>1. Len(m) = Len(m2) + 1
    BY <1>1
  <2> QED BY <1>1, <1>5, <2>1
<1>8. \A k : Promise(W, acc, c, m, k, Len(m)) => Promise(W, acc2, c2, m2, k, Len(m2))
  <2>1. Len(m) = Len(m2) + 1
    BY <1>1
  <2> QED BY <1>1, <1>6, <2>1
<1>9. ReadOk(W, acc2, c2, m2)
  <2>1. c.high \in Nat /\ c2.high \in Nat /\ f.lo \in Nat /\ f.type \in {"event", "drop", "closed"}
    BY <1>e, <1>1, <1>3, ClientFields, FrameFields
  <2>2. c.high <= MaxSeq /\ Promise(W, acc, c, m, c.high, 0)
    BY <1>e DEF ReadOk
  <2>3. Promise(W, acc, c, m, c.high, 0 + 1)
    BY <1>e, <2>2, PromiseGrows
  <2>4. c2.high <= MaxSeq /\ Promise(W, acc2, c2, m2, c2.high, 0)
    <3>1. CASE c2.high = c.high
        BY <1>6, <2>2, <2>3, <3>1
    <3>2. CASE c2.high = f.lo /\ f.type # "drop"
      <4>1. Promise(W, acc, c, m, f.lo, 0 + 1)
        BY <1>2, <3>2
      <4> QED BY <1>2, <1>6, <3>2, <4>1
    <3> QED BY <1>3, <3>1, <3>2
  <2>5. c.high > 0 => c2.high > 0
    BY <1>3, <2>1
  <2>6. f.type = "event" => c2.high > 0
    BY <1>2, <1>3, <2>1
  <2>7. ASSUME NEW i \in DOMAIN m2, m2[i].type # "drop"
        PROVE  /\ m2[i].lo <= MaxSeq
               /\ Promise(W, acc2, c2, m2, m2[i].lo, i)
               /\ m2[i].type = "event" => m2[i].lo > 0
               /\ m2[i].type = "closed" /\ m2[i].lo > 0 =>
                    c2.high > 0 \/ \E j \in DOMAIN m2 : j < i /\ m2[j].type = "event"
    <3>1. i \in Nat /\ i + 1 \in DOMAIN m /\ m2[i] = m[i + 1]
        BY <1>1
    <3>2. /\ m2[i].lo <= MaxSeq
          /\ Promise(W, acc, c, m, m2[i].lo, i + 1)
          /\ m2[i].type = "event" => m2[i].lo > 0
          /\ m2[i].type = "closed" /\ m2[i].lo > 0 =>
               c.high > 0 \/ \E j \in DOMAIN m : j < i + 1 /\ m[j].type = "event"
        BY <1>e, <2>7, <3>1 DEF ReadOk
    <3>3. ASSUME NEW j \in DOMAIN m, j < i + 1, m[j].type = "event"
          PROVE  c2.high > 0 \/ \E x \in DOMAIN m2 : x < i /\ m2[x].type = "event"
      <4>1. CASE j = 1
        BY <1>1, <2>6, <3>3, <4>1
      <4>2. CASE j # 1
        <5>1. j - 1 \in DOMAIN m2 /\ m2[j - 1] = m[j] /\ j \in Nat
            BY <1>1, <4>2
        <5>2. j - 1 < i
            BY <3>1, <3>3, <5>1
        <5> QED BY <3>3, <5>1, <5>2
      <4> QED BY <4>1, <4>2
    <3>4. Promise(W, acc2, c2, m2, m2[i].lo, i)
        BY <1>6, <3>1, <3>2
    <3> QED BY <2>5, <3>2, <3>3, <3>4
  <2> QED BY <2>4, <2>7 DEF ReadOk
<1>10. SentOk(W, acc2, c2, m2, u)
    BY <1>e, <1>4, <1>8 DEF SentOk
<1>11. ReplayOk(acc2, m2, u, rows)
  <2>1. \A k, R, A : Bridged(acc, m, k, R, A) => Bridged(acc2, m2, k, R, A)
    BY <1>7 DEF Bridged
  <2> QED BY <1>e, <2>1 DEF ReplayOk
<1>12. FanOk(W, acc2, c2, m2, u, s, g)
    BY <1>e, <1>4, <1>7 DEF FanOk
<1> QED BY <1>d, <1>1, <1>3, <1>9, <1>10, <1>11, <1>12 DEF ClientOk

\* startWriter
LEMMA WriteKept ==
    ASSUME SocketInv, NEW s \in Subs, Write(s)
    PROVE  SockPart'
<1>f. /\ sub[s] \in Sub /\ mail[s] \in Seq(Frame) /\ client[s] \in Reader /\ fan \in Fan
      /\ sub = [sub EXCEPT ![s] = sub[s]]
      /\ Grows(excused, excused, Subs \cup Tails)
      /\ seq \in Nat /\ Wants(s) \in SUBSET Seqs
      /\ fan.todo # {} => fan.seq \in Seqs
      /\ ReadOk(Wants(s), Knows(s), client[s], mail[s])
      /\ SentOk(Wants(s), Knows(s), client[s], mail[s], sub[s])
      /\ ReplayOk(Knows(s), mail[s], sub[s], ring)
      /\ FanOk(Wants(s), Knows(s), client[s], mail[s], sub[s], s, fan)
      /\ \A t \in Subs : t \in fan.on /\ fan.frames # <<>> => fan.on = {t}
    BY SoloFacts
<1>1. PICK c, m, u, rest, W, acc, g, rows :
        /\ c = client[s] /\ m = mail[s] /\ u = sub[s] /\ rest = holes \cup excused[s]
        /\ W = Wants(s) /\ acc = Knows(s) /\ g = fan /\ rows = ring
    OBVIOUS
<1>2. PICK c2, m2, acc2 :
        c2 = AfterRead(c, Head(m)) /\ m2 = Tail(m) /\ acc2 = Account(c2, rest)
    OBVIOUS
<1>3. acc = Account(c, rest) /\ m # <<>>
    BY <1>1 DEF Knows, Write, Account
<1>4. ClientOk(W, acc2, c2, m2, u, rows, s, g)
  <2>1. /\ W \in SUBSET Seqs
        /\ ClientOk(W, acc, c, m, u, rows, s, g)
    BY <1>f, <1>1 DEF ClientOk
  <2>2. ClientOk(W, Account(c, rest), c, m, u, rows, s, g)
    BY <1>3, <2>1
  <2>3. ClientOk(W, Account(AfterRead(c, Head(m)), rest), AfterRead(c, Head(m)), Tail(m),
                 u, rows, s, g)
    BY <1>3, <2>1, <2>2, WriteOk
  <2> QED BY <1>2, <2>3
<1>5. /\ mail' = [mail EXCEPT ![s] = m2] /\ client' = [client EXCEPT ![s] = c2]
      /\ sub' = [sub EXCEPT ![s] = u] /\ UNCHANGED <<busVars, fan, excused>>
  <2>1. /\ mail' = [mail EXCEPT ![s] = Tail(mail[s])]
        /\ client' = [client EXCEPT ![s] = AfterRead(client[s], Head(mail[s]))]
        /\ sub' = sub /\ UNCHANGED <<busVars, fan, excused>>
    BY DEF Write, AfterRead
  <2> QED BY <1>f, <1>1, <1>2, <2>1
<1>6. /\ fan' \in Fan /\ (fan'.todo # {} => fan'.seq \in Seqs)
      /\ \A t \in Subs : t # s /\ t \in fan'.on /\ fan'.frames # <<>> =>
             t \in fan.on /\ fan'.on = {t} /\ fan'.frames = fan.frames /\ fan'.seq = fan.seq
      /\ Grows(excused, excused', Subs \cup Tails)
    BY <1>f, <1>5
<1>7. /\ u \in Sub /\ acc2 = c2.got \cup c2.named \cup c2.reused \cup (holes \cup excused'[s])
      /\ ReadOk(Wants(s), acc2, c2, m2) /\ SentOk(Wants(s), acc2, c2, m2, u)
      /\ ReplayOk(acc2, m2, u, ring) /\ FanOk(Wants(s), acc2, c2, m2, u, s, fan')
    BY <1>f, <1>1, <1>2, <1>4, <1>5 DEF ClientOk, Account
<1>8. c2 \in Reader /\ m2 \in Seq(Frame)
    BY <1>4 DEF ClientOk
<1> QED BY <1>8, <1>5, <1>6, <1>7, SoloStep

\* A subscription that leaves or is out of its replay.
LEMMA Turned ==
    ASSUME NEW W \in SUBSET Seqs, NEW acc, NEW c, NEW m \in Seq(Frame),
           NEW u, NEW u2, NEW rows, NEW s, NEW g, u.pc # "off",
           u2.pc \in {"register", "live", "reap", "closing", "drained"},
           u2.last = u.last, u2.cursor \in {u.cursor, u.last, 0},
           SentOk(W, acc, c, m, u), FanOk(W, acc, c, m, u, s, g)
    PROVE  /\ SentOk(W, acc, c, m, u2) /\ ReplayOk(acc, m, u2, rows)
           /\ FanOk(W, acc, c, m, u2, s, g)
<1>1. Promise(W, acc, c, m, 0, Len(m))
    BY NothingOwed
<1>2. SentOk(W, acc, c, m, u2)
    BY <1>1 DEF SentOk
<1>3. ReplayOk(acc, m, u2, rows)
    BY DEF ReplayOk
<1>4. FanOk(W, acc, c, m, u2, s, g)
    BY DEF FanOk
<1> QED BY <1>2, <1>3, <1>4

\* A step that changes the subscription and nothing else.
LEMMA TurnStep ==
    ASSUME SocketInv, NEW s \in Subs, NEW u \in Sub, sub' = [sub EXCEPT ![s] = u],
           UNCHANGED <<busVars, fan, mail, client, excused>>,
           SentOk(Wants(s), Knows(s), client[s], mail[s], u),
           ReplayOk(Knows(s), mail[s], u, ring),
           FanOk(Wants(s), Knows(s), client[s], mail[s], u, s, fan)
    PROVE  SockPart'
<1>f. /\ mail[s] \in Seq(Frame) /\ client[s] \in Reader /\ fan \in Fan
      /\ mail = [mail EXCEPT ![s] = mail[s]] /\ client = [client EXCEPT ![s] = client[s]]
      /\ Grows(excused, excused, Subs \cup Tails)
      /\ fan.todo # {} => fan.seq \in Seqs
      /\ ReadOk(Wants(s), Knows(s), client[s], mail[s])
      /\ \A t \in Subs : t \in fan.on /\ fan.frames # <<>> => fan.on = {t}
    BY SoloFacts
<1>1. PICK acc : acc = client[s].got \cup client[s].named \cup client[s].reused \cup (holes \cup excused[s])
    OBVIOUS
<1>2. acc = Knows(s)
    BY <1>1 DEF Knows
<1>3. /\ mail' = [mail EXCEPT ![s] = mail[s]] /\ client' = [client EXCEPT ![s] = client[s]]
      /\ fan' = fan /\ excused' = excused /\ UNCHANGED busVars
    BY <1>f
<1> QED BY <1>f, <1>1, <1>2, <1>3, SoloStep

LEMMA TurnsKept ==
    ASSUME SocketInv, NEW s \in Subs, Register(s) \/ ReapRead(s) \/ ReapDelete(s)
    PROVE  SockPart'
<1>f. /\ sub[s] \in Sub /\ mail[s] \in Seq(Frame) /\ seq \in Nat /\ Wants(s) \in SUBSET Seqs
      /\ sub \in [Subs -> Sub]
      /\ SentOk(Wants(s), Knows(s), client[s], mail[s], sub[s])
      /\ FanOk(Wants(s), Knows(s), client[s], mail[s], sub[s], s, fan)
    BY SoloFacts
<1>l. sub[s].last \in 0..MaxSeq /\ 0 \in 0..MaxSeq /\ FALSE \in BOOLEAN
    BY <1>f, SubFields, EventStreamAssumption
<1>1. PICK u \in Sub : /\ sub' = [sub EXCEPT ![s] = u] /\ sub[s].pc # "off"
                       /\ u.pc \in {"register", "live", "reap", "closing", "drained"}
                       /\ u.last = sub[s].last /\ u.cursor \in {sub[s].cursor, sub[s].last, 0}
  <2>1. CASE Register(s)
    <3> DEFINE v == [sub[s] EXCEPT !.pc = "live", !.cursor = 0, !.more = FALSE]
    <3>1. v \in Sub /\ v.pc = "live" /\ v.last = sub[s].last /\ v.cursor = 0
        BY <1>f, <1>l DEF Sub
    <3>2. sub' = [sub EXCEPT ![s] = v] /\ sub[s].pc # "off"
        BY <1>f, <2>1 DEF Register
    <3> HIDE DEF v
    <3> QED BY <3>1, <3>2
  <2>2. CASE ReapRead(s)
    <3> DEFINE v == [sub[s] EXCEPT !.pc = "reap", !.cursor = sub[s].last]
    <3>1. v \in Sub /\ v.pc = "reap" /\ v.last = sub[s].last /\ v.cursor = sub[s].last
        BY <1>f, <1>l DEF Sub
    <3>2. sub' = [sub EXCEPT ![s] = v] /\ sub[s].pc # "off"
        BY <1>f, <2>2 DEF ReapRead
    <3> HIDE DEF v
    <3> QED BY <3>1, <3>2
  <2>3. CASE ReapDelete(s)
    <3> DEFINE v == [sub[s] EXCEPT !.pc = "drained"]
    <3>1. v \in Sub /\ v.pc = "drained" /\ v.last = sub[s].last /\ v.cursor = sub[s].cursor
        BY <1>f, <1>l DEF Sub
    <3>2. sub' = [sub EXCEPT ![s] = v] /\ sub[s].pc # "off"
        BY <1>f, <2>3 DEF ReapDelete
    <3> HIDE DEF v
    <3> QED BY <3>1, <3>2
  <2> QED BY <2>1, <2>2, <2>3
<1>2. UNCHANGED <<busVars, fan, mail, client, excused>>
    BY DEF Register, ReapRead, ReapDelete
<1>3. PICK W, acc, c, m, v, g, rows :
        /\ W = Wants(s) /\ acc = Knows(s) /\ c = client[s] /\ m = mail[s] /\ v = sub[s]
        /\ g = fan /\ rows = ring
    OBVIOUS
<1>4. /\ SentOk(W, acc, c, m, u) /\ ReplayOk(acc, m, u, rows)
      /\ FanOk(W, acc, c, m, u, s, g)
    BY <1>f, <1>1, <1>3, Turned
<1> QED BY <1>1, <1>2, <1>3, <1>4, TurnStep

\* handleSubscribe: nothing is owed up to a number the client starts at, and
\* one that comes back starts where it was.
LEMMA SubscribeOk ==
    ASSUME NEW W \in SUBSET Seqs, NEW acc, NEW c \in Reader, NEW c2 \in Reader, NEW since \in Nat,
           since <= MaxSeq,
           \/ c.high > 0 /\ since = c.high /\ c2 = c
           \/ c2.high = since /\ c2.base = since,
           ReadOk(W, acc, c, <<>>)
    PROVE  /\ ReadOk(W, acc, c2, <<>>) /\ Promise(W, acc, c2, <<>>, since, 0)
           /\ Begun(c2, <<>>) <=> since > 0
<1>0. DOMAIN <<>> = {}
    OBVIOUS
<1>1. CASE c.high > 0 /\ since = c.high /\ c2 = c
    BY <1>0, <1>1 DEF ReadOk, Begun
<1>2. CASE c2.high = since /\ c2.base = since
  <2>1. Promise(W, acc, c2, <<>>, since, 0)
    <3>1. CASE since = 0
        BY <3>1, NothingOwed
    <3>2. CASE since > 0
      <4>1. \A n \in W : n \in Nat /\ ~(n > since /\ n <= since)
        BY DEF Seqs
      <4> QED BY <1>2, <3>2, <4>1 DEF Promise, Started
    <3> QED BY <3>1, <3>2
  <2> QED BY <1>0, <1>2, <2>1 DEF ReadOk, Begun
<1> QED BY <1>1, <1>2

LEMMA SubscribeKept ==
    ASSUME SocketInv, NEW s \in Subs, Subscribe(s)
    PROVE  SockPart'
<1>f. /\ sub[s] \in Sub /\ mail[s] \in Seq(Frame) /\ client[s] \in Reader /\ fan \in Fan
      /\ sub \in [Subs -> Sub] /\ client \in [Subs -> Reader]
      /\ mail = [mail EXCEPT ![s] = mail[s]]
      /\ Grows(excused, excused, Subs \cup Tails)
      /\ seq \in Nat /\ seq \in 0..MaxSeq /\ MaxSeq \in Nat /\ Wants(s) \in SUBSET Seqs
      /\ fan.todo # {} => fan.seq \in Seqs
      /\ ReadOk(Wants(s), Knows(s), client[s], mail[s])
      /\ SentOk(Wants(s), Knows(s), client[s], mail[s], sub[s])
      /\ \A t \in Subs : t \in fan.on /\ fan.frames # <<>> => fan.on = {t} /\ sub[t].pc # "off"
    BY SoloFacts
<1>1. PICK since \in IF client[s].high = 0 THEN 0..seq ELSE {client[s].high} :
        HandleSubscribe(s, since)
    BY DEF Subscribe
<1>2. PICK c, uses : c = client[s] /\ uses = sub[s].uses
    OBVIOUS
<1>3. /\ c \in Reader /\ c.high \in Nat /\ c.base \in Nat /\ c.got \in SUBSET Int /\ c.named \in SUBSET Int
      /\ c.reused \in SUBSET Int
      /\ uses \in 0..MaxResumes /\ sub[s].pc = "off" /\ uses < MaxResumes /\ mail[s] = <<>>
      /\ c.high <= MaxSeq
  <2>1. sub[s].pc = "off" /\ uses < MaxResumes
    BY <1>1, <1>2 DEF HandleSubscribe
  <2>2. client[s].high <= MaxSeq
    BY <1>f DEF ReadOk
  <2>3. mail[s] = <<>>
    BY <1>f, <2>1 DEF SentOk
  <2> QED BY <1>f, <1>2, <2>1, <2>2, <2>3, ClientFields, SubFields
<1>4. since \in Nat /\ since <= MaxSeq /\ since \in 0..MaxSeq /\ (c.high # 0 => since = c.high)
    BY <1>f, <1>1, <1>2, <1>3
<1>5. uses + 1 \in 0..MaxResumes
    BY <1>3, EventStreamAssumption
<1> DEFINE u == [pc |-> IF since > 0 THEN "oldest" ELSE "register", since |-> since,
                 last |-> since, cursor |-> since, batch |-> {}, more |-> FALSE, uses |-> uses + 1]
           c2 == [c EXCEPT !.high = since, !.base = IF c.high = 0 THEN since ELSE c.base]
<1>6. /\ u \in Sub /\ u.since = since /\ u.last = since /\ u.cursor = since
      /\ u.pc = IF since > 0 THEN "oldest" ELSE "register"
    BY <1>4, <1>5 DEF Sub
<1>7. /\ c2 \in Reader /\ c2.high = since /\ c2.base = (IF c.high = 0 THEN since ELSE c.base)
      /\ c2.got = c.got /\ c2.named = c.named /\ c2.reused = c.reused
    BY <1>3, <1>4 DEF Reader
<1>8. c.high # 0 => c2 = c
  <2> SUFFICES ASSUME c.high # 0 PROVE c2 = c
    OBVIOUS
  <2>1. c2 = [c EXCEPT !.high = c.high, !.base = c.base]
    BY <1>4
  <2>2. c = [base |-> c.base, high |-> c.high, got |-> c.got, named |-> c.named,
             reused |-> c.reused]
    BY <1>3 DEF Reader
  <2> QED BY <1>3, <2>1, <2>2 DEF Reader
<1>9. /\ sub' = [sub EXCEPT ![s] = u] /\ client' = [client EXCEPT ![s] = c2]
      /\ UNCHANGED <<busVars, fan, mail, excused>>
  <2>1. sub' = [sub EXCEPT ![s] = u]
    BY <1>f, <1>1, <1>2 DEF HandleSubscribe
  <2>2. client' = [client EXCEPT ![s] = c2]
    BY <1>f, <1>1, <1>2 DEF HandleSubscribe
  <2>3. UNCHANGED <<busVars, fan, mail, excused>>
    BY <1>1 DEF HandleSubscribe
  <2> QED BY <2>1, <2>2, <2>3
<1> HIDE DEF u, c2
<1>10. PICK acc : acc = c.got \cup c.named \cup c.reused \cup (holes \cup excused[s])
    OBVIOUS
<1>11. acc = Knows(s)
    BY <1>2, <1>10 DEF Knows
<1>12. /\ ReadOk(Wants(s), acc, c2, <<>>) /\ Promise(Wants(s), acc, c2, <<>>, since, 0)
       /\ Begun(c2, <<>>) <=> since > 0
  <2>1. PICK W : W = Wants(s)
    OBVIOUS
  <2>2. ReadOk(W, acc, c, <<>>) /\ W \in SUBSET Seqs /\ since <= MaxSeq
    BY <1>f, <1>2, <1>3, <1>4, <1>11, <2>1
  <2>3. \/ c.high > 0 /\ since = c.high /\ c2 = c
        \/ c2.high = since /\ c2.base = since
    BY <1>3, <1>4, <1>7, <1>8
  <2>4. /\ ReadOk(W, acc, c2, <<>>) /\ Promise(W, acc, c2, <<>>, since, 0)
        /\ Begun(c2, <<>>) <=> since > 0
    BY <1>3, <1>4, <1>7, <2>2, <2>3, SubscribeOk
  <2> QED BY <2>1, <2>4
<1>13. SentOk(Wants(s), acc, c2, <<>>, u)
    BY <1>4, <1>6, <1>12 DEF SentOk
<1>14. ReplayOk(acc, <<>>, u, ring)
    BY <1>4, <1>6 DEF ReplayOk
<1>15. FanOk(Wants(s), acc, c2, <<>>, u, s, fan)
    BY <1>f, <1>3 DEF FanOk
<1>16. /\ fan' \in Fan /\ (fan'.todo # {} => fan'.seq \in Seqs)
       /\ \A t \in Subs : t # s /\ t \in fan'.on /\ fan'.frames # <<>> =>
             t \in fan.on /\ fan'.on = {t} /\ fan'.frames = fan.frames /\ fan'.seq = fan.seq
       /\ Grows(excused, excused', Subs \cup Tails) /\ FanOk(Wants(s), acc, c2, <<>>, u, s, fan')
    BY <1>f, <1>9, <1>15
<1>17. /\ mail' = [mail EXCEPT ![s] = <<>>] /\ <<>> \in Seq(Frame)
       /\ acc = c2.got \cup c2.named \cup c2.reused \cup (holes \cup excused'[s])
    BY <1>f, <1>3, <1>7, <1>9, <1>10
<1> QED BY <1>6, <1>7, <1>9, <1>12, <1>13, <1>14, <1>16, <1>17, SoloStep

\* A frame is posted that is not the client's first event.
LEMMA PostOk ==
    ASSUME NEW W, NEW acc, NEW c, NEW m, NEW u, NEW rows, NEW s, NEW g,
           ClientOk(W, acc, c, m, u, rows, s, g), u.pc # "off", NEW f \in Frame,
           Begun(c, m) \/ f.type # "event",
           f.type # "drop" => f.lo <= MaxSeq /\ Promise(W, acc, c, Append(m, f), f.lo, Len(Append(m, f))),
           f.type = "event" => f.lo > 0,
           f.type = "closed" /\ f.lo > 0 => Begun(c, m)
    PROVE  ClientOk(W, acc, c, Append(m, f), u, rows, s, g)
<1>1. PICK m2 : m2 = Append(m, f)
    OBVIOUS
<1>2. /\ c \in Reader /\ m \in Seq(Frame)
      /\ ReadOk(W, acc, c, m) /\ SentOk(W, acc, c, m, u)
      /\ ReplayOk(acc, m, u, rows) /\ FanOk(W, acc, c, m, u, s, g)
    BY DEF ClientOk
<1>3. m2 \in Seq(Frame)
    BY <1>1, <1>2, Appended
<1>4. ReadOk(W, acc, c, m2)
    BY <1>1, <1>2, PostedRead
<1>5. \A n : /\ Told(acc, m, Len(m), n) => Told(acc, m2, Len(m2), n)
             /\ Started(c, m2, n) <=> Started(c, m, n)
    BY <1>1, <1>2, PostedTold, PostedStarted
<1>6. Begun(c, m2) <=> Begun(c, m)
    BY <1>1, <1>2, PostedBegun
<1>7. \A k : Promise(W, acc, c, m, k, Len(m)) => Promise(W, acc, c, m2, k, Len(m2))
    BY <1>5 DEF Promise
<1>8. SentOk(W, acc, c, m2, u)
    BY <1>2, <1>6, <1>7 DEF SentOk
<1>9. \A k, R, A : Bridged(acc, m, k, R, A) => Bridged(acc, m2, k, R, A)
    BY <1>5 DEF Bridged
<1>10. ReplayOk(acc, m2, u, rows)
    BY <1>2, <1>9 DEF ReplayOk
<1>11. FanOk(W, acc, c, m2, u, s, g)
    BY <1>2, <1>5 DEF FanOk
<1> QED BY <1>1, <1>2, <1>3, <1>4, <1>8, <1>10, <1>11 DEF ClientOk

\* The same client with another subscription that has sent as much.
LEMMA SentAlike ==
    ASSUME NEW W, NEW acc, NEW c, NEW m, NEW u, NEW u2, NEW s, NEW g,
           u.pc # "off", u2.pc # "off", u2.last = u.last, u2.cursor = u.cursor,
           SentOk(W, acc, c, m, u), FanOk(W, acc, c, m, u, s, g)
    PROVE  SentOk(W, acc, c, m, u2) /\ FanOk(W, acc, c, m, u2, s, g)
BY DEF SentOk, FanOk

\* A step of one connection, in terms of ClientOk.
LEMMA OkStep ==
    ASSUME SocketInv, NEW s \in Subs, NEW u \in Sub, NEW m, NEW c, NEW g \in Fan,
           UNCHANGED busVars, sub' = [sub EXCEPT ![s] = u], mail' = [mail EXCEPT ![s] = m],
           client' = [client EXCEPT ![s] = c], fan' = g, g.todo # {} => g.seq \in Seqs,
           \A t \in Subs : t # s /\ t \in g.on /\ g.frames # <<>> =>
             t \in fan.on /\ g.on = {t} /\ g.frames = fan.frames /\ g.seq = fan.seq,
           Grows(excused, excused', Subs \cup Tails),
           ClientOk(Wants(s), Account(c, holes \cup excused'[s]), c, m, u, ring, s, g)
    PROVE  SockPart'
<1>1. PICK acc : acc = c.got \cup c.named \cup c.reused \cup (holes \cup excused'[s])
    OBVIOUS
<1>2. acc = Account(c, holes \cup excused'[s])
    BY <1>1 DEF Account
<1>3. /\ c \in Reader /\ m \in Seq(Frame)
      /\ ReadOk(Wants(s), acc, c, m) /\ SentOk(Wants(s), acc, c, m, u)
      /\ ReplayOk(acc, m, u, ring) /\ FanOk(Wants(s), acc, c, m, u, s, g)
    BY <1>2 DEF ClientOk
<1> QED BY <1>1, <1>3, SoloStep

LEMMA OkFacts ==
    ASSUME SocketInv, NEW s \in Subs
    PROVE  /\ ClientOk(Wants(s), Account(client[s], holes \cup excused[s]), client[s], mail[s],
                       sub[s], ring, s, fan)
           /\ Knows(s) = Account(client[s], holes \cup excused[s])
<1>1. Knows(s) = Account(client[s], holes \cup excused[s])
    BY DEF Account, Knows
<1> QED BY <1>1, SoloFacts DEF ClientOk

\* The fan-out goroutine and the client are left alone.
LEMMA OkStill ==
    ASSUME SocketInv, NEW s \in Subs, NEW u \in Sub, NEW m,
           UNCHANGED <<busVars, fan, client>>, sub' = [sub EXCEPT ![s] = u],
           mail' = [mail EXCEPT ![s] = m], Grows(excused, excused', Subs \cup Tails),
           ClientOk(Wants(s), Account(client[s], holes \cup excused'[s]), client[s], m, u, ring, s,
                    fan)
    PROVE  SockPart'
<1>1. PICK c, g : c = client[s] /\ g = fan
    OBVIOUS
<1>2. /\ g \in Fan /\ client = [client EXCEPT ![s] = client[s]]
      /\ g.todo # {} => g.seq \in Seqs
      /\ \A t \in Subs : t \in g.on /\ g.frames # <<>> => g.on = {t}
    BY <1>1, SoloFacts
<1>3. /\ client' = [client EXCEPT ![s] = c] /\ fan' = g /\ UNCHANGED busVars
    BY <1>1, <1>2
<1>4. \A t \in Subs : t # s /\ t \in g.on /\ g.frames # <<>> =>
             t \in fan.on /\ g.on = {t} /\ g.frames = fan.frames /\ g.seq = fan.seq
    BY <1>1, <1>2
<1>5. ClientOk(Wants(s), Account(c, holes \cup excused'[s]), c, m, u, ring, s, g)
    BY <1>1
<1> QED BY <1>2, <1>3, <1>4, <1>5, OkStep

\* tickHeartbeat pushes subscribe.closed.
LEMMA ReapPushKept ==
    ASSUME SocketInv, NEW s \in Subs, ReapPush(s)
    PROVE  SockPart'
<1>0. CASE HangUp(s)
  <2>1. UNCHANGED <<busVars, client, excused>>
    BY DEF ReapPush
  <2> QED BY <1>0, <2>1, HangUpKept
<1>1. CASE ~HangUp(s)
  <2>f. /\ sub[s] \in Sub /\ mail[s] \in Seq(Frame) /\ client[s] \in Reader /\ fan \in Fan
        /\ sub \in [Subs -> Sub]
        /\ client = [client EXCEPT ![s] = client[s]]
        /\ Grows(excused, excused, Subs \cup Tails)
        /\ seq \in Nat /\ Wants(s) \in SUBSET Seqs
        /\ fan.todo # {} => fan.seq \in Seqs
        /\ \A t \in Subs : t \in fan.on /\ fan.frames # <<>> => fan.on = {t}
    BY SoloFacts
  <2>1. PICK W, acc, c, m, v, g, rows :
          /\ W = Wants(s) /\ acc = Account(client[s], holes \cup excused[s]) /\ c = client[s]
          /\ m = mail[s] /\ v = sub[s] /\ g = fan /\ rows = ring
    OBVIOUS
  <2>2. ClientOk(W, acc, c, m, v, rows, s, g)
    BY <2>1, OkFacts
  <2>3. /\ v \in Sub /\ m \in Seq(Frame) /\ c \in Reader /\ W \in SUBSET Seqs
        /\ v.cursor \in Nat /\ v.cursor <= MaxSeq /\ v.pc = "reap"
    BY <2>f, <2>1, SubFields DEF ReapPush
  <2> DEFINE f == ClosedFrame(v.cursor)
             u == [v EXCEPT !.pc = "closing"]
  <2>4. f \in Frame /\ f.type = "closed" /\ f.lo = v.cursor
    BY <2>3, FramesTyped
  <2>5. u \in Sub /\ u.pc = "closing" /\ u.last = v.last /\ u.cursor = v.cursor
    BY <2>3 DEF Sub
  <2>6. /\ mail' = [mail EXCEPT ![s] = Append(m, f)] /\ sub' = [sub EXCEPT ![s] = u]
        /\ UNCHANGED <<fan, busVars, client, excused>>
    BY <1>1, <2>f, <2>1 DEF ReapPush, Post
  <2> HIDE DEF f, u
  <2>7. /\ v.cursor <= MaxSeq /\ Promise(W, acc, c, m, v.cursor, Len(m))
        /\ v.cursor > 0 => Begun(c, m)
        /\ SentOk(W, acc, c, m, v) /\ FanOk(W, acc, c, m, v, s, g)
    BY <2>2, <2>3 DEF ClientOk, SentOk
  <2>8. Promise(W, acc, c, Append(m, f), v.cursor, Len(Append(m, f)))
    <3>1. \A n \in W : Started(c, m, n) /\ n <= v.cursor => Told(acc, m, Len(m), n) \/ Covers(f, n)
        BY <2>7 DEF Promise
    <3> QED BY <2>3, <2>4, <3>1, PromisePosted
  <2>9. ClientOk(W, acc, c, Append(m, f), v, rows, s, g)
    BY <2>2, <2>3, <2>4, <2>7, <2>8, PostOk
  <2>10. ClientOk(W, acc, c, Append(m, f), u, rows, s, g)
    <3>1. PICK m2 : m2 = Append(m, f)
        OBVIOUS
    <3>2. /\ m2 \in Seq(Frame) /\ SentOk(W, acc, c, m2, v) /\ FanOk(W, acc, c, m2, v, s, g)
          /\ ReadOk(W, acc, c, m2)
        BY <2>9, <3>1 DEF ClientOk
    <3>3. /\ SentOk(W, acc, c, m2, u) /\ ReplayOk(acc, m2, u, rows)
          /\ FanOk(W, acc, c, m2, u, s, g)
        BY <2>3, <2>5, <3>2, Turned
    <3> QED BY <2>3, <3>1, <3>2, <3>3 DEF ClientOk
  <2>11. /\ Grows(excused, excused', Subs \cup Tails)
         /\ ClientOk(Wants(s), Account(client[s], holes \cup excused'[s]), client[s], Append(m, f), u,
                     ring, s, fan)
    BY <2>f, <2>1, <2>6, <2>10
  <2> QED BY <2>5, <2>6, <2>11, OkStill
<1> QED BY <1>0, <1>1

\* What lies between a cursor and a row of the ring is in the ring, never got
\* there, or was evicted.
LEMMA GapBehind ==
    ASSUME BusTypes, OrderInv, NEW k \in 0..MaxSeq
    PROVE  \A x \in Seqs, r \in ring : k < x /\ x <= r => x \in ring \cup holes \cup Behind(k)
<1>t. ring \subseteq Seqs /\ MaxSeq \in Nat
    BY EventStreamAssumption DEF BusTypes
<1> SUFFICES ASSUME NEW x \in Seqs, NEW r \in ring, k < x, x <= r, x \notin ring, x \notin holes
             PROVE  x \in Behind(k)
    OBVIOUS
<1>1. Below(x)
    BY DEF OrderInv, Done
<1>2. OldestSeq \in ring /\ OldestSeq \in Nat
    BY <1>t, NewestAndOldest
<1>3. x < OldestSeq
    BY <1>1, <1>2 DEF Below
<1> QED BY <1>t, <1>2, <1>3 DEF Behind, Seqs

\* A replay that has its gap behind it.
LEMMA RangeOk ==
    ASSUME NEW W, NEW acc, NEW c, NEW m, NEW u, NEW u2, NEW rows, NEW s, NEW g,
           ClientOk(W, acc, c, m, u, rows, s, g), u.pc = "oldest",
           u2.pc = "range", u2.last = u.last, u2.cursor = u.cursor, u2.since = u.since,
           Bridged(acc, m, u.cursor, rows, rows)
    PROVE  ClientOk(W, acc, c, m, u2, rows, s, g)
<1>1. /\ c \in Reader /\ m \in Seq(Frame)
      /\ ReadOk(W, acc, c, m) /\ SentOk(W, acc, c, m, u)
      /\ ReplayOk(acc, m, u, rows) /\ FanOk(W, acc, c, m, u, s, g)
    BY DEF ClientOk
<1>2. SentOk(W, acc, c, m, u2) /\ FanOk(W, acc, c, m, u2, s, g)
    BY <1>1, SentAlike
<1>3. ReplayOk(acc, m, u2, rows)
    BY <1>1 DEF ReplayOk
<1> QED BY <1>1, <1>2, <1>3 DEF ClientOk

\* A client that accounts for more and wants no more.
LEMMA OkGrows ==
    ASSUME NEW W, NEW W2, W2 \subseteq W, NEW acc, NEW acc2, acc \subseteq acc2, NEW c, NEW m,
           NEW u, NEW rows, NEW s, NEW g, ClientOk(W, acc, c, m, u, rows, s, g)
    PROVE  ClientOk(W2, acc2, c, m, u, rows, s, g)
<1>1. /\ c \in Reader /\ m \in Seq(Frame)
      /\ ReadOk(W, acc, c, m) /\ SentOk(W, acc, c, m, u)
      /\ ReplayOk(acc, m, u, rows) /\ FanOk(W, acc, c, m, u, s, g)
    BY DEF ClientOk
<1>4. ReadOk(W2, acc2, c, m)
    BY <1>1, QuietRead
<1>5. SentOk(W2, acc2, c, m, u)
    BY <1>1, QuietSent
<1>6. ReplayOk(acc2, m, u, rows)
    BY <1>1, QuietReplay
<1>7. FanOk(W2, acc2, c, m, u, s, g)
  <2>1. s \in g.on /\ g.frames # <<>> => g.on = {s}
    BY <1>1 DEF FanOk
  <2> QED BY <1>1, <2>1, QuietFan
<1> QED BY <1>1, <1>4, <1>5, <1>6, <1>7 DEF ClientOk

\* emitEvictionGap: the evicted numbers are named, or excused when OldestSeq
\* failed.
LEMMA EvictionGapKept ==
    ASSUME SocketInv, NEW s \in Subs, EmitEvictionGap(s)
    PROVE  SockPart'
<1>f. /\ sub[s] \in Sub /\ mail[s] \in Seq(Frame) /\ client[s] \in Reader /\ fan \in Fan
      /\ sub \in [Subs -> Sub] /\ mail = [mail EXCEPT ![s] = mail[s]]
      /\ Grows(excused, excused, Subs \cup Tails)
      /\ seq \in Nat /\ Wants(s) \in SUBSET Seqs /\ ring \subseteq Seqs
    BY SoloFacts
<1>b. /\ BusTypes /\ OrderInv /\ excused \in [Subs \cup Tails -> SUBSET Int] /\ errors \in Nat
    BY DEF SocketInv, BusTypes
<1>1. PICK W, c, m, v, g, rows, k :
        /\ W = Wants(s) /\ c = client[s] /\ m = mail[s] /\ v = sub[s] /\ g = fan /\ rows = ring
        /\ k = sub[s].cursor
    OBVIOUS
<1>2. PICK acc : acc = Account(client[s], holes \cup excused[s])
    OBVIOUS
<1>3. ClientOk(W, acc, c, m, v, rows, s, g)
    BY <1>1, <1>2, OkFacts
<1>4. /\ v \in Sub /\ m \in Seq(Frame) /\ c \in Reader /\ W \in SUBSET Seqs
      /\ v.pc = "oldest" /\ k \in 0..MaxSeq /\ k \in Nat
    BY <1>f, <1>1, SubFields DEF EmitEvictionGap
<1>5. v.cursor = k /\ v.since = k /\ sub[s].since = k
    BY <1>1, <1>3, <1>4 DEF ClientOk, ReplayOk
<1> DEFINE u == [v EXCEPT !.pc = "range"]
<1>6. u \in Sub /\ u.pc = "range" /\ u.last = v.last /\ u.cursor = v.cursor /\ u.since = v.since
    BY <1>4 DEF Sub
<1>u. [sub EXCEPT ![s].pc = "range"] = [sub EXCEPT ![s] = u]
    BY <1>f, <1>1
<1> HIDE DEF u
<1>g. \A x \in Seqs, r \in rows : k < x /\ x <= r => x \in rows \cup holes \cup Behind(k)
    BY <1>b, <1>1, <1>4, GapBehind
<1>h. holes \subseteq acc
    BY <1>2 DEF Account
<1>o. OldestSeq \in Nat
    BY <1>f, NewestAndOldest, EventStreamAssumption
<1>7. UNCHANGED <<busVars, client>>
    BY DEF EmitEvictionGap
<1>8. CASE HangUp(s) /\ UNCHANGED errors
  <2>1. UNCHANGED excused
    BY <1>8 DEF EmitEvictionGap
  <2> QED BY <1>7, <1>8, <2>1, HangUpKept
<1>9. CASE /\ Evicted(s) /\ Post(s, DropFrame(sub[s].since + 1, OldestSeq - 1))
           /\ sub' = [sub EXCEPT ![s].pc = "range"] /\ UNCHANGED <<fan, errors>>
  <2> DEFINE f == DropFrame(k + 1, OldestSeq - 1)
  <2>1. OldestSeq > k + 1
    BY <1>5, <1>9 DEF Evicted
  <2>2. k + 1 \in Nat /\ OldestSeq - 1 \in Nat
    BY <1>4, <1>o, <2>1
  <2>3. f \in Frame /\ f.type = "drop" /\ f.lo = k + 1 /\ f.hi = OldestSeq - 1
    BY <2>2, FramesTyped
  <2>4. mail' = [mail EXCEPT ![s] = Append(m, f)] /\ UNCHANGED <<fan, excused>>
    BY <1>f, <1>1, <1>5, <1>9 DEF Post, EmitEvictionGap
  <2>5. \A x \in Seqs : x \in Behind(k) => Covers(f, x)
    <3>1. \A x \in Seqs : x \in Behind(k) => k + 1 <= x /\ x <= OldestSeq - 1
        BY <1>4, <1>o DEF Behind
    <3> QED BY <2>3, <3>1 DEF Covers
  <2> HIDE DEF f
  <2>6. ClientOk(W, acc, c, Append(m, f), v, rows, s, g)
    BY <1>3, <1>4, <2>3, PostOk
  <2>7. Bridged(acc, Append(m, f), v.cursor, rows, rows)
    <3>1. \A x : x \in acc \/ Covers(f, x) => Told(acc, Append(m, f), Len(Append(m, f)), x)
      <4>1. \A x : x \in acc => Told(acc, m, Len(m), x)
        BY DEF Told
      <4> QED BY <1>4, <2>3, <4>1, PostedTold
    <3> QED BY <1>5, <1>g, <1>h, <2>5, <3>1 DEF Bridged
  <2>8. ClientOk(W, acc, c, Append(m, f), u, rows, s, g)
    BY <1>4, <1>6, <2>6, <2>7, RangeOk
  <2>9. ClientOk(Wants(s), Account(client[s], holes \cup excused'[s]), client[s], Append(m, f), u,
                 ring, s, fan) /\ Grows(excused, excused', Subs \cup Tails)
    BY <1>f, <1>1, <1>2, <2>4, <2>8
  <2> QED BY <1>6, <1>7, <1>9, <1>u, <2>4, <2>9, OkStill
<1>10. CASE ~Evicted(s) /\ sub' = [sub EXCEPT ![s].pc = "range"] /\ UNCHANGED <<fan, mail, errors>>
  <2>1. Behind(k) \cap Seqs = {}
    <3>1. ~(OldestSeq > k + 1)
        BY <1>5, <1>10 DEF Evicted
    <3>2. \A x \in Int : ~(k + 1 <= x /\ x <= OldestSeq - 1)
        BY <1>4, <1>o, <3>1
    <3> QED BY <1>4, <1>o, <3>2 DEF Behind
  <2>2. Bridged(acc, m, v.cursor, rows, rows)
    BY <1>5, <1>g, <1>h, <2>1 DEF Bridged, Told
  <2>3. ClientOk(W, acc, c, m, u, rows, s, g)
    BY <1>3, <1>4, <1>6, <2>2, RangeOk
  <2>4. mail' = [mail EXCEPT ![s] = m] /\ UNCHANGED <<fan, excused>>
    BY <1>f, <1>1, <1>10 DEF EmitEvictionGap
  <2>5. ClientOk(Wants(s), Account(client[s], holes \cup excused'[s]), client[s], m, u,
                 ring, s, fan) /\ Grows(excused, excused', Subs \cup Tails)
    BY <1>f, <1>1, <1>2, <2>3, <2>4
  <2> QED BY <1>6, <1>7, <1>10, <1>u, <2>4, <2>5, OkStill
<1>11. CASE Fails("oldest") /\ sub' = [sub EXCEPT ![s].pc = "range"] /\ UNCHANGED <<fan, mail>>
  <2> DEFINE A == Behind(k)
  <2>1. errors' # errors
    BY <1>b, <1>11 DEF Fails
  <2>2. excused' = [excused EXCEPT ![s] = @ \cup A]
    BY <1>5, <2>1 DEF EmitEvictionGap
  <2>3. A \in SUBSET Int
    BY DEF Behind
  <2> HIDE DEF A
  <2>4. Grows(excused, excused', Subs \cup Tails) /\ A \subseteq excused'[s]
    BY <1>b, <2>2, <2>3, GrowsByOne
  <2>5. PICK acc2 : acc2 = Account(client[s], holes \cup excused'[s])
    OBVIOUS
  <2>6. acc \subseteq acc2 /\ A \subseteq acc2
    BY <1>2, <2>4, <2>5 DEF Account, Grows
  <2>7. Bridged(acc2, m, v.cursor, rows, rows)
    <3>1. \A x \in Seqs, r \in rows : k < x /\ x <= r => x \in rows \/ x \in acc2
        BY <1>g, <1>h, <2>6 DEF A
    <3> QED BY <1>5, <3>1 DEF Bridged, Told
  <2>8. ClientOk(W, acc2, c, m, v, rows, s, g)
    BY <1>3, <1>4, <2>6, OkGrows
  <2>9. ClientOk(W, acc2, c, m, u, rows, s, g)
    BY <1>4, <1>6, <2>7, <2>8, RangeOk
  <2>10. mail' = [mail EXCEPT ![s] = m] /\ UNCHANGED fan
    BY <1>f, <1>1, <1>11
  <2>11. ClientOk(Wants(s), Account(client[s], holes \cup excused'[s]), client[s], m, u, ring, s, fan)
    BY <1>1, <2>5, <2>9
  <2> QED BY <1>6, <1>7, <1>11, <1>u, <2>4, <2>10, <2>11, OkStill
<1> QED BY <1>8, <1>9, <1>10, <1>11 DEF EmitEvictionGap

\* The Range query.
LEMMA PollRingKept ==
    ASSUME SocketInv, NEW s \in Subs, PollRing(s)
    PROVE  SockPart'
<1>f. /\ sub[s] \in Sub /\ mail[s] \in Seq(Frame) /\ client[s] \in Reader /\ fan \in Fan
      /\ sub \in [Subs -> Sub] /\ mail = [mail EXCEPT ![s] = mail[s]]
      /\ Grows(excused, excused, Subs \cup Tails)
      /\ seq \in Nat /\ Wants(s) \in SUBSET Seqs /\ ring \subseteq Seqs /\ ring \subseteq 1..seq
    BY SoloFacts
<1>1. PICK W, c, m, v, g, rows, k, acc, b :
        /\ W = Wants(s) /\ c = client[s] /\ m = mail[s] /\ v = sub[s] /\ g = fan /\ rows = ring
        /\ k = sub[s].cursor /\ acc = Account(client[s], holes \cup excused[s])
        /\ b = Rows(sub[s].cursor)
    OBVIOUS
<1>3. ClientOk(W, acc, c, m, v, rows, s, g)
    BY <1>1, OkFacts
<1>4. /\ v \in Sub /\ m \in Seq(Frame) /\ c \in Reader /\ W \in SUBSET Seqs
      /\ v.pc = "range" /\ k \in 0..MaxSeq /\ k \in Nat /\ v.cursor = k
    BY <1>f, <1>1, SubFields DEF PollRing
<1>5. UNCHANGED <<busVars, fan, mail, client, excused>>
    BY DEF PollRing
<1>6. /\ ReadOk(W, acc, c, m) /\ SentOk(W, acc, c, m, v)
      /\ ReplayOk(acc, m, v, rows) /\ FanOk(W, acc, c, m, v, s, g)
    BY <1>3 DEF ClientOk
<1>b. /\ b \in SUBSET Seqs /\ \A n \in b : n \in rows /\ n > k /\ n <= n
      /\ \A n \in b, x \in rows : k < x /\ x <= n => x \in b
  <2>1. \A n \in b : n \in rows /\ n > k
    BY <1>1, RowsAreRows
  <2>2. \A n \in b, x \in rows : k < x /\ x <= n => x \in b
    BY <1>f, <1>1, <1>4, RowsFromOldest
  <2>3. \A n \in rows : n <= n
    BY <1>f, <1>1 DEF Seqs
  <2> QED BY <1>f, <1>1, <2>1, <2>2, <2>3
<1>7. ASSUME NEW u \in Sub, sub' = [sub EXCEPT ![s] = u],
             ClientOk(W, acc, c, m, u, rows, s, g)
      PROVE  SockPart'
  <2>1. mail' = [mail EXCEPT ![s] = m]
    BY <1>f, <1>1, <1>5
  <2>2. ClientOk(Wants(s), Account(client[s], holes \cup excused'[s]), client[s], m, u,
                 ring, s, fan) /\ Grows(excused, excused', Subs \cup Tails)
    BY <1>f, <1>1, <1>5, <1>7
  <2> QED BY <1>5, <1>7, <2>1, <2>2, OkStill
<1>8. ASSUME NEW u \in Sub, u.pc = "register", u.last = v.last, u.cursor = v.cursor
      PROVE  ClientOk(W, acc, c, m, u, rows, s, g)
  <2>1. /\ SentOk(W, acc, c, m, u) /\ ReplayOk(acc, m, u, rows)
        /\ FanOk(W, acc, c, m, u, s, g)
    BY <1>4, <1>6, <1>8, Turned
  <2> QED BY <1>4, <1>6, <2>1 DEF ClientOk
<1>9. CASE sub' = [sub EXCEPT ![s].pc = "register"]
  <2> DEFINE u == [v EXCEPT !.pc = "register"]
  <2>1. u \in Sub /\ u.pc = "register" /\ u.last = v.last /\ u.cursor = v.cursor
    BY <1>4 DEF Sub
  <2>2. sub' = [sub EXCEPT ![s] = u]
    BY <1>f, <1>1, <1>9
  <2> HIDE DEF u
  <2> QED BY <1>7, <1>8, <2>1, <2>2
<1>10. CASE sub' = [sub EXCEPT ![s].batch = b, ![s].more = Cardinality(b) = Batch,
                               ![s].pc = IF b = {} THEN "register" ELSE "push"]
  <2>0. PICK more, pc : more = (Cardinality(b) = Batch) /\ pc = IF b = {} THEN "register" ELSE "push"
    OBVIOUS
  <2> DEFINE u == [v EXCEPT !.batch = b, !.more = more, !.pc = pc]
  <2>1. more \in BOOLEAN /\ pc \in {"register", "push"}
    BY <2>0
  <2>2. /\ u \in Sub /\ u.pc = pc /\ u.batch = b /\ u.last = v.last /\ u.cursor = v.cursor
        /\ u.since = v.since
    BY <1>4, <1>b, <2>1 DEF Sub
  <2>3. sub' = [sub EXCEPT ![s] = u]
    BY <1>f, <1>1, <1>10, <2>0
  <2> HIDE DEF u
  <2>4. CASE b = {}
    BY <1>7, <1>8, <2>0, <2>2, <2>3, <2>4
  <2>5. CASE b # {}
    <3>1. pc = "push"
        BY <2>0, <2>5
    <3>2. SentOk(W, acc, c, m, u) /\ FanOk(W, acc, c, m, u, s, g)
        BY <1>4, <1>6, <2>2, <3>1, SentAlike
    <3>3. Bridged(acc, m, k, rows, rows) /\ v.since <= k /\ v.last > 0
        BY <1>4, <1>6 DEF ReplayOk
    <3>4. Bridged(acc, m, k, b, b)
      <4> SUFFICES ASSUME NEW x \in Seqs, NEW r \in b, k < x, x <= r
                   PROVE  x \in b \/ Told(acc, m, Len(m), x)
        BY DEF Bridged
      <4>1. x \in rows \/ Told(acc, m, Len(m), x)
        BY <1>b, <3>3 DEF Bridged
      <4> QED BY <1>b, <4>1
    <3>5. Bridged(acc, m, k, rows \cup b, rows)
        BY <3>3 DEF Bridged
    <3>6. \A n \in b : k < n /\ \E r \in rows : n <= r
        BY <1>f, <1>4, <1>b DEF Seqs
    <3>7. ReplayOk(acc, m, u, rows)
        BY <1>4, <2>2, <2>5, <3>1, <3>3, <3>4, <3>5, <3>6 DEF ReplayOk
    <3>8. ClientOk(W, acc, c, m, u, rows, s, g)
        BY <1>4, <1>6, <3>2, <3>7 DEF ClientOk
    <3> QED BY <1>7, <2>2, <2>3, <3>8
  <2> QED BY <2>4, <2>5
<1> QED BY <1>1, <1>9, <1>10 DEF PollRing

\* The replay advances to the first row of its batch, once that is accounted for.
LEMMA AdvanceOk ==
    ASSUME NEW W \in SUBSET Seqs, NEW acc, NEW c, NEW m, NEW u \in Sub, NEW u2, NEW rows, NEW s,
           NEW g, NEW n \in Nat,
           ClientOk(W, acc, c, m, u, rows, s, g), u.pc = "push",
           n \in u.batch, \A x \in u.batch : n <= x, Promise(W, acc, c, m, n, Len(m)),
           u2.cursor = n, u2.batch = u.batch \ {n}, u2.since = u.since,
           u2.last = (IF n > u.last THEN n ELSE u.last),
           \/ u2.pc = "push" /\ u2.batch # {}
           \/ u2.pc = "range" /\ u2.batch = {}
           \/ u2.pc = "register"
    PROVE  ClientOk(W, acc, c, m, u2, rows, s, g)
<1>1. /\ c \in Reader /\ m \in Seq(Frame)
      /\ ReadOk(W, acc, c, m) /\ SentOk(W, acc, c, m, u)
      /\ ReplayOk(acc, m, u, rows) /\ FanOk(W, acc, c, m, u, s, g)
    BY DEF ClientOk
<1>2. /\ u.last \in Nat /\ u.cursor \in Nat /\ u.since \in Nat /\ u.batch \in SUBSET Seqs
      /\ \A x \in u.batch : x \in Nat
    BY SubFields DEF Seqs
<1>3. /\ u.last > 0 /\ u.since <= u.cursor /\ u.cursor < n
      /\ Bridged(acc, m, u.cursor, u.batch, u.batch)
      /\ Bridged(acc, m, u.cursor, rows \cup u.batch, rows)
      /\ \A x \in u.batch : \E r \in rows : x <= r
    BY <1>1 DEF ReplayOk
<1>4. /\ Promise(W, acc, c, m, u.last, Len(m)) /\ Begun(c, m)
    BY <1>1, <1>3 DEF SentOk
<1>5. u2.last > 0 /\ Promise(W, acc, c, m, u2.last, Len(m)) /\ u2.pc # "off"
    BY <1>2, <1>3, <1>4
<1>6. SentOk(W, acc, c, m, u2)
    BY <1>3, <1>4, <1>5 DEF SentOk
<1>7. FanOk(W, acc, c, m, u2, s, g)
    BY <1>1, <1>5 DEF FanOk
<1>8. \A x \in Seqs : n < x => u.cursor < x /\ x # n
    BY <1>2, <1>3 DEF Seqs
<1>9. \A x \in u2.batch : n < x /\ \E r \in rows : x <= r
    BY <1>2, <1>3
<1>10. Bridged(acc, m, n, u2.batch, u2.batch)
  <2> SUFFICES ASSUME NEW x \in Seqs, NEW r \in u2.batch, n < x, x <= r
               PROVE  x \in u2.batch \/ Told(acc, m, Len(m), x)
    BY DEF Bridged
  <2>1. u.cursor < x /\ x # n /\ r \in u.batch
    BY <1>8
  <2>2. x \in u.batch \/ Told(acc, m, Len(m), x)
    BY <1>3, <2>1 DEF Bridged
  <2> QED BY <2>1, <2>2
<1>11. Bridged(acc, m, n, rows \cup u2.batch, rows)
  <2> SUFFICES ASSUME NEW x \in Seqs, NEW r \in rows, n < x, x <= r
               PROVE  x \in rows \cup u2.batch \/ Told(acc, m, Len(m), x)
    BY DEF Bridged
  <2>1. u.cursor < x /\ x # n
    BY <1>8
  <2>2. x \in rows \cup u.batch \/ Told(acc, m, Len(m), x)
    BY <1>3, <2>1 DEF Bridged
  <2> QED BY <2>1, <2>2
<1>12. u2.batch = {} => Bridged(acc, m, n, rows, rows)
  <2>1. u2.batch = {} => rows \cup u2.batch = rows
    OBVIOUS
  <2> QED BY <1>11, <2>1
<1>13. u2.since <= n
    BY <1>2, <1>3
<1>14. ReplayOk(acc, m, u2, rows)
    BY <1>5, <1>9, <1>10, <1>11, <1>12, <1>13 DEF ReplayOk
<1> QED BY <1>1, <1>6, <1>7, <1>14 DEF ClientOk

\* Up to the first row of its batch a replay owes nothing but that row.
LEMMA NextRow ==
    ASSUME NEW W \in SUBSET Seqs, NEW acc, NEW c, NEW m, NEW u \in Sub, NEW rows, NEW s,
           NEW g, NEW n \in Nat,
           ClientOk(W, acc, c, m, u, rows, s, g), u.pc = "push",
           n \in u.batch, \A x \in u.batch : n <= x
    PROVE  /\ \A x \in W : Started(c, m, x) /\ x <= n => Told(acc, m, Len(m), x) \/ x = n
           /\ u.since < n /\ n > 0 /\ Begun(c, m)
<1>1. SentOk(W, acc, c, m, u) /\ ReplayOk(acc, m, u, rows)
    BY DEF ClientOk
<1>2. /\ u.cursor \in Nat /\ u.since \in Nat /\ u.batch \in SUBSET Seqs
      /\ \A x \in u.batch : x \in Nat
    BY SubFields DEF Seqs
<1>3. /\ u.last > 0 /\ u.since <= u.cursor /\ u.cursor < n
      /\ Bridged(acc, m, u.cursor, u.batch, u.batch)
    BY <1>1 DEF ReplayOk
<1>4. Promise(W, acc, c, m, u.cursor, Len(m)) /\ Begun(c, m)
    BY <1>1, <1>3 DEF SentOk
<1>5. ASSUME NEW x \in W, Started(c, m, x), x <= n PROVE Told(acc, m, Len(m), x) \/ x = n
  <2>1. x \in Seqs /\ x \in Nat
    BY DEF Seqs
  <2>2. CASE x <= u.cursor
    BY <1>4, <1>5, <2>2 DEF Promise
  <2>3. CASE ~(x <= u.cursor)
    <3>1. x \in u.batch \/ Told(acc, m, Len(m), x)
        BY <1>2, <1>3, <1>5, <2>1, <2>3 DEF Bridged
    <3> QED BY <1>5, <2>1, <3>1
  <2> QED BY <2>2, <2>3
<1> QED BY <1>2, <1>3, <1>4, <1>5

\* pushReplayRecord
LEMMA ReplayRecordKept ==
    ASSUME SocketInv, NEW s \in Subs, PushReplayRecord(s)
    PROVE  SockPart'
<1>0. UNCHANGED <<busVars, client, excused>>
    BY DEF PushReplayRecord
<1>1. CASE HangUp(s)
    BY <1>0, <1>1, HangUpKept
<1>2. CASE ~HangUp(s)
  <2>f. /\ sub[s] \in Sub /\ mail[s] \in Seq(Frame) /\ client[s] \in Reader /\ fan \in Fan
        /\ sub \in [Subs -> Sub] /\ mail = [mail EXCEPT ![s] = mail[s]]
        /\ Grows(excused, excused, Subs \cup Tails)
        /\ seq \in Nat /\ Wants(s) \in SUBSET Seqs
    BY SoloFacts
  <2>1. PICK W, c, m, v, g, rows, acc, n :
          /\ W = Wants(s) /\ c = client[s] /\ m = mail[s] /\ v = sub[s] /\ g = fan /\ rows = ring
          /\ acc = Account(client[s], holes \cup excused[s])
          /\ n = Smallest(sub[s].batch)
    OBVIOUS
  <2>2. ClientOk(W, acc, c, m, v, rows, s, g)
    BY <2>1, OkFacts
  <2>3. /\ v \in Sub /\ m \in Seq(Frame) /\ c \in Reader /\ W \in SUBSET Seqs
        /\ v.pc = "push" /\ v.batch \in SUBSET Seqs /\ v.last \in 0..MaxSeq
    BY <2>f, <2>1, SubFields DEF PushReplayRecord
  <2>4. v.batch # {}
    BY <2>2, <2>3 DEF ClientOk, ReplayOk
  <2>5. n \in v.batch /\ (\A x \in v.batch : n <= x) /\ n \in Seqs
    BY <2>1, <2>3, <2>4, Extremes
  <2>6. n \in Nat /\ n \in 0..MaxSeq /\ n <= MaxSeq
    BY <2>5, EventStreamAssumption DEF Seqs
  <2>7. /\ \A x \in W : Started(c, m, x) /\ x <= n => Told(acc, m, Len(m), x) \/ x = n
        /\ v.since < n /\ n > 0 /\ Begun(c, m)
    BY <2>2, <2>3, <2>5, <2>6, NextRow
  <2>r. \E r \in rows : n <= r
    BY <2>2, <2>3, <2>5 DEF ClientOk, ReplayOk
  <2>8. PICK pc, last :
          /\ pc = (IF v.batch \ {n} # {} THEN "push" ELSE IF v.more THEN "range" ELSE "register")
          /\ last = (IF n > v.last THEN n ELSE v.last)
    OBVIOUS
  <2> DEFINE u == [v EXCEPT !.cursor = n, !.batch = v.batch \ {n}, !.last = last, !.pc = pc]
  <2>9. /\ u \in Sub /\ u.cursor = n /\ u.batch = v.batch \ {n} /\ u.last = last /\ u.pc = pc
        /\ u.since = v.since
    <3>1. pc \in {"push", "range", "register"} /\ last \in 0..MaxSeq /\ v.batch \ {n} \in SUBSET Seqs
        BY <2>3, <2>6, <2>8
    <3> QED BY <2>3, <2>6, <3>1 DEF Sub
  <2>10. [sub EXCEPT ![s].cursor = n, ![s].batch = sub[s].batch \ {n},
                     ![s].last = IF n > @ THEN n ELSE @,
                     ![s].pc = IF sub[s].batch \ {n} # {} THEN "push"
                               ELSE IF sub[s].more THEN "range" ELSE "register"]
         = [sub EXCEPT ![s] = u]
    BY <2>f, <2>1, <2>8
  <2> HIDE DEF u
  <2>11. \/ u.pc = "push" /\ u.batch # {}
         \/ u.pc = "range" /\ u.batch = {}
         \/ u.pc = "register"
    BY <2>8, <2>9
  <2>12. ASSUME NEW m2, ClientOk(W, acc, c, m2, v, rows, s, g),
                Promise(W, acc, c, m2, n, Len(m2)), mail' = [mail EXCEPT ![s] = m2],
                sub' = [sub EXCEPT ![s] = u], UNCHANGED fan
         PROVE  SockPart'
    <3>1. ClientOk(W, acc, c, m2, u, rows, s, g)
        BY <2>3, <2>5, <2>6, <2>8, <2>9, <2>11, <2>12, AdvanceOk
    <3>2. ClientOk(Wants(s), Account(client[s], holes \cup excused'[s]), client[s], m2, u,
                   ring, s, fan) /\ Grows(excused, excused', Subs \cup Tails)
        BY <1>0, <2>f, <2>1, <3>1
    <3> QED BY <1>0, <2>9, <2>12, <3>2, OkStill
  <2>13. CASE ~Matches(s, n) /\ sub' = [sub EXCEPT ![s] = u] /\ UNCHANGED <<fan, mail>>
    <3>0. ~Wanted(s, n) /\ Settled(n)
        BY <2>1, <2>6, <2>7, <2>r, <2>13 DEF Matches, Settled
    <3>1. n \notin W
        BY <2>1, <3>0 DEF Wants
    <3>2. Promise(W, acc, c, m, n, Len(m))
        BY <2>7, <3>1 DEF Promise
    <3>3. mail' = [mail EXCEPT ![s] = m]
        BY <2>f, <2>1, <2>13
    <3> QED BY <2>2, <2>12, <2>13, <3>2, <3>3
  <2>14. CASE Post(s, EventFrame(n)) /\ sub' = [sub EXCEPT ![s] = u] /\ UNCHANGED fan
    <3> DEFINE f == EventFrame(n)
    <3>1. f \in Frame /\ f.type = "event" /\ f.lo = n
        BY <2>6, FramesTyped
    <3>2. mail' = [mail EXCEPT ![s] = Append(m, f)]
        BY <2>f, <2>1, <2>14 DEF Post
    <3> HIDE DEF f
    <3>3. Promise(W, acc, c, Append(m, f), n, Len(Append(m, f)))
      <4>1. \A x \in W : Started(c, m, x) /\ x <= n => Told(acc, m, Len(m), x) \/ Covers(f, x)
        BY <2>7, <3>1 DEF Covers
      <4> QED BY <2>3, <2>7, <3>1, <4>1, PromisePosted
    <3>4. ClientOk(W, acc, c, Append(m, f), v, rows, s, g)
        BY <2>2, <2>3, <2>6, <2>7, <3>1, <3>3, PostOk
    <3> QED BY <2>12, <2>14, <3>2, <3>3, <3>4
  <2> QED BY <1>2, <2>1, <2>10, <2>13, <2>14 DEF PushReplayRecord
<1> QED BY <1>1, <1>2

\* One frame, or two.
LEMMA TwoFrames ==
    ASSUME NEW a, NEW b
    PROVE  /\ <<a>> \o <<b>> = <<a, b>> /\ <<>> \o <<b>> = <<b>>
           /\ b \in Frame => <<b>> \in Seq(Frame)
           /\ a \in Frame /\ b \in Frame => <<a, b>> \in Seq(Frame)
           /\ Head(<<b>>) = b /\ Tail(<<b>>) = <<>>
           /\ Head(<<a, b>>) = a /\ Tail(<<a, b>>) = <<b>>
           /\ <<b>> # <<>> /\ <<a, b>> # <<>>
           /\ DOMAIN <<b>> = {1} /\ <<b>>[1] = b
           /\ DOMAIN <<a, b>> = {1, 2} /\ <<a, b>>[1] = a /\ <<a, b>>[2] = b
<1>1. <<>> \o <<b>> = <<b>>
    OBVIOUS
<1>2. <<a>> \o <<b>> = <<a, b>>
  <2>1. <<a>> \o <<b>> = Append(<<a>>, b)
    OBVIOUS
  <2>2. <<a, b>> = Append(<<a>>, b)
    OBVIOUS
  <2> QED BY <2>1, <2>2
<1>3. b \in Frame => <<b>> \in Seq(Frame)
    OBVIOUS
<1>4. a \in Frame /\ b \in Frame => <<a, b>> \in Seq(Frame)
    OBVIOUS
<1>5. Head(<<b>>) = b /\ Tail(<<b>>) = <<>>
    OBVIOUS
<1>6. Head(<<a, b>>) = a /\ Tail(<<a, b>>) = <<b>>
    OBVIOUS
<1>7. <<b>> # <<>> /\ <<a, b>> # <<>>
    OBVIOUS
<1>8. DOMAIN <<b>> = {1} /\ <<b>>[1] = b
    OBVIOUS
<1>9. DOMAIN <<a, b>> = {1, 2} /\ <<a, b>>[1] = a /\ <<a, b>>[2] = b
    OBVIOUS
<1> QED BY <1>1, <1>2, <1>3, <1>4, <1>5, <1>6, <1>7, <1>8, <1>9

\* fanOutEvent builds the frames under the lock.
LEMMA FanBuildKept ==
    ASSUME SocketInv, NEW s \in Subs, FanBuild(s)
    PROVE  SockPart'
<1>f. /\ sub[s] \in Sub /\ mail[s] \in Seq(Frame) /\ client[s] \in Reader /\ fan \in Fan
      /\ sub = [sub EXCEPT ![s] = sub[s]] /\ mail = [mail EXCEPT ![s] = mail[s]]
      /\ client = [client EXCEPT ![s] = client[s]]
      /\ Grows(excused, excused, Subs \cup Tails)
      /\ seq \in Nat /\ seq \in 0..MaxSeq /\ MaxSeq \in Nat /\ Wants(s) \in SUBSET Seqs
      /\ fan.todo # {} => fan.seq \in Seqs
    BY SoloFacts
<1>1. PICK W, c, m, v, rows, acc, n :
        /\ W = Wants(s) /\ c = client[s] /\ m = mail[s] /\ v = sub[s] /\ rows = ring
        /\ acc = Account(client[s], holes \cup excused[s]) /\ n = fan.seq
    OBVIOUS
<1>2. ClientOk(W, acc, c, m, v, rows, s, fan)
    BY <1>1, OkFacts
<1>3. /\ v \in Sub /\ m \in Seq(Frame) /\ c \in Reader /\ W \in SUBSET Seqs
      /\ v.last \in Nat /\ n \in Seqs /\ n \in Nat /\ n > 0 /\ n \in 0..MaxSeq
  <2>1. s \in fan.todo
    BY DEF FanBuild
  <2>2. n \in Seqs
    BY <1>f, <1>1, <2>1
  <2>3. n \in Nat /\ n > 0 /\ n \in 0..MaxSeq
    BY <1>f, <2>2 DEF Seqs
  <2>4. v.last \in Nat
    BY <1>f, <1>1, SubFields
  <2> QED BY <1>f, <1>1, <2>2, <2>3, <2>4
<1>4. PICK hit : hit = (Registered(s) /\ Matches(s, fan.seq))
    OBVIOUS
<1>5. PICK frames, on :
        /\ frames = (IF hit THEN GapFrames(s, n) \o <<EventFrame(n)>> ELSE <<>>)
        /\ on = IF hit THEN {s} ELSE {}
    OBVIOUS
<1>6. PICK f : f = [fan EXCEPT !.todo = fan.todo \ {s}, !.on = on, !.frames = frames]
    OBVIOUS
<1>7. /\ fan' = Pending(f) /\ s \in fan.todo /\ UNCHANGED <<busVars, sub, mail, client, excused>>
    BY <1>1, <1>4, <1>5, <1>6 DEF FanBuild
<1>e. EventFrame(n) \in Frame /\ EventFrame(n).type = "event" /\ EventFrame(n).lo = n
    BY <1>3, FramesTyped
<1>8. hit => /\ v.pc # "off"
             /\ \/ frames = <<EventFrame(n)>> /\ ~(v.last > 0 /\ n > v.last + 1)
                \/ /\ frames = <<DropFrame(v.last + 1, n - 1), EventFrame(n)>>
                   /\ v.last + 1 \in Nat /\ n - 1 \in Nat /\ n > v.last + 1
  <2> SUFFICES ASSUME hit PROVE /\ v.pc # "off"
             /\ \/ frames = <<EventFrame(n)>> /\ ~(v.last > 0 /\ n > v.last + 1)
                \/ /\ frames = <<DropFrame(v.last + 1, n - 1), EventFrame(n)>>
                   /\ v.last + 1 \in Nat /\ n - 1 \in Nat /\ n > v.last + 1
    OBVIOUS
  <2>1. v.pc # "off"
    BY <1>1, <1>4 DEF Registered
  <2>2. v.last + 1 \in Nat /\ n - 1 \in Nat
    BY <1>3
  <2>3. CASE v.last > 0 /\ n > v.last + 1
    <3>1. GapFrames(s, n) = <<DropFrame(v.last + 1, n - 1)>>
        BY <1>1, <2>3 DEF GapFrames
    <3>2. frames = <<DropFrame(v.last + 1, n - 1)>> \o <<EventFrame(n)>>
        BY <1>5, <3>1
    <3>3. frames = <<DropFrame(v.last + 1, n - 1), EventFrame(n)>>
        BY <3>2, TwoFrames
    <3> QED BY <2>1, <2>2, <2>3, <3>3
  <2>4. CASE ~(v.last > 0 /\ n > v.last + 1)
    <3>1. GapFrames(s, n) = <<>>
        BY <1>1, <2>4 DEF GapFrames
    <3>2. frames = <<>> \o <<EventFrame(n)>>
        BY <1>5, <3>1
    <3>3. frames = <<EventFrame(n)>>
        BY <3>2, TwoFrames
    <3> QED BY <2>1, <2>4, <3>3
  <2> QED BY <2>3, <2>4
<1>9. frames \in Seq(Frame)
  <2>1. CASE hit /\ frames = <<EventFrame(n)>>
    BY <1>e, <2>1, TwoFrames
  <2>2. CASE hit /\ frames # <<EventFrame(n)>>
    <3>1. /\ frames = <<DropFrame(v.last + 1, n - 1), EventFrame(n)>>
          /\ DropFrame(v.last + 1, n - 1) \in Frame
        BY <1>8, <2>2, FramesTyped
    <3> QED BY <1>e, <3>1, TwoFrames
  <2>3. CASE ~hit
    BY <1>5, <2>3
  <2> QED BY <2>1, <2>2, <2>3
<1>10. /\ f \in Fan /\ f.seq = n /\ f.todo = fan.todo \ {s} /\ f.on = on /\ f.frames = frames
  <2>1. on \in SUBSET Subs /\ fan.todo \ {s} \in SUBSET Subs
    BY <1>f, <1>5, FanFields
  <2> QED BY <1>f, <1>1, <1>6, <1>9, <2>1 DEF Fan
<1>11. /\ fan' \in Fan /\ fan'.todo = f.todo /\ fan'.frames = f.frames
       /\ f.todo # {} \/ f.frames # <<>> => fan' = f
    BY <1>7, <1>10, PendingFan
<1>12. FanOk(W, acc, c, m, v, s, f)
  <2> SUFFICES ASSUME s \in f.on, f.frames # <<>> PROVE FanOk(W, acc, c, m, v, s, f)
    BY DEF FanOk
  <2>1. hit /\ f.on = {s}
    BY <1>5, <1>10
  <2>2. /\ Promise(W, acc, c, m, v.last, Len(m))
        /\ Begun(c, m) <=> v.last > 0
    BY <1>2, <1>8, <2>1 DEF ClientOk, SentOk
  <2>3. ASSUME NEW x \in W, Started(c, m, x), x <= n
        PROVE  Told(acc, m, Len(m), x) \/ \E i \in DOMAIN frames : Covers(frames[i], x)
    <3>1. x \in Nat
        BY <1>3 DEF Seqs
    <3>2. v.last > 0
        BY <2>2, <2>3 DEF Begun, Started, FirstEvent
    <3>3. CASE x <= v.last
        BY <2>2, <2>3, <3>3 DEF Promise
    <3>4. CASE ~(x <= v.last) /\ x = n
      <4>1. Covers(EventFrame(n), x)
        BY <1>e, <3>4 DEF Covers
      <4>2. \E i \in DOMAIN frames : frames[i] = EventFrame(n)
        BY <1>8, <2>1
      <4> QED BY <4>1, <4>2
    <3>5. CASE ~(x <= v.last) /\ x # n
      <4>1. n > v.last + 1 /\ v.last + 1 <= x /\ x <= n - 1
        BY <1>3, <2>3, <3>1, <3>5
      <4>2. frames = <<DropFrame(v.last + 1, n - 1), EventFrame(n)>> /\ v.last + 1 \in Nat /\ n - 1 \in Nat
        BY <1>8, <2>1, <3>2, <4>1
      <4>3. Covers(DropFrame(v.last + 1, n - 1), x)
        BY <4>1, <4>2, FramesTyped DEF Covers
      <4>4. 1 \in DOMAIN frames /\ frames[1] = DropFrame(v.last + 1, n - 1)
        BY <4>2
      <4> QED BY <4>3, <4>4
    <3> QED BY <3>3, <3>4, <3>5
  <2>4. \/ f.frames = <<EventFrame(f.seq)>>
        \/ \E lo, hi \in Nat : f.frames = <<DropFrame(lo, hi), EventFrame(f.seq)>>
    BY <1>8, <1>10, <2>1
  <2>5. v.pc # "off" /\ f.seq \in Seqs
    BY <1>3, <1>8, <1>10, <2>1
  <2> QED BY <1>10, <2>1, <2>3, <2>4, <2>5 DEF FanOk
<1>13. FanOk(W, acc, c, m, v, s, fan')
  <2>1. CASE f.frames # <<>>
    BY <1>11, <1>12, <2>1
  <2>2. CASE f.frames = <<>>
    BY <1>11, <2>2 DEF FanOk
  <2> QED BY <2>1, <2>2
<1>14. ClientOk(W, acc, c, m, v, rows, s, fan')
    BY <1>2, <1>13 DEF ClientOk
<1>15. PICK g \in Fan : g = fan'
    BY <1>11
<1>16. g.todo # {} => g.seq \in Seqs
  <2>1. g.todo # {} => g = f
    BY <1>11, <1>15
  <2> QED BY <1>1, <1>3, <1>10, <2>1
<1>17. \A t \in Subs : ~(t # s /\ t \in g.on /\ g.frames # <<>>)
  <2>1. g.frames # <<>> => g = f
    BY <1>11, <1>15
  <2> QED BY <1>5, <1>10, <2>1
<1>18. /\ sub' = [sub EXCEPT ![s] = v] /\ mail' = [mail EXCEPT ![s] = m]
       /\ client' = [client EXCEPT ![s] = c] /\ fan' = g /\ UNCHANGED busVars
       /\ Grows(excused, excused', Subs \cup Tails)
       /\ ClientOk(Wants(s), Account(c, holes \cup excused'[s]), c, m, v, ring, s, g)
    BY <1>f, <1>1, <1>7, <1>14, <1>15
<1> QED BY <1>3, <1>15, <1>16, <1>17, <1>18, OkStep

\* The stream.drop of a pushed pair: the event is still to come.
LEMMA FanDropOk ==
    ASSUME NEW W, NEW acc, NEW c, NEW m, NEW u, NEW rows, NEW s, NEW g, NEW g2,
           ClientOk(W, acc, c, m, u, rows, s, g), s \in g.on, NEW lo \in Nat, NEW hi \in Nat,
           g.frames = <<DropFrame(lo, hi), EventFrame(g.seq)>>,
           g2.on = g.on, g2.seq = g.seq, g2.frames = <<EventFrame(g.seq)>>
    PROVE  ClientOk(W, acc, c, Append(m, DropFrame(lo, hi)), u, rows, s, g2)
<1>1. PICK d, e : d = DropFrame(lo, hi) /\ e = EventFrame(g.seq)
    OBVIOUS
<1>2. d \in Frame /\ d.type = "drop"
    BY <1>1, FramesTyped
<1>3. PICK m2 : m2 = Append(m, d)
    OBVIOUS
<1>4. g.frames = <<d, e>> /\ g.frames # <<>> /\ g2.frames = <<e>>
    BY <1>1, TwoFrames
<1>5. /\ g.on = {s} /\ u.pc # "off" /\ g.seq \in Seqs
      /\ \A n \in W : Started(c, m, n) /\ n <= g.seq =>
           Told(acc, m, Len(m), n) \/ \E i \in DOMAIN g.frames : Covers(g.frames[i], n)
    BY <1>4 DEF ClientOk, FanOk
<1>6. c \in Reader /\ m \in Seq(Frame)
    BY DEF ClientOk
<1>7. ClientOk(W, acc, c, m2, u, rows, s, g)
    BY <1>2, <1>3, <1>5, PostOk
<1>8. \A n : /\ Started(c, m2, n) <=> Started(c, m, n)
             /\ Told(acc, m2, Len(m2), n) <=> Told(acc, m, Len(m), n) \/ Covers(d, n)
    BY <1>2, <1>3, <1>6, PostedStarted, PostedTold
<1>9. \A n : (\E i \in DOMAIN g.frames : Covers(g.frames[i], n)) => Covers(d, n) \/ Covers(e, n)
    BY <1>4, TwoFrames
<1>10. \A n : Covers(e, n) => \E i \in DOMAIN g2.frames : Covers(g2.frames[i], n)
    BY <1>4, TwoFrames
<1>11. \A n \in W : Started(c, m2, n) /\ n <= g2.seq =>
           Told(acc, m2, Len(m2), n) \/ \E i \in DOMAIN g2.frames : Covers(g2.frames[i], n)
    BY <1>5, <1>8, <1>9, <1>10
<1>12. FanOk(W, acc, c, m2, u, s, g2)
    BY <1>5, <1>11 DEF FanOk
<1> QED BY <1>1, <1>3, <1>7, <1>12 DEF ClientOk

\* The event itself, which may be the client's first.
LEMMA FanEventOk ==
    ASSUME NEW W \in SUBSET Seqs, NEW acc, NEW c, NEW m, NEW u \in Sub, NEW u2, NEW rows, NEW s,
           NEW g, NEW g2,
           ClientOk(W, acc, c, m, u, rows, s, g), s \in g.on,
           g.frames = <<EventFrame(g.seq)>>, g2.frames = <<>>,
           u2.pc = u.pc, u2.last = g.seq, u2.cursor = u.cursor, u2.since = u.since,
           u2.batch = u.batch
    PROVE  ClientOk(W, acc, c, Append(m, EventFrame(g.seq)), u2, rows, s, g2)
<1>1. PICK e, n : e = EventFrame(g.seq) /\ n = g.seq
    OBVIOUS
<1>2. g.frames = <<e>> /\ g.frames # <<>>
    BY <1>1, TwoFrames
<1>3. /\ u.pc # "off" /\ n \in Seqs
      /\ \A x \in W : Started(c, m, x) /\ x <= n =>
           Told(acc, m, Len(m), x) \/ \E i \in DOMAIN g.frames : Covers(g.frames[i], x)
    BY <1>1, <1>2 DEF ClientOk, FanOk
<1>4. n \in Nat /\ n > 0 /\ n <= MaxSeq /\ 0 < n /\ 0 \in Nat
    BY <1>3 DEF Seqs
<1>5. e \in Frame /\ e.type = "event" /\ e.lo = n
    BY <1>1, <1>4, FramesTyped
<1>6. PICK m2 : m2 = Append(m, e)
    OBVIOUS
<1>7. /\ c \in Reader /\ m \in Seq(Frame)
      /\ ReadOk(W, acc, c, m) /\ SentOk(W, acc, c, m, u)
      /\ ReplayOk(acc, m, u, rows)
    BY DEF ClientOk
<1>8. m2 \in Seq(Frame) /\ Begun(c, m2)
    BY <1>5, <1>6, <1>7, Appended, PostedBegun
<1>9. FanOk(W, acc, c, m2, u2, s, g2)
    BY DEF FanOk
<1>10. CASE Begun(c, m)
  <2>1. \A x \in W : Started(c, m, x) /\ x <= n => Told(acc, m, Len(m), x) \/ Covers(e, x)
    BY <1>2, <1>3, TwoFrames
  <2>2. Promise(W, acc, c, m2, n, Len(m2))
    BY <1>5, <1>6, <1>7, <1>10, <2>1, PromisePosted
  <2>3. ClientOk(W, acc, c, m2, u, rows, s, g)
    BY <1>3, <1>4, <1>5, <1>6, <1>10, <2>2, PostOk
  <2>4. ReadOk(W, acc, c, m2) /\ SentOk(W, acc, c, m2, u) /\ ReplayOk(acc, m2, u, rows)
    BY <2>3 DEF ClientOk
  <2>5. SentOk(W, acc, c, m2, u2)
    BY <1>1, <1>3, <1>4, <1>8, <2>2, <2>4 DEF SentOk
  <2>6. ReplayOk(acc, m2, u2, rows)
    BY <1>1, <1>4, <2>4 DEF ReplayOk
  <2> QED BY <1>1, <1>6, <1>7, <1>8, <1>9, <2>4, <2>5, <2>6 DEF ClientOk
<1>11. CASE ~Begun(c, m)
  <2>1. u.last \in Nat /\ u.cursor \in Nat
    BY SubFields
  <2>2. ~(u.last > 0) /\ ~(u.cursor > 0)
    BY <1>3, <1>7, <1>11 DEF SentOk
  <2>3. u.cursor = 0 /\ u.pc \notin {"oldest", "range", "push"}
    BY <1>7, <2>1, <2>2 DEF ReplayOk
  <2>4. ReadOk(W, acc, c, m2)
    BY <1>4, <1>5, <1>6, <1>7, <1>11, FirstRead
  <2>5. Promise(W, acc, c, m2, n, Len(m2)) /\ Promise(W, acc, c, m2, 0, Len(m2))
    BY <1>4, <1>5, <1>6, <1>7, <1>11, FirstPosted
  <2>6. SentOk(W, acc, c, m2, u2)
    BY <1>1, <1>3, <1>4, <1>8, <2>2, <2>3, <2>5 DEF SentOk
  <2>7. ReplayOk(acc, m2, u2, rows)
    BY <2>3 DEF ReplayOk
  <2> QED BY <1>1, <1>6, <1>7, <1>8, <1>9, <2>4, <2>6, <2>7 DEF ClientOk
<1> QED BY <1>10, <1>11

\* fanOutEvent pushes a frame, and lastSeq takes the event's number.
LEMMA FanPushKept ==
    ASSUME SocketInv, NEW s \in Subs, FanPush(s)
    PROVE  SockPart'
<1>0. UNCHANGED <<busVars, client, excused>>
    BY DEF FanPush
<1>h. CASE HangUp(s)
    BY <1>0, <1>h, HangUpKept
<1>n. CASE ~HangUp(s)
  <2>f. /\ sub[s] \in Sub /\ fan \in Fan /\ sub \in [Subs -> Sub]
        /\ sub = [sub EXCEPT ![s] = sub[s]]
        /\ client = [client EXCEPT ![s] = client[s]]
        /\ Grows(excused, excused, Subs \cup Tails)
        /\ seq \in Nat /\ Wants(s) \in SUBSET Seqs
        /\ fan.todo # {} => fan.seq \in Seqs
    BY SoloFacts
  <2>1. PICK W, c, m, v, g, rows, acc :
          /\ W = Wants(s) /\ c = client[s] /\ m = mail[s] /\ v = sub[s] /\ g = fan /\ rows = ring
          /\ acc = Account(client[s], holes \cup excused[s])
    OBVIOUS
  <2>2. ClientOk(W, acc, c, m, v, rows, s, g)
    BY <2>1, OkFacts
  <2>3. /\ v \in Sub /\ W \in SUBSET Seqs /\ g \in Fan
        /\ s \in g.on /\ g.frames # <<>>
    BY <2>f, <2>1 DEF FanPush
  <2>4. /\ g.on = {s} /\ v.pc # "off" /\ g.seq \in Seqs
        /\ \/ g.frames = <<EventFrame(g.seq)>>
           \/ \E lo, hi \in Nat : g.frames = <<DropFrame(lo, hi), EventFrame(g.seq)>>
    BY <2>2, <2>3 DEF ClientOk, FanOk
  <2>5. PICK g2 : g2 = [g EXCEPT !.frames = Tail(g.frames)]
    OBVIOUS
  <2>6. /\ mail' = [mail EXCEPT ![s] = Append(m, Head(g.frames))] /\ fan' = Pending(g2)
        /\ sub' = IF Head(g.frames).type = "event" THEN [sub EXCEPT ![s].last = g.seq] ELSE sub
    BY <1>n, <2>1, <2>5 DEF FanPush, Post
  <2>7. /\ g2 \in Fan /\ g2.on = {s} /\ g2.seq = g.seq /\ g2.todo = g.todo
        /\ g2.frames = Tail(g.frames)
    <3>1. Tail(g.frames) \in Seq(Frame)
        BY <2>3, FanFields
    <3> QED BY <2>3, <2>4, <2>5, <3>1 DEF Fan
  <2>8. PICK g3 : g3 = Pending(g2)
    OBVIOUS
  <2>9. /\ g3 \in Fan /\ g3.todo = g.todo /\ g3.frames = g2.frames
        /\ g3.todo # {} \/ g3.frames # <<>> => g3.on = {s} /\ g3.seq = g.seq
    BY <2>7, <2>8, PendingFan
  <2>10. /\ g3.todo # {} => g3.seq \in Seqs
         /\ \A t \in Subs : ~(t # s /\ t \in g3.on /\ g3.frames # <<>>)
    BY <2>f, <2>1, <2>9
  <2>11. ASSUME NEW m2, NEW u \in Sub, ClientOk(W, acc, c, m2, u, rows, s, g3),
                mail' = [mail EXCEPT ![s] = m2], sub' = [sub EXCEPT ![s] = u]
         PROVE  SockPart'
    <3>1. /\ ClientOk(Wants(s), Account(c, holes \cup excused'[s]), c, m2, u, ring, s, g3)
          /\ client' = [client EXCEPT ![s] = c] /\ fan' = g3 /\ UNCHANGED busVars
          /\ Grows(excused, excused', Subs \cup Tails)
        BY <1>0, <2>f, <2>1, <2>6, <2>8, <2>11
    <3> QED BY <2>9, <2>10, <2>11, <3>1, OkStep
  <2>12. CASE g.frames = <<EventFrame(g.seq)>>
    <3>1. PICK e : e = EventFrame(g.seq)
        OBVIOUS
    <3>2. Head(g.frames) = e /\ Tail(g.frames) = <<>> /\ e.type = "event"
      <4>1. g.seq \in Nat
        BY <2>4 DEF Seqs
      <4> QED BY <2>12, <3>1, <4>1, TwoFrames, FramesTyped
    <3> DEFINE u == [v EXCEPT !.last = g.seq]
    <3>3. /\ u \in Sub /\ u.pc = v.pc /\ u.last = g.seq /\ u.cursor = v.cursor
          /\ u.since = v.since /\ u.batch = v.batch
      <4>1. g.seq \in 0..MaxSeq
        BY <2>3, FanFields
      <4> QED BY <2>3, <4>1 DEF Sub
    <3>4. sub' = [sub EXCEPT ![s] = u] /\ mail' = [mail EXCEPT ![s] = Append(m, e)]
        BY <2>f, <2>1, <2>6, <3>2
    <3> HIDE DEF u
    <3>5. g3.frames = <<>>
        BY <2>7, <2>9, <3>2
    <3>6. ClientOk(W, acc, c, Append(m, e), u, rows, s, g3)
        BY <2>2, <2>3, <2>12, <3>1, <3>3, <3>5, FanEventOk
    <3> QED BY <2>11, <3>3, <3>4, <3>6
  <2>13. ASSUME NEW lo \in Nat, NEW hi \in Nat,
                g.frames = <<DropFrame(lo, hi), EventFrame(g.seq)>>
         PROVE  SockPart'
    <3>1. PICK d, e : d = DropFrame(lo, hi) /\ e = EventFrame(g.seq)
        OBVIOUS
    <3>2. Head(g.frames) = d /\ Tail(g.frames) = <<e>> /\ d.type = "drop" /\ <<e>> # <<>>
        BY <2>13, <3>1, TwoFrames, FramesTyped
    <3>3. sub' = [sub EXCEPT ![s] = v] /\ mail' = [mail EXCEPT ![s] = Append(m, d)]
        BY <2>f, <2>1, <2>6, <3>2
    <3>4. g3.frames = <<EventFrame(g.seq)>> /\ g3.on = g.on /\ g3.seq = g.seq
        BY <2>4, <2>7, <2>9, <3>1, <3>2
    <3>5. ClientOk(W, acc, c, Append(m, d), v, rows, s, g3)
        BY <2>2, <2>3, <2>13, <3>1, <3>4, FanDropOk
    <3> QED BY <2>3, <2>11, <3>3, <3>5
  <2> QED BY <2>4, <2>12, <2>13
<1> QED BY <1>h, <1>n

-----------------------------------------------------------------------------
(* The other steps *)

\* A step that touches no connection, no row and no number.
LEMMA QuietStep ==
    ASSUME SocketInv, UNCHANGED <<seq, kindOf, sub, mail, client, ring>>,
           holes \subseteq holes', Grows(excused, excused', Subs \cup Tails),
           out' \in Seq(Seqs),
           fan' \in Fan, fan'.todo # {} => fan'.seq \in Seqs, fan' = fan \/ fan'.frames = <<>>
    PROVE  SockPart'
<1>t. /\ SockTypes /\ BoundInv /\ seq \in Nat /\ \A t \in Subs : ClientInv(t)
    BY EventStreamAssumption DEF SocketInv, BusTypes
<1>1. SockTypes'
    BY <1>t DEF SockTypes
<1>3. BoundInv'
    BY <1>t DEF BoundInv
<1>4. ASSUME NEW t \in Subs PROVE ClientInv(t)'
  <2>1. t \in fan.on /\ fan.frames # <<>> => fan.on = {t}
    BY SoloFacts
  <2>2. t \in fan'.on /\ fan'.frames # <<>> =>
             t \in fan.on /\ fan'.on = {t} /\ fan'.frames = fan.frames /\ fan'.seq = fan.seq
    BY <2>1
  <2>3. excused[t] \subseteq excused'[t]
    BY DEF Grows
  <2>4. Wants(t)' = Wants(t)
    BY DEF Wants, Wanted, Settled
  <2> QED BY <1>t, <2>2, <2>3, <2>4, QuietClient
<1> QED BY <1>1, <1>3, <1>4 DEF SockPart, Grows

\* What such a step starts from.
LEMMA QuietFacts ==
    ASSUME SocketInv
    PROVE  /\ seq \in Nat /\ seq \in 0..MaxSeq /\ MaxSeq \in Nat
           /\ kindOf \in [Seqs -> Kinds \cup {NoKind}]
           /\ Grows(excused, excused, Subs \cup Tails)
           /\ out \in Seq(Seqs)
           /\ fan \in Fan /\ (fan.todo # {} => fan.seq \in Seqs)
           /\ emit \in [Emitters -> Emission]
           /\ \A e \in Emitters : Coming(e) => emit[e].seq \in Seqs
<1>1. BusTypes /\ SockTypes /\ BoundInv /\ excused \in [Subs \cup Tails -> SUBSET Int]
    BY DEF SocketInv
<1>2. /\ seq \in 0..MaxSeq /\ MaxSeq \in Nat /\ emit \in [Emitters -> Emission]
      /\ \A e \in Emitters : Coming(e) => emit[e].seq \in Seqs
    BY <1>1, EventStreamAssumption DEF BusTypes
<1>3. seq \in Nat
    BY <1>2
<1> QED BY <1>1, <1>2, <1>3 DEF SockTypes, BoundInv, Grows

\* fanOutEvent takes an event.
LEMMA FanTakeKept ==
    ASSUME SocketInv, FanTake
    PROVE  SockPart'
<1>f. /\ seq \in Nat /\ seq \in 0..MaxSeq /\ MaxSeq \in Nat
      /\ kindOf \in [Seqs -> Kinds \cup {NoKind}]
      /\ Grows(excused, excused, Subs \cup Tails)
      /\ out \in Seq(Seqs)
    BY QuietFacts
<1>1. PICK n, todo : n = Head(out) /\ todo = {s \in Subs : sub[s].pc # "off"}
    OBVIOUS
<1>2. PICK f : f = [seq |-> n, todo |-> todo, on |-> {}, frames |-> <<>>]
    OBVIOUS
<1>3. /\ out # <<>> /\ fan' = Pending(f) /\ out' = Tail(out)
      /\ UNCHANGED <<seq, kindOf, emit, ring, holes, sub, mail, client, excused>>
    BY <1>1, <1>2 DEF FanTake
<1>4. n \in Seqs /\ out' \in Seq(Seqs)
    BY <1>f, <1>1, <1>3, Taken
<1>5. f \in Fan /\ f.seq = n /\ f.frames = <<>>
  <2>1. n \in 0..MaxSeq /\ todo \in SUBSET Subs /\ {} \in SUBSET Subs /\ <<>> \in Seq(Frame)
    BY <1>1, <1>4 DEF Seqs
  <2> QED BY <1>2, <2>1 DEF Fan
<1>6. fan' \in Fan /\ fan'.frames = <<>> /\ (fan'.todo # {} => fan'.seq = n)
    BY <1>3, <1>5, PendingFan
<1>7. /\ seq' \in Nat /\ seq <= seq' /\ kindOf' \in [Seqs -> Kinds \cup {NoKind}]
      /\ Grows(excused, excused', Subs \cup Tails)
      /\ fan'.todo # {} => fan'.seq \in Seqs
    BY <1>f, <1>3, <1>4, <1>6
<1> QED BY <1>3, <1>4, <1>6, <1>7, QuietStep

\* dispatch, after the stamp.
LEMMA BridgeKept ==
    ASSUME SocketInv, NEW e \in Emitters, PushOut(e) \/ PushPump(e) \/ PushHints(e)
    PROVE  SockPart'
<1>f. /\ Grows(excused, excused, Subs \cup Tails)
      /\ out \in Seq(Seqs)
      /\ fan \in Fan /\ (fan.todo # {} => fan.seq \in Seqs)
      /\ Coming(e) => emit[e].seq \in Seqs
    BY QuietFacts
<1>1. /\ UNCHANGED <<seq, kindOf, sub, mail, client, ring, fan, excused>>
      /\ holes \subseteq holes'
    BY DEF PushOut, PushPump, PushHints, sockVars
<1>2. out' \in Seq(Seqs)
  <2>1. CASE PushOut(e)
    <3>1. PICK n : n = emit[e].seq
        OBVIOUS
    <3>2. n \in Seqs /\ out' = Offer(out, OutCap, n)
        BY <1>f, <2>1, <3>1 DEF PushOut, Coming
    <3> QED BY <1>f, <3>2, Offered
  <2>2. CASE PushPump(e) \/ PushHints(e)
    BY <1>f, <2>2 DEF PushPump, PushHints
  <2> QED BY <2>1, <2>2
<1> QED BY <1>f, <1>1, <1>2, QuietStep

\* A number n above the ring is given to a new event: what is said of it is said
\* of an older one, and nothing but the client's own progress may be above it.
Restamped(n, W, W2, acc, acc2, c, c2, m, u, rows, g) ==
    /\ n \in Nat /\ W \in SUBSET Seqs /\ W2 \subseteq W
    /\ c2 \in Reader /\ c2.high = c.high /\ c2.base = c.base
    /\ u \in Sub /\ rows \in SUBSET Seqs /\ g \in Fan
    /\ \A x \in acc : x = n \/ x \in acc2
    /\ n <= c.high => n \in acc2
    /\ u.last < n \/ u.last <= c.high
    /\ u.cursor < n \/ u.cursor <= c.high
    /\ \A i \in DOMAIN m : m[i].type # "drop" => m[i].lo < n \/ m[i].lo <= c.high
    /\ g.seq < n /\ \A r \in rows : r < n

LEMMA StampOk ==
    ASSUME NEW n, NEW W, NEW W2, NEW acc, NEW acc2, NEW c, NEW c2, NEW m, NEW u, NEW rows,
           NEW s, NEW g,
           Restamped(n, W, W2, acc, acc2, c, c2, m, u, rows, g),
           ClientOk(W, acc, c, m, u, rows, s, g)
    PROVE  ClientOk(W2, acc2, c2, m, u, rows, s, g)
<1>r. /\ n \in Nat /\ W \in SUBSET Seqs /\ W2 \subseteq W
      /\ c2 \in Reader /\ c2.high = c.high /\ c2.base = c.base
      /\ u \in Sub /\ rows \in SUBSET Seqs /\ g \in Fan
      /\ \A x \in acc : x = n \/ x \in acc2
      /\ n <= c.high => n \in acc2
      /\ u.last < n \/ u.last <= c.high
      /\ u.cursor < n \/ u.cursor <= c.high
      /\ \A i \in DOMAIN m : m[i].type # "drop" => m[i].lo < n \/ m[i].lo <= c.high
      /\ g.seq < n /\ \A r \in rows : r < n
    BY DEF Restamped
<1>c. /\ c \in Reader /\ m \in Seq(Frame)
      /\ ReadOk(W, acc, c, m) /\ SentOk(W, acc, c, m, u)
      /\ ReplayOk(acc, m, u, rows) /\ FanOk(W, acc, c, m, u, s, g)
    BY DEF ClientOk
<1>f. /\ c.high \in Nat /\ c2.high \in Nat /\ u.last \in Nat /\ u.cursor \in Nat
      /\ u.batch \in SUBSET Seqs /\ g.seq \in Int
      /\ \A i \in DOMAIN m : m[i] \in Frame /\ m[i].lo \in Nat
    BY <1>r, <1>c, ClientFields, SubFields, FanFields, FrameFields
<1>1. /\ Begun(c2, m) <=> Begun(c, m)
      /\ \A x : Started(c2, m, x) <=> Started(c, m, x)
    BY <1>r DEF Begun, Started
<1>2. \A i, x : Told(acc, m, i, x) /\ x # n => Told(acc2, m, i, x)
    BY <1>r DEF Told
<1>3. ASSUME NEW k \in Nat, NEW i, k < n \/ k <= c.high, Promise(W, acc, c, m, k, i)
      PROVE  Promise(W2, acc2, c2, m, k, i)
  <2> SUFFICES ASSUME NEW x \in W2, Started(c2, m, x), x <= k PROVE Told(acc2, m, i, x)
    BY DEF Promise
  <2>1. x \in Nat /\ Told(acc, m, i, x)
    BY <1>r, <1>1, <1>3 DEF Promise, Seqs
  <2>2. CASE x = n
    <3>1. n <= c.high
        BY <1>r, <1>f, <1>3, <2>2
    <3> QED BY <1>r, <2>2, <3>1 DEF Told
  <2>3. CASE x # n
    BY <1>2, <2>1, <2>3
  <2> QED BY <2>2, <2>3
<1>4. ReadOk(W2, acc2, c2, m)
  <2>1. Promise(W2, acc2, c2, m, c2.high, 0) /\ c2.high <= MaxSeq
    <3>1. Promise(W, acc, c, m, c.high, 0) /\ c.high <= MaxSeq /\ c.high <= c.high
        BY <1>c, <1>f DEF ReadOk
    <3> QED BY <1>r, <1>f, <1>3, <3>1
  <2>2. \A i \in DOMAIN m : m[i].type # "drop" => Promise(W2, acc2, c2, m, m[i].lo, i)
    BY <1>r, <1>c, <1>f, <1>3 DEF ReadOk
  <2> QED BY <1>r, <1>c, <1>1, <2>1, <2>2 DEF ReadOk
<1>5. SentOk(W2, acc2, c2, m, u)
    BY <1>r, <1>c, <1>f, <1>1, <1>3 DEF SentOk
<1>6. ASSUME NEW k, NEW R, NEW A, \A r \in A : r \in Nat /\ r < n, Bridged(acc, m, k, R, A)
      PROVE  Bridged(acc2, m, k, R, A)
  <2>1. \A x \in Seqs, r \in A : x <= r => x # n
    BY <1>r, <1>6 DEF Seqs
  <2> QED BY <1>2, <1>6, <2>1 DEF Bridged
<1>7. ReplayOk(acc2, m, u, rows)
  <2>0. \A x \in Seqs : x \in Nat
    BY DEF Seqs
  <2>1. \A r \in rows : r \in Nat /\ r < n
    BY <1>r, <2>0
  <2>2. u.pc = "push" => \A r \in u.batch : r \in Nat /\ r < n
    BY <1>r, <1>c, <1>f, <2>0, <2>1 DEF ReplayOk
  <2>3. u.pc = "range" => Bridged(acc2, m, u.cursor, rows, rows)
    BY <1>c, <1>6, <2>1 DEF ReplayOk
  <2>4. u.pc = "push" => Bridged(acc2, m, u.cursor, u.batch, u.batch)
    BY <1>c, <1>6, <2>2 DEF ReplayOk
  <2>5. u.pc = "push" => Bridged(acc2, m, u.cursor, rows \cup u.batch, rows)
    BY <1>c, <1>6, <2>1 DEF ReplayOk
  <2> QED BY <1>c, <2>3, <2>4, <2>5 DEF ReplayOk
<1>8. FanOk(W2, acc2, c2, m, u, s, g)
  <2> SUFFICES ASSUME s \in g.on, g.frames # <<>>, NEW x \in W2, Started(c2, m, x), x <= g.seq
               PROVE  Told(acc2, m, Len(m), x) \/ \E i \in DOMAIN g.frames : Covers(g.frames[i], x)
    BY <1>c DEF FanOk
  <2>1. Told(acc, m, Len(m), x) \/ \E i \in DOMAIN g.frames : Covers(g.frames[i], x)
    BY <1>r, <1>c, <1>1 DEF FanOk
  <2>2. x # n
    BY <1>r, <1>f DEF Seqs
  <2> QED BY <1>2, <2>1, <2>2
<1> QED BY <1>r, <1>c, <1>4, <1>5, <1>7, <1>8 DEF ClientOk

\* dispatch takes a number.
LEMMA StampKept ==
    ASSUME SocketInv, ReachInv, NEW e \in Emitters, NEW k \in Kinds, Stamp(e, k)
    PROVE  SockPart'
<1>t. /\ SockTypes /\ BoundInv /\ BusTypes
      /\ seq \in Nat /\ MaxSeq \in Nat /\ seq < MaxSeq
      /\ kindOf \in [Seqs -> Kinds \cup {NoKind}]
      /\ client \in [Subs -> Reader] /\ excused \in [Subs \cup Tails -> SUBSET Int]
      /\ ring \subseteq 1..seq /\ ring \subseteq Seqs /\ fan.seq <= seq
  <2>1. SockTypes /\ BoundInv /\ BusTypes /\ excused \in [Subs \cup Tails -> SUBSET Int]
    BY DEF SocketInv
  <2>2. seq < MaxSeq /\ fan.seq <= seq
    BY DEF Stamp, ReachInv
  <2>3. ring \subseteq 1..seq /\ ring \subseteq Seqs /\ client \in [Subs -> Reader]
    BY <2>1 DEF SockTypes, BusTypes, BoundInv
  <2> QED BY <2>1, <2>2, <2>3, QuietFacts
<1>1. PICK n : n = seq + 1
    OBVIOUS
<1>2. /\ seq' = n /\ kindOf' = [kindOf EXCEPT ![n] = k]
      /\ client' = [s \in Subs |-> Renewed(client[s], n)]
      /\ UNCHANGED <<sub, mail, ring, fan, out, excused>>
      /\ n \in Seqs /\ n \in Nat
    BY <1>t, <1>1 DEF Stamp, Seqs
<1>3. \A x \in holes : x # n => x \in holes'
    BY <1>t, <1>1, StampedHoles
<1>4. ASSUME NEW s \in Subs
      PROVE  /\ client'[s] \in Reader /\ client'[s].high = client[s].high
             /\ client'[s].base = client[s].base
             /\ client'[s].got = client[s].got \ {n} /\ client'[s].named = client[s].named \ {n}
             /\ client[s].reused \subseteq client'[s].reused
             /\ n <= client[s].high => n \in client'[s].reused
  <2>1. client[s] \in Reader /\ client'[s] = Renewed(client[s], n)
    BY <1>t, <1>2
  <2>2. PICK r : r = IF n <= client[s].high THEN client[s].reused \cup {n} ELSE client[s].reused
    OBVIOUS
  <2>3. client'[s] = [client[s] EXCEPT !.got = client[s].got \ {n},
                                       !.named = client[s].named \ {n}, !.reused = r]
    BY <2>1, <2>2 DEF Renewed, Reader
  <2>4. r \in SUBSET Int /\ client[s].got \ {n} \in SUBSET Int /\ client[s].named \ {n} \in SUBSET Int
    BY <1>2, <2>1, <2>2, ClientFields
  <2> QED BY <2>1, <2>2, <2>3, <2>4 DEF Reader
<1>5. SockTypes'
  <2>1. client' \in [Subs -> Reader]
    BY <1>2, <1>4
  <2>2. kindOf' \in [Seqs -> Kinds \cup {NoKind}]
    BY <1>t, <1>2
  <2> QED BY <1>t, <1>2, <2>1, <2>2 DEF SockTypes
<1>6. BoundInv'
  <2>1. ring' \subseteq 1..seq'
    BY <1>t, <1>1, <1>2
  <2> QED BY <1>t, <1>2, <2>1 DEF BoundInv
<1>7. ASSUME NEW s \in Subs PROVE ClientInv(s)'
  <2>f. /\ sub[s] \in Sub /\ mail[s] \in Seq(Frame) /\ client[s] \in Reader /\ fan \in Fan
        /\ Wants(s) \in SUBSET Seqs
        /\ ReadOk(Wants(s), Knows(s), client[s], mail[s])
        /\ SentOk(Wants(s), Knows(s), client[s], mail[s], sub[s])
        /\ ReplayOk(Knows(s), mail[s], sub[s], ring)
        /\ FanOk(Wants(s), Knows(s), client[s], mail[s], sub[s], s, fan)
    BY SoloFacts
  <2>1. PICK W, W2, acc, acc2, c, c2, m, u, rows, g :
          /\ W = Wants(s) /\ W2 = Wants(s)' /\ acc = Knows(s) /\ acc2 = Knows(s)'
          /\ c = client[s] /\ c2 = client'[s] /\ m = mail[s] /\ u = sub[s] /\ rows = ring /\ g = fan
    OBVIOUS
  <2>2. W2 \subseteq W
    <3> SUFFICES ASSUME NEW x \in Seqs, Wanted(s, x)' \/ ~Settled(x)', Settled(x)
                 PROVE  Wanted(s, x)
        BY <2>1 DEF Wants
    <3>1. Settled(x)'
        BY <1>2 DEF Settled
    <3>2. x # n
        BY <1>t, <1>1 DEF Settled, Seqs
    <3> QED BY <1>t, <1>2, <3>1, <3>2 DEF Wanted
  <2>3. (\A x \in acc : x = n \/ x \in acc2) /\ (n <= c.high => n \in acc2)
    BY <1>2, <1>3, <1>4, <2>1 DEF Knows
  <2>4. /\ u.last < n \/ u.last <= c.high
        /\ u.cursor < n \/ u.cursor <= c.high
        /\ \A i \in DOMAIN m : m[i].type # "drop" => m[i].lo < n \/ m[i].lo <= c.high
    <3>1. Reaches(s)
        BY DEF ReachInv
    <3>2. /\ u.last \in Nat /\ u.cursor \in Nat
          /\ \A i \in DOMAIN m : m[i] \in Frame /\ m[i].lo \in Nat
        BY <2>f, <2>1, SubFields, FrameFields
    <3> QED BY <1>t, <1>1, <2>1, <3>1, <3>2 DEF Reaches, Seen
  <2>5. g.seq < n /\ \A r \in rows : r < n
    <3>1. fan.seq \in Int /\ fan.seq < n
        BY <1>t, <1>1, <2>f, FanFields
    <3>2. \A r \in 1..seq : r < n
        BY <1>t, <1>1
    <3> QED BY <1>t, <2>1, <3>1, <3>2
  <2>6. Restamped(n, W, W2, acc, acc2, c, c2, m, u, rows, g)
    BY <1>t, <1>2, <1>4, <2>f, <2>1, <2>2, <2>3, <2>4, <2>5 DEF Restamped
  <2>7. ClientOk(W, acc, c, m, u, rows, s, g)
    BY <2>f, <2>1 DEF ClientOk
  <2>8. ClientOk(W2, acc2, c2, m, u, rows, s, g)
    BY <2>6, <2>7, StampOk
  <2> QED BY <1>2, <2>1, <2>8 DEF ClientInv, ClientOk
<1> QED BY <1>t, <1>2, <1>5, <1>6, <1>7 DEF SockPart

\* The pump skips, an SSE client moves, or nothing happens.
LEMMA AsideKept ==
    ASSUME SocketInv, PumpSkip \/ Sse \/ UNCHANGED vars
    PROVE  SockPart'
<1>f. /\ seq \in Nat /\ kindOf \in [Seqs -> Kinds \cup {NoKind}]
      /\ Grows(excused, excused, Subs \cup Tails)
      /\ out \in Seq(Seqs)
      /\ fan \in Fan /\ (fan.todo # {} => fan.seq \in Seqs)
      /\ excused \in [Subs \cup Tails -> SUBSET Int]
    BY QuietFacts DEF SocketInv
<1>1. /\ UNCHANGED <<seq, kindOf, emit, out, ring, fan, sub, mail, client>> /\ holes \subseteq holes'
      /\ Grows(excused, excused', Subs \cup Tails)
  <2>1. CASE PumpSkip
    BY <1>f, <2>1 DEF PumpSkip, sockVars
  <2>2. CASE UNCHANGED vars
    BY <1>f, <2>2 DEF vars, busVars, sockVars
  <2>3. CASE Sse
    <3>1. PICK t \in Tails :
            \/ Attach(t) \/ Listen(t) \/ HeartbeatPoll(t) \/ WakeHint(t) \/ SettlePoll(t)
            \/ ReplayStats(t) \/ ReplayRange(t) \/ Detach(t)
        BY <2>3 DEF Sse
    <3>2. UNCHANGED <<busVars, sockVars>>
        BY <3>1 DEF Attach, Listen, HeartbeatPoll, WakeHint, SettlePoll, ReplayStats,
           ReplayRange, Detach
    <3>3. Grows(excused, excused', Subs \cup Tails)
      <4>1. CASE ReplayStats(t)
        <5> DEFINE A == Behind(tail[t].cursor)
        <5>1. A \subseteq Int
            BY DEF Behind
        <5>2. excused' = excused \/ excused' = [excused EXCEPT ![t] = @ \cup A]
            BY <4>1 DEF ReplayStats
        <5> HIDE DEF A
        <5> QED BY <1>f, <5>1, <5>2, GrowsByOne
      <4>2. CASE ~ReplayStats(t)
        <5>1. UNCHANGED excused
            BY <3>1, <4>2 DEF Attach, Listen, HeartbeatPoll, WakeHint, SettlePoll,
               ReplayRange, Detach
        <5> QED BY <1>f, <5>1
      <4> QED BY <4>1, <4>2
    <3> QED BY <3>2, <3>3 DEF busVars, sockVars
  <2> QED BY <2>1, <2>2, <2>3
<1>2. /\ seq' \in Nat /\ seq <= seq' /\ kindOf' \in [Seqs -> Kinds \cup {NoKind}]
      /\ out' \in Seq(Seqs)
      /\ fan' \in Fan /\ (fan'.todo # {} => fan'.seq \in Seqs)
    BY <1>f, <1>1
<1> QED BY <1>1, <1>2, QuietStep

\* The pump files h: what it evicts is accounted for, and between the rows it
\* had and h there is nothing left to come.
Files(h, rows, rows2, acc) ==
    /\ h \in Seqs /\ rows \subseteq Seqs /\ rows2 \subseteq Seqs /\ rows2 \subseteq rows \cup {h}
    /\ \A n \in Seqs : n < h /\ (\A x \in rows : ~(n <= x)) => n \in acc
    /\ \A n \in Seqs : (\E r \in rows : n <= r) => \E r \in rows2 : n <= r

LEMMA BridgedFiled ==
    ASSUME NEW acc, NEW acc2, acc \subseteq acc2, NEW m, NEW k, NEW h, NEW B,
           NEW rows, NEW rows2, Files(h, rows, rows2, acc),
           (rows \cup {h}) \ rows2 \subseteq acc2,
           Bridged(acc, m, k, rows \cup B, rows)
    PROVE  Bridged(acc2, m, k, rows2 \cup B, rows2)
<1> SUFFICES ASSUME NEW x \in Seqs, NEW r \in rows2, k < x, x <= r
             PROVE  x \in rows2 \cup B \/ Told(acc2, m, Len(m), x)
    BY DEF Bridged
<1>0. /\ h \in Seqs /\ rows \subseteq Seqs /\ rows2 \subseteq Seqs /\ rows2 \subseteq rows \cup {h}
      /\ \A n \in Seqs : n < h /\ (\A y \in rows : ~(n <= y)) => n \in acc
    BY DEF Files
<1>1. CASE \E y \in rows : x <= y
  <2>1. x \in rows \cup B \/ Told(acc, m, Len(m), x)
    BY <1>1 DEF Bridged
  <2>2. Told(acc, m, Len(m), x) => Told(acc2, m, Len(m), x)
    BY DEF Told
  <2>3. x \in rows => x \in rows2 \/ x \in acc2
    OBVIOUS
  <2> QED BY <2>1, <2>2, <2>3 DEF Told
<1>2. CASE ~\E y \in rows : x <= y
  <2>1. r = h
    BY <1>0, <1>2
  <2>2. CASE x = h
    BY <2>1, <2>2
  <2>3. CASE x # h
    <3>1. x < h
        BY <1>0, <2>1, <2>3 DEF Seqs
    <3>2. x \in acc
        BY <1>0, <1>2, <3>1
    <3> QED BY <3>2 DEF Told
  <2> QED BY <2>2, <2>3
<1> QED BY <1>1, <1>2

LEMMA FiledOk ==
    ASSUME NEW W, NEW W2 \in SUBSET W, NEW acc, NEW acc2, acc \subseteq acc2, NEW c, NEW m,
           NEW u \in Sub, NEW s, NEW g, NEW h,
           NEW rows, NEW rows2, Files(h, rows, rows2, acc),
           u.pc \in {"range", "push"} => (rows \cup {h}) \ rows2 \subseteq acc2,
           ClientOk(W, acc, c, m, u, rows, s, g)
    PROVE  ClientOk(W2, acc2, c, m, u, rows2, s, g)
<1>1. ClientOk(W2, acc2, c, m, u, rows, s, g)
    BY OkGrows
<1>2. ReplayOk(acc, m, u, rows) /\ ReplayOk(acc2, m, u, rows)
    BY <1>1 DEF ClientOk
<1>3. ASSUME u.pc = "range" PROVE Bridged(acc2, m, u.cursor, rows2, rows2)
  <2>1. rows = rows \cup {} /\ rows2 = rows2 \cup {}
    OBVIOUS
  <2>2. Bridged(acc, m, u.cursor, rows \cup {}, rows)
    BY <1>2, <1>3, <2>1 DEF ReplayOk
  <2>3. Bridged(acc2, m, u.cursor, rows2 \cup {}, rows2)
    BY <1>3, <2>2, BridgedFiled
  <2> QED BY <2>1, <2>3
<1>4. ASSUME u.pc = "push" PROVE Bridged(acc2, m, u.cursor, rows2 \cup u.batch, rows2)
  <2>1. Bridged(acc, m, u.cursor, rows \cup u.batch, rows)
    BY <1>2, <1>4 DEF ReplayOk
  <2> QED BY <1>4, <2>1, BridgedFiled
<1>5. u.pc = "push" => \A n \in u.batch : u.cursor < n /\ \E r \in rows2 : n <= r
  <2>1. u.batch \in SUBSET Seqs /\ \A n \in Seqs : (\E r \in rows : n <= r) => \E r \in rows2 : n <= r
    BY SubFields DEF Files
  <2>2. u.pc = "push" => \A n \in u.batch : u.cursor < n /\ \E r \in rows : n <= r
    BY <1>2 DEF ReplayOk
  <2> QED BY <2>1, <2>2
<1>6. ReplayOk(acc2, m, u, rows2)
    BY <1>2, <1>3, <1>4, <1>5 DEF ReplayOk
<1> QED BY <1>1, <1>6 DEF ClientOk

\* Append: the rows it evicts are excused to a replay between its two reads.
LEMMA FiledKept ==
    ASSUME SocketInv, PumpAppend
    PROVE  SockPart'
<1>t. /\ SockTypes /\ BusTypes /\ BoundInv /\ OrderInv
      /\ ring \subseteq Seqs /\ Cardinality(ring) <= RingCap /\ RingCap \in Nat \ {0}
      /\ pumpq \in Seq(Seqs) /\ seq \in Nat
      /\ excused \in [Subs \cup Tails -> SUBSET Int]
    BY EventStreamAssumption DEF SocketInv, BusTypes
<1>1. PICK h : h = Head(pumpq)
    OBVIOUS
<1>2. /\ pumpq # <<>> /\ h \notin ring /\ ring' = Kept(ring \cup {h})
      /\ UNCHANGED <<seq, kindOf, emit, out, holes, fan, sub, mail, client>>
      /\ excused' = [c \in Subs \cup Tails |->
                       IF Replaying(c) THEN excused[c] \cup ((ring \cup {h}) \ ring') ELSE excused[c]]
    BY <1>1 DEF PumpAppend, sockVars
<1>3. h \in Seqs /\ h = pumpq[1] /\ 1 \in DOMAIN pumpq
    BY <1>t, <1>1, <1>2, Taken
<1>4. ring' \subseteq ring \cup {h} /\ ring' \subseteq Seqs
    BY <1>t, <1>2, <1>3, KeptRows
<1>5. Grows(excused, excused', Subs \cup Tails)
  <2>1. Seqs \subseteq Int
    BY DEF Seqs
  <2>2. PICK gone : gone = (ring \cup {h}) \ ring'
    OBVIOUS
  <2>3. gone \in SUBSET Int
    BY <1>t, <1>3, <2>1, <2>2
  <2>4. excused' = [c \in Subs \cup Tails |->
                     IF Replaying(c) THEN excused[c] \cup gone ELSE excused[c]]
    BY <1>2, <2>2
  <2> QED BY <1>t, <2>3, <2>4 DEF Grows
<1>6. h \in 1..seq
  <2>1. h <= seq
    BY <1>t, <1>3 DEF OrderInv
  <2> QED BY <1>t, <1>3, <2>1 DEF Seqs
<1>7. BoundInv'
  <2>1. ring' \subseteq 1..seq
    BY <1>t, <1>4, <1>6 DEF BoundInv
  <2> QED BY <1>t, <1>2, <2>1 DEF BoundInv
<1>8. SockTypes'
    BY <1>t, <1>2 DEF SockTypes
<1>9. ASSUME NEW n \in Seqs, n < h, \A x \in ring : ~(n <= x) PROVE n \in holes
  <2>1. Done(n)
    BY <1>t, <1>1, <1>2, <1>9, BelowHead
  <2>2. n \notin ring
    BY <1>t, <1>9 DEF Seqs
  <2>3. ~Below(n)
    <3>1. CASE ring = {}
        BY <1>t, <3>1, FS_EmptySet DEF Below
    <3>2. CASE ring # {}
      <4>1. PICK x \in ring : TRUE
        BY <3>2
      <4>2. x < n
        BY <1>t, <1>9 DEF Seqs
      <4> QED BY <1>t, <4>2 DEF Below, Seqs
    <3> QED BY <3>1, <3>2
  <2> QED BY <2>1, <2>2, <2>3 DEF Done
<1>s. ASSUME NEW n \in Seqs, Settled(n) PROVE Settled(n)'
  <2>1. PICK r \in ring : n <= r
    BY <1>s DEF Settled
  <2>2. \E r2 \in ring' : r <= r2
    <3>1. /\ \A x \in (ring \cup {h}) \ ring' : \A y \in ring' : x < y
          /\ ring' # {}
        BY <1>t, <1>2, <1>3, KeptRows
    <3>2. r \in Seqs
        BY <1>t
    <3>3. CASE r \in ring'
        BY <3>2, <3>3 DEF Seqs
    <3>4. CASE r \notin ring'
      <4>1. PICK y \in ring' : r < y
        BY <3>1, <3>4
      <4> QED BY <1>4, <3>2, <4>1 DEF Seqs
    <3> QED BY <3>3, <3>4
  <2>3. PICK r2 \in ring' : r <= r2
    BY <2>2
  <2>4. n <= r2
    BY <1>t, <1>4, <2>1, <2>3 DEF Seqs
  <2> QED BY <2>4 DEF Settled
<1>10. ASSUME NEW t \in Subs PROVE ClientInv(t)'
  <2>1. sub[t] \in Sub /\ seq \in Nat /\ Wants(t) \in SUBSET Seqs
    BY SoloFacts
  <2>2. PICK W, W2, c, m, u, g, rows, rows2, rest, rest2, acc, acc2 :
          /\ W = Wants(t) /\ W2 = Wants(t)' /\ c = client[t] /\ m = mail[t] /\ u = sub[t] /\ g = fan
          /\ rows = ring /\ rows2 = ring'
          /\ rest = holes \cup excused[t] /\ rest2 = holes \cup excused'[t]
          /\ acc = Account(c, rest) /\ acc2 = Account(c, rest2)
    OBVIOUS
  <2>3. ClientOk(W, acc, c, m, u, rows, t, g)
    BY <2>2, OkFacts
  <2>4. acc \subseteq acc2
    BY <1>5, <2>2 DEF Account, Grows
  <2>5. u.pc \in {"range", "push"} => (rows \cup {h}) \ rows2 \subseteq acc2
    BY <1>2, <2>2 DEF Replaying, Account
  <2>6. Files(h, rows, rows2, acc)
    <3>1. \A n \in Seqs : (\E r \in rows : n <= r) => \E r \in rows2 : n <= r
        BY <1>s, <2>2 DEF Settled
    <3> QED BY <1>t, <1>3, <1>4, <1>9, <2>2, <3>1 DEF Account, Files
  <2>7. W2 \in SUBSET W
    BY <1>2, <1>s, <2>2 DEF Wants, Wanted
  <2>u. u \in Sub
    BY <2>1, <2>2
  <2>8. ClientOk(W2, acc2, c, m, u, rows2, t, g)
    BY <2>3, <2>4, <2>5, <2>6, <2>7, <2>u, FiledOk
  <2>9. Knows(t)' = acc2
    BY <1>2, <2>2 DEF Knows, Account
  <2> QED BY <1>2, <2>2, <2>8, <2>9 DEF ClientInv, ClientOk
<1> QED BY <1>5, <1>7, <1>8, <1>10 DEF SockPart, Grows

\* The daemon stops and starts, and reads its seed: the next number is above the
\* ring, and every subscription is gone with its mailbox.
LEMMA RebootKept ==
    ASSUME "stats" \notin Failing, SocketInv, Restart
    PROVE  SockPart'
<1>t. /\ SockTypes /\ ring \subseteq Seqs /\ MaxSeq \in Nat /\ MaxResumes \in Nat
      /\ excused \in [Subs \cup Tails -> SUBSET Int]
    BY EventStreamAssumption DEF SocketInv, BusTypes
<1>1. /\ seq' = NewestSeq /\ out' = <<>> /\ fan' = NoFan
      /\ sub' = [s \in Subs |-> [NoSub EXCEPT !.uses = sub[s].uses]]
      /\ mail' = [s \in Subs |-> <<>>]
      /\ UNCHANGED <<kindOf, ring, holes, client, excused>>
    BY DEF Restart, Fails, Seed
<1>2. NoFan \in Fan /\ NoFan.todo = {} /\ NoFan.frames = <<>>
    BY <1>t DEF NoFan, Fan
<1>3. ASSUME NEW s \in Subs PROVE sub'[s] \in Sub /\ sub'[s].pc = "off"
  <2>1. sub[s].uses \in 0..MaxResumes /\ 0 \in 0..MaxSeq
    BY <1>t, SubFields DEF SockTypes
  <2>2. sub'[s] = [NoSub EXCEPT !.uses = sub[s].uses]
    BY <1>1
  <2> QED BY <2>1, <2>2 DEF NoSub, Sub
<1>4. SockTypes'
  <2>1. sub' \in [Subs -> Sub]
    BY <1>1, <1>3
  <2>2. mail' \in [Subs -> Seq(Frame)] /\ out' \in Seq(Seqs)
    BY <1>1
  <2> QED BY <1>t, <1>1, <1>2, <2>1, <2>2 DEF SockTypes
<1>5. BoundInv'
    BY <1>t, <1>1, <1>2, NewestAndOldest DEF BoundInv
<1>6. ASSUME NEW s \in Subs PROVE ClientInv(s)'
  <2>1. Wants(s)' = Wants(s) /\ Knows(s)' = Knows(s)
    BY <1>1 DEF Wants, Wanted, Settled, Knows
  <2>2. PICK W, acc, c, u : W = Wants(s) /\ acc = Knows(s) /\ c = client[s] /\ u = sub'[s]
    OBVIOUS
  <2>3. ReadOk(W, acc, c, <<>>)
    BY <2>2, EmptyRead
  <2>4. /\ SentOk(W, acc, c, <<>>, u) /\ ReplayOk(acc, <<>>, u, ring)
        /\ FanOk(W, acc, c, <<>>, u, s, NoFan)
    BY <1>2, <1>3, <2>2 DEF SentOk, ReplayOk, FanOk
  <2> QED BY <1>1, <2>1, <2>2, <2>3, <2>4 DEF ClientInv
<1> QED BY <1>t, <1>1, <1>4, <1>5, <1>6 DEF SockPart

LEMMA SocketKept ==
    ASSUME OneEmitter, "stats" \notin Failing, SocketInv, ReachInv, [Next]_vars
    PROVE  SocketInv'
<1>1. BusTypes' /\ OrderInv'
    BY BusTypesKept, OrderKept DEF SocketInv
<1> SUFFICES SockPart'
    BY <1>1 DEF SocketInv, SockPart
<1>2. CASE Bridge \/ FanTake \/ PumpSkip \/ Sse \/ UNCHANGED vars
    BY <1>2, StampKept, BridgeKept, FanTakeKept, AsideKept DEF Bridge
<1>3. CASE PumpAppend
    BY <1>3, FiledKept
<1>4. CASE Socket
  <2>1. PICK s \in Subs :
            \/ Subscribe(s) \/ EmitEvictionGap(s) \/ PollRing(s) \/ PushReplayRecord(s)
            \/ Register(s) \/ FanBuild(s) \/ FanPush(s) \/ Write(s) \/ Disconnect(s)
            \/ ReapRead(s) \/ ReapPush(s) \/ ReapDelete(s)
    BY <1>4 DEF Socket
  <2>2. CASE Disconnect(s)
    BY <2>2, HangUpKept DEF Disconnect
  <2>3. CASE Register(s) \/ ReapRead(s) \/ ReapDelete(s)
    BY <2>3, TurnsKept
  <2> QED BY <2>1, <2>2, <2>3, SubscribeKept, EvictionGapKept, PollRingKept,
             ReplayRecordKept, FanBuildKept, FanPushKept, WriteKept, ReapPushKept
<1>5. CASE Restart
    BY <1>5, RebootKept
<1> QED BY <1>2, <1>3, <1>4, <1>5 DEF Next, Pump

-----------------------------------------------------------------------------
(* Nothing is above the numbers given out *)

\* A step of one connection that moves no number and takes nothing from a client.
LEMMA ReachStep ==
    ASSUME SocketInv, ReachInv, SockTypes', NEW s \in Subs, UNCHANGED <<seq, out>>,
           fan'.seq \in {0, fan.seq},
           \A t \in Subs : client[t].high <= client'[t].high,
           \A t \in Subs : t # s => sub'[t] = sub[t] /\ mail'[t] = mail[t],
           Reaches(s)'
    PROVE  ReachInv'
<1>1. seq \in Nat /\ fan.seq <= seq /\ \A t \in Subs : Reaches(t)
    BY QuietFacts DEF ReachInv
<1>2. ASSUME NEW t \in Subs, t # s PROVE Reaches(t)'
  <2>1. /\ client[t].high \in Nat /\ client'[t].high \in Nat
        /\ sub[t].last \in Nat /\ sub[t].cursor \in Nat
        /\ \A i \in DOMAIN mail[t] : mail[t][i] \in Frame /\ mail[t][i].lo \in Nat
    BY SoloFacts, ClientFields, SubFields, FrameFields DEF SockTypes
  <2>2. \A k \in Nat : Seen(t, k) => Seen(t, k)'
    BY <1>1, <2>1 DEF Seen
  <2> QED BY <1>1, <1>2, <2>1, <2>2 DEF Reaches
<1> QED BY <1>1, <1>2 DEF ReachInv

\* A connection that is turned to a place it has been at, or to one that is below
\* the numbers given out, and is posted at most such a frame.
LEMMA ReachTurn ==
    ASSUME SocketInv, ReachInv, SockTypes', NEW s \in Subs, UNCHANGED <<seq, out, client>>,
           fan'.seq \in {0, fan.seq},
           \A t \in Subs : t # s => sub'[t] = sub[t] /\ mail'[t] = mail[t],
           Seen(s, sub'[s].last), Seen(s, sub'[s].cursor),
           \/ mail'[s] = mail[s] \/ mail'[s] = <<>>
           \/ \E f \in Frame : /\ mail'[s] = Append(mail[s], f)
                               /\ f.type # "drop" => Seen(s, f.lo)
    PROVE  ReachInv'
<1>1. Reaches(s) /\ mail[s] \in Seq(Frame)
    BY SoloFacts DEF ReachInv
<1>2. \A k : Seen(s, k)' <=> Seen(s, k)
    BY DEF Seen
<1>3. \A i \in DOMAIN mail'[s] : mail'[s][i].type # "drop" => Seen(s, mail'[s][i].lo)
  <2>1. CASE mail'[s] = mail[s] \/ mail'[s] = <<>>
    BY <1>1, <2>1 DEF Reaches
  <2>2. ASSUME NEW f \in Frame, mail'[s] = Append(mail[s], f), f.type # "drop" => Seen(s, f.lo)
        PROVE  \A i \in DOMAIN mail'[s] : mail'[s][i].type # "drop" => Seen(s, mail'[s][i].lo)
    <3>1. PICK m, m2 : m = mail[s] /\ m2 = mail'[s]
        OBVIOUS
    <3>2. /\ \A i \in DOMAIN m : m2[i] = m[i]
          /\ m2[Len(m) + 1] = f
          /\ \A i \in DOMAIN m2 : i \in DOMAIN m \/ i = Len(m) + 1
        BY <1>1, <2>2, <3>1, Appended
    <3> QED BY <1>1, <2>2, <3>1, <3>2 DEF Reaches
  <2> QED BY <2>1, <2>2
<1>4. Reaches(s)'
    BY <1>2, <1>3 DEF Reaches
<1>5. \A t \in Subs : client[t].high <= client'[t].high
    BY SoloFacts, ClientFields
<1> QED BY <1>4, <1>5, ReachStep

LEMMA PendingSeq ==
    ASSUME NEW f, NEW g, f.seq = g.seq
    PROVE  Pending(f).seq \in {0, g.seq}
BY DEF Pending, NoFan

\* A connection that ends has nothing on its way.
LEMMA ReachHangUp ==
    ASSUME SocketInv, ReachInv, SockTypes', NEW s \in Subs, HangUp(s),
           UNCHANGED <<seq, out, client>>
    PROVE  ReachInv'
<1>1. /\ sub \in [Subs -> Sub] /\ mail \in [Subs -> Seq(Frame)] /\ fan \in Fan /\ seq \in Nat
    BY SoloFacts
<1>2. /\ sub'[s].last = 0 /\ sub'[s].cursor = 0 /\ mail'[s] = <<>>
      /\ \A t \in Subs : t # s => sub'[t] = sub[t] /\ mail'[t] = mail[t]
    BY <1>1 DEF HangUp, NoSub
<1>3. fan'.seq \in {0, fan.seq}
  <2>1. PICK g : g = Without(fan, s)
    OBVIOUS
  <2>2. g.seq = fan.seq
    BY <1>1, <2>1, RestOfFan
  <2>3. fan' = Pending(g)
    BY <2>1 DEF HangUp, Without
  <2> QED BY <2>2, <2>3, PendingSeq
<1>4. Seen(s, 0)
    BY <1>1 DEF Seen
<1> QED BY <1>2, <1>3, <1>4, ReachTurn

\* The steps of a subscription and of the fan-out for it.
LEMMA ReachSocket ==
    ASSUME SocketInv, ReachInv, SockTypes', NEW s \in Subs,
           \/ EmitEvictionGap(s) \/ PollRing(s) \/ PushReplayRecord(s)
           \/ Register(s) \/ FanBuild(s) \/ FanPush(s) \/ Disconnect(s)
           \/ ReapRead(s) \/ ReapPush(s) \/ ReapDelete(s)
    PROVE  ReachInv'
<1>0. UNCHANGED <<seq, out, client>>
    BY DEF EmitEvictionGap, PollRing, PushReplayRecord, Register, FanBuild, FanPush,
       Disconnect, ReapRead, ReapPush, ReapDelete, busVars
<1>h. CASE HangUp(s)
    BY <1>0, <1>h, ReachHangUp
<1>f. /\ sub \in [Subs -> Sub] /\ mail \in [Subs -> Seq(Frame)] /\ fan \in Fan
      /\ sub[s] \in Sub /\ mail[s] \in Seq(Frame)
      /\ seq \in Nat /\ seq \in 0..MaxSeq /\ ring \subseteq 1..seq /\ ring \subseteq Seqs
      /\ ReplayOk(Knows(s), mail[s], sub[s], ring)
      /\ FanOk(Wants(s), Knows(s), client[s], mail[s], sub[s], s, fan)
    BY SoloFacts
<1>g. /\ Seen(s, sub[s].last) /\ Seen(s, sub[s].cursor) /\ Seen(s, 0)
      /\ \A k \in Nat : k <= seq => Seen(s, k)
      /\ fan.seq <= seq /\ fan.seq \in Nat
    BY <1>f, FanFields DEF ReachInv, Reaches, Seen
<1>1. CASE ~HangUp(s) /\ EmitEvictionGap(s)
  <2>1. /\ sub' = [sub EXCEPT ![s].pc = "range"] /\ fan' = fan
        /\ mail' = mail \/ (Evicted(s) /\ Post(s, DropFrame(sub[s].since + 1, OldestSeq - 1)))
    BY <1>1 DEF EmitEvictionGap
  <2>2. sub'[s].last = sub[s].last /\ sub'[s].cursor = sub[s].cursor
    BY <1>f, <2>1 DEF Sub
  <2>3. \A t \in Subs : t # s => sub'[t] = sub[t] /\ mail'[t] = mail[t]
    BY <1>f, <2>1 DEF Post
  <2>4. ASSUME Evicted(s), Post(s, DropFrame(sub[s].since + 1, OldestSeq - 1))
        PROVE  \E f \in Frame : mail'[s] = Append(mail[s], f) /\ f.type = "drop"
    <3>1. sub[s].since + 1 \in Nat /\ OldestSeq - 1 \in Nat
        BY <1>f, <2>4, SubFields, NewestAndOldest DEF Evicted
    <3>2. PICK f : f = DropFrame(sub[s].since + 1, OldestSeq - 1)
        OBVIOUS
    <3>3. f \in Frame /\ f.type = "drop"
        BY <3>1, <3>2, FramesTyped
    <3>4. mail'[s] = Append(mail[s], f)
        BY <1>f, <2>4, <3>2 DEF Post
    <3> QED BY <3>3, <3>4
  <2>5. mail'[s] = mail[s] \/ \E f \in Frame : mail'[s] = Append(mail[s], f) /\ f.type = "drop"
    BY <2>1, <2>4
  <2> QED BY <1>0, <1>g, <2>1, <2>2, <2>3, <2>5, ReachTurn
<1>2. CASE ~HangUp(s) /\ (PollRing(s) \/ Register(s) \/ ReapRead(s) \/ ReapDelete(s))
  <2>1. mail' = mail /\ fan' = fan
    BY <1>2 DEF PollRing, Register, ReapRead, ReapDelete
  <2>2. /\ sub'[s].last = sub[s].last
        /\ sub'[s].cursor \in {0, sub[s].cursor, sub[s].last}
        /\ \A t \in Subs : t # s => sub'[t] = sub[t]
    <3>1. CASE PollRing(s)
        BY <1>f, <3>1 DEF PollRing, Sub
    <3>2. CASE Register(s) \/ ReapRead(s) \/ ReapDelete(s)
        BY <1>f, <3>2 DEF Register, ReapRead, ReapDelete, Sub
    <3> QED BY <1>2, <3>1, <3>2
  <2>3. Seen(s, sub'[s].last) /\ Seen(s, sub'[s].cursor)
    BY <1>g, <2>2
  <2> QED BY <1>0, <2>1, <2>2, <2>3, ReachTurn
<1>3. CASE ~HangUp(s) /\ PushReplayRecord(s)
  <2> DEFINE n == Smallest(sub[s].batch)
             rest == sub[s].batch \ {n}
             pc == IF rest # {} THEN "push" ELSE IF sub[s].more THEN "range" ELSE "register"
             last == IF n > sub[s].last THEN n ELSE sub[s].last
  <2>1. /\ sub' = [sub EXCEPT ![s].cursor = n, ![s].batch = rest, ![s].last = last, ![s].pc = pc]
        /\ fan' = fan /\ (mail' = mail \/ Post(s, EventFrame(n)))
    BY <1>f, <1>3 DEF PushReplayRecord
  <2>2. n \in Nat /\ n <= seq
    <3>1. sub[s].pc = "push" /\ sub[s].batch \in SUBSET Seqs
        BY <1>f, <1>3, SubFields DEF PushReplayRecord
    <3>2. sub[s].batch # {} /\ \A x \in sub[s].batch : \E r \in ring : x <= r
        BY <1>f, <3>1 DEF ReplayOk
    <3>3. n \in sub[s].batch
        BY <3>1, <3>2, Extremes
    <3> HIDE DEF n
    <3>4. n \in Nat
        BY <3>1, <3>3 DEF Seqs
    <3>5. PICK r \in ring : n <= r
        BY <3>2, <3>3
    <3>6. r \in Nat /\ r <= seq
        BY <1>f, <3>5
    <3> QED BY <1>f, <3>4, <3>5, <3>6
  <2> HIDE DEF n, rest, pc
  <2>3. /\ sub'[s].last = last /\ sub'[s].cursor = n
        /\ \A t \in Subs : t # s => sub'[t] = sub[t]
    BY <1>f, <2>1 DEF Sub
  <2>4. Seen(s, sub'[s].last) /\ Seen(s, sub'[s].cursor)
    BY <1>g, <2>2, <2>3
  <2>5. PICK f : f = EventFrame(n)
    OBVIOUS
  <2>6. f \in Frame /\ f.lo = n
    BY <2>2, <2>5, FramesTyped
  <2>7. /\ mail'[s] = mail[s] \/ mail'[s] = Append(mail[s], f)
        /\ \A t \in Subs : t # s => mail'[t] = mail[t]
    BY <1>f, <2>1, <2>5 DEF Post
  <2> QED BY <1>0, <1>g, <2>1, <2>2, <2>3, <2>4, <2>6, <2>7, ReachTurn
<1>4. CASE ~HangUp(s) /\ FanBuild(s)
  <2>1. sub' = sub /\ mail' = mail
    BY <1>4 DEF FanBuild
  <2>2. fan'.seq \in {0, fan.seq}
    <3> DEFINE hit == Registered(s) /\ Matches(s, fan.seq)
               g == [fan EXCEPT !.todo = @ \ {s}, !.on = IF hit THEN {s} ELSE {},
                       !.frames = IF hit THEN GapFrames(s, fan.seq) \o <<EventFrame(fan.seq)>>
                                  ELSE <<>>]
    <3>1. fan' = Pending(g) /\ g.seq = fan.seq
        BY <1>f, <1>4 DEF FanBuild, Fan
    <3> HIDE DEF g
    <3> QED BY <3>1, PendingSeq
  <2> QED BY <1>0, <1>g, <2>1, <2>2, ReachTurn
<1>5. CASE ~HangUp(s) /\ FanPush(s)
  <2>1. PICK f, g : f = Head(fan.frames) /\ g = [fan EXCEPT !.frames = Tail(@)]
    OBVIOUS
  <2>2. /\ s \in fan.on /\ fan.frames # <<>>
        /\ Post(s, f) /\ fan' = Pending(g)
        /\ sub' = IF f.type = "event" THEN [sub EXCEPT ![s].last = fan.seq] ELSE sub
    BY <1>5, <2>1 DEF FanPush
  <2>3. f \in Frame /\ (f.type # "drop" => f.lo = fan.seq)
    <3>1. \/ fan.frames = <<EventFrame(fan.seq)>>
          \/ \E lo, hi \in Nat : fan.frames = <<DropFrame(lo, hi), EventFrame(fan.seq)>>
        BY <1>f, <2>2 DEF FanOk
    <3>2. CASE fan.frames = <<EventFrame(fan.seq)>>
      <4>1. f = EventFrame(fan.seq)
        BY <2>1, <3>2
      <4> QED BY <1>g, <4>1, FramesTyped
    <3>3. ASSUME NEW lo \in Nat, NEW hi \in Nat,
                 fan.frames = <<DropFrame(lo, hi), EventFrame(fan.seq)>>
          PROVE  f \in Frame /\ f.type = "drop"
      <4>1. f = DropFrame(lo, hi)
        BY <2>1, <3>3
      <4> QED BY <4>1, FramesTyped
    <3> QED BY <3>1, <3>2, <3>3
  <2>4. g.seq = fan.seq
    BY <1>f, <2>1 DEF Fan
  <2>5. fan'.seq \in {0, fan.seq}
    BY <2>2, <2>4, PendingSeq
  <2>6. /\ sub'[s].last \in {sub[s].last, fan.seq} /\ sub'[s].cursor = sub[s].cursor
        /\ \A t \in Subs : t # s => sub'[t] = sub[t]
    BY <1>f, <2>2 DEF Sub
  <2>7. mail'[s] = Append(mail[s], f) /\ \A t \in Subs : t # s => mail'[t] = mail[t]
    BY <1>f, <2>2 DEF Post
  <2>8. Seen(s, sub'[s].last) /\ Seen(s, sub'[s].cursor) /\ (f.type # "drop" => Seen(s, f.lo))
    BY <1>g, <2>3, <2>6
  <2> QED BY <1>0, <2>3, <2>5, <2>6, <2>7, <2>8, ReachTurn
<1>6. CASE ~HangUp(s) /\ ReapPush(s)
  <2>1. /\ Post(s, ClosedFrame(sub[s].cursor)) /\ sub' = [sub EXCEPT ![s].pc = "closing"]
        /\ fan' = fan
    BY <1>6 DEF ReapPush
  <2>2. PICK f : f = ClosedFrame(sub[s].cursor)
    OBVIOUS
  <2>3. f \in Frame /\ f.lo = sub[s].cursor
    BY <1>f, <2>2, SubFields, FramesTyped
  <2>4. /\ sub'[s].last = sub[s].last /\ sub'[s].cursor = sub[s].cursor
        /\ mail'[s] = Append(mail[s], f)
        /\ \A t \in Subs : t # s => sub'[t] = sub[t] /\ mail'[t] = mail[t]
    BY <1>f, <2>1, <2>2 DEF Post, Sub
  <2> QED BY <1>0, <1>g, <2>1, <2>3, <2>4, ReachTurn
<1> QED BY <1>h, <1>1, <1>2, <1>3, <1>4, <1>5, <1>6 DEF Disconnect

\* A subscription starts at what its client has read, or at a number given out.
LEMMA ReachSubscribe ==
    ASSUME SocketInv, ReachInv, SockTypes', NEW s \in Subs, Subscribe(s)
    PROVE  ReachInv'
<1>f. /\ sub \in [Subs -> Sub] /\ client \in [Subs -> Reader] /\ seq \in Nat
      /\ SentOk(Wants(s), Knows(s), client[s], mail[s], sub[s])
      /\ client[s] \in Reader /\ client[s].high \in Nat
    BY SoloFacts, ClientFields
<1>1. PICK since \in IF client[s].high = 0 THEN 0..seq ELSE {client[s].high} :
        HandleSubscribe(s, since)
    BY DEF Subscribe
<1>2. UNCHANGED <<seq, out, fan, mail>> /\ mail[s] = <<>>
    BY <1>f, <1>1 DEF HandleSubscribe, busVars, SentOk
<1>3. /\ sub'[s].last = since /\ sub'[s].cursor = since
      /\ \A t \in Subs : t # s => sub'[t] = sub[t]
    BY <1>f, <1>1 DEF HandleSubscribe
<1>4. client'[s].high = since /\ client[s].high <= since /\ since \in Nat
    BY <1>f, <1>1 DEF HandleSubscribe, Reader
<1>5. \A t \in Subs : client[t].high <= client'[t].high
  <2>1. \A t \in Subs : client[t].high \in Nat /\ (t # s => client'[t] = client[t])
    BY <1>f, <1>1, ClientFields DEF HandleSubscribe
  <2> QED BY <1>4, <2>1
<1>6. Reaches(s)'
    BY <1>2, <1>3, <1>4 DEF Reaches, Seen
<1> QED BY <1>2, <1>3, <1>5, <1>6, ReachStep

\* A client that reads gets no further back.
LEMMA ReachWrite ==
    ASSUME SocketInv, ReachInv, SockTypes', NEW s \in Subs, Write(s)
    PROVE  ReachInv'
<1>f. /\ mail \in [Subs -> Seq(Frame)] /\ client \in [Subs -> Reader] /\ seq \in Nat
      /\ mail[s] \in Seq(Frame) /\ client[s] \in Reader /\ sub[s] \in Sub /\ Reaches(s)
      /\ client[s].high \in Nat
    BY SoloFacts, ClientFields DEF ReachInv
<1>1. /\ mail[s] # <<>> /\ mail'[s] = Tail(mail[s]) /\ client'[s] = AfterRead(client[s], Head(mail[s]))
      /\ \A t \in Subs : t # s => mail'[t] = mail[t] /\ client'[t] = client[t]
      /\ UNCHANGED <<seq, out, fan, sub>>
    BY <1>f DEF Write, AfterRead, busVars
<1>2. PICK m, m2, f : m = mail[s] /\ m2 = mail'[s] /\ f = Head(m)
    OBVIOUS
<1>3. /\ f \in Frame /\ f.lo \in Nat
      /\ \A i \in DOMAIN m2 : i + 1 \in DOMAIN m /\ m2[i] = m[i + 1]
    BY <1>f, <1>1, <1>2, Dequeued, FrameFields
<1>4. client'[s].high = IF f.type = "drop" \/ f.lo < client[s].high THEN client[s].high ELSE f.lo
    BY <1>1, <1>2 DEF AfterRead
<1>5. client[s].high <= client'[s].high /\ client'[s].high \in Nat
    BY <1>f, <1>3, <1>4
<1>6. \A k \in Nat : Seen(s, k) => Seen(s, k)'
    BY <1>f, <1>1, <1>5 DEF Seen
<1>7. \A i \in DOMAIN m2 : m2[i].type # "drop" => Seen(s, m2[i].lo)' 
  <2>1. \A i \in DOMAIN m : m[i].lo \in Nat
    BY <1>f, <1>2, FrameFields
  <2> QED BY <1>f, <1>2, <1>3, <1>6, <2>1 DEF Reaches
<1>8. Reaches(s)'
  <2>1. sub[s].last \in Nat /\ sub[s].cursor \in Nat
    BY <1>f, SubFields
  <2> QED BY <1>f, <1>1, <1>2, <1>6, <1>7, <2>1 DEF Reaches
<1>9. \A t \in Subs : client[t].high <= client'[t].high
  <2>1. \A t \in Subs : client[t].high \in Nat
    BY <1>f, ClientFields
  <2> QED BY <1>1, <1>5, <2>1
<1> QED BY <1>1, <1>8, <1>9, ReachStep

LEMMA ReachKept ==
    ASSUME OneEmitter, SocketInv, ReachInv, SocketInv', [Next]_vars
    PROVE  ReachInv'
<1>t. SockTypes' /\ out \in Seq(Seqs) /\ seq \in Nat /\ fan.seq <= seq /\ OrderInv
      /\ \A i \in DOMAIN out : out[i] <= seq
    BY QuietFacts DEF SocketInv, ReachInv
<1>1. ASSUME UNCHANGED <<sub, mail>>, seq' \in Nat, seq <= seq', fan'.seq <= seq',
             \A t \in Subs : client'[t].high = client[t].high,
             \A i \in DOMAIN out' : out'[i] <= seq'
      PROVE  ReachInv'
  <2>1. ASSUME NEW t \in Subs PROVE Reaches(t)'
    <3>1. /\ sub[t].last \in Nat /\ sub[t].cursor \in Nat
          /\ \A i \in DOMAIN mail[t] : mail[t][i] \in Frame /\ mail[t][i].lo \in Nat
        BY SoloFacts, SubFields, FrameFields
    <3>2. \A k \in Nat : Seen(t, k) => Seen(t, k)'
        BY <1>1, <1>t DEF Seen
    <3> QED BY <1>1, <3>1, <3>2 DEF ReachInv, Reaches
  <2> QED BY <1>1, <2>1 DEF ReachInv
<1>2. CASE Bridge
  <2>1. PICK e \in Emitters : \/ \E k \in Kinds : Stamp(e, k)
                             \/ PushOut(e) \/ PushPump(e) \/ PushHints(e)
    BY <1>2 DEF Bridge
  <2>2. fan.seq \in Nat /\ \A i \in DOMAIN out : out[i] \in Nat
    BY <1>t, QuietFacts, FanFields DEF Seqs
  <2>3. ASSUME NEW k \in Kinds, Stamp(e, k) PROVE ReachInv'
    <3>1. seq' = seq + 1 /\ UNCHANGED <<sub, mail, fan, out>>
        BY <2>3 DEF Stamp
    <3>2. \A t \in Subs : client'[t].high = client[t].high
      <4>1. \A t \in Subs : client[t] \in Reader /\ client'[t] = Renewed(client[t], seq + 1)
        BY <2>3, SoloFacts DEF Stamp
      <4> QED BY <4>1 DEF Renewed, Reader
    <3>3. seq' \in Nat /\ seq <= seq' /\ fan'.seq <= seq' /\ \A i \in DOMAIN out' : out'[i] <= seq'
        BY <1>t, <2>2, <3>1
    <3> QED BY <1>1, <3>1, <3>2, <3>3
  <2>4. CASE PushOut(e)
    <3>1. PICK n : n = emit[e].seq
        OBVIOUS
    <3>2. n = seq /\ n \in Seqs
        BY <1>t, <2>4, <3>1, QuietFacts DEF PushOut, OrderInv, Coming
    <3>3. out' = Offer(out, OutCap, n) /\ UNCHANGED <<seq, sub, mail, client, fan>>
        BY <2>4, <3>1 DEF PushOut, sockVars
    <3>4. \A i \in DOMAIN out' : out'[i] <= seq
      <4>1. CASE Len(out) < OutCap
        <5>1. \A i \in DOMAIN out' : (i \in DOMAIN out /\ out'[i] = out[i]) \/ out'[i] = n
            BY <1>t, <3>2, <3>3, <4>1 DEF Offer
        <5> QED BY <1>t, <3>2, <5>1
      <4>2. CASE ~(Len(out) < OutCap)
        BY <1>t, <3>3, <4>2 DEF Offer
      <4> QED BY <4>1, <4>2
    <3> QED BY <1>1, <1>t, <3>3, <3>4
  <2>5. CASE PushPump(e) \/ PushHints(e)
    <3>1. UNCHANGED <<seq, out, sub, mail, client, fan>>
        BY <2>5 DEF PushPump, PushHints, sockVars
    <3> QED BY <1>1, <1>t, <3>1
  <2> QED BY <2>1, <2>3, <2>4, <2>5
<1>3. CASE PumpAppend \/ PumpSkip \/ Sse \/ UNCHANGED vars
  <2>1. UNCHANGED <<seq, out, sub, mail, client, fan>>
    <3>1. CASE PumpAppend \/ PumpSkip
        BY <3>1 DEF PumpAppend, PumpSkip, sockVars
    <3>2. CASE UNCHANGED vars
        BY <3>2 DEF vars, busVars, sockVars
    <3>3. CASE Sse
        BY <3>3 DEF Sse, Attach, Listen, HeartbeatPoll, WakeHint, SettlePoll, ReplayStats,
           ReplayRange, Detach, busVars, sockVars
    <3> QED BY <1>3, <3>1, <3>2, <3>3
  <2> QED BY <1>1, <1>t, <2>1
<1>4. CASE FanTake
  <2>1. PICK n, f : n = Head(out) /\ f = [seq |-> n, todo |-> {s \in Subs : sub[s].pc # "off"},
                                          on |-> {}, frames |-> <<>>]
    OBVIOUS
  <2>2. /\ out # <<>> /\ fan' = Pending(f) /\ out' = Tail(out)
        /\ UNCHANGED <<seq, sub, mail, client>>
    BY <1>4, <2>1 DEF FanTake
  <2>3. n <= seq /\ \A i \in DOMAIN out' : out'[i] <= seq
    BY <1>t, <2>1, <2>2, Taken
  <2>4. fan'.seq <= seq
    <3>1. f.seq = n
        BY <2>1
    <3>2. fan'.seq \in {0, n}
        BY <2>2, <3>1, PendingSeq
    <3> QED BY <1>t, <2>3, <3>2
  <2> QED BY <1>1, <1>t, <2>2, <2>3, <2>4
<1>5. CASE Socket
  <2>1. PICK s \in Subs :
            \/ Subscribe(s) \/ EmitEvictionGap(s) \/ PollRing(s) \/ PushReplayRecord(s)
            \/ Register(s) \/ FanBuild(s) \/ FanPush(s) \/ Write(s) \/ Disconnect(s)
            \/ ReapRead(s) \/ ReapPush(s) \/ ReapDelete(s)
    BY <1>5 DEF Socket
  <2> QED BY <1>t, <2>1, ReachSubscribe, ReachWrite, ReachSocket
<1>6. CASE Restart
  <2>1. /\ out' = <<>> /\ fan' = NoFan /\ mail' = [s \in Subs |-> <<>>]
        /\ sub' = [s \in Subs |-> [NoSub EXCEPT !.uses = sub[s].uses]]
    BY <1>6 DEF Restart
  <2>2. seq' \in Nat
    BY EventStreamAssumption DEF SocketInv, BusTypes
  <2>3. ASSUME NEW s \in Subs PROVE Reaches(s)'
    <3>1. sub'[s].last = 0 /\ sub'[s].cursor = 0 /\ mail'[s] = <<>>
        BY <2>1 DEF NoSub
    <3> QED BY <2>2, <3>1 DEF Reaches, Seen
  <2>4. fan'.seq = 0 /\ DOMAIN out' = {}
    BY <2>1 DEF NoFan
  <2> QED BY <2>2, <2>3, <2>4 DEF ReachInv
<1> QED BY <1>2, <1>3, <1>4, <1>5, <1>6 DEF Next, Pump

\* With one emitter, a socket client that comes back after the last number it
\* read has, for the latest event with each number up to that one, if its filter
\* wants it, the event or a stream.drop that names it: for any capacities, filters
\* and clients, over disconnects, full mailboxes, pong timeouts, dropped live events,
\* evictions, failing ring reads and restarts that could read their seed. Excepted
\* are events that never reached the ring, rows evicted under its replay, and events
\* that a restart gave a number the client had read up to already.
THEOREM NoSilentLossHolds ==
    ASSUME OneEmitter, "stats" \notin Failing
    PROVE  Spec => []NoSilentLoss
<1>1. Init => SocketInv /\ ReachInv
  <2> SUFFICES ASSUME Init PROVE SocketInv /\ ReachInv
    OBVIOUS
  <2>0. /\ Silent \in Emission /\ Silent.pc = "idle" /\ Cardinality({}) = 0
        /\ MaxSeq \in Nat /\ MaxResumes \in Nat /\ RingCap \in Nat
    BY EventStreamAssumption, EmissionRecord, FS_EmptySet DEF Silent
  <2>1. BusTypes /\ \A e \in Emitters : ~Coming(e)
    BY <2>0 DEF Init, BusTypes, Coming
  <2>2. OrderInv
    BY <2>1 DEF Init, OrderInv
  <2>3. NoSub \in Sub /\ NoSub.pc = "off"
    BY <2>0 DEF NoSub, Sub
  <2>4. NoClient \in Reader /\ NoClient.high = 0
    BY DEF NoClient, Reader
  <2>5. NoFan \in Fan /\ NoFan.todo = {} /\ NoFan.frames = <<>>
    BY <2>0 DEF NoFan, Fan
  <2>6. SockTypes
    BY <2>3, <2>4, <2>5 DEF Init, SockTypes
  <2>7. BoundInv
    BY <2>0, <2>5 DEF Init, BoundInv
  <2>8. ASSUME NEW s \in Subs PROVE ClientInv(s)
    <3>1. PICK W, acc, c : W = Wants(s) /\ acc = Knows(s) /\ c = NoClient
        OBVIOUS
    <3>2. /\ client[s] = c /\ mail[s] = <<>> /\ sub[s] = NoSub /\ fan = NoFan /\ seq = 0
          /\ W \in SUBSET Seqs
        BY <3>1, WantsTyped DEF Init
    <3>3. Promise(W, acc, c, <<>>, 0, 0) /\ DOMAIN <<>> = {}
        BY <3>2, NothingOwed
    <3>4. ReadOk(W, acc, c, <<>>)
        BY <2>0, <2>4, <3>1, <3>3 DEF ReadOk
    <3>5. SentOk(W, acc, c, <<>>, NoSub) /\ ReplayOk(acc, <<>>, NoSub, ring)
          /\ FanOk(W, acc, c, <<>>, NoSub, s, NoFan)
        BY <2>3, <2>5 DEF SentOk, ReplayOk, FanOk
    <3> QED BY <3>1, <3>2, <3>4, <3>5 DEF ClientInv
  <2>9. excused \in [Subs \cup Tails -> SUBSET Int]
    BY DEF Init
  <2>10. ReachInv
    BY DEF Init, NoFan, NoSub, ReachInv, Reaches, Seen
  <2> QED BY <2>1, <2>2, <2>6, <2>7, <2>8, <2>9, <2>10 DEF SocketInv
<1>2. SocketInv /\ ReachInv /\ [Next]_vars => SocketInv' /\ ReachInv'
    BY SocketKept, ReachKept
<1>3. SocketInv => NoSilentLoss
  <2> SUFFICES ASSUME SocketInv, NEW s \in Subs,
                      NEW n \in Between(client[s].base, client[s].high), Wanted(s, n)
               PROVE  n \in client[s].got \cup client[s].named \cup client[s].reused \cup holes \cup excused[s]
    BY DEF NoSilentLoss
  <2>1. /\ n \in Seqs /\ n \in Nat /\ n > 0 /\ client[s].base < n /\ n <= client[s].high
    BY DEF Between, Seqs
  <2>2. /\ client[s] \in Reader /\ mail[s] \in Seq(Frame)
        /\ ReadOk(Wants(s), Knows(s), client[s], mail[s])
    BY SoloFacts
  <2>3. client[s].high \in Nat /\ client[s].base \in Nat
    BY <2>2, ClientFields
  <2>4. client[s].high > 0 /\ n > client[s].base
    BY <2>1, <2>3
  <2>5. Started(client[s], mail[s], n) /\ n \in Wants(s)
    BY <2>1, <2>4 DEF Started, Wants
  <2>6. Told(Knows(s), mail[s], 0, n)
    BY <2>1, <2>2, <2>5 DEF ReadOk, Promise
  <2>7. \A j \in DOMAIN mail[s] : ~(j <= 0)
    BY <2>2
  <2> QED BY <2>6, <2>7 DEF Told, Knows
<1> QED BY <1>1, <1>2, <1>3, PTL DEF Spec
=============================================================================
