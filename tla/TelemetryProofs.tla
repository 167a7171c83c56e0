-------------------------- MODULE TelemetryProofs ---------------------------
(***************************************************************************)
(* The queue and the flush of the telemetry.  The promise a host was given *)
(* for a record is kept and the queue's books balance, for any number of   *)
(* records, cohorts and uploads and any limits: the cohorts and the charges*)
(* are counters, so the invariant says what they count, the records and    *)
(* the uploads that name the cohort and the charges of the places.  And a  *)
(* flush that does not throw has delivered what was emitted before it, and *)
(* no failure is passed over, for any number of records and flushes.       *)
(***************************************************************************)
EXTENDS TelemetryQueue, TelemetryFlush, SumTheorems, SequenceTheorems

-----------------------------------------------------------------------------
(* The queue (TelemetryQueue).                                             *)

Owed(c) == {s \in Slot : deliveries[s] = c}
Held(c) == {u \in Upload : uploads[u] = c}

QueueTyped ==
    /\ where \in [Slot -> {"free", "deferred", "queued", "exporting"}]
    /\ deliveries \in [Slot -> Cohort \cup {None}]
    /\ promised \in [Slot -> Cohort \cup {None}]
    /\ deliveryCohort \in Cohort \cup {None}
    /\ pending \in [Cohort -> Nat]
    /\ resolved \subseteq Cohort
    /\ uploads \in [Upload -> Cohort \cup {None}]
    /\ processor \in [Signal -> Seq(Slot)]
    /\ \A e \in exports : e.records \subseteq Slot

(* A place waits in one processor or is in one export.                     *)
InOrder(q, g) ==
    /\ \A i \in 1..Len(q) : q[i] \in g /\ where[q[i]] = "queued"
    /\ \A i, j \in 1..Len(q) : q[i] = q[j] => i = j

Placed ==
    /\ \A g \in Signal : InOrder(processor[g], g)
    /\ \A e \in exports : \A s \in e.records : where[s] = "exporting"
    /\ \A e, f \in exports : e # f => e.records \cap f.records = {}

(* Every real record has a cohort, which its host waits for.               *)
Kept ==
    /\ promised = deliveries
    /\ \A s \in Slot : where[s] = "free" => deliveries[s] = None
    /\ \A s \in Slot : where[s] # "free" /\ s \notin advisory => deliveries[s] \in Cohort

Counted == \A c \in Cohort : pending[c] = Cardinality(Owed(c)) + Cardinality(Held(c))

Settled ==
    /\ \A c \in Cohort : c \in resolved <=> pending[c] = 0
    /\ deliveryCohort # None => pending[deliveryCohort] > 0

QueueInv == QueueTyped /\ Placed /\ Kept /\ Counted /\ Settled

-----------------------------------------------------------------------------
LEMMA DisjointUnion ==
  ASSUME NEW A, NEW B, IsFiniteSet(A), IsFiniteSet(B), A \cap B = {}
  PROVE  /\ Cardinality(A) \in Nat /\ Cardinality(B) \in Nat
         /\ IsFiniteSet(A \cup B)
         /\ Cardinality(A \cup B) = Cardinality(A) + Cardinality(B)
<1>1. Cardinality(A) \in Nat /\ Cardinality(B) \in Nat
  BY FS_CardinalityType
<1>2. Cardinality(A \cap B) = 0
  BY FS_EmptySet
<1>3. /\ IsFiniteSet(A \cup B)
      /\ Cardinality(A \cup B) = Cardinality(A) + Cardinality(B) - Cardinality(A \cap B)
  BY FS_Union
<1> QED
  BY <1>1, <1>2, <1>3

LEMMA OwedHeldFinite ==
  ASSUME NEW c
  PROVE  /\ IsFiniteSet(Owed(c)) /\ Cardinality(Owed(c)) \in Nat
         /\ IsFiniteSet(Held(c)) /\ Cardinality(Held(c)) \in Nat
<1>1. Owed(c) \in SUBSET Slot /\ Held(c) \in SUBSET Upload
  BY DEF Owed, Held
<1>2. IsFiniteSet(Owed(c)) /\ IsFiniteSet(Held(c))
  BY <1>1, FS_Subset, QueueAssumption
<1> QED
  BY <1>2, FS_CardinalityType

(* The invariant implies the property: a cohort that is owed something is  *)
(* not resolved.                                                           *)
LEMMA OwedIsNotResolved ==
  ASSUME QueueInv
  PROVE  HostPromiseHolds
<1>1. ASSUME NEW c \in Cohort, Owed(c) # {} \/ Held(c) # {} PROVE c \notin resolved
  <2>1. Cardinality(Owed(c)) # 0 \/ Cardinality(Held(c)) # 0
    BY <1>1, OwedHeldFinite, FS_EmptySet
  <2>2. pending[c] # 0
    BY <2>1, OwedHeldFinite DEF QueueInv, Counted
  <2> QED
    BY <2>2 DEF QueueInv, Settled
<1>2. ASSUME NEW s \in Slot, where[s] # "free", s \notin advisory PROVE promised[s] \notin resolved
  <2>1. promised[s] \in Cohort /\ s \in Owed(promised[s])
    BY <1>2 DEF QueueInv, Kept, Owed
  <2> QED
    BY <2>1, <1>1
<1>3. ASSUME NEW u \in Upload, uploads[u] # None PROVE uploads[u] \notin resolved
  <2>1. uploads[u] \in Cohort /\ u \in Held(uploads[u])
    BY <1>3 DEF QueueInv, QueueTyped, Held
  <2> QED
    BY <2>1, <1>1
<1> QED
  BY <1>2, <1>3 DEF HostPromiseHolds

LEMMA QueueStarts == QueueInit => QueueInv
<1> SUFFICES ASSUME QueueInit PROVE QueueInv
  OBVIOUS
<1>1. QueueTyped
  BY DEF QueueInit, QueueTyped
<1>2. Placed
  BY DEF QueueInit, Placed, InOrder
<1>3. Kept
  BY DEF QueueInit, Kept
<1>4. Counted
  <2> SUFFICES ASSUME NEW c \in Cohort
               PROVE  pending[c] = Cardinality(Owed(c)) + Cardinality(Held(c))
    BY DEF Counted
  <2>1. Owed(c) = {} /\ Held(c) = {}
    BY QueueAssumption DEF QueueInit, Owed, Held
  <2> QED
    BY <2>1, FS_EmptySet DEF QueueInit
<1>5. Settled
  BY DEF QueueInit, Settled
<1> QED
  BY <1>1, <1>2, <1>3, <1>4, <1>5 DEF QueueInv

-----------------------------------------------------------------------------
(* finishDelivery keeps "resolved means nothing is owed", provided nothing *)
(* is added to a cohort that is already resolved.                          *)
LEMMA ResolveSettles ==
  ASSUME QueueTyped, Settled, NEW counts, counts \in [Cohort -> Nat],
         \A c \in Cohort : pending[c] = 0 => counts[c] = 0,
         Resolve(counts)
  PROVE  /\ Settled'
         /\ pending' = counts /\ pending' \in [Cohort -> Nat]
         /\ resolved' \subseteq Cohort
         /\ deliveryCohort' \in Cohort \cup {None}
<1> DEFINE done == {c \in Cohort : pending[c] > 0 /\ counts[c] = 0}
<1>1. /\ pending' = counts
      /\ resolved' = resolved \cup done
      /\ deliveryCohort' = IF deliveryCohort \in done THEN None ELSE deliveryCohort
  BY DEF Resolve
<1>2. resolved' \subseteq Cohort /\ deliveryCohort' \in Cohort \cup {None}
  BY <1>1 DEF QueueTyped
<1>3. ASSUME NEW c \in Cohort PROVE c \in resolved' <=> pending'[c] = 0
  <2>1. pending[c] \in Nat /\ counts[c] \in Nat
    BY DEF QueueTyped
  <2> QED
    BY <1>1, <2>1 DEF Settled
<1>4. ASSUME deliveryCohort' # None PROVE pending'[deliveryCohort'] > 0
  <2>1. deliveryCohort' = deliveryCohort /\ deliveryCohort \in Cohort \ done
    BY <1>1, <1>4 DEF QueueTyped
  <2>2. pending[deliveryCohort] > 0 /\ counts[deliveryCohort] \in Nat
    BY <2>1, <1>4 DEF Settled
  <2> QED
    BY <1>1, <2>1, <2>2
<1> QED
  BY <1>1, <1>2, <1>3, <1>4 DEF Settled

(* finish takes exactly the finished records off what each cohort is owed. *)
LEMMA FinishCounts ==
  ASSUME QueueTyped, NEW S \in SUBSET Slot, Finish(S), NEW c \in Cohort
  PROVE  /\ Waiting(S, c) \in Nat
         /\ Waiting(S, c) <= Cardinality(Owed(c))
         /\ Cardinality(Owed(c)') = Cardinality(Owed(c)) - Waiting(S, c)
<1> DEFINE W == {s \in S : deliveries[s] = c}
<1>1. W \in SUBSET Owed(c)
  BY DEF Owed
<1>2. IsFiniteSet(W) /\ Cardinality(W) \in Nat /\ Cardinality(W) <= Cardinality(Owed(c))
  BY <1>1, OwedHeldFinite, FS_Subset, FS_CardinalityType
<1>3. Owed(c)' = Owed(c) \ W
  <2>1. \A s \in Slot : deliveries'[s] = IF s \in S THEN None ELSE deliveries[s]
    BY DEF Finish
  <2> QED
    BY <2>1, QueueAssumption DEF Owed
<1>4. (Owed(c) \ W) \cap W = {} /\ (Owed(c) \ W) \cup W = Owed(c)
  BY <1>1
<1>5. IsFiniteSet(Owed(c) \ W)
  BY OwedHeldFinite, FS_Subset, Owed(c) \ W \in SUBSET Owed(c)
<1>6. /\ Cardinality(Owed(c) \ W) \in Nat
      /\ Cardinality(Owed(c)) = Cardinality(Owed(c) \ W) + Cardinality(W)
  <2> HIDE DEF W
  <2> QED
    BY <1>2, <1>4, <1>5, DisjointUnion
<1>7. Cardinality(Owed(c)) \in Nat
  BY OwedHeldFinite
<1> QED
  BY <1>2, <1>3, <1>6, <1>7 DEF Waiting

-----------------------------------------------------------------------------
(* The processors hand over each record once.                              *)
LEMMA SentRecords ==
  ASSUME QueueTyped, NEW g \in Signal, NEW i \in Nat \ {0}
  PROVE  Sent(g, i) = {processor[g][k] : k \in {n \in 1..Len(processor[g]) :
                                                  (i - 1) * MaxBatch < n /\ n <= i * MaxBatch}}
<1> DEFINE q == processor[g]
           a == (i - 1) * MaxBatch
           b == i * MaxBatch
           last == IF Len(q) < b THEN Len(q) ELSE b
           part == SubSeq(q, a + 1, last)
<1>1. q \in Seq(Slot) /\ Len(q) \in Nat
  BY DEF QueueTyped
<1>2. a \in Nat /\ b \in Nat /\ b = a + MaxBatch /\ MaxBatch \in Nat \ {0}
  BY QueueAssumption
<1>3. \A k \in a + 1..last : q[k] \in Slot
  <2> HIDE DEF a, b, q
  <2> QED
    BY <1>1, <1>2
<1>4. /\ part \in Seq(Slot)
      /\ Len(part) = IF a + 1 <= last THEN last - (a + 1) + 1 ELSE 0
      /\ \A k \in 1..last - (a + 1) + 1 : part[k] = q[a + 1 + k - 1]
  <2> HIDE DEF a, b, q
  <2>1. a + 1 \in Int /\ last \in Int
    BY <1>1, <1>2
  <2> HIDE DEF last
  <2> QED
    BY <1>3, <2>1, SubSeqProperties
<1>5. Range(part) = {part[k] : k \in 1..Len(part)}
  <2> HIDE DEF part
  <2> QED
    BY <1>4 DEF Range
<1>6. {part[k] : k \in 1..Len(part)} =
         {q[k] : k \in {n \in 1..Len(q) : a < n /\ n <= b}}
  <2> HIDE DEF a, b, q, part
  <2>1. ASSUME NEW k \in 1..Len(part)
        PROVE  part[k] = q[a + k] /\ a + k \in {n \in 1..Len(q) : a < n /\ n <= b}
    BY <1>1, <1>2, <1>4
  <2>2. ASSUME NEW n \in 1..Len(q), a < n, n <= b
        PROVE  n - a \in 1..Len(part) /\ part[n - a] = q[n]
    BY <1>1, <1>2, <1>4, <2>2
  <2> QED
    BY <2>1, <2>2
<1> QED
  BY <1>5, <1>6 DEF Sent

LEMMA SentApart ==
  ASSUME QueueTyped, NEW g \in Signal, InOrder(processor[g], g),
         NEW i \in Nat \ {0}, NEW j \in Nat \ {0}, i < j
  PROVE  Sent(g, i) \cap Sent(g, j) = {}
<1>1. MaxBatch \in Nat /\ i * MaxBatch \in Nat /\ (j - 1) * MaxBatch \in Nat
  BY QueueAssumption
<1>2. i * MaxBatch <= (j - 1) * MaxBatch
  <2>1. (j - 1 - i) \in Nat
    OBVIOUS
  <2>2. (j - 1 - i) * MaxBatch \in Nat
    BY <2>1, <1>1
  <2>3. (j - 1) * MaxBatch = i * MaxBatch + (j - 1 - i) * MaxBatch
    BY <1>1, <2>1
  <2> QED
    BY <1>1, <2>2, <2>3
<1> SUFFICES ASSUME NEW s \in Sent(g, i), s \in Sent(g, j) PROVE FALSE
  OBVIOUS
<1>3. PICK k \in 1..Len(processor[g]) : k <= i * MaxBatch /\ s = processor[g][k]
  BY SentRecords
<1>4. PICK l \in 1..Len(processor[g]) : (j - 1) * MaxBatch < l /\ s = processor[g][l]
  BY SentRecords
<1>5. k = l
  BY <1>3, <1>4 DEF InOrder
<1> QED
  BY <1>1, <1>2, <1>3, <1>4, <1>5

-----------------------------------------------------------------------------
(* A place outside the processors joins one of them.                       *)
LEMMA AppendInOrder ==
  ASSUME QueueTyped, Placed, NEW g \in Signal, NEW s \in g, s \in Slot,
         where[s] \notin {"queued", "exporting"},
         where' = [where EXCEPT ![s] = "queued"],
         processor' = [processor EXCEPT ![g] = Append(@, s)],
         exports' = exports
  PROVE  Placed' /\ processor' \in [Signal -> Seq(Slot)]
<1>1. \A h \in Signal : processor[h] \in Seq(Slot) /\ InOrder(processor[h], h)
  BY DEF QueueTyped, Placed
<1>2. /\ Append(processor[g], s) \in Seq(Slot)
      /\ Len(Append(processor[g], s)) = Len(processor[g]) + 1
      /\ \A i \in 1..Len(processor[g]) : Append(processor[g], s)[i] = processor[g][i]
      /\ Append(processor[g], s)[Len(processor[g]) + 1] = s
  BY <1>1, AppendProperties
<1>3. processor' \in [Signal -> Seq(Slot)]
  BY <1>1, <1>2 DEF QueueTyped
<1>4. \A t \in Slot : where'[t] = IF t = s THEN "queued" ELSE where[t]
  BY DEF QueueTyped
<1>5. ASSUME NEW h \in Signal PROVE InOrder(processor[h], h)'
  <2>1. \A i \in 1..Len(processor[h]) : processor[h][i] \in Slot /\ processor[h][i] # s
    <3>1. \A i \in 1..Len(processor[h]) : where[processor[h][i]] = "queued"
      BY <1>1 DEF InOrder
    <3> QED
      BY <1>1, <3>1
  <2>2. CASE h = g
    <3>1. processor'[h] = Append(processor[g], s) /\ Len(processor[g]) \in Nat
      BY <1>1, <2>2 DEF QueueTyped
    <3>2. ASSUME NEW i \in 1..Len(processor'[h])
          PROVE  processor'[h][i] \in h /\ where'[processor'[h][i]] = "queued"
      <4>1. CASE i = Len(processor[g]) + 1
        BY <1>2, <1>4, <2>2, <3>1, <4>1
      <4>2. CASE i \in 1..Len(processor[g])
        BY <1>1, <1>2, <1>4, <2>1, <2>2, <3>1, <4>2 DEF InOrder
      <4> QED
        BY <1>2, <3>1, <4>1, <4>2
    <3>3. ASSUME NEW i \in 1..Len(processor'[h]), NEW j \in 1..Len(processor'[h]),
                 processor'[h][i] = processor'[h][j]
          PROVE  i = j
      BY <1>1, <1>2, <2>1, <2>2, <3>1, <3>3 DEF InOrder
    <3> QED
      BY <3>2, <3>3 DEF InOrder
  <2>3. CASE h # g
    <3>1. processor'[h] = processor[h]
      BY <2>3 DEF QueueTyped
    <3> QED
      BY <1>1, <1>4, <2>1, <3>1 DEF InOrder
  <2> QED
    BY <2>2, <2>3
<1>6. ASSUME NEW e \in exports, NEW t \in e.records PROVE where'[t] = "exporting"
  BY <1>4 DEF QueueTyped, Placed
<1> QED
  BY <1>3, <1>5, <1>6 DEF Placed

(* Only a place outside the processors and exports changes.                *)
LEMMA ElsewherePlaced ==
  ASSUME QueueTyped, Placed, NEW s \in Slot, where[s] \notin {"queued", "exporting"},
         NEW v, where' = [where EXCEPT ![s] = v],
         UNCHANGED <<processor, exports>>
  PROVE  Placed'
<1>1. \A t \in Slot : t # s => where'[t] = where[t]
  BY DEF QueueTyped
<1>2. ASSUME NEW h \in Signal PROVE InOrder(processor[h], h)'
  <2>1. processor[h] \in Seq(Slot) /\ InOrder(processor[h], h)
    BY DEF QueueTyped, Placed
  <2>2. \A i \in 1..Len(processor[h]) : processor[h][i] \in Slot /\ processor[h][i] # s
    BY <2>1 DEF InOrder
  <2> QED
    BY <1>1, <2>1, <2>2 DEF InOrder
<1>3. ASSUME NEW e \in exports, NEW t \in e.records PROVE where'[t] = "exporting"
  BY <1>1 DEF QueueTyped, Placed
<1> QED
  BY <1>2, <1>3 DEF Placed

LEMMA AdmitStep ==
  ASSUME QueueInv, NEW s \in Slot, NEW size \in 1..MaxSize, Admit(s, size)
  PROVE  QueueInv'
<1> USE DEF QueueInv
<1> DEFINE g == IF s \in Span THEN Span ELSE Log
<1>1. g \in Signal /\ s \in g /\ where[s] = "free"
  BY DEF Admit, Slot, Signal
<1>2. PICK c \in Cohort :
        /\ c = IF deliveryCohort # None THEN deliveryCohort ELSE c
        /\ deliveryCohort' = c
        /\ pending' = [pending EXCEPT ![c] = @ + 1]
        /\ resolved' = IF deliveryCohort = None THEN resolved \ {c} ELSE resolved
        /\ deliveries' = [deliveries EXCEPT ![s] = c]
        /\ promised' = [promised EXCEPT ![s] = c]
  <2>1. Join(s)
    BY DEF Admit
  <2>2. CASE deliveryCohort # None
    BY <2>1, <2>2 DEF Join, QueueTyped
  <2>3. CASE deliveryCohort = None
    <3>1. (CHOOSE k \in Unknown : TRUE) \in Unknown
      BY <2>1, <2>3 DEF Join
    <3>2. (CHOOSE k \in Unknown : TRUE) \in Cohort
      BY <3>1 DEF Unknown
    <3> QED
      BY <2>1, <2>3, <3>2 DEF Join
  <2> QED
    BY <2>2, <2>3
<1>3. /\ Placed' /\ processor' \in [Signal -> Seq(Slot)]
      /\ where' \in [Slot -> {"free", "deferred", "queued", "exporting"}]
      /\ \A t \in Slot : where'[t] = IF t = s THEN where'[s] ELSE where[t]
      /\ where'[s] # "free"
  <2>1. CASE /\ where' = [where EXCEPT ![s] = "queued"]
             /\ processor' = [processor EXCEPT ![g] = Append(@, s)]
    <3>1. exports' = exports
      BY DEF Admit
    <3>2. Placed' /\ processor' \in [Signal -> Seq(Slot)]
      <4> HIDE DEF g
      <4> QED
        BY <1>1, <2>1, <3>1, AppendInOrder
    <3> QED
      BY <2>1, <3>2 DEF QueueTyped
  <2>2. CASE where' = [where EXCEPT ![s] = "deferred"] /\ processor' = processor
    <3>1. exports' = exports
      BY DEF Admit
    <3>2. Placed'
      BY <1>1, <2>2, <3>1, ElsewherePlaced
    <3> QED
      BY <2>2, <3>2 DEF QueueTyped
  <2> QED
    BY <2>1, <2>2 DEF Admit
<1>4. UNCHANGED <<advisory, uploads, exports>>
  BY DEF Admit
<1>5. QueueTyped'
  <2>1. pending' \in [Cohort -> Nat] /\ resolved' \subseteq Cohort
    BY <1>2 DEF QueueTyped
  <2>2. /\ deliveries' \in [Slot -> Cohort \cup {None}]
        /\ promised' \in [Slot -> Cohort \cup {None}]
        /\ deliveryCohort' \in Cohort \cup {None}
    BY <1>2 DEF QueueTyped
  <2>3. uploads' \in [Upload -> Cohort \cup {None}] /\ \A e \in exports' : e.records \subseteq Slot
    BY <1>4 DEF QueueTyped
  <2> QED
    BY <1>3, <2>1, <2>2, <2>3 DEF QueueTyped
<1>6. Kept'
  BY <1>1, <1>2, <1>3, <1>4 DEF QueueTyped, Kept
<1>7. Counted'
  <2> SUFFICES ASSUME NEW d \in Cohort
               PROVE  pending'[d] = Cardinality(Owed(d)') + Cardinality(Held(d)')
    BY DEF Counted
  <2>1. deliveries[s] = None /\ None \notin Cohort
    BY <1>1, QueueAssumption DEF Kept
  <2>2. Held(d)' = Held(d)
    BY <1>4 DEF Held
  <2>3. Owed(d)' = IF d = c THEN Owed(d) \cup {s} ELSE Owed(d)
    BY <1>2, <2>1 DEF Owed, QueueTyped
  <2>4. s \notin Owed(d)
    BY <2>1 DEF Owed
  <2>5. Cardinality(Owed(d) \cup {s}) = Cardinality(Owed(d)) + 1
    BY <2>4, FS_AddElement, OwedHeldFinite
  <2> QED
    BY <1>2, <2>2, <2>3, <2>5, OwedHeldFinite DEF Counted, QueueTyped
<1>8. Settled'
  <2>1. \A d \in Cohort : pending[d] \in Nat
    BY DEF QueueTyped
  <2>2. \A d \in Cohort : pending'[d] = IF d = c THEN pending[d] + 1 ELSE pending[d]
    BY <1>2 DEF QueueTyped
  <2>3. ASSUME NEW d \in Cohort PROVE d \in resolved' <=> pending'[d] = 0
    BY <1>2, <2>1, <2>2 DEF Settled
  <2> QED
    BY <1>2, <2>1, <2>2, <2>3 DEF Settled
<1> QED
  BY <1>3, <1>5, <1>6, <1>7, <1>8

(* What leaves the cohorts, their records and uploads alone.               *)
LEMMA CohortsKept ==
  ASSUME Counted, Settled, UNCHANGED <<deliveries, cohorts, uploads>>
  PROVE  Counted' /\ Settled'
<1>1. \A c \in Cohort : Owed(c)' = Owed(c) /\ Held(c)' = Held(c)
  BY DEF Owed, Held
<1> QED
  BY <1>1 DEF Counted, Settled, cohorts

LEMMA AnnounceStep ==
  ASSUME QueueInv, NEW s \in Slot, NEW size \in 1..MaxSize, Announce(s, size)
  PROVE  QueueInv'
<1> USE DEF QueueInv
<1>1. /\ s \in Span /\ Span \in Signal /\ where[s] = "free"
      /\ where' = [where EXCEPT ![s] = "queued"]
      /\ processor' = [processor EXCEPT ![Span] = Append(@, s)]
      /\ advisory' = advisory \cup {s}
      /\ UNCHANGED <<deliveries, promised, cohorts, uploads, exports>>
  BY DEF Announce, Signal
<1>2. Placed' /\ processor' \in [Signal -> Seq(Slot)]
  BY <1>1, AppendInOrder
<1>3. QueueTyped'
  BY <1>1, <1>2 DEF QueueTyped, cohorts
<1>4. Kept'
  BY <1>1 DEF QueueTyped, Kept
<1> QED
  BY <1>1, <1>2, <1>3, <1>4, CohortsKept

(* Records leave, and their uploads take over what is still owed.          *)
LEMMA FinishStep ==
  ASSUME QueueInv, NEW S \in SUBSET Slot, Finish(S),
         NEW plus \in [Cohort -> Nat],
         \A c \in Cohort : Cardinality(Held(c)') = Cardinality(Held(c)) + plus[c],
         \A c \in Cohort : plus[c] > 0 => pending[c] > 0,
         NEW counts, counts = [c \in Cohort |-> pending[c] + plus[c] - Waiting(S, c)],
         Resolve(counts)
  PROVE  /\ Kept' /\ Counted' /\ Settled'
         /\ where' \in [Slot -> {"free", "deferred", "queued", "exporting"}]
         /\ deliveries' \in [Slot -> Cohort \cup {None}]
         /\ promised' \in [Slot -> Cohort \cup {None}]
         /\ deliveryCohort' \in Cohort \cup {None}
         /\ pending' \in [Cohort -> Nat]
         /\ resolved' \subseteq Cohort
<1> USE DEF QueueInv
<1>1. ASSUME NEW c \in Cohort
      PROVE  /\ counts[c] = Cardinality(Owed(c)') + Cardinality(Held(c)')
             /\ counts[c] \in Nat
             /\ pending[c] = 0 => counts[c] = 0
  <2>1. /\ Waiting(S, c) \in Nat /\ Waiting(S, c) <= Cardinality(Owed(c))
        /\ Cardinality(Owed(c)') = Cardinality(Owed(c)) - Waiting(S, c)
    BY FinishCounts
  <2>2. /\ Cardinality(Owed(c)) \in Nat /\ Cardinality(Held(c)) \in Nat
        /\ pending[c] = Cardinality(Owed(c)) + Cardinality(Held(c))
    BY OwedHeldFinite DEF Counted
  <2>3. plus[c] \in Nat /\ counts[c] = pending[c] + plus[c] - Waiting(S, c)
    OBVIOUS
  <2> QED
    BY <2>1, <2>2, <2>3
<1>2. counts \in [Cohort -> Nat]
  BY <1>1
<1>3. /\ Settled' /\ pending' = counts /\ pending' \in [Cohort -> Nat]
      /\ resolved' \subseteq Cohort /\ deliveryCohort' \in Cohort \cup {None}
  BY <1>1, <1>2, ResolveSettles
<1>4. Counted'
  BY <1>1, <1>3 DEF Counted
<1>5. /\ where' = [s \in Slot |-> IF s \in S THEN "free" ELSE where[s]]
      /\ deliveries' = [s \in Slot |-> IF s \in S THEN None ELSE deliveries[s]]
      /\ promised' = [s \in Slot |-> IF s \in S THEN None ELSE promised[s]]
      /\ advisory' = advisory \ S
  BY DEF Finish
<1>6. Kept'
  BY <1>5 DEF Kept, QueueTyped
<1> QED
  BY <1>3, <1>4, <1>5, <1>6 DEF QueueTyped

LEMMA PublishStep ==
  ASSUME QueueInv, NEW s \in Slot, NEW size \in 1..MaxSize, PublishRecord(s, size)
  PROVE  QueueInv'
<1> USE DEF QueueInv
<1>1. s \in Span /\ where[s] = "deferred" /\ UNCHANGED <<uploads, exports>>
  BY DEF PublishRecord
<1>2. CASE /\ where' = [where EXCEPT ![s] = "queued"]
           /\ processor' = [processor EXCEPT ![Span] = Append(@, s)]
           /\ UNCHANGED <<advisory, deliveries, promised, cohorts>>
  <2>1. Placed' /\ processor' \in [Signal -> Seq(Slot)]
    BY <1>1, <1>2, AppendInOrder DEF Signal
  <2>2. QueueTyped'
    BY <1>1, <1>2, <2>1 DEF QueueTyped, cohorts
  <2>3. Kept'
    BY <1>1, <1>2 DEF Kept, QueueTyped
  <2> QED
    BY <1>1, <1>2, <2>1, <2>2, <2>3, CohortsKept
<1>3. CASE /\ Finish({s})
           /\ Resolve([c \in Cohort |-> pending[c] - Waiting({s}, c)])
           /\ UNCHANGED processor
  <2> DEFINE plus == [c \in Cohort |-> 0]
             counts == [c \in Cohort |-> pending[c] - Waiting({s}, c)]
  <2>1. \A c \in Cohort : /\ Cardinality(Held(c)') = Cardinality(Held(c)) + plus[c]
                          /\ ~(plus[c] > 0)
    <3> SUFFICES ASSUME NEW c \in Cohort
                 PROVE  /\ Cardinality(Held(c)') = Cardinality(Held(c)) + plus[c]
                        /\ ~(plus[c] > 0)
      OBVIOUS
    <3>1. Held(c)' = Held(c) /\ plus[c] = 0
      BY <1>1 DEF Held
    <3> QED
      BY <3>1, OwedHeldFinite
  <2>2. \A c \in Cohort : Waiting({s}, c) \in Nat /\ pending[c] \in Nat
    BY <1>3, FinishCounts DEF QueueTyped
  <2>3. counts = [c \in Cohort |-> pending[c] + plus[c] - Waiting({s}, c)]
    BY <2>2
  <2>4. plus \in [Cohort -> Nat]
    OBVIOUS
  <2> HIDE DEF plus, counts
  <2>5. /\ Kept' /\ Counted' /\ Settled'
        /\ where' \in [Slot -> {"free", "deferred", "queued", "exporting"}]
        /\ deliveries' \in [Slot -> Cohort \cup {None}]
        /\ promised' \in [Slot -> Cohort \cup {None}]
        /\ deliveryCohort' \in Cohort \cup {None}
        /\ pending' \in [Cohort -> Nat]
        /\ resolved' \subseteq Cohort
    <3>1. Resolve(counts)
      BY <1>3 DEF counts
    <3> QED
      BY <1>3, <2>1, <2>3, <2>4, <3>1, FinishStep
  <2>6. where' = [where EXCEPT ![s] = "free"]
    BY <1>3 DEF Finish, QueueTyped
  <2>7. Placed'
    BY <1>1, <1>3, <2>6, ElsewherePlaced
  <2> QED
    BY <1>1, <1>3, <2>5, <2>7 DEF QueueTyped
<1> QED
  BY <1>2, <1>3 DEF PublishRecord

LEMMA SettleStep ==
  ASSUME QueueInv, NEW e \in exports, Settle(e)
  PROVE  QueueInv'
<1> USE DEF QueueInv
<1>1. PICK ups \in [Upload -> Cohort \cup {None}] :
        /\ \A u \in Upload :
              \/ ups[u] = uploads[u]
              \/ uploads[u] = None /\ \E s \in e.records : ups[u] = deliveries[s]
        /\ uploads' = ups
        /\ Resolve([c \in Cohort |-> pending[c] + Queued(ups, c) - Waiting(e.records, c)])
        /\ Finish(e.records)
        /\ exports' = exports \ {e}
        /\ UNCHANGED processor
  BY DEF Settle
<1> DEFINE plus == [c \in Cohort |-> Queued(ups, c)]
           new(c) == {u \in Upload : uploads[u] # c /\ ups[u] = c}
<1>2. e.records \in SUBSET Slot
  BY DEF QueueTyped
<1>3. ASSUME NEW c \in Cohort
      PROVE  /\ Queued(ups, c) \in Nat
             /\ Cardinality(Held(c)') = Cardinality(Held(c)) + Queued(ups, c)
             /\ Queued(ups, c) > 0 => pending[c] > 0
  <2>1. Held(c)' = Held(c) \cup new(c) /\ Held(c) \cap new(c) = {}
    BY <1>1, QueueAssumption DEF Held
  <2>2. IsFiniteSet(new(c))
    BY FS_Subset, QueueAssumption, new(c) \in SUBSET Upload
  <2>3. /\ Queued(ups, c) = Cardinality(new(c)) /\ Cardinality(new(c)) \in Nat
        /\ Cardinality(Held(c)') = Cardinality(Held(c)) + Cardinality(new(c))
    <3>1. Queued(ups, c) = Cardinality(new(c))
      BY DEF Queued
    <3> HIDE DEF new
    <3> QED
      BY <2>1, <2>2, <3>1, OwedHeldFinite, DisjointUnion
  <2>4. ASSUME Queued(ups, c) > 0 PROVE pending[c] > 0
    <3>1. new(c) # {}
      BY <2>3, <2>4, FS_EmptySet
    <3>2. PICK s \in e.records : deliveries[s] = c
      BY <1>1, <3>1
    <3>3. Owed(c) # {}
      BY <1>2, <3>2 DEF Owed
    <3>4. Cardinality(Owed(c)) # 0
      BY <3>3, OwedHeldFinite, FS_EmptySet
    <3> QED
      BY <3>4, OwedHeldFinite DEF Counted
  <2> QED
    BY <2>3, <2>4
<1>4. /\ Kept' /\ Counted' /\ Settled'
      /\ where' \in [Slot -> {"free", "deferred", "queued", "exporting"}]
      /\ deliveries' \in [Slot -> Cohort \cup {None}]
      /\ promised' \in [Slot -> Cohort \cup {None}]
      /\ deliveryCohort' \in Cohort \cup {None}
      /\ pending' \in [Cohort -> Nat]
      /\ resolved' \subseteq Cohort
  <2> DEFINE counts == [c \in Cohort |-> pending[c] + plus[c] - Waiting(e.records, c)]
  <2>1. plus \in [Cohort -> Nat] /\ \A c \in Cohort : plus[c] = Queued(ups, c)
    BY <1>3
  <2>2. Resolve(counts)
    BY <1>1
  <2> HIDE DEF plus
  <2>3. \A c \in Cohort : /\ Cardinality(Held(c)') = Cardinality(Held(c)) + plus[c]
                          /\ plus[c] > 0 => pending[c] > 0
    BY <1>3, <2>1
  <2>4. Finish(e.records)
    BY <1>1
  <2> QED
    BY <1>2, <2>1, <2>2, <2>3, <2>4, FinishStep
<1>5. \A s \in Slot : where'[s] = IF s \in e.records THEN "free" ELSE where[s]
  BY <1>1 DEF Finish
<1>6. Placed'
  <2>1. ASSUME NEW g \in Signal PROVE InOrder(processor[g], g)'
    <3>1. processor[g] \in Seq(Slot) /\ InOrder(processor[g], g)
      BY DEF QueueTyped, Placed
    <3>2. \A i \in 1..Len(processor[g]) : processor[g][i] \in Slot \ e.records
      BY <3>1 DEF InOrder, Placed
    <3> QED
      BY <1>1, <1>5, <3>1, <3>2 DEF InOrder
  <2>2. ASSUME NEW f \in exports', NEW s \in f.records PROVE where'[s] = "exporting"
    BY <1>1, <1>5 DEF QueueTyped, Placed
  <2> QED
    BY <1>1, <2>1, <2>2 DEF Placed
<1>7. QueueTyped'
  <2>1. \A f \in exports' : f.records \subseteq Slot
    BY <1>1 DEF QueueTyped
  <2>2. uploads' \in [Upload -> Cohort \cup {None}] /\ processor' \in [Signal -> Seq(Slot)]
    BY <1>1 DEF QueueTyped
  <2> QED
    BY <1>4, <2>1, <2>2 DEF QueueTyped
<1> QED
  BY <1>4, <1>6, <1>7

(* A batch leaves its processor; its cohort is left as well.               *)
LEMMA ExportingStep ==
  ASSUME QueueInv, NEW S \in SUBSET Slot, \A s \in S : where[s] = "queued", Exporting(S)
  PROVE  /\ Kept' /\ Counted' /\ Settled'
         /\ \A s \in Slot : where'[s] = IF s \in S THEN "exporting" ELSE where[s]
         /\ where' \in [Slot -> {"free", "deferred", "queued", "exporting"}]
         /\ deliveryCohort' \in Cohort \cup {None}
<1> USE DEF QueueInv
<1>1. /\ where' = [s \in Slot |-> IF s \in S THEN "exporting" ELSE where[s]]
      /\ deliveryCohort' \in {deliveryCohort, None}
      /\ UNCHANGED <<advisory, deliveries, promised, pending, resolved, uploads>>
  BY DEF Exporting, books
<1>2. Kept'
  BY <1>1 DEF Kept
<1>3. Counted'
  <2>1. \A c \in Cohort : Owed(c)' = Owed(c) /\ Held(c)' = Held(c)
    BY <1>1 DEF Owed, Held
  <2> QED
    BY <1>1, <2>1 DEF Counted
<1>4. Settled'
  BY <1>1 DEF Settled
<1> QED
  BY <1>1, <1>2, <1>3, <1>4 DEF QueueTyped

LEMMA TickStep ==
  ASSUME QueueInv, NEW g \in Signal, Tick(g)
  PROVE  QueueInv'
<1> USE DEF QueueInv
<1> DEFINE q == processor[g]
           S == Sent(g, 1)
           new == [signal |-> g, timer |-> TRUE, records |-> S]
           rest == SubSeq(q, MaxBatch + 1, Len(q))
<1>1. /\ exports' = exports \cup {new} /\ new.records = S
      /\ processor' = [processor EXCEPT ![g] = rest]
      /\ Exporting(S)
  BY DEF Tick
<1>2. q \in Seq(Slot) /\ InOrder(q, g) /\ MaxBatch \in Nat \ {0} /\ Len(q) \in Nat
  BY QueueAssumption DEF QueueTyped, Placed
<1>3. S = {q[k] : k \in {n \in 1..Len(q) : n <= MaxBatch}}
  <2>1. (1 - 1) * MaxBatch = 0 /\ 1 * MaxBatch = MaxBatch
    BY <1>2
  <2>2. S = {q[k] : k \in {n \in 1..Len(q) : (1 - 1) * MaxBatch < n /\ n <= 1 * MaxBatch}}
    BY SentRecords
  <2> QED
    BY <2>1, <2>2
<1>4. S \in SUBSET Slot /\ \A s \in S : where[s] = "queued"
  BY <1>2, <1>3 DEF InOrder
<1>5. /\ rest \in Seq(Slot) /\ Len(rest) \in Nat
      /\ \A k \in 1..Len(rest) : rest[k] = q[MaxBatch + k] /\ MaxBatch + k \in 1..Len(q)
  <2>1. \A k \in MaxBatch + 1..Len(q) : q[k] \in Slot
    BY <1>2
  <2>2. MaxBatch + 1 \in Int /\ Len(q) \in Int
    BY <1>2
  <2>3. /\ rest \in Seq(Slot)
        /\ Len(rest) = IF MaxBatch + 1 <= Len(q) THEN Len(q) - (MaxBatch + 1) + 1 ELSE 0
        /\ \A k \in 1..Len(q) - (MaxBatch + 1) + 1 : rest[k] = q[MaxBatch + 1 + k - 1]
    <3> HIDE DEF q
    <3> QED
      BY <2>1, <2>2, SubSeqProperties
  <2> HIDE DEF rest, q
  <2> QED
    BY <1>2, <2>3
<1> HIDE DEF S, rest, new
<1>6. /\ Kept' /\ Counted' /\ Settled'
      /\ \A s \in Slot : where'[s] = IF s \in S THEN "exporting" ELSE where[s]
      /\ where' \in [Slot -> {"free", "deferred", "queued", "exporting"}]
      /\ deliveryCohort' \in Cohort \cup {None}
  BY <1>1, <1>4, ExportingStep
<1>7. QueueTyped'
  <2>1. processor' \in [Signal -> Seq(Slot)]
    BY <1>1, <1>5 DEF QueueTyped
  <2>2. \A e \in exports' : e.records \subseteq Slot
    BY <1>1, <1>4 DEF QueueTyped
  <2>3. UNCHANGED <<deliveries, promised, pending, resolved, uploads>>
    BY <1>1 DEF Exporting
  <2> QED
    BY <1>6, <2>1, <2>2, <2>3 DEF QueueTyped
<1>8. ASSUME NEW h \in Signal PROVE InOrder(processor[h], h)'
  <2>1. CASE h = g
    <3>1. processor'[h] = rest
      BY <1>1, <2>1 DEF QueueTyped
    <3>2. \A k \in 1..Len(rest) : rest[k] \in Slot /\ rest[k] \notin S
      <4>1. ASSUME NEW k \in 1..Len(rest), NEW n \in 1..Len(q), n <= MaxBatch
            PROVE  rest[k] # q[n]
        <5>1. rest[k] = q[MaxBatch + k] /\ MaxBatch + k \in 1..Len(q) /\ MaxBatch + k # n
          BY <1>2, <1>5, <4>1
        <5> QED
          BY <1>2, <5>1 DEF InOrder
      <4> QED
        BY <1>2, <1>3, <1>5, <4>1
    <3>3. ASSUME NEW i \in 1..Len(rest), NEW j \in 1..Len(rest), rest[i] = rest[j] PROVE i = j
      <4>1. MaxBatch + i = MaxBatch + j
        BY <1>2, <1>5, <3>3 DEF InOrder
      <4> QED
        BY <1>2, <1>5, <4>1
    <3>4. \A i \in 1..Len(rest) : rest[i] \in g /\ where'[rest[i]] = "queued"
      <4> SUFFICES ASSUME NEW i \in 1..Len(rest)
                   PROVE  rest[i] \in g /\ where'[rest[i]] = "queued"
        OBVIOUS
      <4>1. rest[i] = q[MaxBatch + i] /\ MaxBatch + i \in 1..Len(q)
        BY <1>5
      <4>2. q[MaxBatch + i] \in g /\ where[q[MaxBatch + i]] = "queued"
        BY <1>2, <4>1 DEF InOrder
      <4>3. rest[i] \in Slot /\ rest[i] \notin S
        BY <3>2
      <4> QED
        BY <1>6, <4>1, <4>2, <4>3
    <3> QED
      BY <2>1, <3>1, <3>3, <3>4 DEF InOrder
  <2>2. CASE h # g
    <3>1. processor'[h] = processor[h] /\ processor[h] \in Seq(Slot) /\ InOrder(processor[h], h)
      BY <1>1, <2>2 DEF QueueTyped, Placed
    <3>2. \A i \in 1..Len(processor[h]) : processor[h][i] \in Slot \ S
      <4>1. h \cap g = {}
        BY <2>2, QueueAssumption DEF Signal
      <4> QED
        BY <1>2, <1>3, <3>1, <4>1 DEF InOrder
    <3> QED
      BY <1>6, <3>1, <3>2 DEF InOrder
  <2> QED
    BY <2>1, <2>2
<1>9. \A e \in exports : e.records \cap S = {}
  BY <1>4 DEF Placed
<1>10. Placed'
  <2>1. \A e \in exports' : \A s \in e.records : where'[s] = "exporting"
    BY <1>1, <1>4, <1>6 DEF QueueTyped, Placed
  <2>2. \A e, f \in exports' : e # f => e.records \cap f.records = {}
    BY <1>1, <1>9 DEF Placed
  <2> QED
    BY <1>8, <2>1, <2>2 DEF Placed
<1> QED
  BY <1>6, <1>7, <1>10

LEMMA DrainStep ==
  ASSUME QueueInv, NEW g \in Signal, Drain(g)
  PROVE  QueueInv'
<1> USE DEF QueueInv
<1> DEFINE q == processor[g]
           S == Range(q)
           batches == 1..((Len(q) - 1) \div MaxBatch + 1)
           batch(i) == [signal |-> g, timer |-> FALSE, records |-> Sent(g, i)]
<1>1. /\ exports' = exports \cup {batch(i) : i \in batches}
      /\ processor' = [processor EXCEPT ![g] = <<>>]
      /\ Exporting(S)
      /\ q # <<>>
  BY DEF Drain
<1>2. q \in Seq(Slot) /\ InOrder(q, g) /\ Len(q) \in Nat
  BY DEF QueueTyped, Placed
<1>3. S = {q[k] : k \in 1..Len(q)}
  BY <1>2 DEF Range
<1>4. S \in SUBSET Slot /\ \A s \in S : where[s] = "queued"
  BY <1>2, <1>3 DEF InOrder
<1>5. \A i \in batches : i \in Nat \ {0}
  OBVIOUS
<1> HIDE DEF S, batches
<1>6. \A i \in batches : batch(i).records = Sent(g, i) /\ Sent(g, i) \subseteq S
  <2> SUFFICES ASSUME NEW i \in batches PROVE Sent(g, i) \subseteq S
    OBVIOUS
  <2> QED
    BY <1>3, <1>5, SentRecords
<1>7. \A i, j \in batches : batch(i) # batch(j) => Sent(g, i) \cap Sent(g, j) = {}
  <2> SUFFICES ASSUME NEW i \in batches, NEW j \in batches, batch(i) # batch(j)
               PROVE  Sent(g, i) \cap Sent(g, j) = {}
    OBVIOUS
  <2>1. i # j
    OBVIOUS
  <2>2. i \in Nat \ {0} /\ j \in Nat \ {0}
    BY <1>5
  <2>3. CASE i < j
    BY <1>2, <2>2, <2>3, SentApart
  <2>4. CASE j < i
    <3>1. Sent(g, j) \cap Sent(g, i) = {}
      BY <1>2, <2>2, <2>4, SentApart
    <3> QED
      BY <3>1
  <2> QED
    BY <2>1, <2>2, <2>3, <2>4
<1>8. /\ Kept' /\ Counted' /\ Settled'
      /\ \A s \in Slot : where'[s] = IF s \in S THEN "exporting" ELSE where[s]
      /\ where' \in [Slot -> {"free", "deferred", "queued", "exporting"}]
      /\ deliveryCohort' \in Cohort \cup {None}
  BY <1>1, <1>4, ExportingStep
<1> DEFINE new == {batch(i) : i \in batches}
<1>9. /\ \A e \in new : e.records \subseteq S
      /\ \A e, f \in new : e # f => e.records \cap f.records = {}
  BY <1>6, <1>7
<1> HIDE DEF batch, new
<1>10. exports' = exports \cup new
  BY <1>1 DEF new
<1>11. QueueTyped'
  <2>1. processor' \in [Signal -> Seq(Slot)]
    BY <1>1 DEF QueueTyped
  <2>2. \A e \in exports' : e.records \subseteq Slot
    BY <1>4, <1>9, <1>10 DEF QueueTyped
  <2>3. UNCHANGED <<deliveries, promised, pending, resolved, uploads>>
    BY <1>1 DEF Exporting
  <2> QED
    BY <1>8, <2>1, <2>2, <2>3 DEF QueueTyped
<1>12. ASSUME NEW h \in Signal PROVE InOrder(processor[h], h)'
  <2>1. CASE h = g
    <3>1. processor'[h] = <<>>
      BY <1>1, <2>1 DEF QueueTyped
    <3> QED
      BY <3>1 DEF InOrder
  <2>2. CASE h # g
    <3>1. processor'[h] = processor[h] /\ processor[h] \in Seq(Slot) /\ InOrder(processor[h], h)
      BY <1>1, <2>2 DEF QueueTyped, Placed
    <3>2. \A i \in 1..Len(processor[h]) : processor[h][i] \in Slot \ S
      <4>1. h \cap g = {}
        BY <2>2, QueueAssumption DEF Signal
      <4> QED
        BY <1>2, <1>3, <3>1, <4>1 DEF InOrder
    <3> QED
      BY <1>8, <3>1, <3>2 DEF InOrder
  <2> QED
    BY <2>1, <2>2
<1>13. \A e \in exports : e.records \cap S = {}
  BY <1>4 DEF Placed
<1>14. Placed'
  <2>1. \A e \in exports' : \A s \in e.records : where'[s] = "exporting"
    BY <1>4, <1>8, <1>9, <1>10 DEF QueueTyped, Placed
  <2>2. \A e, f \in exports' : e # f => e.records \cap f.records = {}
    BY <1>9, <1>10, <1>13 DEF Placed
  <2> QED
    BY <1>12, <2>1, <2>2 DEF Placed
<1> QED
  BY <1>8, <1>11, <1>14

LEMMA UploadSettlesStep ==
  ASSUME QueueInv, NEW u \in Upload, UploadSettles(u)
  PROVE  QueueInv'
<1> USE DEF QueueInv
<1> DEFINE k == uploads[u]
           counts == [pending EXCEPT ![k] = @ - 1]
<1>1. /\ k \in Cohort /\ u \in Held(k)
      /\ uploads' = [uploads EXCEPT ![u] = None]
      /\ Resolve(counts)
      /\ UNCHANGED <<where, advisory, deliveries, promised, processor, exports>>
  BY DEF UploadSettles, QueueTyped, Held, books
<1>2. ASSUME NEW c \in Cohort
      PROVE  /\ counts[c] = Cardinality(Owed(c)') + Cardinality(Held(c)')
             /\ counts[c] \in Nat
             /\ pending[c] = 0 => counts[c] = 0
  <2>1. Owed(c)' = Owed(c)
    BY <1>1 DEF Owed
  <2>2. Held(c)' = IF c = k THEN Held(c) \ {u} ELSE Held(c)
    BY <1>1, QueueAssumption DEF Held, QueueTyped
  <2>3. Cardinality(Held(k) \ {u}) = Cardinality(Held(k)) - 1 /\ Cardinality(Held(k)) # 0
    BY <1>1, OwedHeldFinite, FS_RemoveElement, FS_EmptySet
  <2>4. /\ Cardinality(Owed(c)) \in Nat /\ Cardinality(Held(c)) \in Nat
        /\ pending[c] = Cardinality(Owed(c)) + Cardinality(Held(c))
    BY OwedHeldFinite DEF Counted
  <2>5. counts[c] = IF c = k THEN pending[c] - 1 ELSE pending[c]
    BY <1>1 DEF QueueTyped
  <2> HIDE DEF counts, k
  <2>6. CASE c = k
    <3>1. Cardinality(Held(c)') = Cardinality(Held(c)) - 1 /\ Cardinality(Held(c)) # 0
      BY <2>2, <2>3, <2>6
    <3> QED
      BY <2>1, <2>4, <2>5, <2>6, <3>1
  <2>7. CASE c # k
    BY <2>1, <2>2, <2>4, <2>5, <2>7
  <2> QED
    BY <2>6, <2>7
<1>3. counts \in [Cohort -> Nat]
  BY <1>1, <1>2 DEF QueueTyped
<1>4. /\ Settled' /\ pending' = counts /\ pending' \in [Cohort -> Nat]
      /\ resolved' \subseteq Cohort /\ deliveryCohort' \in Cohort \cup {None}
  BY <1>1, <1>2, <1>3, ResolveSettles
<1>5. Counted'
  BY <1>2, <1>4 DEF Counted
<1>6. Kept' /\ Placed'
  BY <1>1 DEF Kept, Placed, InOrder
<1>7. QueueTyped'
  BY <1>1, <1>4 DEF QueueTyped
<1> QED
  BY <1>4, <1>5, <1>6, <1>7

(* What changes none of the queue's own variables.                         *)
LEMMA IdleStep ==
  ASSUME QueueInv, UNCHANGED <<where, books, deliveries, promised, cohorts, uploads, processor, exports>>
  PROVE  QueueInv'
<1>1. QueueTyped' /\ Placed' /\ Kept'
  BY DEF QueueInv, QueueTyped, Placed, InOrder, Kept, books, cohorts
<1> QED
  BY <1>1, CohortsKept DEF QueueInv

LEMMA QueueSteps == QueueInv /\ [QueueNext]_queueVars => QueueInv'
<1> SUFFICES ASSUME QueueInv, [QueueNext]_queueVars PROVE QueueInv'
  OBVIOUS
<1>1. ASSUME NEW s \in Slot, NEW size \in 1..MaxSize, Admit(s, size) PROVE QueueInv'
  BY <1>1, AdmitStep
<1>2. ASSUME NEW s \in Slot, NEW size \in 1..MaxSize, Announce(s, size) PROVE QueueInv'
  BY <1>2, AnnounceStep
<1>3. ASSUME NEW s \in Slot, NEW size \in 1..MaxSize, PublishRecord(s, size) PROVE QueueInv'
  BY <1>3, PublishStep
<1>4. ASSUME NEW g \in Signal, Tick(g) PROVE QueueInv'
  BY <1>4, TickStep
<1>5. ASSUME NEW g \in Signal, Drain(g) PROVE QueueInv'
  BY <1>5, DrainStep
<1>6. ASSUME NEW e \in exports, Settle(e) PROVE QueueInv'
  BY <1>6, SettleStep
<1>7. ASSUME NEW u \in Upload, UploadSettles(u) PROVE QueueInv'
  BY <1>7, UploadSettlesStep
<1>8. CASE Close
  BY <1>8, IdleStep DEF Close
<1>9. CASE UNCHANGED queueVars
  BY <1>9, IdleStep DEF queueVars
<1> QED
  BY <1>1, <1>2, <1>3, <1>4, <1>5, <1>6, <1>7, <1>8, <1>9 DEF QueueNext

(* The promise a request's host was given for a record is not resolved     *)
(* before the record and the uploads of its cohort are settled             *)
(* (transport.ts, protectDelivery, holdDelivery and finishDelivery).       *)
THEOREM HostPromises == QueueSpec => []HostPromiseHolds
<1>1. QueueSpec => []QueueInv
  BY QueueStarts, QueueSteps, PTL DEF QueueSpec
<1>2. QueueInv => HostPromiseHolds
  BY OwedIsNotResolved
<1> QED
  BY <1>1, <1>2, PTL

-----------------------------------------------------------------------------
(* The books.                                                              *)

Found ==
    /\ \A s \in Slot : where[s] = "queued" =>
          \E g \in Signal : \E i \in 1..Len(processor[g]) : processor[g][i] = s
    /\ \A s \in Slot : where[s] = "exporting" => \E e \in exports : s \in e.records

Charged ==
    /\ bytes \in [Slot -> 0..MaxSize]
    /\ \A s \in Slot : where[s] = "free" => bytes[s] = 0
    /\ pendingBytes = Total(bytes, Slot) /\ pendingBytes <= MaxBytes

Placeholders ==
    /\ advisory \subseteq Span
    /\ \A s \in advisory : where[s] \in {"queued", "exporting"}
    /\ 4 * Total(bytes, advisory) <= MaxBytes
    /\ 4 * (Cardinality(advisory) - 1) < MaxQueue

Roomy ==
    /\ \A g \in Signal : Cardinality(g \cap Outstanding) <= MaxQueue
    /\ closed \in BOOLEAN

Accounts == Found /\ Charged /\ Placeholders /\ Roomy

LEMMA SlotsFinite ==
  /\ \A S \in SUBSET Slot : IsFiniteSet(S) /\ Cardinality(S) \in Nat
  /\ \A g \in Signal : g \in SUBSET Slot
  /\ Span \in SUBSET Slot /\ Span \in Signal
  /\ MaxSize \in Nat /\ MaxBytes \in Nat /\ MaxQueue \in Nat /\ None \notin Cohort
BY QueueAssumption, FS_Subset, FS_CardinalityType DEF Slot, Signal

LEMMA InitAccounts ==
  ASSUME QueueInit
  PROVE  Accounts
<1>1. Found
  BY DEF QueueInit, Found
<1>2. Charged
  <2>1. Total(bytes, Slot) = 0
    BY SlotsFinite, TotalZero DEF QueueInit
  <2>2. bytes \in [Slot -> 0..MaxSize] /\ 0 <= MaxBytes
    BY SlotsFinite DEF QueueInit
  <2> QED
    BY <2>1, <2>2 DEF QueueInit, Charged
<1>3. Placeholders
  <2>1. Total(bytes, advisory) = 0 /\ Cardinality(advisory) = 0
    BY TotalEmpty, FS_EmptySet DEF QueueInit
  <2>2. advisory = {} /\ 4 * (0 - 1) < MaxQueue /\ 4 * 0 <= MaxBytes
    BY SlotsFinite DEF QueueInit
  <2> QED
    BY <2>1, <2>2 DEF Placeholders
<1>4. Roomy
  <2>1. \A g \in Signal : g \cap Outstanding = {}
    BY SlotsFinite DEF QueueInit, Outstanding
  <2>2. Cardinality({}) = 0 /\ 0 <= MaxQueue
    BY FS_EmptySet, SlotsFinite
  <2>3. closed \in BOOLEAN
    BY DEF QueueInit
  <2> QED
    BY <2>1, <2>2, <2>3 DEF Roomy
<1> QED
  BY <1>1, <1>2, <1>3, <1>4 DEF Accounts

-----------------------------------------------------------------------------
(* A place is found where it waits.                                        *)

LEMMA AppendFound ==
  ASSUME QueueTyped, Found, NEW g \in Signal, NEW s \in Slot,
         where' = [where EXCEPT ![s] = "queued"],
         processor' = [processor EXCEPT ![g] = Append(@, s)],
         exports' = exports
  PROVE  Found'
<1>1. processor \in [Signal -> Seq(Slot)] /\ processor[g] \in Seq(Slot)
  BY DEF QueueTyped
<1>2. /\ Len(Append(processor[g], s)) = Len(processor[g]) + 1 /\ Len(processor[g]) \in Nat
      /\ \A i \in 1..Len(processor[g]) : Append(processor[g], s)[i] = processor[g][i]
      /\ Append(processor[g], s)[Len(processor[g]) + 1] = s
  BY <1>1, AppendProperties
<1>3. \A t \in Slot : where'[t] = IF t = s THEN "queued" ELSE where[t]
  BY DEF QueueTyped
<1>4. processor'[g] = Append(processor[g], s) /\ \A h \in Signal \ {g} : processor'[h] = processor[h]
  BY <1>1
<1>5. ASSUME NEW t \in Slot, where'[t] = "queued"
      PROVE  \E h \in Signal : \E i \in 1..Len(processor'[h]) : processor'[h][i] = t
  <2>1. CASE t = s
    <3>1. Len(processor[g]) + 1 \in 1..Len(processor'[g]) /\ processor'[g][Len(processor[g]) + 1] = s
      BY <1>2, <1>4
    <3> QED
      BY <2>1, <3>1
  <2>2. CASE t # s
    <3>1. PICK h \in Signal : \E i \in 1..Len(processor[h]) : processor[h][i] = t
      BY <1>3, <1>5, <2>2 DEF Found
    <3>2. PICK i \in 1..Len(processor[h]) : processor[h][i] = t
      BY <3>1
    <3>3. i \in 1..Len(processor'[h]) /\ processor'[h][i] = t
      BY <1>2, <1>4, <3>2
    <3> QED
      BY <3>3
  <2> QED
    BY <2>1, <2>2
<1>6. ASSUME NEW t \in Slot, where'[t] = "exporting" PROVE \E e \in exports' : t \in e.records
  BY <1>3, <1>6 DEF Found
<1> QED
  BY <1>5, <1>6 DEF Found

LEMMA ElsewhereFound ==
  ASSUME QueueTyped, Found, NEW s \in Slot, NEW v, v \notin {"queued", "exporting"},
         where' = [where EXCEPT ![s] = v], UNCHANGED <<processor, exports>>
  PROVE  Found'
<1>1. \A t \in Slot : where'[t] = IF t = s THEN v ELSE where[t]
  BY DEF QueueTyped
<1> QED
  BY <1>1 DEF Found

LEMMA SettleFound ==
  ASSUME QueueInv, Found, NEW e \in exports, Settle(e)
  PROVE  Found'
<1>1. Finish(e.records) /\ exports' = exports \ {e} /\ processor' = processor
  BY DEF Settle
<1>2. \A t \in Slot : where'[t] = IF t \in e.records THEN "free" ELSE where[t]
  BY <1>1 DEF Finish
<1> QED
  BY <1>1, <1>2 DEF Found

LEMMA TickFound ==
  ASSUME QueueInv, Found, NEW g \in Signal, Tick(g)
  PROVE  Found'
<1> DEFINE q == processor[g]
           S == Sent(g, 1)
           new == [signal |-> g, timer |-> TRUE, records |-> S]
           rest == SubSeq(q, MaxBatch + 1, Len(q))
<1>1. /\ exports' = exports \cup {new} /\ new.records = S
      /\ processor' = [processor EXCEPT ![g] = rest]
      /\ \A t \in Slot : where'[t] = IF t \in S THEN "exporting" ELSE where[t]
  BY DEF Tick, Exporting
<1>2. q \in Seq(Slot) /\ MaxBatch \in Nat \ {0} /\ Len(q) \in Nat /\ processor \in [Signal -> Seq(Slot)]
  BY QueueAssumption DEF QueueInv, QueueTyped
<1>3. S = {q[k] : k \in {n \in 1..Len(q) : n <= MaxBatch}}
  <2>1. (1 - 1) * MaxBatch = 0 /\ 1 * MaxBatch = MaxBatch
    BY <1>2
  <2>2. S = {q[k] : k \in {n \in 1..Len(q) : (1 - 1) * MaxBatch < n /\ n <= 1 * MaxBatch}}
    BY SentRecords DEF QueueInv
  <2> QED
    BY <2>1, <2>2
<1>4. \A k \in MaxBatch + 1..Len(q) : k - MaxBatch \in 1..Len(rest) /\ rest[k - MaxBatch] = q[k]
  <2>1. \A k \in MaxBatch + 1..Len(q) : q[k] \in Slot
    BY <1>2
  <2>2. MaxBatch + 1 \in Int /\ Len(q) \in Int
    BY <1>2
  <2>3. /\ Len(rest) = IF MaxBatch + 1 <= Len(q) THEN Len(q) - (MaxBatch + 1) + 1 ELSE 0
        /\ \A k \in 1..Len(q) - (MaxBatch + 1) + 1 : rest[k] = q[MaxBatch + 1 + k - 1]
    <3> HIDE DEF q
    <3> QED
      BY <2>1, <2>2, SubSeqProperties
  <2> HIDE DEF rest, q
  <2> QED
    BY <1>2, <2>3
<1> HIDE DEF S, rest, new
<1>5. processor'[g] = rest /\ \A h \in Signal \ {g} : processor'[h] = processor[h]
  BY <1>1, <1>2
<1>6. ASSUME NEW t \in Slot, where'[t] = "queued"
      PROVE  \E h \in Signal : \E i \in 1..Len(processor'[h]) : processor'[h][i] = t
  <2>1. where[t] = "queued" /\ t \notin S
    BY <1>1, <1>6
  <2>2. PICK h \in Signal : \E i \in 1..Len(processor[h]) : processor[h][i] = t
    BY <2>1 DEF Found
  <2>3. PICK i \in 1..Len(processor[h]) : processor[h][i] = t
    BY <2>2
  <2>4. CASE h = g
    <3>1. i \in MaxBatch + 1..Len(q)
      BY <1>2, <1>3, <2>1, <2>3, <2>4
    <3> QED
      BY <1>4, <1>5, <2>3, <2>4, <3>1
  <2>5. CASE h # g
    BY <1>5, <2>3, <2>5
  <2> QED
    BY <2>4, <2>5
<1>7. ASSUME NEW t \in Slot, where'[t] = "exporting" PROVE \E e \in exports' : t \in e.records
  <2>1. CASE t \in S
    BY <1>1, <2>1
  <2>2. CASE t \notin S
    BY <1>1, <1>7, <2>2 DEF Found
  <2> QED
    BY <2>1, <2>2
<1> QED
  BY <1>6, <1>7 DEF Found

(* The batches of a drained processor hold all it held.                    *)
LEMMA BatchOf ==
  ASSUME NEW m \in Nat \ {0}, NEW n \in Nat, NEW k \in 1..n
  PROVE  \E i \in 1..((n - 1) \div m + 1) : (i - 1) * m < k /\ k <= i * m
<1> DEFINE d == (k - 1) \div m
           l == (n - 1) \div m
<1>1. k - 1 \in Nat /\ n - 1 \in Nat
  OBVIOUS
<1>2. /\ d \in Nat /\ l \in Nat
      /\ m * d <= k - 1 /\ k - 1 < m * d + m
      /\ m * l <= n - 1 /\ n - 1 < m * l + m
  BY <1>1
<1> HIDE DEF d, l
<1>3. d <= l
  <2> SUFFICES ASSUME d > l PROVE FALSE
    BY <1>2
  <2>1. PICK x \in Nat : d = l + 1 + x
    <3>1. d - l - 1 \in Nat /\ d = l + 1 + (d - l - 1)
      BY <1>2
    <3> QED
      BY <3>1
  <2>2. m * d = m * l + m + m * x /\ m * x \in Nat /\ m * l \in Nat /\ m * d \in Nat
    BY <1>2, <2>1
  <2> QED
    BY <1>2, <2>2
<1>4. d + 1 \in 1..l + 1 /\ ((d + 1) - 1) * m < k /\ k <= (d + 1) * m
  <2>1. ((d + 1) - 1) * m = m * d /\ (d + 1) * m = m * d + m /\ m * d \in Nat
    BY <1>2
  <2> QED
    BY <1>2, <1>3, <2>1
<1> QED
  BY <1>4 DEF l

LEMMA DrainFound ==
  ASSUME QueueInv, Found, NEW g \in Signal, Drain(g)
  PROVE  Found'
<1> DEFINE q == processor[g]
           S == Range(q)
           batches == 1..((Len(q) - 1) \div MaxBatch + 1)
           batch(i) == [signal |-> g, timer |-> FALSE, records |-> Sent(g, i)]
<1>1. /\ exports' = exports \cup {batch(i) : i \in batches}
      /\ processor' = [processor EXCEPT ![g] = <<>>]
      /\ \A t \in Slot : where'[t] = IF t \in S THEN "exporting" ELSE where[t]
  BY DEF Drain, Exporting
<1>2. q \in Seq(Slot) /\ Len(q) \in Nat /\ MaxBatch \in Nat \ {0} /\ processor \in [Signal -> Seq(Slot)]
  BY QueueAssumption DEF QueueInv, QueueTyped
<1>3. S = {q[k] : k \in 1..Len(q)}
  BY <1>2 DEF Range
<1>4. ASSUME NEW t \in S PROVE \E e \in exports' : t \in e.records
  <2>1. PICK k \in 1..Len(q) : t = q[k]
    BY <1>3
  <2>2. PICK i \in batches : (i - 1) * MaxBatch < k /\ k <= i * MaxBatch
    <3> HIDE DEF q
    <3> QED
      BY <1>2, BatchOf
  <2>3. t \in Sent(g, i)
    <3>1. i \in Nat \ {0}
      OBVIOUS
    <3> QED
      BY <2>1, <2>2, <3>1, SentRecords DEF QueueInv
  <2>4. batch(i) \in exports' /\ batch(i).records = Sent(g, i)
    BY <1>1
  <2> QED
    BY <2>3, <2>4
<1>5. ASSUME NEW t \in Slot, where'[t] = "queued"
      PROVE  \E h \in Signal : \E i \in 1..Len(processor'[h]) : processor'[h][i] = t
  <2> HIDE DEF S
  <2>1. where[t] = "queued" /\ t \notin S
    BY <1>1, <1>5
  <2>2. PICK h \in Signal : \E i \in 1..Len(processor[h]) : processor[h][i] = t
    BY <2>1 DEF Found
  <2>3. h # g
    BY <1>3, <2>1, <2>2
  <2> QED
    BY <1>1, <1>2, <2>2, <2>3
<1>6. ASSUME NEW t \in Slot, where'[t] = "exporting" PROVE \E e \in exports' : t \in e.records
  <2> HIDE DEF S
  <2>1. CASE t \in S
    BY <1>4, <2>1
  <2>2. CASE t \notin S
    BY <1>1, <1>6, <2>2 DEF Found
  <2> QED
    BY <2>1, <2>2
<1> QED
  BY <1>5, <1>6 DEF Found

-----------------------------------------------------------------------------
(* The charges.                                                            *)

LEMMA ChargeBooks ==
  ASSUME QueueTyped, Charged, NEW s \in Slot, NEW size \in 1..MaxSize, Charge(s, size),
         NEW v, v # "free", where' = [where EXCEPT ![s] = v],
         pendingBytes - bytes[s] + size <= MaxBytes
  PROVE  /\ Charged'
         /\ \A A \in SUBSET Slot : /\ Total(bytes', A) \in Nat /\ Total(bytes', A) <= pendingBytes'
                                   /\ s \notin A => Total(bytes', A) = Total(bytes, A)
<1> PICK charges : charges = bytes'
  OBVIOUS
<1>1. /\ \A t \in Slot : charges[t] = IF t = s THEN size ELSE bytes[t]
      /\ charges \in [Slot -> 0..MaxSize] /\ bytes \in [Slot -> 0..MaxSize]
      /\ \A t \in Slot : charges[t] \in Nat /\ bytes[t] \in Nat
      /\ size \in Nat
  BY SlotsFinite DEF Charge, Charged
<1>2. ASSUME NEW A \in SUBSET Slot, s \notin A PROVE Total(charges, A) = Total(bytes, A)
  <2>1. IsFiniteSet(A) /\ \A x \in A : bytes[x] \in Int /\ charges[x] = bytes[x]
    BY <1>1, <1>2, SlotsFinite
  <2> QED
    BY <2>1, TotalSame
<1>3. ASSUME NEW b, \A t \in Slot : b[t] \in Nat
      PROVE  Total(b, Slot) = b[s] + Total(b, Slot \ {s}) /\ Total(b, Slot \ {s}) \in Nat
  <2>1. IsFiniteSet(Slot) /\ IsFiniteSet(Slot \ {s}) /\ \A x \in Slot : b[x] \in Int
    BY <1>3, SlotsFinite
  <2>2. Total(b, Slot) = b[s] + Total(b, Slot \ {s})
    BY <2>1, TotalRemove
  <2>3. Total(b, Slot \ {s}) \in Nat
    BY <1>3, <2>1, TotalNat
  <2> QED
    BY <2>2, <2>3
<1>4. Total(charges, Slot \ {s}) = Total(bytes, Slot \ {s})
  BY <1>2
<1>5. Total(charges, Slot) = pendingBytes + size - bytes[s] /\ pendingBytes \in Nat
  <2>1. /\ Total(charges, Slot) = size + Total(bytes, Slot \ {s})
        /\ Total(bytes, Slot) = bytes[s] + Total(bytes, Slot \ {s})
        /\ Total(bytes, Slot \ {s}) \in Nat /\ bytes[s] \in Nat
    BY <1>1, <1>3, <1>4
  <2>2. pendingBytes = Total(bytes, Slot)
    BY DEF Charged
  <2> QED
    BY <1>1, <2>1, <2>2
<1>6. pendingBytes' = pendingBytes + size - bytes[s] /\ bytes[s] \in Nat
  BY <1>1 DEF Charge
<1>7. \A A \in SUBSET Slot : Total(charges, A) \in Nat /\ Total(charges, A) <= Total(charges, Slot)
  BY <1>1, SlotsFinite, TotalPart
<1>8. pendingBytes' = Total(charges, Slot) /\ pendingBytes' <= MaxBytes
  BY <1>1, <1>5, <1>6, SlotsFinite
<1>9. Charged'
  <2>1. \A t \in Slot : where'[t] = "free" => charges[t] = 0
    <3>1. \A t \in Slot : where'[t] = "free" => t # s /\ where[t] = "free"
      BY DEF QueueTyped
    <3> QED
      BY <1>1, <3>1 DEF Charged
  <2> QED
    BY <1>1, <1>8, <2>1 DEF Charged
<1> QED
  BY <1>2, <1>7, <1>8, <1>9

LEMMA FinishBooks ==
  ASSUME Charged, NEW S \in SUBSET Slot, Finish(S)
  PROVE  Charged' /\ \A A \in SUBSET Slot : Total(bytes', A \ S) <= Total(bytes, A)
<1> PICK charges : charges = bytes'
  OBVIOUS
<1>1. /\ \A t \in Slot : charges[t] = IF t \in S THEN 0 ELSE bytes[t]
      /\ charges \in [Slot -> 0..MaxSize] /\ bytes \in [Slot -> 0..MaxSize]
      /\ \A t \in Slot : charges[t] \in Nat /\ bytes[t] \in Nat
  BY SlotsFinite DEF Finish, Charged
<1>2. ASSUME NEW A \in SUBSET Slot PROVE Total(charges, A \ S) = Total(bytes, A \ S)
  <2>1. IsFiniteSet(A \ S) /\ \A x \in A \ S : bytes[x] \in Int /\ charges[x] = bytes[x]
    BY <1>1, SlotsFinite, A \ S \in SUBSET Slot
  <2> QED
    BY <2>1, TotalSame
<1>3. ASSUME NEW A \in SUBSET Slot
      PROVE  Total(bytes, A \ S) \in Nat /\ Total(bytes, A) \in Nat /\ Total(bytes, A \ S) <= Total(bytes, A)
  <2>1. IsFiniteSet(A) /\ A \ S \in SUBSET A /\ \A x \in A : bytes[x] \in Nat
    BY <1>1, SlotsFinite
  <2> QED
    BY <2>1, TotalPart, TotalNat
<1>4. /\ Total(bytes, Slot) = Total(bytes, S) + Total(bytes, Slot \ S)
      /\ Total(charges, Slot) = Total(charges, S) + Total(charges, Slot \ S)
      /\ Total(bytes, S) \in Nat /\ Total(bytes, Slot \ S) \in Nat
  <2>1. IsFiniteSet(Slot) /\ S \in SUBSET Slot
    BY SlotsFinite
  <2>2. ASSUME NEW b, \A t \in Slot : b[t] \in Nat
        PROVE  /\ Total(b, Slot) = Total(b, S) + Total(b, Slot \ S)
               /\ Total(b, S) \in Nat /\ Total(b, Slot \ S) \in Nat
    BY <2>1, <2>2, TotalPart
  <2>3. (\A t \in Slot : bytes[t] \in Nat) /\ (\A t \in Slot : charges[t] \in Nat)
    BY <1>1
  <2> QED
    BY <2>2, <2>3
<1>5. Total(charges, S) = 0
  BY <1>1, SlotsFinite, TotalZero
<1>6. Total(charges, Slot \ S) = Total(bytes, Slot \ S)
  BY <1>2
<1>7. pendingBytes = Total(bytes, Slot) /\ pendingBytes <= MaxBytes /\ MaxBytes \in Nat
  BY SlotsFinite DEF Charged
<1>8. pendingBytes' = pendingBytes - Total(bytes, S)
  BY DEF Finish, Total
<1>9. pendingBytes' = Total(charges, Slot) /\ pendingBytes' <= MaxBytes
  BY <1>4, <1>5, <1>6, <1>7, <1>8
<1>10. \A t \in Slot : where'[t] = "free" => charges[t] = 0
  BY <1>1 DEF Finish, Charged
<1>11. Charged'
  BY <1>1, <1>9, <1>10 DEF Charged
<1> QED
  BY <1>2, <1>3, <1>11

-----------------------------------------------------------------------------
(* The places.                                                             *)

LEMMA RoomStays ==
  ASSUME Roomy, Outstanding' \subseteq Outstanding, closed' \in BOOLEAN
  PROVE  Roomy'
<1>1. ASSUME NEW g \in Signal PROVE Cardinality(g \cap Outstanding') <= MaxQueue
  <2>1. g \cap Outstanding \in SUBSET Slot /\ g \cap Outstanding' \in SUBSET (g \cap Outstanding)
    BY DEF Outstanding
  <2>2. /\ Cardinality(g \cap Outstanding') <= Cardinality(g \cap Outstanding)
        /\ IsFiniteSet(g \cap Outstanding') /\ IsFiniteSet(g \cap Outstanding)
    BY <2>1, SlotsFinite, FS_Subset
  <2>3. Cardinality(g \cap Outstanding') \in Nat /\ Cardinality(g \cap Outstanding) \in Nat
    BY <2>2, FS_CardinalityType
  <2> QED
    BY <2>2, <2>3, SlotsFinite DEF Roomy
<1> QED
  BY <1>1 DEF Roomy

LEMMA RoomTaken ==
  ASSUME Roomy, NEW g \in Signal, NEW s \in g, s \notin Outstanding,
         Outstanding' = Outstanding \cup {s},
         Cardinality(g \cap Outstanding) < MaxQueue, closed' \in BOOLEAN
  PROVE  Roomy'
<1>1. ASSUME NEW h \in Signal PROVE Cardinality(h \cap Outstanding') <= MaxQueue
  <2>1. CASE h = g
    <3>1. h \cap Outstanding' = (g \cap Outstanding) \cup {s} /\ g \cap Outstanding \in SUBSET Slot
      BY <2>1 DEF Outstanding
    <3>2. IsFiniteSet(g \cap Outstanding) /\ Cardinality(g \cap Outstanding) \in Nat /\ s \notin g \cap Outstanding
      BY <3>1, SlotsFinite
    <3>3. Cardinality((g \cap Outstanding) \cup {s}) = Cardinality(g \cap Outstanding) + 1
      BY <3>2, FS_AddElement
    <3>4. Cardinality(g \cap Outstanding) + 1 <= MaxQueue
      BY <3>2, SlotsFinite
    <3> QED
      BY <3>1, <3>3, <3>4
  <2>2. CASE h # g
    <3>1. s \notin h
      BY <2>2, QueueAssumption DEF Signal
    <3>2. h \cap Outstanding' = h \cap Outstanding
      BY <3>1
    <3> QED
      BY <3>2 DEF Roomy
  <2> QED
    BY <2>1, <2>2
<1> QED
  BY <1>1 DEF Roomy

(* Records that only move keep the books.                                  *)
LEMMA MoveKeeps ==
  ASSUME Charged, Placeholders, Roomy, UNCHANGED <<books, closed>>, NEW S \in SUBSET Slot,
         \A s \in S : where[s] = "queued",
         where' = [s \in Slot |-> IF s \in S THEN "exporting" ELSE where[s]]
  PROVE  Charged' /\ Placeholders' /\ Roomy'
<1>1. Outstanding' = Outstanding /\ closed' = closed
  BY DEF Outstanding
<1>2. \A s \in Slot : where'[s] = "free" <=> where[s] = "free"
  OBVIOUS
<1>3. bytes' = bytes /\ pendingBytes' = pendingBytes /\ advisory' = advisory
  BY DEF books
<1>4. Charged'
  BY <1>2, <1>3 DEF Charged
<1>5. \A s \in advisory : where'[s] \in {"queued", "exporting"}
  BY SlotsFinite DEF Placeholders
<1>6. Placeholders'
  BY <1>3, <1>5 DEF Placeholders
<1>7. closed' \in BOOLEAN
  BY <1>1 DEF Roomy
<1> QED
  BY <1>1, <1>4, <1>6, <1>7, RoomStays

LEMMA FinishKeeps ==
  ASSUME Charged, Placeholders, Roomy, NEW S \in SUBSET Slot, Finish(S), closed' = closed
  PROVE  Charged' /\ Placeholders' /\ Roomy'
<1>1. /\ advisory' = advisory \ S
      /\ \A s \in Slot : where'[s] = IF s \in S THEN "free" ELSE where[s]
  BY DEF Finish
<1>2. Charged' /\ \A A \in SUBSET Slot : Total(bytes', A \ S) <= Total(bytes, A)
  BY FinishBooks
<1>3. advisory \in SUBSET Slot /\ advisory \ S \in SUBSET Slot
  BY SlotsFinite DEF Placeholders
<1>4. 4 * Total(bytes', advisory') <= MaxBytes
  <2> PICK charges : charges = bytes'
    OBVIOUS
  <2>1. \A t \in Slot : charges[t] \in Nat /\ bytes[t] \in Nat
    BY <1>2, SlotsFinite DEF Charged
  <2>2. Total(charges, advisory \ S) \in Nat /\ Total(bytes, advisory) \in Nat
    BY <1>3, <2>1, SlotsFinite, TotalNat
  <2>3. Total(charges, advisory \ S) <= Total(bytes, advisory)
    BY <1>2, <1>3
  <2>4. 4 * Total(bytes, advisory) <= MaxBytes /\ MaxBytes \in Nat
    BY SlotsFinite DEF Placeholders
  <2> QED
    BY <1>1, <2>2, <2>3, <2>4
<1>5. 4 * (Cardinality(advisory') - 1) < MaxQueue
  <2>1. Cardinality(advisory \ S) <= Cardinality(advisory)
    BY <1>3, SlotsFinite, FS_Subset, advisory \ S \in SUBSET advisory
  <2>2. Cardinality(advisory \ S) \in Nat /\ Cardinality(advisory) \in Nat /\ MaxQueue \in Nat
    BY <1>3, SlotsFinite
  <2>3. 4 * (Cardinality(advisory) - 1) < MaxQueue
    BY DEF Placeholders
  <2> QED
    BY <1>1, <2>1, <2>2, <2>3
<1>6. \A s \in advisory' : where'[s] \in {"queued", "exporting"}
  BY <1>1, <1>3 DEF Placeholders
<1>7. Placeholders'
  BY <1>1, <1>4, <1>5, <1>6 DEF Placeholders
<1>8. Outstanding' \subseteq Outstanding
  BY <1>1 DEF Outstanding
<1>9. closed' \in BOOLEAN
  BY DEF Roomy
<1> QED
  BY <1>2, <1>7, <1>8, <1>9, RoomStays

-----------------------------------------------------------------------------
(* Each step.                                                              *)

LEMMA AdmitBooks ==
  ASSUME QueueInv, Accounts, NEW s \in Slot, NEW size \in 1..MaxSize, Admit(s, size)
  PROVE  Accounts'
<1> DEFINE g == IF s \in Span THEN Span ELSE Log
<1>1. /\ where[s] = "free" /\ Fits(g, size) /\ Charge(s, size)
      /\ UNCHANGED <<advisory, exports, closed>>
  BY DEF Admit
<1>2. g \in Signal /\ s \in g
  BY DEF Slot, Signal
<1>3. PICK v \in {"queued", "deferred"} :
        /\ where' = [where EXCEPT ![s] = v]
        /\ v = "queued" => processor' = [processor EXCEPT ![g] = Append(@, s)]
        /\ v = "deferred" => processor' = processor
  BY DEF Admit
<1> HIDE DEF g
<1>4. Found'
  <2>1. CASE v = "queued"
    BY <1>1, <1>2, <1>3, <2>1, AppendFound DEF QueueInv, Accounts
  <2>2. CASE v = "deferred"
    <3>1. v \notin {"queued", "exporting"} /\ UNCHANGED <<processor, exports>>
      BY <1>1, <1>3, <2>2
    <3> QED
      BY <1>3, <3>1, ElsewhereFound DEF QueueInv, Accounts
  <2> QED
    BY <2>1, <2>2
<1>5. /\ Charged'
      /\ \A A \in SUBSET Slot : s \notin A => Total(bytes', A) = Total(bytes, A)
  <2>1. bytes[s] = 0 /\ pendingBytes + size <= MaxBytes
    BY <1>1 DEF Accounts, Charged, Fits
  <2>2. pendingBytes \in Nat
    BY SlotsFinite, TotalNat DEF Accounts, Charged
  <2>3. pendingBytes - bytes[s] + size <= MaxBytes
    BY <2>1, <2>2, SlotsFinite
  <2>4. v # "free"
    BY <1>3
  <2> QED
    BY <1>1, <1>3, <2>3, <2>4, ChargeBooks DEF QueueInv, Accounts
<1>6. Placeholders'
  <2>1. s \notin advisory /\ advisory \in SUBSET Slot
    BY <1>1, SlotsFinite DEF Accounts, Placeholders
  <2>2. Total(bytes', advisory) = Total(bytes, advisory)
    BY <1>5, <2>1
  <2>3. \A t \in advisory : where'[t] \in {"queued", "exporting"}
    BY <1>3, <2>1 DEF Accounts, Placeholders, QueueInv, QueueTyped
  <2> QED
    BY <1>1, <2>2, <2>3 DEF Accounts, Placeholders
<1>7. Roomy'
  <2>1. s \notin Outstanding /\ Outstanding' = Outstanding \cup {s}
    BY <1>1, <1>3 DEF Outstanding, QueueInv, QueueTyped
  <2>2. closed' \in BOOLEAN
    BY <1>1 DEF Accounts, Roomy
  <2>3. Cardinality(g \cap Outstanding) < MaxQueue
    BY <1>1 DEF Fits
  <2> QED
    BY <1>2, <2>1, <2>2, <2>3, RoomTaken DEF Accounts
<1> QED
  BY <1>4, <1>5, <1>6, <1>7 DEF Accounts

LEMMA AnnounceBooks ==
  ASSUME QueueInv, Accounts, NEW s \in Slot, NEW size \in 1..MaxSize, Announce(s, size)
  PROVE  Accounts'
<1>1. /\ where[s] = "free" /\ s \in Span /\ FitsAdvisory(size) /\ Charge(s, size)
      /\ where' = [where EXCEPT ![s] = "queued"]
      /\ processor' = [processor EXCEPT ![Span] = Append(@, s)]
      /\ advisory' = advisory \cup {s}
      /\ UNCHANGED <<exports, closed>>
  BY DEF Announce
<1>2. Span \in Signal
  BY SlotsFinite
<1>3. Found'
  BY <1>1, <1>2, AppendFound DEF QueueInv, Accounts
<1>4. bytes[s] = 0 /\ pendingBytes \in Nat /\ 4 * (pendingBytes + size) <= MaxBytes /\ size \in Nat
  BY <1>1, SlotsFinite, TotalNat DEF Accounts, Charged, FitsAdvisory
<1>5. /\ Charged'
      /\ \A A \in SUBSET Slot : Total(bytes', A) \in Nat /\ Total(bytes', A) <= pendingBytes'
  <2>1. pendingBytes - bytes[s] + size <= MaxBytes
    BY <1>4, SlotsFinite
  <2>2. "queued" # "free"
    OBVIOUS
  <2> QED
    BY <1>1, <2>1, <2>2, ChargeBooks DEF QueueInv, Accounts
<1>6. Placeholders'
  <2>1. advisory \in SUBSET Span /\ advisory \in SUBSET Slot /\ s \notin advisory
    BY <1>1, SlotsFinite DEF Accounts, Placeholders
  <2>2. 4 * Total(bytes', advisory') <= MaxBytes
    <3>1. advisory' \in SUBSET Slot
      BY <1>1, <2>1
    <3>2. pendingBytes' = pendingBytes + size
      BY <1>1, <1>4 DEF Charge
    <3> PICK total : total = Total(bytes', advisory')
      OBVIOUS
    <3>3. total \in Nat /\ total <= pendingBytes + size
      BY <1>5, <3>1, <3>2
    <3> QED
      BY <1>4, <3>3, SlotsFinite
  <2>3. 4 * (Cardinality(advisory') - 1) < MaxQueue
    <3>1. advisory \in SUBSET (Span \cap Outstanding) /\ Span \cap Outstanding \in SUBSET Slot
      BY <2>1 DEF Accounts, Placeholders, Outstanding
    <3>2. /\ Cardinality(advisory) <= Cardinality(Span \cap Outstanding)
          /\ Cardinality(advisory) \in Nat /\ Cardinality(Span \cap Outstanding) \in Nat
      BY <2>1, <3>1, SlotsFinite, FS_Subset
    <3>3. Cardinality(advisory \cup {s}) = Cardinality(advisory) + 1
      BY <2>1, SlotsFinite, FS_AddElement
    <3>4. 4 * Cardinality(Span \cap Outstanding) < MaxQueue
      BY <1>1 DEF FitsAdvisory
    <3> QED
      BY <1>1, <3>2, <3>3, <3>4, SlotsFinite
  <2>4. \A t \in advisory' : where'[t] \in {"queued", "exporting"}
    BY <1>1, <2>1 DEF Accounts, Placeholders, QueueInv, QueueTyped
  <2> QED
    BY <1>1, <2>1, <2>2, <2>3, <2>4 DEF Placeholders
<1>7. Roomy'
  <2>1. s \notin Outstanding /\ Outstanding' = Outstanding \cup {s}
    BY <1>1 DEF Outstanding, QueueInv, QueueTyped
  <2>2. closed' \in BOOLEAN
    BY <1>1 DEF Accounts, Roomy
  <2>3. Cardinality(Span \cap Outstanding) < MaxQueue
    <3>1. Cardinality(Span \cap Outstanding) \in Nat
      BY SlotsFinite, Span \cap Outstanding \in SUBSET Slot
    <3>2. 4 * Cardinality(Span \cap Outstanding) < MaxQueue
      BY <1>1 DEF FitsAdvisory
    <3> QED
      BY <3>1, <3>2, SlotsFinite
  <2> QED
    BY <1>1, <1>2, <2>1, <2>2, <2>3, RoomTaken DEF Accounts
<1> QED
  BY <1>3, <1>5, <1>6, <1>7 DEF Accounts

LEMMA PublishBooks ==
  ASSUME QueueInv, Accounts, NEW s \in Slot, NEW size \in 1..MaxSize, PublishRecord(s, size)
  PROVE  Accounts'
<1>1. s \in Span /\ where[s] = "deferred" /\ UNCHANGED <<exports, closed>>
  BY DEF PublishRecord
<1>2. s \notin advisory /\ advisory \in SUBSET Slot
  BY <1>1, SlotsFinite DEF Accounts, Placeholders
<1>3. CASE ~closed /\ pendingBytes - bytes[s] + size <= MaxBytes
  <2>1. /\ where' = [where EXCEPT ![s] = "queued"]
        /\ processor' = [processor EXCEPT ![Span] = Append(@, s)]
        /\ Charge(s, size) /\ advisory' = advisory
    BY <1>3 DEF PublishRecord
  <2>2. Found'
    BY <1>1, <2>1, SlotsFinite, AppendFound DEF QueueInv, Accounts
  <2>3. /\ Charged'
        /\ \A A \in SUBSET Slot : s \notin A => Total(bytes', A) = Total(bytes, A)
    <3>1. "queued" # "free"
      OBVIOUS
    <3> QED
      BY <1>3, <2>1, <3>1, ChargeBooks DEF QueueInv, Accounts
  <2>4. Placeholders'
    <3>1. Total(bytes', advisory) = Total(bytes, advisory)
      BY <1>2, <2>3
    <3>2. \A t \in advisory : where'[t] \in {"queued", "exporting"}
      BY <1>2, <2>1 DEF Accounts, Placeholders, QueueInv, QueueTyped
    <3> QED
      BY <2>1, <3>1, <3>2 DEF Accounts, Placeholders
  <2>5. Roomy'
    <3>1. Outstanding' \subseteq Outstanding
      BY <1>1, <2>1 DEF Outstanding, QueueInv, QueueTyped
    <3>2. closed' \in BOOLEAN
      BY <1>1 DEF Accounts, Roomy
    <3> QED
      BY <3>1, <3>2, RoomStays DEF Accounts
  <2> QED
    BY <2>2, <2>3, <2>4, <2>5 DEF Accounts
<1>4. CASE ~(~closed /\ pendingBytes - bytes[s] + size <= MaxBytes)
  <2>1. Finish({s}) /\ processor' = processor
    BY <1>4 DEF PublishRecord
  <2>2. Found'
    <3>1. \A t \in Slot : where'[t] = IF t = s THEN "free" ELSE where[t]
      BY <2>1 DEF Finish
    <3> QED
      BY <1>1, <2>1, <3>1 DEF Accounts, Found
  <2>3. Charged' /\ Placeholders' /\ Roomy'
    BY <1>1, <2>1, FinishKeeps, {s} \in SUBSET Slot DEF Accounts
  <2> QED
    BY <2>2, <2>3 DEF Accounts
<1> QED
  BY <1>3, <1>4

LEMMA TickBooks ==
  ASSUME QueueInv, Accounts, NEW g \in Signal, Tick(g)
  PROVE  Accounts'
<1>1. /\ where' = [s \in Slot |-> IF s \in Sent(g, 1) THEN "exporting" ELSE where[s]]
      /\ UNCHANGED <<books, closed>>
  BY DEF Tick, Exporting
<1>2. Sent(g, 1) \in SUBSET Slot /\ \A s \in Sent(g, 1) : where[s] = "queued"
  <2>1. Sent(g, 1) \subseteq {processor[g][k] : k \in 1..Len(processor[g])}
    BY SentRecords DEF QueueInv
  <2>2. \A k \in 1..Len(processor[g]) : processor[g][k] \in Slot /\ where[processor[g][k]] = "queued"
    BY SlotsFinite DEF QueueInv, Placed, InOrder
  <2> QED
    BY <2>1, <2>2
<1>3. Charged' /\ Placeholders' /\ Roomy'
  BY <1>1, <1>2, MoveKeeps DEF Accounts
<1> QED
  BY <1>3, TickFound DEF Accounts

LEMMA DrainBooks ==
  ASSUME QueueInv, Accounts, NEW g \in Signal, Drain(g)
  PROVE  Accounts'
<1> DEFINE S == Range(processor[g])
<1>1. where' = [s \in Slot |-> IF s \in S THEN "exporting" ELSE where[s]] /\ UNCHANGED <<books, closed>>
  BY DEF Drain, Exporting
<1>2. S \in SUBSET Slot /\ \A s \in S : where[s] = "queued"
  <2>1. S = {processor[g][k] : k \in 1..Len(processor[g])}
    BY DEF Range, QueueInv, QueueTyped
  <2>2. \A k \in 1..Len(processor[g]) : processor[g][k] \in Slot /\ where[processor[g][k]] = "queued"
    BY SlotsFinite DEF QueueInv, Placed, InOrder
  <2> QED
    BY <2>1, <2>2
<1> HIDE DEF S
<1>3. Charged' /\ Placeholders' /\ Roomy'
  BY <1>1, <1>2, MoveKeeps DEF Accounts
<1> QED
  BY <1>3, DrainFound DEF Accounts

LEMMA SettleBooks ==
  ASSUME QueueInv, Accounts, NEW e \in exports, Settle(e)
  PROVE  Accounts'
<1>1. Finish(e.records) /\ closed' = closed /\ e.records \in SUBSET Slot
  BY DEF Settle, QueueInv, QueueTyped
<1>2. Charged' /\ Placeholders' /\ Roomy'
  BY <1>1, FinishKeeps DEF Accounts
<1> QED
  BY <1>2, SettleFound DEF Accounts

LEMMA IdleBooks ==
  ASSUME Accounts, UNCHANGED <<where, books, processor, exports>>, closed' \in BOOLEAN
  PROVE  Accounts'
<1>1. bytes' = bytes /\ pendingBytes' = pendingBytes /\ advisory' = advisory
  BY DEF books
<1>2. Found' /\ Charged' /\ Placeholders'
  BY <1>1 DEF Accounts, Found, Charged, Placeholders
<1>3. Outstanding' \subseteq Outstanding
  BY DEF Outstanding
<1>4. Roomy'
  BY <1>3, RoomStays DEF Accounts
<1> QED
  BY <1>2, <1>4 DEF Accounts

LEMMA StepAccounts == QueueInv /\ Accounts /\ [QueueNext]_queueVars => Accounts'
<1> SUFFICES ASSUME QueueInv, Accounts, [QueueNext]_queueVars PROVE Accounts'
  OBVIOUS
<1>0. closed \in BOOLEAN
  BY DEF Accounts, Roomy
<1>1. ASSUME NEW s \in Slot, NEW size \in 1..MaxSize, Admit(s, size) PROVE Accounts'
  BY <1>1, AdmitBooks
<1>2. ASSUME NEW s \in Slot, NEW size \in 1..MaxSize, Announce(s, size) PROVE Accounts'
  BY <1>2, AnnounceBooks
<1>3. ASSUME NEW s \in Slot, NEW size \in 1..MaxSize, PublishRecord(s, size) PROVE Accounts'
  BY <1>3, PublishBooks
<1>4. ASSUME NEW g \in Signal, Tick(g) PROVE Accounts'
  BY <1>4, TickBooks
<1>5. ASSUME NEW g \in Signal, Drain(g) PROVE Accounts'
  BY <1>5, DrainBooks
<1>6. ASSUME NEW e \in exports, Settle(e) PROVE Accounts'
  BY <1>6, SettleBooks
<1>7. ASSUME NEW u \in Upload, UploadSettles(u) PROVE Accounts'
  BY <1>0, <1>7, IdleBooks DEF UploadSettles
<1>8. CASE Close
  BY <1>8, IdleBooks DEF Close
<1>9. CASE UNCHANGED queueVars
  BY <1>0, <1>9, IdleBooks DEF queueVars
<1> QED
  BY <1>1, <1>2, <1>3, <1>4, <1>5, <1>6, <1>7, <1>8, <1>9 DEF QueueNext

-----------------------------------------------------------------------------
(* What the invariant says of the queue.                                   *)

(* A place has one handler exactly while it is queued or exported.         *)
LEMMA OneHandler ==
  ASSUME QueueInv, Found, NEW s \in Slot
  PROVE  Handlers(s) = IF where[s] \in {"queued", "exporting"} THEN 1 ELSE 0
<1> DEFINE P == {g \in Signal : s \in Range(processor[g])}
           E == {e \in exports : s \in e.records}
<1>1. Handlers(s) = Cardinality(P) + Cardinality(E)
  BY DEF Handlers
<1>2. ASSUME NEW g \in Signal
      PROVE  s \in Range(processor[g]) <=> \E i \in 1..Len(processor[g]) : processor[g][i] = s
  BY DEF Range, QueueInv, QueueTyped
<1>3. ASSUME NEW g \in P PROVE where[s] = "queued" /\ s \in g
  BY <1>2 DEF QueueInv, Placed, InOrder
<1>4. ASSUME NEW e \in E PROVE where[s] = "exporting"
  BY DEF QueueInv, Placed
<1>5. CASE where[s] = "queued"
  <2>1. PICK g \in Signal : s \in Range(processor[g])
    BY <1>2, <1>5 DEF Found
  <2>2. \A h \in P : h = g
    <3>1. \A h, k \in Signal : s \in h /\ s \in k => h = k
      BY QueueAssumption DEF Signal
    <3> QED
      BY <1>3, <2>1, <3>1
  <2>3. P = {g}
    BY <2>1, <2>2
  <2>4. E = {}
    BY <1>4, <1>5
  <2>5. Cardinality(P) = 1 /\ Cardinality(E) = 0
    BY <2>3, <2>4, FS_Singleton, FS_EmptySet
  <2> QED
    BY <1>1, <1>5, <2>5
<1>6. CASE where[s] = "exporting"
  <2>1. PICK e \in exports : s \in e.records
    BY <1>6 DEF Found
  <2>2. E = {e}
    BY <2>1 DEF QueueInv, Placed
  <2>3. P = {}
    BY <1>3, <1>6
  <2>4. Cardinality(P) = 0 /\ Cardinality(E) = 1
    BY <2>2, <2>3, FS_Singleton, FS_EmptySet
  <2> QED
    BY <1>1, <1>6, <2>4
<1>7. CASE where[s] \notin {"queued", "exporting"}
  <2>1. P = {} /\ E = {}
    BY <1>3, <1>4, <1>7
  <2>2. Cardinality(P) = 0 /\ Cardinality(E) = 0
    BY <2>1, FS_EmptySet
  <2> QED
    BY <1>1, <1>7, <2>2
<1> QED
  BY <1>5, <1>6, <1>7

(* A processor holds no place twice, so never more than there are.         *)
LEMMA ProcessorsFit ==
  ASSUME QueueInv, Roomy, NEW g \in Signal
  PROVE  Len(processor[g]) <= MaxQueue
<1> DEFINE q == processor[g]
           T == g \cap Outstanding
<1>1. q \in Seq(Slot) /\ Len(q) \in Nat
  BY DEF QueueInv, QueueTyped
<1>2. \A i \in 1..Len(q) : q[i] \in T
  BY SlotsFinite DEF QueueInv, Placed, InOrder, Outstanding
<1>3. \A i, j \in 1..Len(q) : q[i] = q[j] => i = j
  BY DEF QueueInv, Placed, InOrder
<1>4. IsFiniteSet(T) /\ Cardinality(T) \in Nat /\ Cardinality(T) <= MaxQueue
  BY SlotsFinite, T \in SUBSET Slot DEF Roomy
<1> HIDE DEF q, T
<1> DEFINE I == 1..Len(q)
           f == [i \in I |-> q[i]]
<1>5. f \in Injection(I, T)
  BY <1>2, <1>3 DEF Injection, IsInjective
<1>6. IsFiniteSet(I) /\ Cardinality(I) = Len(q)
  <2>1. IsFiniteSet(I) /\ Cardinality(I) = IF 1 > Len(q) THEN 0 ELSE Len(q) - 1 + 1
    BY <1>1, FS_Interval
  <2> QED
    BY <1>1, <2>1
<1>7. Cardinality(I) <= Cardinality(T)
  BY <1>4, <1>5, <1>6, FS_Injection
<1>8. Len(q) <= MaxQueue
  BY <1>1, <1>4, <1>6, <1>7, SlotsFinite
<1> QED
  BY <1>8 DEF q

LEMMA ChargesAddUp ==
  ASSUME QueueInv, Charged
  PROVE  pendingBytes = Total(bytes, Outstanding) /\ pendingBytes \in 0..MaxBytes
<1>1. Outstanding \in SUBSET Slot /\ \A s \in Slot : bytes[s] \in Nat
  BY SlotsFinite DEF Outstanding, Charged
<1>2. Total(bytes, Slot) = Total(bytes, Outstanding) + Total(bytes, Slot \ Outstanding)
  BY <1>1, SlotsFinite, TotalPart
<1>3. Total(bytes, Slot \ Outstanding) = 0
  <2>1. IsFiniteSet(Slot \ Outstanding) /\ \A s \in Slot \ Outstanding : bytes[s] = 0
    BY SlotsFinite, Slot \ Outstanding \in SUBSET Slot DEF Outstanding, Charged
  <2> QED
    BY <2>1, TotalZero
<1>4. Total(bytes, Outstanding) \in Nat
  BY <1>1, SlotsFinite, TotalNat
<1>5. pendingBytes = Total(bytes, Slot) /\ pendingBytes <= MaxBytes
  BY DEF Charged
<1> QED
  BY <1>2, <1>3, <1>4, <1>5, SlotsFinite

LEMMA AccountsImply ==
  ASSUME QueueInv, Accounts
  PROVE  QueueAccounts
<1>1. pendingBytes = Total(bytes, Outstanding) /\ pendingBytes \in 0..MaxBytes
  BY ChargesAddUp DEF Accounts
<1>2. TypeOK
  <2>1. advisory \subseteq Outstanding
    BY SlotsFinite DEF Accounts, Placeholders, Outstanding
  <2> QED
    BY <1>1, <2>1 DEF TypeOK, QueueInv, QueueTyped, Accounts, Charged, Roomy
<1>3. PlaceholdersLeaveRoom
  BY DEF Accounts, Placeholders, PlaceholdersLeaveRoom, Total
<1>4. pendingBytes = MapThenSumSet(LAMBDA s : bytes[s], Outstanding)
  BY <1>1 DEF Total
<1>5. \A s \in Slot : Handlers(s) = IF where[s] \in {"queued", "exporting"} THEN 1 ELSE 0
  BY OneHandler DEF Accounts
<1>6. \A g \in Signal : Len(processor[g]) <= MaxQueue
  BY ProcessorsFit DEF Accounts
<1> QED
  BY <1>2, <1>3, <1>4, <1>5, <1>6 DEF QueueAccounts

(* Every place taken is in one processor or one export, the charges of the *)
(* places add up to what the queue has pending, within its limits, and     *)
(* placeholders leave records three quarters of it (transport.ts, enqueue, *)
(* announceLiveSpans, publishDeferredHttp and finish).                     *)
THEOREM AccountsHold == QueueSpec => []QueueAccounts
<1>1. QueueInit => QueueInv /\ Accounts
  BY QueueStarts, InitAccounts
<1>2. QueueInv /\ Accounts /\ [QueueNext]_queueVars => QueueInv' /\ Accounts'
  BY QueueSteps, StepAccounts
<1>3. QueueInv /\ Accounts => QueueAccounts
  BY AccountsImply
<1> QED
  BY <1>1, <1>2, <1>3, PTL DEF QueueSpec

-----------------------------------------------------------------------------
(* The flush (TelemetryFlush).                                             *)

FlushTyped ==
    /\ at \in [Record -> {"new", "deferred", "queued", "exporting", "accepted", "lost"}]
    /\ upload \in [Record -> {"none", "queued"}]
    /\ phase \in [Flush -> {"idle", "called", "providers", "joined", "processors",
                           "exporters", "uploads", "ok", "threw"}]
    /\ waits \in [Flush -> SUBSET Record]
    /\ since \in [Flush -> Nat]
    /\ from \in [Flush -> Nat]
    /\ owed \in [Flush -> SUBSET Record]
    /\ sequence \in Nat /\ failureSequence \in Nat /\ observedSequence \in Nat
    /\ unreported \subseteq Nat

(* What a flush compares with is behind the sequences.                     *)
Behind ==
    /\ failureSequence <= sequence /\ observedSequence <= sequence
    /\ \A n \in unreported : n > observedSequence /\ n <= failureSequence
    /\ \A f \in Flush : since[f] <= failureSequence /\ from[f] <= observedSequence

Began(f) == phase[f] \notin {"idle", "ok", "threw"}

(* A record the flush owes was settled by now, is waited for, or, before   *)
(* the send, is still to be sent; the loss of one shows in the sequences.  *)
Follows(f, r) ==
    /\ Began(f) => at[r] # "new"
    /\ Began(f) /\ at[r] = "lost" =>
          IF f \in ClientFlush THEN failureSequence > since[f] ELSE failureSequence > from[f]
    /\ phase[f] \in {"processors", "exporters"} => at[r] \in {"exporting", "accepted", "lost"}
    /\ phase[f] = "exporters" /\ at[r] = "exporting" => r \in waits[f]
    /\ phase[f] = "uploads" => at[r] \in {"accepted", "lost"}
    /\ phase[f] = "uploads" /\ upload[r] = "queued" => r \in waits[f]
    /\ phase[f] = "ok" => at[r] = "accepted" /\ upload[r] = "none"

Followed == \A f \in Flush : \A r \in owed[f] : Follows(f, r)

FlushInv == FlushTyped /\ Behind /\ Followed

LEMMA FlushStarts == Init => FlushInv
<1> SUFFICES ASSUME Init PROVE FlushInv
  OBVIOUS
<1>1. FlushTyped /\ Behind
  BY DEF Init, FlushTyped, Behind
<1>2. Followed
  BY DEF Init, Followed
<1> QED
  BY <1>1, <1>2 DEF FlushInv

-----------------------------------------------------------------------------
(* A failure is ahead of everything a flush compares with.                 *)
LEMMA FailureIsAhead ==
  ASSUME FlushTyped, Behind, Fails, UNCHANGED <<since, from>>
  PROVE  /\ Behind'
         /\ sequence' \in Nat /\ failureSequence' \in Nat /\ observedSequence' \in Nat
         /\ unreported' \subseteq Nat
         /\ \A f \in Flush : failureSequence' > since[f] /\ failureSequence' > from[f]
         /\ failureSequence' >= failureSequence
BY DEF FlushTyped, Behind, Fails

LEMMA IssuesKept ==
  ASSUME FlushTyped, Behind, UNCHANGED issues \/ Warns, UNCHANGED <<since, from>>
  PROVE  /\ Behind'
         /\ sequence' \in Nat /\ failureSequence' \in Nat /\ observedSequence' \in Nat
         /\ unreported' \subseteq Nat
         /\ failureSequence' = failureSequence
<1>1. CASE UNCHANGED issues
  BY <1>1 DEF FlushTyped, Behind, issues
<1>2. CASE Warns
  <2>1. sequence' = sequence + 1 /\ UNCHANGED <<failureSequence, observedSequence, unreported>>
    BY <1>2 DEF Warns
  <2> QED
    BY <2>1 DEF FlushTyped, Behind
<1> QED
  BY <1>1, <1>2

(* A record is admitted, sealed or picked up by its processor, or is lost. *)
LEMMA RecordMoves ==
  ASSUME FlushInv, NEW r \in Record, at[r] \in {"new", "deferred", "queued"},
         NEW v \in {"deferred", "queued", "exporting", "lost"},
         at' = [at EXCEPT ![r] = v],
         at[r] = "new" => v \in {"deferred", "queued", "lost"},
         \/ v # "lost" /\ UNCHANGED issues
         \/ v = "lost" /\ Fails,
         UNCHANGED <<upload, phase, waits, since, from, owed>>
  PROVE  FlushInv'
<1> USE DEF FlushInv
<1>1. /\ Behind'
      /\ sequence' \in Nat /\ failureSequence' \in Nat /\ observedSequence' \in Nat
      /\ unreported' \subseteq Nat /\ failureSequence' >= failureSequence
      /\ v = "lost" => \A f \in Flush : failureSequence' > since[f] /\ failureSequence' > from[f]
  BY FailureIsAhead, IssuesKept DEF FlushTyped
<1>2. FlushTyped'
  BY <1>1 DEF FlushTyped
<1>3. ASSUME NEW f \in Flush, NEW q \in owed[f] PROVE Follows(f, q)'
  <2>1. Follows(f, q) /\ q \in Record /\ since[f] \in Nat /\ from[f] \in Nat
    BY DEF Followed, FlushTyped
  <2>2. CASE q # r
    <3>1. at'[q] = at[q]
      BY <2>1, <2>2 DEF FlushTyped
    <3> QED
      BY <1>1, <2>1, <3>1 DEF Follows, Began, FlushTyped
  <2>3. CASE q = r
    <3>1. at'[q] = v
      BY <2>1, <2>3 DEF FlushTyped
    <3>2. phase[f] \notin {"uploads", "ok"}
      BY <2>1, <2>3 DEF Follows
    <3>3. phase[f] \notin {"processors", "exporters"}
      BY <2>1, <2>3 DEF Follows
    <3> QED
      BY <1>1, <2>1, <3>1, <3>2, <3>3 DEF Follows, Began
  <2> QED
    BY <2>2, <2>3
<1> QED
  BY <1>1, <1>2, <1>3 DEF Followed

LEMMA ExportEndsStep ==
  ASSUME FlushInv, NEW r \in Record, ExportEnds(r)
  PROVE  FlushInv'
<1> USE DEF FlushInv
<1>1. PICK v \in {"accepted", "lost"}, u \in {"none", "queued"} :
        /\ at' = [at EXCEPT ![r] = v]
        /\ upload' = [upload EXCEPT ![r] = u]
        /\ \/ v # "lost" /\ UNCHANGED issues
           \/ v = "lost" /\ Fails
  BY DEF ExportEnds
<1>2. /\ at[r] = "exporting"
      /\ waits' = [f \in Flush |-> IF phase[f] = "uploads" THEN waits[f] ELSE waits[f] \ {r}]
      /\ UNCHANGED <<phase, since, from, owed>>
  BY DEF ExportEnds
<1>3. /\ Behind'
      /\ sequence' \in Nat /\ failureSequence' \in Nat /\ observedSequence' \in Nat
      /\ unreported' \subseteq Nat /\ failureSequence' >= failureSequence
      /\ v = "lost" => \A f \in Flush : failureSequence' > since[f] /\ failureSequence' > from[f]
  BY <1>1, <1>2, FailureIsAhead, IssuesKept DEF FlushTyped
<1>4. FlushTyped'
  BY <1>1, <1>2, <1>3 DEF FlushTyped
<1>5. ASSUME NEW f \in Flush, NEW q \in owed[f] PROVE Follows(f, q)'
  <2>1. /\ Follows(f, q) /\ q \in Record
        /\ since[f] \in Nat /\ from[f] \in Nat
    BY DEF Followed, FlushTyped
  <2>2. CASE q # r
    <3>1. at'[q] = at[q] /\ upload'[q] = upload[q] /\ (q \in waits'[f] <=> q \in waits[f])
      BY <1>1, <1>2, <2>1, <2>2 DEF FlushTyped
    <3> QED
      BY <1>2, <1>3, <2>1, <3>1 DEF Follows, Began, FlushTyped
  <2>3. CASE q = r
    <3>1. at'[q] = v
      BY <1>1, <2>1, <2>3 DEF FlushTyped
    <3>2. phase[f] \notin {"uploads", "ok"}
      BY <1>2, <2>1, <2>3 DEF Follows
    <3> QED
      BY <1>2, <1>3, <2>1, <3>1, <3>2 DEF Follows, Began
  <2> QED
    BY <2>2, <2>3
<1> QED
  BY <1>2, <1>3, <1>4, <1>5 DEF Followed

LEMMA UploadEndsStep ==
  ASSUME FlushInv, NEW r \in Record, UploadEnds(r)
  PROVE  FlushInv'
<1> USE DEF FlushInv
<1>1. /\ upload' = [upload EXCEPT ![r] = "none"]
      /\ waits' = [f \in Flush |-> IF phase[f] = "uploads" THEN waits[f] \ {r} ELSE waits[f]]
      /\ UNCHANGED <<at, phase, since, from, owed>>
      /\ UNCHANGED issues \/ Warns
  BY DEF UploadEnds
<1>2. /\ Behind'
      /\ sequence' \in Nat /\ failureSequence' \in Nat /\ observedSequence' \in Nat
      /\ unreported' \subseteq Nat /\ failureSequence' = failureSequence
  BY <1>1, IssuesKept
<1>3. FlushTyped'
  BY <1>1, <1>2 DEF FlushTyped
<1>4. ASSUME NEW f \in Flush, NEW q \in owed[f] PROVE Follows(f, q)'
  <2>1. Follows(f, q) /\ q \in Record
    BY DEF Followed, FlushTyped
  <2>2. upload'[q] = (IF q = r THEN "none" ELSE upload[q])
    BY <1>1, <2>1 DEF FlushTyped
  <2>3. phase[f] = "exporters" => waits'[f] = waits[f]
    BY <1>1
  <2>4. phase[f] = "uploads" => waits'[f] = waits[f] \ {r}
    BY <1>1
  <2> QED
    BY <1>1, <1>2, <2>1, <2>2, <2>3, <2>4 DEF Follows, Began
<1> QED
  BY <1>1, <1>2, <1>3, <1>4 DEF Followed

-----------------------------------------------------------------------------
(* The steps of a flush.                                                   *)

LEMMA CallStep ==
  ASSUME FlushInv, NEW f \in Flush, CallClient(f) \/ CallTransport(f)
  PROVE  FlushInv'
<1> USE DEF FlushInv
<1>1. /\ phase[f] = "idle"
      /\ phase' = [phase EXCEPT ![f] = IF f \in ClientFlush THEN "called" ELSE "joined"]
      /\ IF f \in ClientFlush
         THEN since' = [since EXCEPT ![f] = failureSequence] /\ UNCHANGED from
         ELSE from' = [from EXCEPT ![f] = observedSequence] /\ UNCHANGED since
      /\ owed' = [owed EXCEPT ![f] = Unsettled]
      /\ UNCHANGED <<at, upload, issues, waits>>
  <2>1. f \in TransportFlush => f \notin ClientFlush
    BY FlushAssumption DEF ClientFlush, TransportFlush
  <2>2. CASE CallClient(f)
    BY <2>2 DEF CallClient, records
  <2>3. CASE CallTransport(f)
    BY <2>1, <2>3 DEF CallTransport, records
  <2> QED
    BY <2>2, <2>3
<1>2. Unsettled \in SUBSET Record
  BY DEF Unsettled, Uploads
<1>3. FlushTyped'
  BY <1>1, <1>2 DEF FlushTyped, issues
<1>4. Behind'
  BY <1>1 DEF FlushTyped, Behind, issues
<1>5. ASSUME NEW h \in Flush, NEW q \in owed'[h] PROVE Follows(h, q)'
  <2>1. CASE h = f
    <3>1. at'[q] \in {"deferred", "queued", "exporting", "accepted"}
      BY <1>1, <1>5, <2>1 DEF FlushTyped, Unsettled
    <3>2. phase'[h] \in {"called", "joined"}
      BY <1>1, <2>1 DEF FlushTyped
    <3> QED
      BY <3>1, <3>2 DEF Follows
  <2>2. CASE h # f
    <3>1. Follows(h, q)
      BY <1>1, <1>5, <2>2 DEF FlushTyped, Followed
    <3>2. phase'[h] = phase[h] /\ since'[h] = since[h] /\ from'[h] = from[h]
      BY <1>1, <2>2 DEF FlushTyped
    <3> QED
      BY <1>1, <3>1, <3>2 DEF Follows, Began, issues
  <2> QED
    BY <2>1, <2>2
<1> QED
  BY <1>3, <1>4, <1>5 DEF Followed

(* A step that moves the flush from one phase to the next, its records     *)
(* untouched.                                                              *)
LEMMA PhaseStep ==
  ASSUME FlushInv, NEW f \in Flush, NEW old, NEW new,
         phase[f] = old, phase' = [phase EXCEPT ![f] = new],
         <<old, new>> \in {<<"called", "providers">>, <<"providers", "joined">>,
                          <<"processors", "exporters">>, <<"exporters", "uploads">>},
         UNCHANGED <<at, upload, owed, since>>,
         UNCHANGED issues \/ Fails,
         from' = IF new = "providers" THEN [from EXCEPT ![f] = observedSequence] ELSE from,
         old = "called" => UNCHANGED issues /\ f \in ClientFlush,
         old = "exporters" => waits[f] = {},
         waits' = CASE new = "exporters" -> [waits EXCEPT ![f] = Exports]
                    [] new = "uploads" -> [waits EXCEPT ![f] = Uploads]
                    [] OTHER -> waits
  PROVE  FlushInv'
<1> USE DEF FlushInv
<1>1. Exports \subseteq Record /\ Uploads \subseteq Record
  BY DEF Exports, Uploads
<1>2. /\ phase' \in [Flush -> {"idle", "called", "providers", "joined", "processors",
                              "exporters", "uploads", "ok", "threw"}]
      /\ \A h \in Flush : phase'[h] = IF h = f THEN new ELSE phase[h]
  BY DEF FlushTyped
<1>3. /\ waits' \in [Flush -> SUBSET Record]
      /\ \A h \in Flush : h # f => waits'[h] = waits[h]
      /\ new = "exporters" => waits'[f] = Exports
      /\ new = "uploads" => waits'[f] = Uploads
  BY <1>1 DEF FlushTyped
<1>4. /\ from' \in [Flush -> Nat]
      /\ \A h \in Flush : from'[h] = IF h = f /\ new = "providers" THEN observedSequence ELSE from[h]
  BY DEF FlushTyped
<1>5. /\ Behind'
      /\ sequence' \in Nat /\ failureSequence' \in Nat /\ observedSequence' \in Nat
      /\ unreported' \subseteq Nat /\ failureSequence' >= failureSequence
  <2>1. CASE from' = from
    BY <2>1, FailureIsAhead, IssuesKept DEF FlushTyped
  <2>2. CASE new = "providers"
    BY <1>4, <2>2 DEF FlushTyped, Behind, issues
  <2> QED
    BY <2>1, <2>2
<1>6. FlushTyped'
  BY <1>2, <1>3, <1>4, <1>5 DEF FlushTyped
<1>7. ASSUME NEW h \in Flush, NEW q \in owed[h] PROVE Follows(h, q)'
  <2>1. Follows(h, q) /\ q \in Record /\ since[h] \in Nat /\ from[h] \in Nat /\ failureSequence \in Nat
    BY DEF Followed, FlushTyped
  <2>2. CASE h # f
    BY <1>2, <1>3, <1>4, <1>5, <2>1, <2>2 DEF Follows, Began
  <2>3. CASE h = f /\ new = "providers"
    BY <1>2, <1>5, <2>1, <2>3 DEF Follows, Began
  <2>4. CASE h = f /\ new = "joined"
    BY <1>2, <1>4, <1>5, <2>1, <2>4 DEF Follows, Began
  <2>5. CASE h = f /\ new = "exporters"
    BY <1>2, <1>3, <1>4, <1>5, <2>1, <2>5 DEF Follows, Began, Exports
  <2>6. CASE h = f /\ new = "uploads"
    <3>1. at[q] \in {"accepted", "lost"}
      BY <2>1, <2>6 DEF Follows
    <3> QED
      BY <1>2, <1>3, <1>4, <1>5, <2>1, <2>6, <3>1 DEF Follows, Began, Uploads
  <2> QED
    BY <2>2, <2>3, <2>4, <2>5, <2>6
<1> QED
  BY <1>5, <1>6, <1>7 DEF Followed

LEMMA SendStep ==
  ASSUME FlushInv, NEW f \in Flush, Send(f)
  PROVE  FlushInv'
<1> USE DEF FlushInv
<1>1. /\ phase[f] = "joined"
      /\ \A r \in Record : at[r] # "deferred"
      /\ phase' = [phase EXCEPT ![f] = "processors"]
      /\ at' = [r \in Record |-> IF at[r] = "queued" THEN "exporting" ELSE at[r]]
      /\ waits' = [waits EXCEPT ![f] = {r \in Record : at[r] = "queued"}]
      /\ UNCHANGED <<upload, issues, since, from, owed>>
  BY DEF Send
<1>2. FlushTyped' /\ Behind'
  BY <1>1 DEF FlushTyped, Behind, issues
<1>3. ASSUME NEW h \in Flush, NEW q \in owed[h] PROVE Follows(h, q)'
  <2>1. Follows(h, q) /\ q \in Record
    BY DEF Followed, FlushTyped
  <2>2. /\ at'[q] = (IF at[q] = "queued" THEN "exporting" ELSE at[q])
        /\ at[q] \in {"new", "queued", "exporting", "accepted", "lost"}
    BY <1>1, <2>1 DEF FlushTyped
  <2>3. CASE h # f
    <3>1. phase'[h] = phase[h] /\ waits'[h] = waits[h]
      BY <1>1, <2>3 DEF FlushTyped
    <3> QED
      BY <1>1, <2>1, <2>2, <3>1 DEF Follows, Began, issues
  <2>4. CASE h = f
    <3>1. phase'[h] = "processors"
      BY <1>1, <2>4 DEF FlushTyped
    <3> QED
      BY <1>1, <2>1, <2>2, <2>4, <3>1 DEF Follows, Began, issues
  <2> QED
    BY <2>3, <2>4
<1> QED
  BY <1>1, <1>2, <1>3 DEF Followed

(* The report takes all failures as observed, having thrown the new ones.  *)
LEMMA ReportStep ==
  ASSUME FlushInv, NEW f \in Flush, Report(f)
  PROVE  FlushInv'
<1> USE DEF FlushInv
<1>1. PICK last, failure, failures :
        /\ Observe(f, last, failure, failures)
        /\ \/ last = sequence /\ failure = failureSequence /\ failures = unreported
           \/ /\ last = sequence + 1 /\ failure = sequence + 1
              /\ failures = unreported \cup {sequence + 1}
  BY DEF Report
<1>2. /\ phase[f] = "uploads" /\ waits[f] = {}
      /\ since' = [since EXCEPT ![f] = 0]
      /\ from' = [from EXCEPT ![f] = 0]
      /\ UNCHANGED <<at, upload, waits>>
  BY DEF Report, records
<1> DEFINE throws == failure > from[f] \/ (f \in ClientFlush /\ failure # since[f])
<1>3. /\ phase' = [phase EXCEPT ![f] = IF throws THEN "threw" ELSE "ok"]
      /\ sequence' = last /\ failureSequence' = failure /\ observedSequence' = last
      /\ unreported' = IF throws THEN {n \in failures : n <= from[f]} ELSE failures
      /\ owed' = IF throws THEN [owed EXCEPT ![f] = {}] ELSE owed
  BY <1>1 DEF Observe
<1>4. /\ last \in Nat /\ failure \in Nat /\ failure <= last /\ failures \subseteq Nat
      /\ sequence <= last /\ failureSequence <= failure
      /\ \A n \in failures : n > observedSequence /\ n <= failure
      /\ from[f] \in Nat /\ from[f] <= observedSequence /\ observedSequence \in Nat
      /\ since[f] \in Nat
  <2>1. /\ from[f] \in Nat /\ from[f] <= observedSequence /\ since[f] \in Nat
        /\ observedSequence \in Nat /\ observedSequence <= sequence
        /\ sequence \in Nat /\ failureSequence \in Nat /\ failureSequence <= sequence
        /\ unreported \subseteq Nat
        /\ \A n \in unreported : n > observedSequence /\ n <= failureSequence
    BY DEF FlushTyped, Behind
  <2>2. CASE last = sequence /\ failure = failureSequence /\ failures = unreported
    BY <2>1, <2>2
  <2>3. CASE /\ last = sequence + 1 /\ failure = sequence + 1
             /\ failures = unreported \cup {sequence + 1}
    <3>1. last \in Nat /\ failure \in Nat /\ failures \subseteq Nat
      BY <2>1, <2>3
    <3>2. \A n \in failures : n > observedSequence /\ n <= failure
      BY <2>1, <2>3
    <3> QED
      BY <2>1, <2>3, <3>1, <3>2
  <2> QED
    BY <1>1, <2>2, <2>3
<1>5. unreported' = {}
  <2> SUFFICES ASSUME NEW n \in unreported' PROVE FALSE
    OBVIOUS
  <2>1. n \in failures /\ n \in Nat /\ n > observedSequence /\ n <= failure
    BY <1>3, <1>4
  <2>2. n <= from[f] \/ ~(failure > from[f])
    BY <1>3
  <2> QED
    BY <1>4, <2>1, <2>2
<1>6. Behind'
  <2>1. \A h \in Flush : since'[h] <= failure /\ from'[h] <= last
    BY <1>2, <1>4 DEF FlushTyped, Behind
  <2> QED
    BY <1>3, <1>4, <1>5, <2>1 DEF Behind
<1>7. FlushTyped'
  BY <1>2, <1>3, <1>4, <1>5 DEF FlushTyped
<1>8. ASSUME NEW h \in Flush, NEW q \in owed'[h] PROVE Follows(h, q)'
  <2>1. CASE h # f
    <3>1. /\ phase'[h] = phase[h] /\ since'[h] = since[h] /\ from'[h] = from[h]
          /\ owed'[h] = owed[h]
      BY <1>2, <1>3, <2>1 DEF FlushTyped
    <3>2. /\ Follows(h, q) /\ since[h] \in Nat /\ from[h] \in Nat /\ failureSequence \in Nat
      BY <1>8, <3>1 DEF Followed, FlushTyped
    <3> QED
      BY <1>2, <1>3, <1>4, <3>1, <3>2 DEF Follows, Began
  <2>2. CASE h = f
    <3>1. ~throws /\ owed'[f] = owed[f]
      BY <1>3, <1>8, <2>2 DEF FlushTyped
    <3>2. Follows(f, q) /\ q \in Record
      BY <1>8, <2>2, <3>1 DEF Followed, FlushTyped
    <3>3. at[q] = "accepted"
      <4>1. failureSequence \in Nat /\ ~(failureSequence > from[f])
        BY <1>4, <3>1 DEF FlushTyped
      <4>2. f \in ClientFlush => ~(failureSequence > since[f])
        BY <1>4, <3>1 DEF FlushTyped
      <4> QED
        BY <1>2, <3>2, <4>1, <4>2 DEF Follows, Began
    <3>4. upload[q] = "none"
      BY <1>2, <3>2 DEF Follows, FlushTyped
    <3>5. phase'[f] = "ok"
      BY <1>3, <3>1 DEF FlushTyped
    <3> QED
      BY <1>2, <2>2, <3>3, <3>4, <3>5 DEF Follows, Began
  <2> QED
    BY <2>1, <2>2
<1> QED
  BY <1>6, <1>7, <1>8 DEF Followed

LEMMA FlushSteps == FlushInv /\ [Next]_vars => FlushInv'
<1> SUFFICES ASSUME FlushInv, [Next]_vars PROVE FlushInv'
  OBVIOUS
<1>1. ASSUME NEW r \in Record, Emit(r) PROVE FlushInv'
  BY <1>1, RecordMoves DEF Emit, calls
<1>2. ASSUME NEW r \in Record, Publish(r) PROVE FlushInv'
  BY <1>2, RecordMoves DEF Publish, calls
<1>3. ASSUME NEW r \in Record, Export(r) PROVE FlushInv'
  BY <1>3, RecordMoves DEF Export, calls
<1>4. ASSUME NEW r \in Record, ExportEnds(r) PROVE FlushInv'
  BY <1>4, ExportEndsStep
<1>5. ASSUME NEW r \in Record, UploadEnds(r) PROVE FlushInv'
  BY <1>5, UploadEndsStep
<1>6. ASSUME NEW f \in Flush, CallClient(f) \/ CallTransport(f) PROVE FlushInv'
  BY <1>6, CallStep
<1>7. ASSUME NEW f \in Flush, Start(f) PROVE FlushInv'
  BY <1>7, PhaseStep DEF Start, records
<1>8. ASSUME NEW f \in Flush, ProvidersEnd(f) PROVE FlushInv'
  BY <1>8, PhaseStep DEF ProvidersEnd, records
<1>9. ASSUME NEW f \in Flush, Send(f) PROVE FlushInv'
  BY <1>9, SendStep
<1>10. ASSUME NEW f \in Flush, ProcessorsEnd(f) PROVE FlushInv'
  BY <1>10, PhaseStep DEF ProcessorsEnd, records
<1>11. ASSUME NEW f \in Flush, SendEnds(f) PROVE FlushInv'
  BY <1>11, PhaseStep DEF SendEnds, records
<1>12. ASSUME NEW f \in Flush, Report(f) PROVE FlushInv'
  BY <1>12, ReportStep
<1>13. CASE UNCHANGED vars
  BY <1>13 DEF vars, records, chains, calls, issues, FlushInv, FlushTyped, Behind, Followed, Follows, Began
<1> QED
  BY <1>1, <1>2, <1>3, <1>4, <1>5, <1>6, <1>7, <1>8, <1>9, <1>10, <1>11, <1>12, <1>13
     DEF Next, FlushStep

(* A flush that does not throw has seen every record emitted before its    *)
(* call acknowledged and their uploads settled (client.ts flush,           *)
(* transport.ts flushRecords and flushReport).                             *)
THEOREM FlushDelivers == Spec => []FlushCovers
<1>1. Spec => []FlushInv
  BY FlushStarts, FlushSteps, PTL DEF Spec
<1>2. FlushInv => FlushCovers
  BY DEF FlushInv, Followed, Follows, FlushCovers
<1> QED
  BY <1>1, <1>2, PTL

(* No failure is passed over between two flushes: what the transport takes *)
(* as observed was thrown (transport.ts flushReport).                      *)
THEOREM FailuresThrown == Spec => []FailuresAreThrown
<1>1. Spec => []FlushInv
  BY FlushStarts, FlushSteps, PTL DEF Spec
<1>2. FlushInv => FailuresAreThrown
  BY DEF FlushInv, Behind, FailuresAreThrown
<1> QED
  BY <1>1, <1>2, PTL

-----------------------------------------------------------------------------
(* FlushPromise is implemented: where a record goes decides its fate.      *)
LEMMA FateIsTyped ==
  ASSUME FlushTyped
  PROVE  /\ Fate \in [Record -> {"new", "pending", "settled", "lost"}]
         /\ Call \in [Flush -> {"idle", "open", "ok", "threw"}]
         /\ Promise!Pending = Unsettled
<1>1. Fate \in [Record -> {"new", "pending", "settled", "lost"}]
  BY DEF FlushTyped, Fate
<1>2. Call \in [Flush -> {"idle", "open", "ok", "threw"}]
  BY DEF FlushTyped, Call
<1>3. \A r \in Record : Fate[r] = "pending" <=> r \in Unsettled
  BY DEF FlushTyped, Fate, Unsettled, Uploads
<1>4. Unsettled \subseteq Record
  BY DEF Unsettled, Uploads
<1> QED
  BY <1>1, <1>2, <1>3, <1>4 DEF Promise!Pending

(* The pipeline moves one record, or none, and may fail.                   *)
LEMMA RecordKeepsPromise ==
  ASSUME FlushInv, NEW r \in Record, NEW to \in {"new", "pending", "settled", "lost"},
         Fate' = [Fate EXCEPT ![r] = to],
         <<Fate[r], to>> \in {<<"new", "pending">>, <<"new", "lost">>, <<"pending", "settled">>,
                             <<"pending", "lost">>} \/ Fate[r] = to,
         UNCHANGED <<phase, owed>>,
         \/ UNCHANGED unreported /\ (to = "lost" => Fate[r] = to)
         \/ Fails /\ (to = "lost" \/ Fate[r] = to)
  PROVE  [Promise!PromiseNext]_Promise!promiseVars
<1>1. UNCHANGED Call /\ Fate \in [Record -> {"new", "pending", "settled", "lost"}]
  BY FateIsTyped DEF FlushInv, Call
<1>2. Fails => unreported' # {}
  BY DEF Fails
<1>3. CASE Fate[r] = to
  <2>1. Fate' = Fate
    BY <1>1, <1>3
  <2>2. CASE UNCHANGED unreported
    BY <1>1, <2>1, <2>2 DEF Promise!promiseVars
  <2>3. CASE Fails
    BY <1>1, <1>2, <2>1, <2>3 DEF Promise!PromiseNext, Promise!OtherLoss
  <2> QED
    BY <2>2, <2>3
<1>4. CASE Fate[r] # to
  <2>1. CASE to = "pending"
    BY <1>1, <1>4, <2>1 DEF Promise!PromiseNext, Promise!Emitted
  <2>2. CASE to = "settled"
    BY <1>1, <1>4, <2>2 DEF Promise!PromiseNext, Promise!Settled
  <2>3. CASE to = "lost"
    BY <1>1, <1>2, <1>4, <2>3 DEF Promise!PromiseNext, Promise!Lost
  <2> QED
    BY <1>4, <2>1, <2>2, <2>3
<1> QED
  BY <1>3, <1>4

LEMMA PipelineKeepsPromise ==
  ASSUME FlushInv, NEW r \in Record, Emit(r) \/ Publish(r) \/ Export(r) \/ ExportEnds(r) \/ UploadEnds(r)
  PROVE  [Promise!PromiseNext]_Promise!promiseVars
<1> USE DEF FlushInv
<1>1. CASE Emit(r)
  <2>1. PICK to \in {"queued", "deferred", "lost"} :
          /\ at[r] = "new" /\ at' = [at EXCEPT ![r] = to]
          /\ IF to = "lost" THEN Fails ELSE UNCHANGED issues
    BY <1>1 DEF Emit
  <2>2. Fate' = [Fate EXCEPT ![r] = IF to = "lost" THEN "lost" ELSE "pending"] /\ Fate[r] = "new"
    BY <1>1, <2>1 DEF Emit, Fate, FlushTyped
  <2> QED
    BY <1>1, <2>1, <2>2, RecordKeepsPromise DEF Emit, calls, issues
<1>2. CASE Publish(r)
  <2>1. PICK to \in {"queued", "lost"} :
          /\ at[r] = "deferred" /\ at' = [at EXCEPT ![r] = to]
          /\ IF to = "lost" THEN Fails ELSE UNCHANGED issues
    BY <1>2 DEF Publish
  <2>2. Fate' = [Fate EXCEPT ![r] = IF to = "lost" THEN "lost" ELSE "pending"] /\ Fate[r] = "pending"
    BY <1>2, <2>1 DEF Publish, Fate, FlushTyped
  <2> QED
    BY <1>2, <2>1, <2>2, RecordKeepsPromise DEF Publish, calls, issues
<1>3. CASE Export(r)
  <2>1. Fate' = [Fate EXCEPT ![r] = "pending"] /\ Fate[r] = "pending"
    BY <1>3 DEF Export, Fate, FlushTyped
  <2> QED
    BY <1>3, <2>1, RecordKeepsPromise DEF Export, calls, issues
<1>4. CASE ExportEnds(r)
  <2>1. PICK to \in {"accepted", "lost"}, queued \in {"none", "queued"} :
          /\ at[r] = "exporting" /\ at' = [at EXCEPT ![r] = to]
          /\ upload' = [upload EXCEPT ![r] = queued]
          /\ IF to = "lost" THEN Fails ELSE UNCHANGED issues
    BY <1>4 DEF ExportEnds
  <2> DEFINE fate == IF to = "lost" THEN "lost" ELSE IF queued = "queued" THEN "pending" ELSE "settled"
  <2>2. Fate' = [Fate EXCEPT ![r] = fate] /\ Fate[r] = "pending"
    BY <2>1 DEF Fate, FlushTyped
  <2> QED
    BY <1>4, <2>1, <2>2, RecordKeepsPromise DEF ExportEnds, issues
<1>5. CASE UploadEnds(r)
  <2>1. /\ upload[r] = "queued" /\ upload' = [upload EXCEPT ![r] = "none"]
        /\ UNCHANGED <<at, phase, owed, unreported>>
    BY <1>5 DEF UploadEnds, issues, Warns
  <2> DEFINE fate == IF at[r] = "accepted" THEN "settled" ELSE Fate[r]
  <2>2. /\ Fate' = [Fate EXCEPT ![r] = fate]
        /\ at[r] = "accepted" => Fate[r] = "pending"
    BY <2>1 DEF Fate, FlushTyped
  <2>3. fate \in {"new", "pending", "settled", "lost"}
    BY FateIsTyped
  <2> QED
    BY <2>1, <2>2, <2>3, RecordKeepsPromise
<1> QED
  BY <1>1, <1>2, <1>3, <1>4, <1>5

(* A report has observed every failure, and one that does not throw none.  *)
LEMMA ReportKeepsPromise ==
  ASSUME FlushInv, FlushInv', NEW f \in Flush, Report(f)
  PROVE  Promise!PromiseNext
<1> USE DEF FlushInv
<1>1. /\ phase[f] = "uploads" /\ UNCHANGED <<at, upload>>
      /\ observedSequence' = sequence'
  BY DEF Report, records, Observe
<1>2. unreported' = {}
  <2> SUFFICES ASSUME NEW n \in unreported' PROVE FALSE
    OBVIOUS
  <2>1. n > observedSequence' /\ n <= failureSequence' /\ failureSequence' <= sequence'
    BY DEF Behind
  <2>2. n \in Nat /\ observedSequence' \in Nat /\ failureSequence' \in Nat
    BY DEF FlushTyped
  <2> QED
    BY <1>1, <2>1, <2>2
<1>3. Call[f] = "open" /\ UNCHANGED Fate
  BY <1>1 DEF Call, Fate
<1>4. \/ /\ phase' = [phase EXCEPT ![f] = "ok"]
         /\ owed' = owed /\ unreported = {}
      \/ /\ phase' = [phase EXCEPT ![f] = "threw"]
         /\ owed' = [owed EXCEPT ![f] = {}]
  BY <1>2 DEF Report, Observe
<1>5. CASE phase' = [phase EXCEPT ![f] = "ok"] /\ owed' = owed /\ unreported = {}
  <2>1. phase'[f] = "ok"
    BY <1>5 DEF FlushTyped
  <2>2. ASSUME NEW r \in owed[f] PROVE Fate[r] = "settled"
    <3>1. r \in Record /\ at'[r] = "accepted" /\ upload'[r] = "none"
      BY <1>5, <2>1 DEF FlushTyped, Followed, Follows
    <3> QED
      BY <1>1, <3>1 DEF Fate
  <2>3. Call' = [Call EXCEPT ![f] = "ok"]
    BY <1>5 DEF Call, FlushTyped
  <2> QED
    BY <1>2, <1>3, <1>5, <2>2, <2>3 DEF Promise!PromiseNext, Promise!Succeeds
<1>6. CASE phase' = [phase EXCEPT ![f] = "threw"] /\ owed' = [owed EXCEPT ![f] = {}]
  <2>1. Call' = [Call EXCEPT ![f] = "threw"]
    BY <1>6 DEF Call, FlushTyped
  <2> QED
    BY <1>2, <1>3, <1>6, <2>1 DEF Promise!PromiseNext, Promise!Throws
<1> QED
  BY <1>4, <1>5, <1>6

LEMMA StepKeepsPromise ==
  ASSUME FlushInv, FlushInv', [Next]_vars
  PROVE  [Promise!PromiseNext]_Promise!promiseVars
<1> USE DEF FlushInv
<1>1. ASSUME NEW f \in Flush, CallClient(f) \/ CallTransport(f) PROVE Promise!PromiseNext
  <2>1. /\ phase[f] = "idle"
        /\ \E p \in {"called", "joined"} : phase' = [phase EXCEPT ![f] = p]
        /\ owed' = [owed EXCEPT ![f] = Unsettled]
        /\ UNCHANGED <<at, upload, unreported>>
    BY <1>1 DEF CallClient, CallTransport, records, issues
  <2>2. Call[f] = "idle" /\ Call' = [Call EXCEPT ![f] = "open"] /\ UNCHANGED Fate
    BY <2>1 DEF Call, Fate, FlushTyped
  <2> QED
    BY <2>1, <2>2, FateIsTyped DEF Promise!PromiseNext, Promise!Begins
<1>2. ASSUME NEW f \in Flush,
             Start(f) \/ ProvidersEnd(f) \/ Send(f) \/ ProcessorsEnd(f) \/ SendEnds(f)
      PROVE  [Promise!PromiseNext]_Promise!promiseVars
  <2>1. /\ phase[f] \notin {"idle", "ok", "threw"}
        /\ \E p \in {"providers", "joined", "processors", "exporters", "uploads"} :
             phase' = [phase EXCEPT ![f] = p]
        /\ UNCHANGED <<upload, owed>>
        /\ UNCHANGED unreported \/ Fails
    BY <1>2 DEF Start, ProvidersEnd, Send, ProcessorsEnd, SendEnds, records, issues
  <2>2. \/ UNCHANGED at
        \/ at' = [r \in Record |-> IF at[r] = "queued" THEN "exporting" ELSE at[r]]
    BY <1>2 DEF Start, ProvidersEnd, Send, ProcessorsEnd, SendEnds, records
  <2>3. UNCHANGED Call
    BY <2>1 DEF Call, FlushTyped
  <2>4. UNCHANGED Fate
    BY <2>1, <2>2 DEF Fate, FlushTyped
  <2>5. CASE UNCHANGED unreported
    BY <2>1, <2>3, <2>4, <2>5 DEF Promise!promiseVars
  <2>6. CASE Fails
    <3>1. unreported' # {}
      BY <2>6 DEF Fails
    <3> QED
      BY <2>1, <2>3, <2>4, <3>1 DEF Promise!PromiseNext, Promise!OtherLoss
  <2> QED
    BY <2>1, <2>5, <2>6
<1>3. CASE UNCHANGED vars
  BY <1>3 DEF vars, records, calls, issues, Promise!promiseVars, Fate, Call
<1> QED
  BY <1>1, <1>2, <1>3, PipelineKeepsPromise, ReportKeepsPromise DEF Next, FlushStep

(* The flush keeps its promise: one that does not throw has settled what   *)
(* was emitted before it, and no loss was passed over (client.ts flush,    *)
(* transport.ts flushRecords and flushReport).                             *)
THEOREM FlushKeepsPromise == Spec => KeepsPromise
<1>1. Init => Promise!PromiseInit
  BY DEF Init, Promise!PromiseInit, Fate, Call
<1>2. Spec => []FlushInv
  BY FlushStarts, FlushSteps, PTL DEF Spec
<1>3. FlushInv /\ FlushInv' /\ [Next]_vars => [Promise!PromiseNext]_Promise!promiseVars
  BY StepKeepsPromise
<1> QED
  BY <1>1, <1>2, <1>3, PTL DEF Spec, KeepsPromise, Promise!PromiseSpec

=============================================================================
