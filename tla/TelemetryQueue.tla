--------------------------- MODULE TelemetryQueue ---------------------------
(***************************************************************************)
(* The transport's queue (transport.ts): records are admitted within a     *)
(* record and a byte budget, wait in OpenTelemetry's batch processors, are *)
(* exported and released.  Each real record belongs to a delivery cohort   *)
(* whose promise the host of a request is given, so the host does not      *)
(* freeze the process before the record and its uploads are settled.  What *)
(* a receiver answers is TelemetryFlush's and TraceAttribution's subject.  *)
(***************************************************************************)
EXTENDS Integers, Sequences, FiniteSets, FiniteSetsExt, Functions

CONSTANTS
    Span, Log,          \* places for the records of the two signals
    Cohort,             \* delivery cohorts, used again once nothing knows them
    Upload,             \* the uploads exports queued and their reports
    None,
    MaxQueue,           \* records of one signal (2048)
    MaxBytes,           \* maxQueueBytes
    MaxSize,            \* bound: bytes of one record
    MaxBatch            \* maxExportBatchSize (128)

Slot == Span \cup Log
Signal == {Span, Log}

ASSUME QueueAssumption ==
    /\ IsFiniteSet(Slot) /\ IsFiniteSet(Upload)
    /\ Span \cap Log = {}
    /\ None \notin Cohort
    /\ MaxQueue \in Nat /\ MaxBytes \in Nat
    /\ MaxSize \in Nat \ {0} /\ MaxBatch \in Nat \ {0}

VARIABLES
    where,          \* where[s]: where the record in place s is
    bytes,          \* bytes[s]: its charge against the byte budget
    advisory,       \* the placeholders among the records
    pendingBytes,
    deliveries,     \* deliveries[s]: the cohort that waits for the record
    promised,       \* promised[s]: the cohort whose promise the host was given
    deliveryCohort, \* the cohort new records join
    pending,        \* pending[c]: what the cohort still waits for
    resolved,       \* the cohorts whose promise is resolved
    uploads,        \* uploads[u]: the cohort the upload holds
    processor,      \* processor[g]: the batch processor's buffer
    exports,        \* the exports in flight
    closed

books == <<bytes, advisory, pendingBytes>>
cohorts == <<deliveryCohort, pending, resolved>>
queueVars == <<where, books, deliveries, promised, cohorts, uploads, processor, exports, closed>>

Outstanding == {s \in Slot : where[s] # "free"}

QueueInit ==
    /\ where = [s \in Slot |-> "free"]
    /\ bytes = [s \in Slot |-> 0]
    /\ advisory = {}
    /\ pendingBytes = 0
    /\ deliveries = [s \in Slot |-> None]
    /\ promised = [s \in Slot |-> None]
    /\ deliveryCohort = None
    /\ pending = [c \in Cohort |-> 0]
    /\ resolved = Cohort
    /\ uploads = [u \in Upload |-> None]
    /\ processor = [g \in Signal |-> <<>>]
    /\ exports = {}
    /\ closed = FALSE

-----------------------------------------------------------------------------
(* Admission: snapshotSpan and snapshotLog charge the record, or fail.     *)

Fits(g, size) ==
    /\ ~closed
    /\ Cardinality(g \cap Outstanding) < MaxQueue
    /\ pendingBytes + size <= MaxBytes

(* A slip: placeholders take what room there is.                           *)
FitsAnyRoom(size) == Fits(Span, size)

(* Placeholders only under a quarter of both budgets.                      *)
FitsAdvisory(size) ==
    /\ ~closed
    /\ 4 * Cardinality(Span \cap Outstanding) < MaxQueue
    /\ 4 * (pendingBytes + size) <= MaxBytes

(* A cohort no record, upload or host knows of.                            *)
Unknown == {c \in Cohort \ {deliveryCohort} :
               /\ \A s \in Slot : c \notin {deliveries[s], promised[s]}
               /\ \A u \in Upload : uploads[u] # c}

(* A slip: a record admitted again is charged beside its old charge.       *)
ChargeAgain(s, size) ==
    /\ bytes' = [bytes EXCEPT ![s] = size]
    /\ pendingBytes' = pendingBytes + size

Charge(s, size) ==
    /\ bytes' = [bytes EXCEPT ![s] = size]
    /\ pendingBytes' = pendingBytes + size - bytes[s]

(* A record joins the current cohort, or opens one; the host is given its  *)
(* promise before the request can return.                                  *)
Join(s) ==
    /\ deliveryCohort = None => Unknown # {}
    /\ LET c == IF deliveryCohort # None THEN deliveryCohort ELSE CHOOSE k \in Unknown : TRUE
       IN  /\ deliveryCohort' = c
           /\ pending' = [pending EXCEPT ![c] = @ + 1]
           /\ resolved' = IF deliveryCohort = None THEN resolved \ {c} ELSE resolved
           /\ deliveries' = [deliveries EXCEPT ![s] = c]
           /\ promised' = [promised EXCEPT ![s] = c]

(* onEnd and onEmit.  A refused record changes nothing here.  A span whose *)
(* HTTP response is still being read keeps its place until that ends.      *)
Admit(s, size) ==
    /\ where[s] = "free"
    /\ LET g == IF s \in Span THEN Span ELSE Log
       IN  /\ Fits(g, size)
           /\ \/ /\ where' = [where EXCEPT ![s] = "queued"]
                 /\ processor' = [processor EXCEPT ![g] = Append(@, s)]
              \/ /\ s \in Span
                 /\ where' = [where EXCEPT ![s] = "deferred"]
                 /\ UNCHANGED processor
    /\ Charge(s, size)
    /\ Join(s)
    /\ UNCHANGED <<advisory, uploads, exports, closed>>

(* announceLiveSpans, for one open span.                                   *)
Announce(s, size) ==
    /\ where[s] = "free"
    /\ s \in Span
    /\ FitsAdvisory(size)
    /\ where' = [where EXCEPT ![s] = "queued"]
    /\ processor' = [processor EXCEPT ![Span] = Append(@, s)]
    /\ advisory' = advisory \cup {s}
    /\ Charge(s, size)
    /\ UNCHANGED <<deliveries, promised, cohorts, uploads, exports, closed>>

-----------------------------------------------------------------------------
(* Release.                                                                *)

(* finishDelivery: a cohort that waits for nothing more is resolved, and   *)
(* no record joins it again.                                               *)
Resolve(counts) ==
    LET done == {c \in Cohort : pending[c] > 0 /\ counts[c] = 0}
    IN  /\ pending' = counts
        /\ resolved' = resolved \cup done
        /\ deliveryCohort' = IF deliveryCohort \in done THEN None ELSE deliveryCohort

Waiting(S, c) == Cardinality({s \in S : deliveries[s] = c})

(* finish: the records of S give back their places.                        *)
Finish(S) ==
    /\ where' = [s \in Slot |-> IF s \in S THEN "free" ELSE where[s]]
    /\ bytes' = [s \in Slot |-> IF s \in S THEN 0 ELSE bytes[s]]
    /\ pendingBytes' = pendingBytes - MapThenSumSet(LAMBDA s : bytes[s], S)
    /\ advisory' = advisory \ S
    /\ deliveries' = [s \in Slot |-> IF s \in S THEN None ELSE deliveries[s]]
    /\ promised' = [s \in Slot |-> IF s \in S THEN None ELSE promised[s]]

(* publishDeferredHttp: the completed record is admitted again in its own  *)
(* place, in the cohort its host waits for, or is dropped.  The cohort the *)
(* second admission joined is left at once.                                *)
PublishRecord(s, size) ==
    /\ s \in Span /\ where[s] = "deferred"
    /\ IF ~closed /\ pendingBytes - bytes[s] + size <= MaxBytes
       THEN /\ where' = [where EXCEPT ![s] = "queued"]
            /\ processor' = [processor EXCEPT ![Span] = Append(@, s)]
            /\ Charge(s, size)
            /\ UNCHANGED <<advisory, deliveries, promised, cohorts>>
       ELSE /\ Finish({s})
            /\ Resolve([c \in Cohort |-> pending[c] - Waiting({s}, c)])
            /\ UNCHANGED processor
    /\ UNCHANGED <<uploads, exports, closed>>

-----------------------------------------------------------------------------
(* Export.  OpenTelemetry's batch processors: a timer or a full batch      *)
(* starts one export at a time, forceFlush exports all there is at once.   *)

Sent(g, i) ==
    LET last == IF Len(processor[g]) < i * MaxBatch THEN Len(processor[g]) ELSE i * MaxBatch
    IN  Range(SubSeq(processor[g], (i - 1) * MaxBatch + 1, last))

(* A slip: the cohort stays open while its batch is exported.              *)
ExportingOpen(S) ==
    /\ where' = [s \in Slot |-> IF s \in S THEN "exporting" ELSE where[s]]
    /\ UNCHANGED <<books, deliveries, promised, cohorts, uploads, closed>>

(* exporting: later records join another cohort.                           *)
Exporting(S) ==
    /\ where' = [s \in Slot |-> IF s \in S THEN "exporting" ELSE where[s]]
    /\ deliveryCohort' = IF \E s \in S : deliveries[s] = deliveryCohort
                         THEN None ELSE deliveryCohort
    /\ UNCHANGED <<books, deliveries, promised, pending, resolved, uploads, closed>>

Tick(g) ==
    /\ processor[g] # <<>>
    /\ ~\E e \in exports : e.timer /\ e.signal = g
    /\ exports' = exports \cup {[signal |-> g, timer |-> TRUE, records |-> Sent(g, 1)]}
    /\ processor' = [processor EXCEPT ![g] = SubSeq(@, MaxBatch + 1, Len(@))]
    /\ Exporting(Sent(g, 1))

(* forceFlush seals the deferred records first (PublishRecord).            *)
Drain(g) ==
    /\ processor[g] # <<>>
    /\ g = Span => \A s \in Slot : where[s] # "deferred"
    /\ exports' = exports \cup {[signal |-> g, timer |-> FALSE, records |-> Sent(g, i)] :
                                    i \in 1..((Len(processor[g]) - 1) \div MaxBatch + 1)}
    /\ processor' = [processor EXCEPT ![g] = <<>>]
    /\ Exporting(Range(processor[g]))

(* An export ends, whatever its receiver answered: first the uploads it    *)
(* queued hold their records' cohorts (uploadQueued, reportUploads), then  *)
(* the records are finished.                                               *)
Queued(ups, c) == Cardinality({u \in Upload : uploads[u] # c /\ ups[u] = c})

(* A slip: the records are finished first.                                 *)
SettleThenHold(e) ==
    \E ups \in [Upload -> {deliveries[s] : s \in e.records} \cup {None}] :
        /\ \A u \in Upload : uploads[u] = None
        /\ uploads' = ups
        /\ LET finished == [c \in Cohort |-> pending[c] - Waiting(e.records, c)]
               done == {c \in Cohort : pending[c] > 0 /\ finished[c] = 0}
           IN  /\ pending' = [c \in Cohort |-> finished[c] + Queued(ups, c)]
               /\ resolved' = resolved \cup done
               /\ deliveryCohort' = IF deliveryCohort \in done THEN None ELSE deliveryCohort
        /\ Finish(e.records)
        /\ exports' = exports \ {e}
        /\ UNCHANGED <<processor, closed>>

Settle(e) ==
    \E ups \in [Upload -> Cohort \cup {None}] :
        /\ \A u \in Upload :
              \/ ups[u] = uploads[u]
              \/ (uploads[u] = None) /\ (\E s \in e.records : ups[u] = deliveries[s])
        /\ uploads' = ups
        /\ Resolve([c \in Cohort |-> pending[c] + Queued(ups, c) - Waiting(e.records, c)])
        /\ Finish(e.records)
        /\ exports' = exports \ {e}
        /\ UNCHANGED <<processor, closed>>

(* An upload is settled, and reported with its export's others.            *)
UploadSettles(u) ==
    /\ uploads[u] # None
    /\ uploads' = [uploads EXCEPT ![u] = None]
    /\ Resolve([pending EXCEPT ![uploads[u]] = @ - 1])
    /\ UNCHANGED <<where, books, deliveries, promised, processor, exports, closed>>

(* shutdown: deferred records are sealed (PublishRecord), then nothing is  *)
(* admitted.                                                               *)
Close ==
    /\ ~closed
    /\ \A s \in Slot : where[s] # "deferred"
    /\ closed' = TRUE
    /\ UNCHANGED <<where, books, deliveries, promised, cohorts, uploads, processor, exports>>

QueueNext ==
    \/ \E s \in Slot, size \in 1..MaxSize : Admit(s, size) \/ Announce(s, size) \/ PublishRecord(s, size)
    \/ \E g \in Signal : Tick(g) \/ Drain(g)
    \/ \E e \in exports : Settle(e)
    \/ \E u \in Upload : UploadSettles(u)
    \/ Close

(* Timers fire, an export ends within its budget and an upload within its  *)
(* lifetime, and a response is read or dropped.                            *)
QueueFairness ==
    /\ \A g \in Signal : WF_queueVars(Tick(g))
    /\ \A s \in Slot : WF_queueVars(\E e \in exports : s \in e.records /\ Settle(e))
    /\ \A s \in Slot : WF_queueVars(\E size \in 1..MaxSize : PublishRecord(s, size))
    /\ \A u \in Upload : WF_queueVars(UploadSettles(u))

QueueSpec == QueueInit /\ [][QueueNext]_queueVars /\ QueueFairness

-----------------------------------------------------------------------------
TypeOK ==
    /\ where \in [Slot -> {"free", "deferred", "queued", "exporting"}]
    /\ bytes \in [Slot -> 0..MaxSize]
    /\ advisory \subseteq Outstanding
    /\ pendingBytes \in 0..MaxBytes
    /\ deliveries \in [Slot -> Cohort \cup {None}]
    /\ promised \in [Slot -> Cohort \cup {None}]
    /\ deliveryCohort \in Cohort \cup {None}
    /\ pending \in [Cohort -> Nat]
    /\ resolved \subseteq Cohort
    /\ uploads \in [Upload -> Cohort \cup {None}]
    /\ processor \in [Signal -> Seq(Slot)]
    /\ closed \in BOOLEAN

(* How often a record is held: by a processor, or by an export.            *)
Handlers(s) ==
    Cardinality({g \in Signal : s \in Range(processor[g])}) +
    Cardinality({e \in exports : s \in e.records})

PlaceholdersLeaveRoom ==
    /\ 4 * MapThenSumSet(LAMBDA s : bytes[s], advisory) <= MaxBytes
    /\ 4 * (Cardinality(advisory) - 1) < MaxQueue

(* Every place taken is in one processor or one export, which give it back,*)
(* and the charges add up: the queue neither leaks a place nor a byte, a   *)
(* processor, as large as the queue, never refuses a record, placeholders  *)
(* never take more than a quarter of the queue from records, and the       *)
(* charges stay within the limits (TypeOK).                                *)
QueueAccounts ==
    /\ TypeOK
    /\ pendingBytes = MapThenSumSet(LAMBDA s : bytes[s], Outstanding)
    /\ \A s \in Slot : Handlers(s) = IF where[s] \in {"queued", "exporting"} THEN 1 ELSE 0
    /\ \A g \in Signal : Len(processor[g]) <= MaxQueue
    /\ PlaceholdersLeaveRoom

(* The promise a request's host was given for a record is not resolved     *)
(* before the record, and the uploads of its cohort, are settled.          *)
HostPromiseHolds ==
    /\ \A s \in Slot : where[s] # "free" /\ s \notin advisory => promised[s] \notin resolved
    /\ \A u \in Upload : uploads[u] # None => uploads[u] \notin resolved

(* However steady the traffic, each promise is resolved: a host waits for  *)
(* its own requests' batches only.                                         *)
PromisesResolve == \A c \in Cohort : c \notin resolved ~> c \in resolved
=============================================================================
