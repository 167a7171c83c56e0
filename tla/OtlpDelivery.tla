----------------------------- MODULE OtlpDelivery -----------------------------
(***************************************************************************)
(* How the OTLP exporter delivers a batch of completed spans (transport.ts *)
(* placeAndSend, send, attempt and OtlpHttpTransport.send): each record is *)
(* fitted to the receiver's limits, requests are packed, split, shed,      *)
(* retried and held for a rate-limited receiver, and a trace's root span   *)
(* tells how many of the trace's records were never sent.  Exports run at  *)
(* the same time, and every answer may change the limits.                  *)
(***************************************************************************)
EXTENDS Integers, FiniteSets, SequencesExt

CONSTANTS
    Given,          \* Given[e]: the spans of export e, in order
    TraceOf,        \* TraceOf[s]: the trace of a span
    Roots,          \* the spans that have no parent
    Full, Bare,     \* Full[s], Bare[s]: a span's size with its content and without
    Limits,         \* the request sizes a receiver may advertise
    FirstLimit,     \* the limit before any answer
    Target,         \* BATCH_TARGET_BYTES
    Waits,          \* what a Retry-After past the deadline may ask
    MaxHold,        \* MAX_RATE_LIMIT_HOLD_MILLIS
    MaxRetries,     \* MAX_RETRIES
    MaxLosses       \* bound: records lost before any export

Export == DOMAIN Given
SpansOf(e) == ToSet(Given[e])
Span == UNION {SpansOf(e) : e \in Export}
Traces == {TraceOf[s] : s \in Span}
Record == [span : Span, shed : BOOLEAN]
Batch == UNION {[1..n -> Record] : n \in 0..Cardinality(Span)}

ASSUME DeliveryAssumption ==
    /\ IsFiniteSet(Export) /\ IsFiniteSet(Span)
    /\ \A e \in Export : Given[e] \in Seq(Span) /\ IsInjective(Given[e])
    /\ \A e, f \in Export : e # f => SpansOf(e) \cap SpansOf(f) = {}
    /\ Span \subseteq DOMAIN TraceOf
    /\ \A r, s \in Roots \cap Span : TraceOf[r] = TraceOf[s] => r = s
    /\ Full \in [Span -> Nat] /\ Bare \in [Span -> Nat]
    /\ \A s \in Span : Bare[s] <= Full[s]
    /\ Limits \subseteq Nat /\ FirstLimit \in Limits
    /\ Waits \subseteq Nat \ {0}
    /\ {Target, MaxHold, MaxRetries, MaxLosses} \subseteq Nat

VARIABLES
    limit,          \* what the receiver accepts, as it last advertised
    dropped,        \* droppedByTrace
    holdsReleased,
    todo,           \* todo[e]: the records not measured yet
    placed,         \* placed[e]: the records measured and not packed
    work,           \* work[e]: the batches to deliver, the next one first
    request,        \* request[e]: the request that is being sent
    stage,          \* stage[e]: how far the request, or the export, is
    hold,           \* hold[e]: how long the export has held its records
    failed,         \* the exports that will throw
    counters,       \* accepted, rejected and failed spans
    fate,           \* fate[s]: how a span left the exporter
    shown,          \* shown[t]: the count the root Hue stored carries
    unsure,         \* the spans stored by a request that was not acknowledged
    lost            \* lost[t]: the trace's records that were never sent

exports == <<todo, placed, work, request, stage, hold, failed>>
ghosts == <<fate, shown, unsure, lost>>
deliveryVars == <<limit, dropped, holdsReleased, exports, counters, ghosts>>

NoRequest == [batch |-> <<>>, carried |-> [t \in Traces |-> 0], tries |-> 0]

DeliveryInit ==
    /\ limit = FirstLimit
    /\ dropped = [t \in Traces |-> 0]
    /\ holdsReleased = FALSE
    /\ todo = [e \in Export |-> [i \in DOMAIN Given[e] |-> [span |-> Given[e][i], shed |-> FALSE]]]
    /\ placed = [e \in Export |-> <<>>]
    /\ work = [e \in Export |-> <<>>]
    /\ request = [e \in Export |-> NoRequest]
    /\ stage = [e \in Export |-> "none"]
    /\ hold = [e \in Export |-> 0]
    /\ failed = {}
    /\ counters = [accepted |-> 0, rejected |-> 0, failed |-> 0]
    /\ fate = [s \in Span |-> "open"]
    /\ shown = [t \in Traces |-> 0]
    /\ unsure = {}
    /\ lost = [t \in Traces |-> 0]

-----------------------------------------------------------------------------
(* The sizes: a request is as large as its records.                        *)
Bytes(record) == IF record.shed THEN Bare[record.span] ELSE Full[record.span]
BatchBytes(batch) == SumFunction([i \in DOMAIN batch |-> Bytes(batch[i])])
SpansIn(batch) == {record.span : record \in ToSet(batch)}
Fits(batch) == BatchBytes(batch) <= limit

(* fit: the record as it is, or shed until it fits; none when it cannot.   *)
Fitted(record) ==
    {r \in {record, [record EXCEPT !.shed = TRUE]} : Bytes(r) <= limit}
Fit(record) ==
    IF record \in Fitted(record) THEN record ELSE [record EXCEPT !.shed = TRUE]

(* withDroppedRecords: a root carries its trace's count.                   *)
Carried(batch) ==
    [t \in Traces |->
        IF \E r \in Roots \cap SpansIn(batch) : TraceOf[r] = t THEN dropped[t] ELSE 0]

(* The acknowledgement forgets the whole count of a root's trace.          *)
ConsumeAll(carried) ==
    dropped' = [t \in Traces |-> IF carried[t] > 0 THEN 0 ELSE dropped[t]]

(* consumeDroppedRecords: only what the request carried is forgotten.      *)
Consume(carried) ==
    dropped' = [t \in Traces |-> IF dropped[t] > carried[t] THEN dropped[t] - carried[t] ELSE 0]

(* countDropped and countUndelivered: each record on its own trace.        *)
CountDropped(spans) ==
    LET Of(t) == Cardinality({s \in spans : TraceOf[s] = t})
    IN  /\ dropped' = [t \in Traces |-> dropped[t] + Of(t)]
        /\ lost' = [t \in Traces |-> lost[t] + Of(t)]

(* A record that cannot be sent is reported without failing the export.    *)
InvalidWarns(e, record, how) ==
    /\ CountDropped({record.span})
    /\ UNCHANGED failed
    /\ counters' = [counters EXCEPT !.failed = @ + 1]
    /\ fate' = [fate EXCEPT ![record.span] = how]

(* invalid: a record this side cannot send fails the export and is counted *)
(* on its trace's root.                                                    *)
Invalid(e, record, how) ==
    /\ CountDropped({record.span})
    /\ failed' = failed \cup {e}
    /\ counters' = [counters EXCEPT !.failed = @ + 1]
    /\ fate' = [fate EXCEPT ![record.span] = how]

(* adoptLimits: every answer may advertise another limit.                  *)
AdoptLimits == limit' \in Limits

-----------------------------------------------------------------------------
(* A record is lost before any export: dropped, or never encoded.          *)
Lose(t) ==
    /\ lost[t] < MaxLosses
    /\ dropped' = [dropped EXCEPT ![t] = @ + 1]
    /\ lost' = [lost EXCEPT ![t] = @ + 1]
    /\ UNCHANGED <<limit, holdsReleased, exports, counters, fate, shown, unsure>>

(* releaseRateLimitHolds: a shutdown's caller has stopped waiting.         *)
Release ==
    /\ ~holdsReleased
    /\ holdsReleased' = TRUE
    /\ UNCHANGED <<limit, dropped, exports, counters, ghosts>>

(* placeAndSend, pack: every record is redacted and measured before the    *)
(* first request is made.  Redacting or encoding one may fail.             *)
Measure(e) ==
    /\ stage[e] = "none"
    /\ todo[e] # <<>>
    /\ LET record == Head(todo[e])
       IN  \/ /\ Fitted(record) # {}
              /\ placed' = [placed EXCEPT ![e] = Append(@, Fit(record))]
              /\ UNCHANGED <<dropped, failed, counters, fate, lost>>
           \/ /\ Invalid(e, record, "unfit")
              /\ UNCHANGED placed
    /\ todo' = [todo EXCEPT ![e] = Tail(@)]
    /\ UNCHANGED <<limit, holdsReleased, work, request, stage, hold, shown, unsure>>

(* Requests are packed while records are still measured.                   *)
MeasuredSome(e) == placed[e] # <<>> \/ todo[e] = <<>>

MeasuredAll(e) == todo[e] = <<>>

(* The most records of a request: as many as the target holds, or one.     *)
Packed(batch) ==
    LET target == IF limit < Target THEN limit ELSE Target
    IN  CHOOSE n \in 1..Len(batch) :
          /\ n = 1 \/ BatchBytes(SubSeq(batch, 1, n)) <= target
          /\ n = Len(batch) \/ BatchBytes(SubSeq(batch, 1, n + 1)) > target

Pack(e) ==
    /\ stage[e] = "none"
    /\ MeasuredAll(e)
    /\ work[e] = <<>>
    /\ placed[e] # <<>>
    /\ LET n == Packed(placed[e])
       IN  /\ work' = [work EXCEPT ![e] =
                 <<[batch |-> SubSeq(placed[e], 1, n), refitted |-> FALSE]>>]
           /\ placed' = [placed EXCEPT ![e] = SubSeq(@, n + 1, Len(@))]
    /\ UNCHANGED <<limit, dropped, holdsReleased, todo, request, stage, hold, failed,
                   counters, ghosts>>

(* The second half starts where the first one ends.                        *)
HalvesOverlap(batch) ==
    LET half == (Len(batch) + 1) \div 2
    IN  <<[batch |-> SubSeq(batch, 1, half), refitted |-> FALSE],
          [batch |-> SubSeq(batch, half, Len(batch)), refitted |-> FALSE]>>

(* deliver: one request, its halves, or the record shed once more.         *)
Halves(batch) ==
    LET half == (Len(batch) + 1) \div 2
    IN  <<[batch |-> SubSeq(batch, 1, half), refitted |-> FALSE],
          [batch |-> SubSeq(batch, half + 1, Len(batch)), refitted |-> FALSE]>>

MakeRequest(e, batch) ==
    /\ Fits(batch)
    /\ request' = [request EXCEPT ![e] =
          [batch |-> batch, carried |-> Carried(batch), tries |-> 0]]
    /\ stage' = [stage EXCEPT ![e] = "ready"]
    /\ work' = [work EXCEPT ![e] = Tail(@)]
    /\ UNCHANGED <<dropped, failed, counters, fate, lost>>

Split(e, batch) ==
    /\ ~Fits(batch)
    /\ Len(batch) > 1
    /\ work' = [work EXCEPT ![e] = Halves(batch) \o Tail(@)]
    /\ UNCHANGED <<dropped, request, stage, failed, counters, fate, lost>>

ShedAgain(e, record, refitted) ==
    /\ ~Fits(<<record>>)
    /\ IF ~refitted /\ Fitted(record) # {}
       THEN /\ work' = [work EXCEPT ![e] =
                  <<[batch |-> <<Fit(record)>>, refitted |-> TRUE]>> \o Tail(@)]
            /\ UNCHANGED <<dropped, failed, counters, fate, lost>>
       ELSE /\ work' = [work EXCEPT ![e] = Tail(@)]
            /\ Invalid(e, record, "over")
    /\ UNCHANGED <<request, stage>>

Deliver(e) ==
    /\ stage[e] = "none"
    /\ work[e] # <<>>
    /\ LET next == Head(work[e])
       IN  \/ MakeRequest(e, next.batch)
           \/ Split(e, next.batch)
           \/ Len(next.batch) = 1 /\ ShedAgain(e, next.batch[1], next.refitted)
    /\ UNCHANGED <<limit, holdsReleased, todo, placed, hold, shown, unsure>>

(* OtlpHttpTransport.send: the limits are read again before every post; a  *)
(* request over them goes back to be split or shed.                        *)
Post(e) ==
    /\ stage[e] = "ready"
    /\ IF Fits(request[e].batch)
       THEN stage' = [stage EXCEPT ![e] = "posted"] /\ UNCHANGED <<work, request>>
       ELSE /\ stage' = [stage EXCEPT ![e] = "none"]
            /\ work' = [work EXCEPT ![e] =
                  <<[batch |-> request[e].batch, refitted |-> FALSE]>> \o @]
            /\ request' = [request EXCEPT ![e] = NoRequest]
    /\ UNCHANGED <<limit, dropped, holdsReleased, todo, placed, hold, failed, counters, ghosts>>

-----------------------------------------------------------------------------
(* Hue stores a request's spans, and a stored root shows what it carries.  *)
Store(e, spans) ==
    shown' = [t \in Traces |->
        IF \E r \in Roots \cap spans : TraceOf[r] = t THEN request[e].carried[t] ELSE shown[t]]

(* Hue may have stored a request whose acknowledgement never arrives.      *)
MayStore(e) ==
    \/ UNCHANGED <<shown, unsure>>
    \/ /\ Store(e, SpansIn(request[e].batch))
       /\ unsure' = unsure \cup SpansIn(request[e].batch)

EndRequest(e) ==
    /\ request' = [request EXCEPT ![e] = NoRequest]
    /\ stage' = [stage EXCEPT ![e] = "none"]

(* attempt: an acknowledgement, of all of the spans or of a part.          *)
Acknowledge(e) ==
    LET batch == request[e].batch
    IN  /\ stage[e] = "posted"
        /\ \E rejected \in SUBSET SpansIn(batch) :
              /\ Store(e, SpansIn(batch) \ rejected)
              /\ fate' = [s \in Span |->
                    IF s \in rejected THEN "rejected"
                    ELSE IF s \in SpansIn(batch) THEN "accepted" ELSE fate[s]]
              /\ counters' = [counters EXCEPT
                    !.accepted = @ + Len(batch) - Cardinality(rejected),
                    !.rejected = @ + Cardinality(rejected)]
        /\ Consume(request[e].carried)
        /\ EndRequest(e)
        /\ AdoptLimits
        /\ UNCHANGED <<holdsReleased, todo, placed, work, hold, failed, unsure, lost>>

(* lost: the request's spans fail the export.                              *)
FailRequest(e) ==
    LET batch == request[e].batch
    IN  /\ failed' = failed \cup {e}
        /\ counters' = [counters EXCEPT !.failed = @ + Len(batch)]
        /\ fate' = [s \in Span |-> IF s \in SpansIn(batch) THEN "failed" ELSE fate[s]]
        /\ EndRequest(e)

(* Refused, unreadable, out of retries or past its deadline.               *)
GiveUp(e) ==
    /\ stage[e] = "posted"
    /\ FailRequest(e)
    /\ MayStore(e)
    /\ AdoptLimits
    /\ UNCHANGED <<dropped, holdsReleased, todo, placed, work, hold, lost>>

(* A retryable answer, or none, with time left: the same request again.    *)
Retry(e) ==
    /\ stage[e] = "posted"
    /\ request[e].tries < MaxRetries
    /\ request' = [request EXCEPT ![e].tries = @ + 1]
    /\ stage' = [stage EXCEPT ![e] = "ready"]
    /\ MayStore(e)
    /\ AdoptLimits
    /\ UNCHANGED <<dropped, holdsReleased, todo, placed, work, hold, failed, counters, fate, lost>>

(* The records are not held any longer: counted on their traces' roots.    *)
Undelivered(e) ==
    /\ CountDropped(SpansIn(request[e].batch))
    /\ FailRequest(e)

(* send: a rate limit past the deadline holds the records, for as long as  *)
(* one export may and unless the holds are released.                       *)
Holdable(e, wait) == hold[e] + wait <= MaxHold

(* A hold is not charged to the export.                                    *)
HoldNotCharged(e, wait) == wait \in Waits /\ UNCHANGED hold

Charge(e, wait) == hold' = [hold EXCEPT ![e] = @ + wait]

RateLimited(e) ==
    /\ stage[e] = "posted"
    /\ \E wait \in Waits :
          \/ /\ Holdable(e, wait) /\ ~holdsReleased
             /\ Charge(e, wait)
             /\ stage' = [stage EXCEPT ![e] = "holding"]
             /\ UNCHANGED <<dropped, request, failed, counters, fate, lost>>
          \/ /\ Holdable(e, wait) /\ holdsReleased
             /\ Charge(e, wait)
             /\ Undelivered(e)
          \/ /\ ~Holdable(e, wait)
             /\ Undelivered(e)
             /\ UNCHANGED hold
    /\ AdoptLimits
    /\ UNCHANGED <<holdsReleased, todo, placed, work, shown, unsure>>

(* holdForRateLimit: the wait ran its course, or it was released.          *)
HoldEnds(e) ==
    /\ stage[e] = "holding"
    /\ ~holdsReleased
    /\ request' = [request EXCEPT ![e].tries = 0]
    /\ stage' = [stage EXCEPT ![e] = "ready"]
    /\ UNCHANGED <<limit, dropped, holdsReleased, todo, placed, work, hold, failed,
                   counters, ghosts>>

HoldReleased(e) ==
    /\ stage[e] = "holding"
    /\ holdsReleased
    /\ Undelivered(e)
    /\ UNCHANGED <<limit, holdsReleased, todo, placed, work, hold, shown, unsure>>

(* placeAndSend ends: it throws when anything failed.                      *)
Finish(e) ==
    /\ stage[e] = "none"
    /\ MeasuredAll(e) /\ placed[e] = <<>> /\ work[e] = <<>>
    /\ stage' = [stage EXCEPT ![e] = "done"]
    /\ UNCHANGED <<limit, dropped, holdsReleased, todo, placed, work, request, hold, failed,
                   counters, ghosts>>

Answer(e) == Acknowledge(e) \/ GiveUp(e) \/ Retry(e) \/ RateLimited(e)
Step(e) ==
    \/ Measure(e) \/ Pack(e) \/ Deliver(e) \/ Post(e) \/ Answer(e)
    \/ HoldEnds(e) \/ HoldReleased(e) \/ Finish(e)

DeliveryNext ==
    \/ \E e \in Export : Step(e)
    \/ \E t \in Traces : Lose(t)
    \/ Release

(* Every export's work goes on: a post is answered or aborted at its       *)
(* deadline, and a hold has a timer.                                       *)
Fairness == \A e \in Export : WF_deliveryVars(Step(e))
DeliverySpec == DeliveryInit /\ [][DeliveryNext]_deliveryVars /\ Fairness

-----------------------------------------------------------------------------
(* Every variable keeps its type; an export's hold stays within its budget *)
(* whatever its requests add up to.                                        *)
DeliveryTypeOK ==
    /\ limit \in Limits
    /\ dropped \in [Traces -> Nat]
    /\ holdsReleased \in BOOLEAN
    /\ \A e \in Export :
          /\ {todo[e], placed[e], request[e].batch} \subseteq Batch
          /\ \A i \in DOMAIN work[e] : work[e][i] \in [batch : Batch, refitted : BOOLEAN]
          /\ request[e].carried \in [Traces -> Nat] /\ request[e].tries \in 0..MaxRetries
          /\ stage[e] \in {"none", "ready", "posted", "holding", "done"}
          /\ hold[e] \in 0..MaxHold
    /\ failed \subseteq Export
    /\ counters \in [{"accepted", "rejected", "failed"} -> Nat]
    /\ fate \in [Span -> {"open", "accepted", "rejected", "failed", "unfit", "over"}]
    /\ shown \in [Traces -> Nat] /\ lost \in [Traces -> Nat]
    /\ unsure \subseteq Span

(* Every span an export was given is counted once when it leaves: accepted,*)
(* rejected or failed (exportStats), however its batch was packed, split,  *)
(* shed, sent back or held, within the budget of its holds; and an export  *)
(* succeeds only if Hue acknowledged every one of its spans.               *)
Open(e) ==
    Len(todo[e]) + Len(placed[e]) + Len(request[e].batch)
        + SumFunction([i \in DOMAIN work[e] |-> Len(work[e][i].batch)])

CountsAddUp ==
    /\ DeliveryTypeOK
    /\ counters.accepted + counters.rejected + counters.failed
        + SumFunction([e \in Export |-> Open(e)]) = Cardinality(Span)
    /\ \A e \in Export : stage[e] = "done" /\ e \notin failed =>
        \A s \in SpansOf(e) : fate[s] \in {"accepted", "rejected"}

(* A root never shows more losses than its trace had, and a loss it does   *)
(* not show is still counted for it: unless Hue rejected the root, or      *)
(* stored it once without acknowledging it.                                *)
Uncertain(t) ==
    \E r \in Roots \cap Span : TraceOf[r] = t /\ (fate[r] = "rejected" \/ r \in unsure)

LossesShown ==
    \A t \in Traces :
        /\ shown[t] <= lost[t]
        /\ Uncertain(t) \/ lost[t] <= dropped[t] + shown[t]

(* A root is written after every record of its export was measured: the    *)
(* one Hue accepts shows the spans of its trace that could not be fitted,  *)
(* also those that ended after it.                                         *)
Unfit(e, t) == {s \in SpansOf(e) : TraceOf[s] = t /\ fate[s] = "unfit"}

RootShowsUnfit ==
    \A e \in Export : \A r \in Roots \cap SpansOf(e) :
        fate[r] = "accepted" => shown[TraceOf[r]] >= Cardinality(Unfit(e, TraceOf[r]))

(* Every export ends, however the receiver answers, limits its rate or     *)
(* lowers its limits: retries, holds and refits cannot keep one going by   *)
(* themselves.  One that never ends has its requests sent back for ever by *)
(* limits that answers to another export keep raising, as each new request *)
(* has all of its retries.                                                 *)
RaisesLimits(e) ==
    stage[e] = "posted" /\ stage'[e] # "posted" /\ limit' > limit

ExportsEnd ==
    \A e \in Export :
        \/ <>(stage[e] = "done")
        \/ []<><<\E other \in Export \ {e} : RaisesLimits(other)>>_deliveryVars

(* Losses are shown by the roots that Hue holds: each no more than once,   *)
(* and those of its own export in time.                                    *)
RootsShowLosses == LossesShown /\ RootShowsUnfit

=============================================================================
