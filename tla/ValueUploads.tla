----------------------------- MODULE ValueUploads -----------------------------
(***************************************************************************)
(* The uploads of large values (blobs.ts): Slots, which hands places to    *)
(* the uploads that wait for one, and BlobUploader, which queues an        *)
(* exported record's value, shares the outcome of an upload of the same    *)
(* bytes, reserves, puts, waits and retries within a deadline, and ends    *)
(* everything when it is closed.                                           *)
(*                                                                         *)
(* Each upload is one reference of a record to a value.  A deadline that   *)
(* passes, a pause that ends and an answer of the receiver are steps of    *)
(* their own; an upload's code runs from one await to the next.            *)
(***************************************************************************)
EXTENDS Integers, FiniteSets, FiniteSetsExt, SequencesExt

CONSTANTS
    Upload,         \* the references to be uploaded
    Value,          \* Value[u]: the trace and digest of its bytes
    Text,           \* the strings and buffers uploads keep alive
    Held,           \* Held[u]: those the upload keeps alive
    TextBytes,      \* TextBytes[x]: their size
    Altered,        \* the uploads whose file no longer holds its bytes
    None,
    Size,           \* UPLOAD_CONCURRENCY
    Attempts,       \* UPLOAD_ATTEMPTS
    MaxQueued,      \* MAX_QUEUED_UPLOADS
    MaxHeld,        \* MAX_HELD_BLOB_BYTES
    MaxOutcomes,    \* the outcomes that are remembered (4096)
    MaxFaults       \* bound: transient answers, refusals, deadlines that pass

ASSUME UploadAssumption ==
    /\ IsFiniteSet(Upload) /\ IsFiniteSet(Text)
    /\ Held \in [Upload -> SUBSET Text]
    /\ TextBytes \in [Text -> Nat \ {0}]
    /\ Altered \subseteq Upload
    /\ None \notin Upload
    /\ Size \in Nat \ {0} /\ Attempts \in Nat \ {0}
    /\ MaxQueued \in Nat /\ MaxHeld \in Nat /\ MaxOutcomes \in Nat \ {0}
    /\ MaxFaults \in Nat

VARIABLES
    pc,             \* where each upload is
    step,           \* the request a pause leads back to
    known,          \* whose outcome the upload shares
    tries,          \* attempts of the present reservation
    puts,           \* attempts to put the bytes
    presigns,       \* reservations made
    expired,        \* the uploads whose deadline has passed
    result,         \* how the upload ended
    running,        \* places taken
    waiting,        \* the uploads that wait for a place
    outcomes,       \* the uploads whose outcome is remembered, oldest first
    queued, queuedBytes, holding,
    unsupported,    \* the receiver is taken to lack the route
    closed,
    stored,         \* the values the store has
    faults

slots == <<running, waiting>>
attempts == <<tries, puts, presigns>>
locals == <<known, step, attempts, expired>>
budget == <<queued, queuedBytes, holding>>
poolVars == <<pc, locals, result, slots, outcomes, budget,
          unsupported, closed, stored, faults>>

Values == {Value[u] : u \in Upload}
Requesting == {"reserving", "putting", "completing"}
Placed == Requesting \cup {"fresh", "resumed", "overdue"}
Ended == {"refused", "settled"}
Place == {"new", "sharing", "queued", "pausing", "returning"} \cup Placed \cup Ended
Result == {"none", "ok", "failed", "changed", "budget", "unsupported"}

PoolTypeOK ==
    /\ pc \in [Upload -> Place]
    /\ step \in [Upload -> {"reserving", "putting"}]
    /\ known \in [Upload -> Upload \cup {None}]
    /\ tries \in [Upload -> 0..Attempts - 1]
    /\ puts \in [Upload -> 0..Attempts - 1]
    /\ presigns \in [Upload -> 0..2]
    /\ expired \subseteq Upload
    /\ result \in [Upload -> Result]
    /\ running \in 0..Cardinality(Upload)
    /\ waiting \in Seq(Upload)
    /\ outcomes \in Seq(Upload)
    /\ Len(outcomes) <= MaxOutcomes
    /\ queued \in 0..MaxQueued
    /\ queuedBytes \in Nat
    /\ holding \in [Text -> Nat]
    /\ unsupported \in BOOLEAN
    /\ closed \in BOOLEAN
    /\ stored \subseteq Values
    /\ faults \in 0..MaxFaults

PoolInit ==
    /\ pc = [u \in Upload |-> "new"]
    /\ step = [u \in Upload |-> "reserving"]
    /\ known = [u \in Upload |-> None]
    /\ tries = [u \in Upload |-> 0]
    /\ puts = [u \in Upload |-> 0]
    /\ presigns = [u \in Upload |-> 0]
    /\ expired = {}
    /\ result = [u \in Upload |-> "none"]
    /\ running = 0 /\ waiting = <<>>
    /\ outcomes = <<>>
    /\ queued = 0 /\ queuedBytes = 0 /\ holding = [x \in Text |-> 0]
    /\ unsupported = FALSE /\ closed = FALSE
    /\ stored = {}
    /\ faults = 0

Fault == faults < MaxFaults /\ faults' = faults + 1
TotalBytes(texts) == MapThenSumSet(LAMBDA x : TextBytes[x], texts)

-----------------------------------------------------------------------------
(* Slots                                                                   *)

Woken(u) == IF pc[u] = "queued" THEN "fresh" ELSE "resumed"

(* take: a place that is free, or a turn among those that wait.            *)
Take(u, given, waits) ==
    IF running < Size \/ closed
    THEN /\ running' = running + 1
         /\ pc' = [pc EXCEPT ![u] = given]
         /\ UNCHANGED waiting
    ELSE /\ waiting' = Append(waiting, u)
         /\ pc' = [pc EXCEPT ![u] = waits]
         /\ UNCHANGED running

(* A slip: a place over the size is handed on like any other.              *)
GiveOn(u, to) ==
    IF waiting # <<>>
    THEN /\ waiting' = Tail(waiting)
         /\ pc' = [pc EXCEPT ![u] = to, ![Head(waiting)] = Woken(Head(waiting))]
         /\ UNCHANGED running
    ELSE /\ running' = running - 1
         /\ pc' = [pc EXCEPT ![u] = to]
         /\ UNCHANGED waiting

(* A slip: a place is given back although others wait for one.             *)
GiveBack(u, to) ==
    /\ running' = running - 1
    /\ pc' = [pc EXCEPT ![u] = to]
    /\ UNCHANGED waiting

(* give: the place goes to the next one waiting; one taken over the size   *)
(* is given back.                                                          *)
Give(u, to) ==
    IF running <= Size /\ waiting # <<>>
    THEN /\ waiting' = Tail(waiting)
         /\ pc' = [pc EXCEPT ![u] = to, ![Head(waiting)] = Woken(Head(waiting))]
         /\ UNCHANGED running
    ELSE /\ running' = running - 1
         /\ pc' = [pc EXCEPT ![u] = to]
         /\ UNCHANGED waiting

-----------------------------------------------------------------------------
(* The queue: what uploads keep alive, and whose outcome they share        *)

ChargeUpload(u) ==
    /\ queued' = queued + 1
    /\ queuedBytes' = queuedBytes + TotalBytes({x \in Held[u] : holding[x] = 0})
    /\ holding' = [x \in Text |-> holding[x] + (IF x \in Held[u] THEN 1 ELSE 0)]

(* A slip: every text an upload held is released with it.                  *)
ReleaseAll(u) ==
    /\ queued' = queued - 1
    /\ queuedBytes' = queuedBytes - TotalBytes(Held[u])
    /\ holding' = [x \in Text |-> IF x \in Held[u] THEN 0 ELSE holding[x]]

ReleaseUpload(u) ==
    /\ queued' = queued - 1
    /\ queuedBytes' = queuedBytes - TotalBytes({x \in Held[u] : holding[x] = 1})
    /\ holding' = [x \in Text |-> holding[x] - (IF x \in Held[u] THEN 1 ELSE 0)]

OverBudget(u) ==
    LET bytes == TotalBytes({x \in Held[u] : holding[x] = 0}) IN
    queued >= MaxQueued \/ (bytes > 0 /\ queuedBytes > 0 /\ queuedBytes + bytes > MaxHeld)

Sharable(u) == {v \in ToSet(outcomes) : Value[v] = Value[u]}
NoRoom(u) ==
    /\ Sharable(u) = {}
    /\ Len(outcomes) >= MaxOutcomes
    /\ \A v \in ToSet(outcomes) : pc[v] # "settled"

(* store, up to its first await: the outcome of the same bytes is waited   *)
(* for, or the upload takes a place of its own.                            *)
Join(u) ==
    IF Sharable(u) # {}
    THEN /\ known' = [known EXCEPT ![u] = CHOOSE v \in Sharable(u) : TRUE]
         /\ pc' = [pc EXCEPT ![u] = "sharing"]
         /\ UNCHANGED <<outcomes, slots>>
    ELSE /\ known' = [known EXCEPT ![u] = None]
         /\ outcomes' =
              Append(IF Len(outcomes) < MaxOutcomes THEN outcomes
                     ELSE RemoveFirstMatch(outcomes, LAMBDA v : pc[v] = "settled"), u)
         /\ Take(u, "fresh", "queued")

Enqueue(u) ==
    /\ pc[u] = "new"
    /\ IF closed \/ unsupported \/ OverBudget(u) \/ NoRoom(u)
       THEN /\ pc' = [pc EXCEPT ![u] = "refused"]
            /\ result' = [result EXCEPT ![u] =
                 IF closed THEN "failed" ELSE IF unsupported THEN "unsupported" ELSE "budget"]
            /\ UNCHANGED <<budget, known, outcomes, slots>>
       ELSE ChargeUpload(u) /\ Join(u) /\ UNCHANGED result
    /\ UNCHANGED <<step, attempts, expired, unsupported, closed, stored, faults>>

(* What an upload knew is gone with it.                                    *)
Forget(u) ==
    /\ known' = [known EXCEPT ![u] = None]
    /\ step' = [step EXCEPT ![u] = "reserving"]
    /\ tries' = [tries EXCEPT ![u] = 0]
    /\ puts' = [puts EXCEPT ![u] = 0]
    /\ presigns' = [presigns EXCEPT ![u] = 0]
    /\ expired' = expired \ {u}

(* The upload is settled: its place goes on, its charge is released, and   *)
(* its outcome is remembered only if the value is stored.                  *)
SettleUpload(u, outcome) ==
    /\ Give(u, "settled")
    /\ result' = [result EXCEPT ![u] = outcome]
    /\ outcomes' = IF outcome = "ok" THEN outcomes ELSE RemoveFirst(outcomes, u)
    /\ ReleaseUpload(u)
    /\ Forget(u)

(* A slip: a changed file fails every reference to its digest.             *)
ShareChanged(u) ==
    /\ pc[u] = "sharing"
    /\ pc[known[u]] = "settled"
    /\ pc' = [pc EXCEPT ![u] = "settled"]
    /\ result' = [result EXCEPT ![u] = result[known[u]]]
    /\ ReleaseUpload(u) /\ Forget(u)
    /\ UNCHANGED <<outcomes, slots, unsupported, closed, stored, faults>>

(* The outcome of the same bytes is known: it is this upload's too, unless *)
(* the other reference's file had changed, which says nothing of its own.  *)
Share(u) ==
    /\ pc[u] = "sharing"
    /\ pc[known[u]] = "settled"
    /\ LET outcome == result[known[u]] IN
       IF outcome # "changed" \/ NoRoom(u)
       THEN /\ pc' = [pc EXCEPT ![u] = "settled"]
            /\ result' = [result EXCEPT ![u] = IF outcome # "changed" THEN outcome ELSE "budget"]
            /\ ReleaseUpload(u) /\ Forget(u)
            /\ UNCHANGED <<outcomes, slots>>
       ELSE Join(u) /\ UNCHANGED <<result, budget, step, attempts, expired>>
    /\ UNCHANGED <<unsupported, closed, stored, faults>>

-----------------------------------------------------------------------------
(* storeFresh, reserve, put and retryWait                                  *)

Onward(u, to) ==
    /\ pc' = [pc EXCEPT ![u] = to]
    /\ UNCHANGED <<slots, outcomes, budget, result, known, step, expired>>

StoreFresh(u) ==
    /\ pc[u] = "fresh"
    /\ IF closed \/ unsupported \/ u \in expired
       THEN SettleUpload(u, IF ~closed /\ unsupported THEN "unsupported" ELSE "failed")
       ELSE /\ Onward(u, "reserving")
            /\ presigns' = [presigns EXCEPT ![u] = 1]
            /\ UNCHANGED <<tries, puts>>
    /\ UNCHANGED <<unsupported, closed, stored, faults>>

(* No answer or a transient one: another attempt after a pause, unless the *)
(* attempts are used up or the pause would pass the deadline.  The place   *)
(* is given up meanwhile.                                                  *)
TryAgain(u, asked) ==
    LET made == (IF asked = "reserving" THEN tries[u] ELSE puts[u]) + 1 IN
    \/ SettleUpload(u, "failed")
    \/ /\ made < Attempts /\ ~closed /\ u \notin expired
       /\ Give(u, "pausing")
       /\ step' = [step EXCEPT ![u] = asked]
       /\ tries' = IF asked = "reserving" THEN [tries EXCEPT ![u] = made] ELSE tries
       /\ puts' = IF asked = "putting" THEN [puts EXCEPT ![u] = made] ELSE puts
       /\ UNCHANGED <<presigns, outcomes, budget, result, known, expired>>

(* The upload URL expired: the value is reserved again, once.              *)
ReserveAgain(u) ==
    IF presigns[u] >= 2
    THEN SettleUpload(u, "failed")
    ELSE /\ Onward(u, "reserving")
         /\ tries' = [tries EXCEPT ![u] = 0]
         /\ presigns' = [presigns EXCEPT ![u] = 2]
         /\ UNCHANGED puts

(* A request of a closed uploader, or past the deadline, ends unanswered.  *)
Unanswered(u) == IF closed \/ u \in expired THEN UNCHANGED faults ELSE Fault

ReserveAnswer(u) ==
    /\ pc[u] = "reserving"
    /\ \/ /\ Unanswered(u) /\ TryAgain(u, "reserving")
          /\ UNCHANGED unsupported
       \/ /\ ~closed
          /\ IF Value[u] \in stored THEN SettleUpload(u, "ok")
             ELSE Onward(u, "putting") /\ UNCHANGED attempts
          /\ UNCHANGED <<unsupported, faults>>
       \/ /\ ~closed /\ Fault
          /\ \/ unsupported' = TRUE /\ SettleUpload(u, "unsupported")
             \/ UNCHANGED unsupported /\ SettleUpload(u, "failed")
    /\ UNCHANGED <<closed, stored>>

PutAnswer(u) ==
    /\ pc[u] = "putting"
    /\ \/ /\ ~closed
          /\ u \in Altered => Value[u] \in stored        \* 412: stored already
          /\ stored' = stored \cup {Value[u]}
          /\ Onward(u, "completing")
          /\ UNCHANGED <<attempts, faults>>
       \/ /\ u \in Altered
          /\ SettleUpload(u, "changed")
          /\ UNCHANGED <<stored, faults>>
       \/ /\ Unanswered(u) /\ TryAgain(u, "putting")
          /\ UNCHANGED stored
       \/ /\ ~closed /\ Fault
          /\ ReserveAgain(u)
          /\ UNCHANGED stored
       \/ /\ ~closed /\ Fault
          /\ SettleUpload(u, "failed")
          /\ UNCHANGED stored
    /\ UNCHANGED <<unsupported, closed>>

(* The completion's answer is not read.                                    *)
CompleteAnswer(u) ==
    /\ pc[u] = "completing"
    /\ SettleUpload(u, "ok")
    /\ UNCHANGED <<unsupported, closed, stored, faults>>

(* The pause is over, or was ended: a place is needed again.               *)
WaitEnds(u) ==
    /\ pc[u] = "pausing"
    /\ Take(u, "resumed", "returning")
    /\ UNCHANGED <<locals, result, outcomes, budget, unsupported, closed, stored, faults>>

(* No place came free before the deadline: one is taken over the size, to  *)
(* end without more work.                                                  *)
Overdue(u) ==
    /\ pc[u] = "returning"
    /\ u \in expired
    /\ waiting' = RemoveFirst(waiting, u)
    /\ running' = running + 1
    /\ pc' = [pc EXCEPT ![u] = "overdue"]
    /\ UNCHANGED <<locals, result, outcomes, budget, unsupported, closed, stored, faults>>

Resume(u) ==
    /\ pc[u] \in {"resumed", "overdue"}
    /\ \/ /\ closed \/ u \in expired
          /\ SettleUpload(u, "failed")
       \/ /\ ~closed /\ u \notin expired
          /\ Onward(u, step[u])
          /\ UNCHANGED attempts
       \/ /\ ~closed /\ u \notin expired /\ step[u] = "putting"
          /\ ReserveAgain(u)
    /\ UNCHANGED <<unsupported, closed, stored, faults>>

-----------------------------------------------------------------------------
(* The deadline of an upload passes; one that shares or completes does not *)
(* read it any more.                                                       *)
Expire(u) ==
    /\ pc[u] \notin {"new", "sharing", "completing"} \cup Ended
    /\ u \notin expired /\ Fault
    /\ expired' = expired \cup {u}
    /\ UNCHANGED <<pc, known, step, attempts, result, slots, outcomes, budget,
                   unsupported, closed, stored>>

(* UNSUPPORTED_PAUSE_MILLIS have passed.                                   *)
Reconsider ==
    /\ unsupported
    /\ unsupported' = FALSE
    /\ UNCHANGED <<pc, locals, result, slots, outcomes, budget, closed, stored, faults>>

(* Requests and pauses end, every upload that waits is started, and none   *)
(* waits again.                                                            *)
Close ==
    /\ ~closed
    /\ closed' = TRUE
    /\ outcomes' = <<>>
    /\ running' = running + Len(waiting)
    /\ waiting' = <<>>
    /\ pc' = [u \in Upload |-> IF u \in ToSet(waiting) THEN Woken(u) ELSE pc[u]]
    /\ UNCHANGED <<locals, result, budget, unsupported, stored, faults>>

UploadStep(u) ==
    \/ Share(u) \/ StoreFresh(u)
    \/ ReserveAnswer(u) \/ PutAnswer(u) \/ CompleteAnswer(u)
    \/ WaitEnds(u) \/ Overdue(u) \/ Resume(u)

PoolNext ==
    \/ \E u \in Upload : Enqueue(u) \/ UploadStep(u) \/ Expire(u)
    \/ Reconsider
    \/ Close

(* A request ends by its answer or its deadline and a pause by its timer.  *)
(* No more is assumed than that some upload that can go on does.           *)
PoolSpec == PoolInit /\ [][PoolNext]_poolVars
FairPoolSpec == PoolSpec /\ WF_poolVars(\E u \in Upload : UploadStep(u))

-----------------------------------------------------------------------------
(* Properties                                                              *)

Charged == {u \in Upload : pc[u] \notin {"new"} \cup Ended}

(* No more requests are under way than there are places, although a place  *)
(* changes hands during a pause and an overdue upload takes one more; no   *)
(* place is free while an upload waits for one; and none is lost (Slots).  *)
PlacesAddUp ==
    /\ running = Cardinality({u \in Upload : pc[u] \in Placed})
    /\ ToSet(waiting) = {u \in Upload : pc[u] \in {"queued", "returning"}}
    /\ IsInjective(waiting)
    /\ waiting # <<>> => running >= Size
    /\ ~closed => Cardinality({u \in Upload : pc[u] \in Requesting}) <= Size

(* What the queue charges is what unsettled uploads keep alive, each text  *)
(* once however many hold it, within the budget or no more than a single   *)
(* upload needs (enqueue).                                                 *)
HeldOnce ==
    /\ queued = Cardinality(Charged)
    /\ \A x \in Text : holding[x] = Cardinality({u \in Charged : x \in Held[u]})
    /\ queuedBytes = TotalBytes(UNION {Held[u] : u \in Charged})
    /\ queuedBytes <= MaxHeld \/ \E u \in Upload : queuedBytes <= TotalBytes(Held[u])

(* An outcome is an upload's own or that of the same bytes: success means  *)
(* that they are stored, a changed file fails its own reference only, and  *)
(* the bytes are never uploaded twice at a time (store).                   *)
OutcomesShared ==
    /\ \A u \in Upload : result[u] = "ok" => Value[u] \in stored
    /\ \A u \in Upload : result[u] = "changed" => u \in Altered
    /\ ~closed => \A u, v \in Charged :
          Value[u] = Value[v] /\ "sharing" \notin {pc[u], pc[v]} => u = v

(* Every upload settles, whatever else waits for a place, fails, expires   *)
(* or is closed: the flush and the host wait for it.                       *)
Settles == <>[](\A u \in Upload : pc[u] \in {"new"} \cup Ended)

(* While an upload is unsettled, some upload has a place, a pause or the   *)
(* outcome it waits for: those that wait for a place and those that share  *)
(* never wait for each other (store and Slots).                            *)
SomeoneGoesOn ==
    Charged # {} =>
        \E u \in Upload :
            \/ pc[u] \in Placed \cup {"pausing"}
            \/ pc[u] = "sharing" /\ pc[known[u]] = "settled"

(* The pool balances: the state is well typed, within its bounds on queued *)
(* uploads and outcomes, places and held texts add up, and it never waits  *)
(* for itself.                                                             *)
PoolAddsUp == PoolTypeOK /\ PlacesAddUp /\ HeldOnce /\ SomeoneGoesOn

=============================================================================
