---------------------------- MODULE TelemetryFlush ----------------------------
(***************************************************************************)
(* What a flush promises (client.ts flush, transport.ts flushRecords): it  *)
(* sends the records emitted before its call, waits for the receiver and   *)
(* the uploads, and throws when something was lost.  Flushes overlap: each *)
(* client flush sends after the one before it, the transport's sends are   *)
(* serialized, and the waits for uploads are not.  A borrowed provider may *)
(* hang.  The budgets of the queue are TelemetryQueue's subject; here a    *)
(* record is refused at any time.                                          *)
(***************************************************************************)
EXTENDS Integers, Sequences, FiniteSets, Functions

CONSTANTS
    Records,        \* bound: records emitted, numbered in order
    ClientFlushes,  \* bound: calls of client.flush, numbered in order
    AllFlushes,     \* bound: the rest are calls of transport.flush
    MaxIssues       \* bound: export issues

ASSUME FlushAssumption ==
    /\ Records \in Nat /\ ClientFlushes \in Nat /\ AllFlushes \in Nat
    /\ ClientFlushes <= AllFlushes
    /\ MaxIssues \in Nat

Record == 1..Records
ClientFlush == 1..ClientFlushes
TransportFlush == ClientFlushes + 1..AllFlushes
Flush == ClientFlush \cup TransportFlush

VARIABLES
    at,                 \* at[r]: where the record is
    upload,             \* upload[r]: the upload its export queued
    phase,              \* phase[f]: how far the flush is
    sending,            \* the client's flushes whose send has not ended, in order
    sendPromise,        \* the transport's sends that have not ended, in order
    waits,              \* waits[f]: the records whose export or upload it waits for
    rejected,           \* the flushes whose processor flush was rejected
    since,              \* since[f]: the client's failure sequence at its call
    from,               \* from[f]: the observed sequence at its start
    sequence, failureSequence, observedSequence,
    unreported,         \* the failures no flush has thrown
    owed                \* owed[f]: the records that were unsettled at its call

records == <<at, upload>>
chains == <<sending, sendPromise>>
calls == <<phase, waits, rejected, since, from>>
issues == <<sequence, failureSequence, observedSequence, unreported>>
vars == <<records, chains, calls, issues, owed>>

Exports == {r \in Record : at[r] = "exporting"}
Uploads == {r \in Record : upload[r] = "queued"}
Unsettled ==
    {r \in Record : at[r] \in {"deferred", "queued", "exporting"}} \cup
    {r \in Uploads : at[r] = "accepted"}

Init ==
    /\ at = [r \in Record |-> "new"]
    /\ upload = [r \in Record |-> "none"]
    /\ phase = [f \in Flush |-> "idle"]
    /\ sending = <<>>
    /\ sendPromise = <<>>
    /\ waits = [f \in Flush |-> {}]
    /\ rejected = {}
    /\ since = [f \in Flush |-> 0]
    /\ from = [f \in Flush |-> 0]
    /\ sequence = 0
    /\ failureSequence = 0
    /\ observedSequence = 0
    /\ unreported = {}
    /\ owed = [f \in Flush |-> {}]

-----------------------------------------------------------------------------
(* issue, for a failure and for a warning.                                 *)
Fails ==
    /\ sequence < MaxIssues
    /\ sequence' = sequence + 1
    /\ failureSequence' = sequence + 1
    /\ unreported' = unreported \cup {sequence + 1}
    /\ UNCHANGED observedSequence

Warns ==
    /\ sequence < MaxIssues
    /\ sequence' = sequence + 1
    /\ UNCHANGED <<failureSequence, observedSequence, unreported>>

(* A record is admitted, deferred until its response is read, or refused.  *)
Emit(r) ==
    /\ at[r] = "new"
    /\ \A earlier \in 1..r - 1 : at[earlier] # "new"
    /\ \/ \E place \in {"queued", "deferred"} : at' = [at EXCEPT ![r] = place]
          /\ UNCHANGED issues
       \/ at' = [at EXCEPT ![r] = "lost"] /\ Fails
    /\ UNCHANGED <<upload, chains, calls, owed>>

(* publishDeferredHttp: the completed record may not fit any more.         *)
Publish(r) ==
    /\ at[r] = "deferred"
    /\ \/ at' = [at EXCEPT ![r] = "queued"] /\ UNCHANGED issues
       \/ at' = [at EXCEPT ![r] = "lost"] /\ Fails
    /\ UNCHANGED <<upload, chains, calls, owed>>

(* A processor exports a record: on its timer, when a batch is full, or in *)
(* a flush of the provider that owns it.                                   *)
Export(r) ==
    /\ at[r] = "queued"
    /\ at' = [at EXCEPT ![r] = "exporting"]
    /\ UNCHANGED <<upload, chains, calls, issues, owed>>

(* An export ends: the receiver took the record or it is lost.  Its upload *)
(* is queued before the export ends, which ends every flush's wait for it. *)
ExportEnds(r) ==
    /\ at[r] = "exporting"
    /\ \/ at' = [at EXCEPT ![r] = "accepted"] /\ UNCHANGED issues
       \/ at' = [at EXCEPT ![r] = "lost"] /\ Fails
    /\ \E queued \in {"none", "queued"} : upload' = [upload EXCEPT ![r] = queued]
    /\ waits' = [f \in Flush |-> IF phase[f] = "uploads" THEN waits[f] ELSE waits[f] \ {r}]
    /\ UNCHANGED <<chains, phase, rejected, since, from, owed>>

UploadEnds(r) ==
    /\ upload[r] = "queued"
    /\ upload' = [upload EXCEPT ![r] = "none"]
    /\ waits' = [f \in Flush |-> IF phase[f] = "uploads" THEN waits[f] \ {r} ELSE waits[f]]
    /\ UNCHANGED issues \/ Warns
    /\ UNCHANGED <<at, chains, phase, rejected, since, from, owed>>

-----------------------------------------------------------------------------
(* client.flush.                                                           *)
CallClient(f) ==
    /\ f \in ClientFlush
    /\ phase[f] = "idle"
    /\ \A earlier \in 1..f - 1 : phase[earlier] # "idle"
    /\ phase' = [phase EXCEPT ![f] = "called"]
    /\ since' = [since EXCEPT ![f] = failureSequence]
    /\ sending' = Append(sending, f)
    /\ owed' = [owed EXCEPT ![f] = Unsettled]
    /\ UNCHANGED <<records, issues, sendPromise, waits, rejected, from>>

(* transport.flush: it joins the transport's sends at once.                *)
CallTransport(f) ==
    /\ f \in TransportFlush
    /\ phase[f] = "idle"
    /\ phase' = [phase EXCEPT ![f] = "joined"]
    /\ from' = [from EXCEPT ![f] = observedSequence]
    /\ sendPromise' = Append(sendPromise, f)
    /\ owed' = [owed EXCEPT ![f] = Unsettled]
    /\ UNCHANGED <<records, issues, sending, waits, rejected, since>>

(* The flush before it has sent its records: flushProviders, which export  *)
(* what is queued (Export) or hang.                                        *)
Start(f) ==
    /\ f \in ClientFlush
    /\ phase[f] = "called"
    /\ f = Head(sending)
    /\ phase' = [phase EXCEPT ![f] = "providers"]
    /\ from' = [from EXCEPT ![f] = observedSequence]
    /\ UNCHANGED <<records, issues, chains, waits, rejected, since, owed>>

(* Only then does it join the transport's sends.                           *)
ProvidersEnd(f) ==
    /\ phase[f] = "providers"
    /\ phase' = [phase EXCEPT ![f] = "joined"]
    /\ sendPromise' = Append(sendPromise, f)
    /\ UNCHANGED issues \/ Fails
    /\ UNCHANGED <<records, sending, waits, rejected, since, from, owed>>

(* sendRecords, at its turn: both processors export what they hold, the    *)
(* open responses sealed (Publish).                                        *)
Send(f) ==
    /\ phase[f] = "joined"
    /\ f = Head(sendPromise)
    /\ \A r \in Record : at[r] # "deferred"
    /\ phase' = [phase EXCEPT ![f] = "processors"]
    /\ at' = [r \in Record |-> IF at[r] = "queued" THEN "exporting" ELSE at[r]]
    /\ waits' = [waits EXCEPT ![f] = {r \in Record : at[r] = "queued"}]
    /\ UNCHANGED <<upload, issues, chains, rejected, since, from, owed>>

(* A slip: the send ends with the processors, and a timer's export goes on.*)
SentByProcessors(f) ==
    /\ phase[f] = "processors"
    /\ waits[f] = {}
    /\ phase' = [phase EXCEPT ![f] = "exporters"]
    /\ UNCHANGED <<records, issues, chains, waits, rejected, since, from, owed>>

(* Both have ended, or were rejected: the exporters' pending exports, the  *)
(* timers' among them, are waited for.                                     *)
ProcessorsEnd(f) ==
    /\ phase[f] = "processors"
    /\ rejected' \in {rejected, rejected \cup {f}}
    /\ waits[f] = {} \/ f \in rejected'
    /\ phase' = [phase EXCEPT ![f] = "exporters"]
    /\ waits' = [waits EXCEPT ![f] = Exports]
    /\ UNCHANGED <<records, issues, chains, since, from, owed>>

(* A slip: the turn is kept until the report.                              *)
SentAfterUploads(f) ==
    /\ phase[f] = "exporters"
    /\ waits[f] = {}
    /\ Uploads = {}
    /\ phase' = [phase EXCEPT ![f] = "uploads"]
    /\ sendPromise' = Tail(sendPromise)
    /\ sending' = IF f \in ClientFlush THEN Tail(sending) ELSE sending
    /\ UNCHANGED <<records, issues, waits, rejected, since, from, owed>>

(* sent: the next flush may send, and this one waits for the uploads       *)
(* queued so far.                                                          *)
SendEnds(f) ==
    /\ phase[f] = "exporters"
    /\ waits[f] = {}
    /\ phase' = [phase EXCEPT ![f] = "uploads"]
    /\ sendPromise' = Tail(sendPromise)
    /\ sending' = IF f \in ClientFlush THEN Tail(sending) ELSE sending
    /\ waits' = [waits EXCEPT ![f] = Uploads]
    /\ UNCHANGED <<records, issues, rejected, since, from, owed>>

(* A slip: only what failed since the call is looked at.                   *)
ObserveSinceCall(f, last, failure, failures) ==
    LET throws == f \in ClientFlush /\ failure # since[f]
    IN  /\ phase' = [phase EXCEPT ![f] = IF throws THEN "threw" ELSE "ok"]
        /\ sequence' = last
        /\ failureSequence' = failure
        /\ observedSequence' = last
        /\ unreported' = IF throws THEN {n \in failures : n <= from[f]} ELSE failures
        /\ owed' = IF throws THEN [owed EXCEPT ![f] = {}] ELSE owed

(* flushReport of a flush that observes up to `last`, and the client's     *)
(* check of what failed since its call.                                    *)
Observe(f, last, failure, failures) ==
    LET throws == failure > from[f] \/ (f \in ClientFlush /\ failure # since[f])
    IN  /\ phase' = [phase EXCEPT ![f] = IF throws THEN "threw" ELSE "ok"]
        /\ sequence' = last
        /\ failureSequence' = failure
        /\ observedSequence' = last
        /\ unreported' = IF throws THEN {n \in failures : n <= from[f]} ELSE failures
        /\ owed' = IF throws THEN [owed EXCEPT ![f] = {}] ELSE owed

(* A rejected processor flush is an issue unless one was raised meanwhile. *)
Report(f) ==
    /\ phase[f] = "uploads"
    /\ waits[f] = {}
    /\ IF f \in rejected /\ sequence <= from[f]
       THEN Observe(f, sequence + 1, sequence + 1, unreported \cup {sequence + 1})
       ELSE Observe(f, sequence, failureSequence, unreported)
    /\ rejected' = rejected \ {f}
    /\ since' = [since EXCEPT ![f] = 0]
    /\ from' = [from EXCEPT ![f] = 0]
    /\ UNCHANGED <<records, chains, waits>>

FlushStep(f) ==
    \/ CallClient(f) \/ CallTransport(f)
    \/ Start(f) \/ ProvidersEnd(f)
    \/ Send(f) \/ ProcessorsEnd(f) \/ SendEnds(f) \/ Report(f)

Next ==
    \/ \E r \in Record : Emit(r) \/ Publish(r) \/ Export(r) \/ ExportEnds(r) \/ UploadEnds(r)
    \/ \E f \in Flush : FlushStep(f)

(* Exports and responses end and a send goes on; providers and uploads owe *)
(* nothing.                                                                *)
Fairness ==
    /\ \A r \in Record : WF_vars(Publish(r)) /\ WF_vars(ExportEnds(r))
    /\ \A f \in Flush : WF_vars(Start(f)) /\ WF_vars(Send(f) \/ ProcessorsEnd(f) \/ SendEnds(f))

Spec == Init /\ [][Next]_vars /\ Fairness

-----------------------------------------------------------------------------
(* A flush that does not throw has seen every record emitted before its    *)
(* call acknowledged, and the uploads of those records settled.            *)
FlushCovers ==
    \A f \in Flush : phase[f] = "ok" =>
        \A r \in owed[f] : at[r] = "accepted" /\ upload[r] # "queued"

(* No failure is swallowed between two flushes: what the transport takes   *)
(* as observed was thrown by a flush.                                      *)
FailuresAreThrown == \A n \in unreported : n > observedSequence

(* The flush as its callers see it (FlushPromise): where the record is,    *)
(* whether the call is open, and whether a failure waits to be thrown.     *)
Fate == [r \in Record |->
    CASE at[r] \in {"new", "lost"} -> at[r]
      [] at[r] = "accepted" /\ upload[r] # "queued" -> "settled"
      [] OTHER -> "pending"]

Call == [f \in Flush |-> IF phase[f] \in {"idle", "ok", "threw"} THEN phase[f] ELSE "open"]

Promise == INSTANCE FlushPromise WITH
    fate <- Fate, call <- Call, covered <- owed, unthrown <- unreported # {}

(* The flush keeps its promise: one that does not throw has settled what   *)
(* was emitted before it, and no loss before its report was passed over,   *)
(* however the flushes overlap.                                            *)
KeepsPromise == Promise!PromiseSpec

(* The transport's own flush sends its records, though a client's provider *)
(* hangs and the uploads of earlier flushes go on.                         *)
SendsEnd == \A f \in TransportFlush : phase[f] = "joined" ~> phase[f] = "uploads"
=============================================================================
