-------------------------- MODULE TraceAttribution --------------------------
(***************************************************************************)
(* How the experiment runner decides, after a flush, whether Hue holds a   *)
(* case's telemetry (evals/runner.ts) when one transport (transport.ts)    *)
(* carries the records of every case in flight.  The runner remembers the  *)
(* failure number at which a case began; after the flush it reads the      *)
(* issues recorded since, and takes an issue that names the case's trace   *)
(* as final, and one that may be anyone's, or that the bounded history has *)
(* rolled past, to the trace receipt, which must show the root span and as *)
(* many spans as the transport counted for the trace.                      *)
(***************************************************************************)
EXTENDS IssueLog, Sequences, SequencesExt

CONSTANTS
    MaxRemembered,  \* traces whose ended spans are counted (MAX_REMEMBERED_TRACES)
    MaxIssues,      \* bound: issues of a run
    MaxCrashes      \* bound: process deaths

ASSUME AttributionAssumption ==
    /\ MaxRemembered \in Nat \ {0}
    /\ MaxIssues \in Nat
    /\ MaxCrashes \in Nat

VARIABLES
    record,     \* record[c][r]: what became of record r of case c
    phase,      \* phase[c]: where the runner is with the case
    before,     \* before[c]: failureSequence when the case began
    order,      \* the traces with a count of ended spans, oldest first
    ended,      \* ended[c]: that count; 0 when the trace is not in order
    spans,      \* spans[c]: the count saved in the checkpoint, or NoCount
    export,     \* export[c]: the checkpoint's exportState
    via,        \* via[c]: what accepted the case, "flush" or "receipt"
    crashes     \* process deaths so far

caseVars == <<phase, before, spans, export, via>>
countVars == <<order, ended>>
vars == <<logVars, record, caseVars, countVars, crashes>>

(* Of a case: one span below the root, the root span and a log record.     *)
Spans == {"child", "root"}
Records == Spans \cup {"log"}
NoCount == -1

(* "lost" was refused, failed or died with the process; "dropped" was      *)
(* refused by the queue and never counted as ended.                        *)
Status == {"none", "queued", "held", "lost", "dropped"}
Phases == {"idle", "running", "ended", "flushed", "counted", "decided", "crashed"}

TypeOK ==
    /\ LogTypeOK
    /\ record \in [Trace -> [Records -> Status]]
    /\ phase \in [Trace -> Phases]
    /\ before \in [Trace -> Nat]
    /\ order \in Seq(Trace)
    /\ ended \in [Trace -> Nat]
    /\ spans \in [Trace -> Nat \cup {NoCount}]
    /\ export \in [Trace -> {"pending", "accepted", "failed"}]
    /\ via \in [Trace -> {"", "flush", "receipt"}]
    /\ crashes \in Nat

Init ==
    /\ InitLog
    /\ record = [c \in Trace |-> [r \in Records |-> "none"]]
    /\ phase = [c \in Trace |-> "idle"]
    /\ before = [c \in Trace |-> 0]
    /\ order = <<>>
    /\ ended = [c \in Trace |-> 0]
    /\ spans = [c \in Trace |-> NoCount]
    /\ export = [c \in Trace |-> "pending"]
    /\ via = [c \in Trace |-> ""]
    /\ crashes = 0

-----------------------------------------------------------------------------
(* Issues of other work on the same transport, bounded by MaxIssues.       *)

Room == sequence < MaxIssues

(* An ingestion warning or a failure of another trace's records.           *)
OtherIssue ==
    /\ Room
    /\ \/ Issue("warning", {})
       \/ Issue("failure", {Other})
    /\ UNCHANGED <<record, caseVars, countVars, crashes>>

(* A processor or a provider that could not flush: the issue names nobody. *)
ProcessorFails ==
    /\ Room
    /\ Issue("failure", {})
    /\ UNCHANGED <<record, caseVars, countVars, crashes>>

-----------------------------------------------------------------------------
(* The case's records.                                                     *)

(* The failure number is read before the case's root span opens.           *)
Begin(c) ==
    /\ phase[c] = "idle"
    /\ phase' = [phase EXCEPT ![c] = "running"]
    /\ before' = [before EXCEPT ![c] = failureSequence]
    /\ NoIssue
    /\ UNCHANGED <<record, countVars, spans, export, via, crashes>>

(* The count of a trace's ended spans goes up; past MaxRemembered traces   *)
(* the one counted first is forgotten.  A forgotten trace starts again     *)
(* from nothing at its next span.                                          *)
CountEnded(c) ==
    LET counted == IF c \in Range(order) THEN order ELSE Append(order, c)
        full == Len(counted) > MaxRemembered
    IN  /\ order' = IF full THEN Tail(counted) ELSE counted
        /\ ended' = [d \in Trace |->
                       IF full /\ d = Head(counted) THEN 0
                       ELSE IF d = c THEN ended[c] + 1 ELSE ended[d]]

(* The root ends after the records below it: the runner awaits the target  *)
(* inside its span, and the prepared checkpoint is saved before it.        *)
Closes(c, r) ==
    phase' = [phase EXCEPT ![c] = IF r = "root" THEN "ended" ELSE @]

(* A record ends and is admitted to the queue; a span is counted.          *)
Admit(c, r) ==
    /\ phase[c] = "running"
    /\ record[c][r] = "none"
    /\ record' = [record EXCEPT ![c][r] = "queued"]
    /\ IF r \in Spans THEN CountEnded(c) ELSE UNCHANGED countVars
    /\ Closes(c, r)
    /\ NoIssue
    /\ UNCHANGED <<before, spans, export, via, crashes>>

(* The queue refuses it, full or past its bytes: the issue names the trace *)
(* and the span is not counted.                                            *)
Drop(c, r) ==
    /\ phase[c] = "running"
    /\ record[c][r] = "none"
    /\ Room
    /\ record' = [record EXCEPT ![c][r] = "dropped"]
    /\ Issue("failure", {c})
    /\ Closes(c, r)
    /\ UNCHANGED <<countVars, before, spans, export, via, crashes>>

(* A batch is of one signal.                                               *)
Queued == {x \in Trace \X Records : record[x[1]][x[2]] = "queued"}
Batches ==
    {b \in SUBSET Queued \ {{}} :
        (\A x \in b : x[2] = "log") \/ (\A x \in b : x[2] # "log")}
TracesOf(batch) == {x[1] : x \in batch}

(* Each record of the batch is held by Hue or lost. *)
Settle(batch, held) ==
    record' = [c \in Trace |-> [r \in Records |->
        IF <<c, r>> \notin batch THEN record[c][r]
        ELSE IF <<c, r>> \in held THEN "held" ELSE "lost"]]

Accept(batch) ==
    /\ Settle(batch, batch)
    /\ NoIssue
    /\ UNCHANGED <<caseVars, countVars, crashes>>

(* A partial success: the count is not matched to records.  A rejection of *)
(* spans names the trace only when the batch has one; a rejection of logs  *)
(* names every trace of the batch, up to the cap.                          *)
Reject(batch) ==
    LET traces == TraceIdsOf(TracesOf(batch))
        logs == \A x \in batch : x[2] = "log"
    IN  /\ Room
        /\ \E held \in SUBSET batch \ {batch} : Settle(batch, held)
        /\ Issue("failure", IF logs \/ Cardinality(traces) = 1 THEN traces ELSE {})
        /\ UNCHANGED <<caseVars, countVars, crashes>>

(* The request failed or its acknowledgement was lost: Hue holds all of it *)
(* or nothing, and the issue names the batch's traces up to the cap.       *)
Fail(batch) ==
    /\ Room
    /\ \E held \in {{}, batch} : Settle(batch, held)
    /\ Issue("failure", TraceIdsOf(TracesOf(batch)))
    /\ UNCHANGED <<caseVars, countVars, crashes>>

-----------------------------------------------------------------------------
(* The runner after the case.                                              *)

(* The flush returns once every record of the case is settled.  What it    *)
(* throws is dropped here: the issues are read instead.                    *)
Flushed(c) ==
    /\ phase[c] = "ended"
    /\ \A r \in Records : record[c][r] # "queued"
    /\ phase' = [phase EXCEPT ![c] = "flushed"]
    /\ NoIssue
    /\ UNCHANGED <<record, countVars, before, spans, export, via, crashes>>

(* The count the transport remembers is saved; none when it forgot. *)
SaveCount(c) ==
    /\ phase[c] = "flushed"
    /\ spans' = [spans EXCEPT ![c] = IF c \in Range(order) THEN ended[c] ELSE NoCount]
    /\ phase' = [phase EXCEPT ![c] = "counted"]
    /\ NoIssue
    /\ UNCHANGED <<record, countVars, before, export, via, crashes>>

(* A slip: the root span alone is taken for the trace.                     *)
RootLanded(c) == record[c]["root"] = "held"

(* The receipt shows the root span and at least the saved count of spans.  *)
Landed(c) ==
    /\ spans[c] # NoCount
    /\ record[c]["root"] = "held"
    /\ Cardinality({r \in Spans : record[c][r] = "held"}) >= spans[c]

Since(c) == {i \in issues : i.seq > before[c] /\ i.kind # "warning"}
NamedIssue(c) == \E i \in Since(c) : c \in i.names
Unattributed(c) == \E i \in Since(c) : i.names = {}

(* Every failure was rolled past, or the oldest the case could have caused *)
(* may have been.                                                          *)
Evicted(c) == Since(c) = {} \/ \A i \in issues : i.seq > before[c] + 1

AcceptedBy(c, what) ==
    /\ export' = [export EXCEPT ![c] = "accepted"]
    /\ via' = [via EXCEPT ![c] = what]

(* No failure since the case began, or only failures the history still     *)
(* holds and that name others: accepted.  A failure that names the case is *)
(* final.  One that may be anyone's leaves it to the receipt.              *)
Decide(c) ==
    /\ phase[c] = "counted"
    /\ phase' = [phase EXCEPT ![c] = "decided"]
    /\ \/ /\ \/ failureSequence = before[c]
             \/ ~NamedIssue(c) /\ ~Unattributed(c) /\ ~Evicted(c)
          /\ AcceptedBy(c, "flush")
       \/ /\ failureSequence # before[c]
          /\ NamedIssue(c)
          /\ export' = [export EXCEPT ![c] = "failed"]
          /\ UNCHANGED via
       \/ /\ failureSequence # before[c]
          /\ ~NamedIssue(c)
          /\ Unattributed(c) \/ Evicted(c)
          /\ \/ Landed(c) /\ AcceptedBy(c, "receipt")
             \/ UNCHANGED <<export, via>>
    /\ NoIssue
    /\ UNCHANGED <<record, countVars, before, spans, crashes>>

(* A slip: the receipt is asked whatever the saved state. *)
AskAnyway(c) ==
    /\ phase[c] = "decided"
    /\ export[c] # "accepted"
    /\ Landed(c)
    /\ AcceptedBy(c, "receipt")
    /\ NoIssue
    /\ UNCHANGED <<record, countVars, phase, before, spans, crashes>>

(* An outcome no flush decided is asked about again, in this run or when a *)
(* later one resumes it.                                                   *)
AskReceipt(c) ==
    /\ phase[c] = "decided"
    /\ export[c] = "pending"
    /\ Landed(c)
    /\ AcceptedBy(c, "receipt")
    /\ NoIssue
    /\ UNCHANGED <<record, countVars, phase, before, spans, crashes>>

(* The process dies: the queue, the log and the counts go with it.  A case *)
(* whose outcome was saved is left to the receipt, with the count saved by *)
(* then; a case still running has no outcome to resume.                    *)
Crash ==
    /\ crashes < MaxCrashes
    /\ crashes' = crashes + 1
    /\ sequence' = 0
    /\ failureSequence' = 0
    /\ issues' = {}
    /\ order' = <<>>
    /\ ended' = [c \in Trace |-> 0]
    /\ record' = [c \in Trace |-> [r \in Records |->
                    IF record[c][r] = "queued" THEN "lost" ELSE record[c][r]]]
    /\ phase' = [c \in Trace |->
                    CASE phase[c] = "running" -> "crashed"
                      [] phase[c] \in {"ended", "flushed", "counted"} -> "decided"
                      [] OTHER -> phase[c]]
    /\ UNCHANGED <<before, spans, export, via>>

Next ==
    \/ OtherIssue
    \/ ProcessorFails
    \/ Crash
    \/ \E batch \in Batches : Accept(batch) \/ Reject(batch) \/ Fail(batch)
    \/ \E c \in Trace :
         \/ Begin(c)
         \/ \E r \in Records : Admit(c, r) \/ Drop(c, r)
         \/ Flushed(c)
         \/ SaveCount(c)
         \/ Decide(c)
         \/ AskReceipt(c)

Spec == Init /\ [][Next]_vars

-----------------------------------------------------------------------------
(* A case accepted on the flush alone lost nothing, span or log, however   *)
(* many issues of other cases the bounded history rolled past meanwhile:   *)
(* the attribution never takes another case's failure for the only one.    *)
FlushAcceptsWhole ==
    \A c \in Trace :
        via[c] = "flush" => \A r \in Records : record[c][r] \in {"none", "held"}

(* The state is well typed, the history no longer than its size, and,      *)
(* while no count was forgotten, an accepted case has every span that was  *)
(* counted in Hue, accepted by the flush, by the receipt or, after a       *)
(* crash, by the receipt a later run asks.  A child span the queue dropped *)
(* is not counted (onEnd): the receipt may accept its case without it.     *)
AcceptedSpansHeld ==
    /\ TypeOK
    /\ \A c \in Trace :
        export[c] = "accepted" => \A r \in Spans : record[c][r] \notin {"queued", "lost"}

(* A failure that named the case is final: no receipt read later accepts   *)
(* it, even when Hue holds the spans.                                      *)
NamedFailureIsFinal ==
    [][\A c \in Trace : export[c] = "failed" => export'[c] = "failed"]_export

(* What was decided of a case's telemetry holds: accepted is held, and a   *)
(* named failure stays one (the decision and the receipt of runCase).      *)
DecisionsHold == []AcceptedSpansHeld /\ NamedFailureIsFinal
=============================================================================
