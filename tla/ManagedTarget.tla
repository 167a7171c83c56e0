----------------------------- MODULE ManagedTarget -----------------------------
(***************************************************************************)
(* The managed target handler (managed.ts createManagedTargetHandler and   *)
(* its Python twin managed.py): Hue posts the cases of an experiment to    *)
(* it, possibly more than once.  A request claims its execution, runs the  *)
(* target against the execution deadline, and by the final deadline        *)
(* uploads the files, saves the outcome, flushes the telemetry and         *)
(* acknowledges it.  Nothing is kept between requests, and what a request  *)
(* posts may reach Hue after it has given up.                              *)
(*                                                                         *)
(* Hue and the target are external.  The flush is client.flush, known by   *)
(* what it promises (FlushPromise); the requests share one pipeline.  A    *)
(* dead process is a handler that takes no more steps.                     *)
(***************************************************************************)
EXTENDS FiniteSets, Naturals

CONSTANTS
    Handler,        \* the requests that reach the handler
    Execution, None,
    MaxFiles        \* bound: the files of the result a request's target returns

ASSUME ManagedAssumption == None \notin Handler /\ MaxFiles \in [Handler -> Nat]

VARIABLES
    execution,      \* execution[h]: the execution the request is for
    pc,             \* pc[h]: how far it is
    passed,         \* passed[h]: the deadline it is held to has passed
    tried,          \* tried[h]: how often its current callback was posted
    target,         \* target[h]: the callback of the application
    result,         \* result[h]: the state of the result
    files,          \* files[h]: how many files it has
    next,           \* next[h]: the file that is uploaded
    artifacts,      \* artifacts[h]: the files that are stored for sure
    reply,          \* reply[h]: what the request was answered
    wire,           \* Hue's side: the callbacks on their way,
    claimedBy,      \* claimedBy[e]: the request that claimed it,
    bytes, ready,   \* the files written and not yet verified, and those verified,
    saved,          \* the outcomes it has saved,
    acknowledged,   \* the executions whose telemetry is acknowledged
    fate, call, covered, unthrown   \* the telemetry pipeline

handler == <<pc, passed, tried, target, result, files, next, artifacts, reply>>
hue == <<wire, claimedBy, bytes, ready, saved, acknowledged>>
telemetry == <<fate, call, covered, unthrown>>
vars == <<execution, handler, hue, telemetry>>

Telemetry == INSTANCE FlushPromise WITH Record <- Handler, Flush <- Handler

Callbacks == {"claim", "outcome", "telemetry"}
Outcome(h) == [by |-> h, state |-> result[h], artifacts |-> artifacts[h]]
Outcomes == [by : Handler, state : {"succeeded", "error"}, artifacts : SUBSET Nat]

TypeOK ==
    /\ execution \in [Handler -> Execution]
    /\ pc \in [Handler -> Callbacks \cup
              {"new", "inputs", "target", "reserve", "put", "complete", "flush", "flushing", "done"}]
    /\ passed \in [Handler -> BOOLEAN]
    /\ tried \in [Handler -> 0..2]
    /\ target \in [Handler -> {"idle", "running", "ended"}]
    /\ result \in [Handler -> {"succeeded", "error"}]
    /\ files \in [Handler -> Nat]
    /\ next \in [Handler -> Nat]
    /\ artifacts \in [Handler -> SUBSET Nat]
    /\ \A h \in Handler : artifacts[h] \subseteq 1..files[h] /\ files[h] <= MaxFiles[h]
    /\ reply \in [Handler -> {"none", "refused", "conflict", "uncertain", "pending", "flushed"}]
    /\ wire \subseteq Handler \X Callbacks
    /\ claimedBy \in [Execution -> Handler \cup {None}]
    /\ bytes \subseteq Execution \X Nat
    /\ ready \subseteq Execution \X Nat
    /\ saved \subseteq Outcomes
    /\ acknowledged \subseteq Execution

Init ==
    /\ execution \in [Handler -> Execution]
    /\ pc = [h \in Handler |-> "new"]
    /\ passed = [h \in Handler |-> FALSE]
    /\ tried = [h \in Handler |-> 0]
    /\ target = [h \in Handler |-> "idle"]
    /\ result = [h \in Handler |-> "succeeded"]
    /\ files = [h \in Handler |-> 0]
    /\ next = [h \in Handler |-> 1]
    /\ artifacts = [h \in Handler |-> {}]
    /\ reply = [h \in Handler |-> "none"]
    /\ wire = {}
    /\ claimedBy = [e \in Execution |-> None]
    /\ bytes = {} /\ ready = {}
    /\ saved = {}
    /\ acknowledged = {}
    /\ Telemetry!PromiseInit

-----------------------------------------------------------------------------
(* The claim, the inputs and the target are held to the execution          *)
(* deadline, what follows to the final one, which may have passed too.     *)
Tick(h) ==
    /\ pc[h] \notin {"new", "done"} /\ ~passed[h]
    /\ passed' = [passed EXCEPT ![h] = TRUE]
    /\ UNCHANGED <<execution, pc, tried, target, result, files, next, artifacts, reply, hue,
                   telemetry>>

Goes(h, to) ==
    /\ pc' = [pc EXCEPT ![h] = to]
    /\ tried' = [tried EXCEPT ![h] = 0]
    /\ UNCHANGED passed

(* The handler turns to what the final deadline bounds.                    *)
Finalizes(h) ==
    /\ pc' = [pc EXCEPT ![h] = "reserve"]
    /\ passed' = [passed EXCEPT ![h] = FALSE]
    /\ UNCHANGED tried

Replies(h, what) ==
    /\ pc' = [pc EXCEPT ![h] = "done"]
    /\ tried' = [tried EXCEPT ![h] = 0]
    /\ passed' = [passed EXCEPT ![h] = FALSE]
    /\ reply' = [reply EXCEPT ![h] = what]

(* The span ends: its pipeline takes the record or refuses it.             *)
SpanEnds(h) == Telemetry!Emitted(h) \/ Telemetry!Lost(h)

(* Authentication, the body and the deadline are checked first.            *)
Receive(h) ==
    /\ pc[h] = "new"
    /\ \/ Goes(h, "claim") /\ UNCHANGED reply
       \/ Replies(h, "refused")
    /\ UNCHANGED <<execution, target, result, files, next, artifacts, hue, telemetry>>

(* request: a callback is posted while its deadline has not passed, and,   *)
(* unless it is the claim, once again when the first post failed.          *)
Attempts(h) == IF pc[h] = "claim" THEN 1 ELSE 2

Post(h) ==
    /\ pc[h] \in Callbacks /\ ~passed[h]
    /\ tried[h] < Attempts(h)
    /\ tried' = [tried EXCEPT ![h] = @ + 1]
    /\ wire' = wire \cup {<<h, pc[h]>>}
    /\ UNCHANGED <<execution, pc, passed, target, result, files, next, artifacts, reply,
                   claimedBy, bytes, ready, saved, acknowledged, telemetry>>

(* Hue acts on a callback, whether or not anyone still waits for it.       *)
HueActs(h, kind) ==
    LET e == execution[h]
    IN  /\ <<h, kind>> \in wire
        /\ wire' = wire \ {<<h, kind>>}
        /\ claimedBy' = IF kind = "claim" /\ claimedBy[e] = None
                        THEN [claimedBy EXCEPT ![e] = h] ELSE claimedBy
        /\ saved' = IF kind = "outcome" /\ \A o \in saved : execution[o.by] # e
                    THEN saved \cup {Outcome(h)} ELSE saved
        /\ acknowledged' = IF kind = "telemetry" THEN acknowledged \cup {e} ELSE acknowledged
        /\ UNCHANGED <<execution, handler, bytes, ready, telemetry>>

(* Hue's answer to the last post arrives in time ...                       *)
Answered(h, kind) ==
    pc[h] = kind /\ tried[h] > 0 /\ ~passed[h] /\ <<h, kind>> \notin wire

(* ... or the callback fails: its answers were lost or errors, which says  *)
(* nothing of what Hue did, or its deadline has passed.                    *)
Failed(h, kind) == pc[h] = kind /\ (tried[h] > 0 \/ passed[h])

-----------------------------------------------------------------------------
\* Mutant: an execution another request holds is run all the same.
ClaimedAny(h) == claimedBy[execution[h]] # None

Claimed(h) == claimedBy[execution[h]] = h

(* A claim that is answered: the execution is this request's, and its span *)
(* starts, or another one's.  A tracer whose span records nothing, or      *)
(* another trace, ends it: that span is not followed here.                 *)
ClaimAnswered(h) ==
    /\ Answered(h, "claim")
    /\ \/ Claimed(h) /\ Goes(h, "inputs") /\ UNCHANGED reply
       \/ Claimed(h) /\ Replies(h, "uncertain")
       \/ ~Claimed(h) /\ Replies(h, "conflict")
    /\ UNCHANGED <<execution, target, result, files, next, artifacts, hue, telemetry>>

ClaimLost(h) ==
    /\ Failed(h, "claim")
    /\ Replies(h, "uncertain")
    /\ UNCHANGED <<execution, target, result, files, next, artifacts, hue, telemetry>>

(* Every input was downloaded and verified, in time: the target is called. *)
CallTarget(h) ==
    /\ pc[h] = "inputs" /\ ~passed[h]
    /\ Goes(h, "target")
    /\ target' = [target EXCEPT ![h] = "running"]
    /\ UNCHANGED <<execution, result, files, next, artifacts, reply, hue, telemetry>>

\* Mutant: a target that did not answer in time has failed.
CaughtAsError(h) ==
    /\ Finalizes(h)
    /\ result' = [result EXCEPT ![h] = "error"]
    /\ UNCHANGED <<files, reply, telemetry>>

(* Whatever went wrong before the deadline is the target's error; after it *)
(* nothing is claimed of the target, which may still be running.           *)
Caught(h) ==
    IF ~passed[h]
    THEN /\ Finalizes(h)
         /\ result' = [result EXCEPT ![h] = "error"]
         /\ UNCHANGED <<files, reply, telemetry>>
    ELSE /\ Replies(h, "uncertain")
         /\ SpanEnds(h)
         /\ UNCHANGED <<files, result>>

(* An input cannot be read or verified.                                    *)
InputFails(h) ==
    /\ pc[h] = "inputs"
    /\ Caught(h)
    /\ UNCHANGED <<execution, target, next, artifacts, hue>>

(* Its own word for the result's state is data: "succeeded" stands for it. *)
TargetReturns(h) ==
    /\ pc[h] = "target" /\ target[h] = "running"
    /\ target' = [target EXCEPT ![h] = "ended"]
    /\ Finalizes(h)
    /\ \E n \in 0..MaxFiles[h] : files' = [files EXCEPT ![h] = n]
    /\ UNCHANGED <<execution, result, next, artifacts, reply, hue, telemetry>>

(* It throws, or its result is not valid.                                  *)
TargetThrows(h) ==
    /\ pc[h] = "target" /\ target[h] = "running"
    /\ target' = [target EXCEPT ![h] = "ended"]
    /\ Caught(h)
    /\ UNCHANGED <<execution, next, artifacts, hue>>

(* within: the deadline passes first.                                      *)
TargetTimesOut(h) ==
    /\ pc[h] = "target" /\ passed[h]
    /\ Caught(h)
    /\ UNCHANGED <<execution, target, next, artifacts, hue>>

(* A target that was given up ends at last, or never.                      *)
TargetEndsLate(h) ==
    /\ pc[h] # "target" /\ target[h] = "running"
    /\ target' = [target EXCEPT ![h] = "ended"]
    /\ UNCHANGED <<execution, pc, passed, tried, result, files, next, artifacts, reply, hue,
                   telemetry>>

-----------------------------------------------------------------------------
(* The files, one after another: reserved, written once, verified by Hue.  *)
(* The callbacks of a file concern no one else, and what Hue does with one *)
(* after it failed changes nothing: their attempts are one step.           *)

File(h) == <<execution[h], next[h]>>
Proceeds(h) == Goes(h, "reserve") /\ next' = [next EXCEPT ![h] = @ + 1]

Stored(h) ==
    /\ Proceeds(h)
    /\ artifacts' = [artifacts EXCEPT ![h] = @ \cup {next[h]}]

(* Hue has the bytes already, or grants an upload.                         *)
Reserve(h) ==
    /\ pc[h] = "reserve" /\ next[h] <= files[h] /\ ~passed[h]
    /\ \/ ready' = ready \cup {File(h)} /\ Stored(h)
       \/ Goes(h, "put") /\ UNCHANGED <<ready, next, artifacts>>
    /\ UNCHANGED <<execution, target, result, files, reply,
                   wire, claimedBy, bytes, saved, acknowledged, telemetry>>

(* upload: one attempt, whose answer is not relied on.                     *)
Put(h) ==
    /\ pc[h] = "put"
    /\ \/ ~passed[h] /\ bytes' = bytes \cup {File(h)}
       \/ UNCHANGED bytes
    /\ Goes(h, "complete")
    /\ UNCHANGED <<execution, target, result, files, next, artifacts, reply,
                   wire, claimedBy, ready, saved, acknowledged, telemetry>>

\* Mutant: an upload that was made is taken for stored.
CompletePut(h) ==
    /\ pc[h] = "complete"
    /\ Stored(h)
    /\ UNCHANGED <<execution, target, result, files, reply,
                   wire, claimedBy, bytes, ready, saved, acknowledged, telemetry>>

(* Hue verifies the bytes it finds, whatever became of the upload's answer.*)
Complete(h) ==
    /\ pc[h] = "complete" /\ ~passed[h]
    /\ File(h) \in bytes
    /\ ready' = ready \cup {File(h)}
    /\ bytes' = bytes \ {File(h)}
    /\ Stored(h)
    /\ UNCHANGED <<execution, target, result, files, reply,
                   wire, claimedBy, saved, acknowledged, telemetry>>

\* Mutant: the file that failed is left out of the outcome without a word.
FileForgotten(h) ==
    /\ pc[h] \in {"reserve", "complete"} /\ next[h] <= files[h]
    /\ Proceeds(h)
    /\ UNCHANGED <<execution, target, result, files, artifacts, reply, hue, telemetry>>

(* The file is not stored for sure, though Hue may have verified it: the   *)
(* others are kept, and the outcome is an error.                           *)
FileFails(h) ==
    /\ pc[h] \in {"reserve", "complete"} /\ next[h] <= files[h]
    /\ Proceeds(h)
    /\ result' = [result EXCEPT ![h] = "error"]
    /\ \/ pc[h] = "complete" /\ ready' = ready \cup (bytes \cap {File(h)})
       \/ UNCHANGED ready
    /\ bytes' = bytes \ {File(h)}
    /\ UNCHANGED <<execution, target, files, artifacts, reply,
                   wire, claimedBy, saved, acknowledged, telemetry>>

-----------------------------------------------------------------------------
\* Mutant: the span ends only after the flush.
ConcludeOpen(h) ==
    /\ pc[h] = "reserve" /\ next[h] > files[h]
    /\ Goes(h, "outcome")
    /\ UNCHANGED <<execution, target, result, files, next, artifacts, reply, hue, telemetry>>

(* After the last file the span ends, before the outcome is posted.        *)
Conclude(h) ==
    /\ pc[h] = "reserve" /\ next[h] > files[h]
    /\ SpanEnds(h)
    /\ Goes(h, "outcome")
    /\ UNCHANGED <<execution, target, result, files, next, artifacts, reply, hue>>

OutcomeSaved(h) ==
    /\ Answered(h, "outcome")
    /\ Goes(h, "flush")
    /\ UNCHANGED <<execution, target, result, files, next, artifacts, reply, hue, telemetry>>

OutcomeLost(h) ==
    /\ Failed(h, "outcome")
    /\ Replies(h, "uncertain")
    /\ UNCHANGED <<execution, target, result, files, next, artifacts, hue, telemetry>>

BeginFlush(h) ==
    /\ pc[h] = "flush" /\ ~passed[h]
    /\ Goes(h, "flushing")
    /\ Telemetry!Begins(h)
    /\ UNCHANGED <<execution, target, result, files, next, artifacts, reply, hue>>

(* The flush ends, for a handler that waits for it or one that has gone.   *)
(* Its report may show records of others that are pending again.           *)
FlushEnds(h) ==
    /\ \/ /\ Telemetry!Succeeds(h)
          /\ IF pc[h] = "flushing"
             THEN (Goes(h, "telemetry") /\ UNCHANGED reply) \/ Replies(h, "pending")
             ELSE UNCHANGED <<pc, passed, tried, reply>>
       \/ /\ Telemetry!Throws(h)
          /\ IF pc[h] = "flushing" THEN Replies(h, "pending")
             ELSE UNCHANGED <<pc, passed, tried, reply>>
    /\ UNCHANGED <<execution, target, result, files, next, artifacts, hue>>

\* Mutant: the flush is waited for without a deadline.
FlushAwaited(h) ==
    /\ pc[h] = "flush" /\ passed[h]
    /\ Replies(h, "pending")
    /\ UNCHANGED <<execution, target, result, files, next, artifacts, hue, telemetry>>

(* within: the deadline passes before the flush began, or ended.           *)
FlushTimesOut(h) ==
    /\ pc[h] \in {"flush", "flushing"} /\ passed[h]
    /\ Replies(h, "pending")
    /\ UNCHANGED <<execution, target, result, files, next, artifacts, hue, telemetry>>

TelemetrySaved(h) ==
    /\ Answered(h, "telemetry")
    /\ Replies(h, "flushed")
    /\ UNCHANGED <<execution, target, result, files, next, artifacts, hue, telemetry>>

TelemetryLost(h) ==
    /\ Failed(h, "telemetry")
    /\ Replies(h, "pending")
    /\ UNCHANGED <<execution, target, result, files, next, artifacts, hue, telemetry>>

(* The pipeline exports on its own.  That it carries other records too     *)
(* shows in flushes that throw for no loss of these.                       *)
Exports ==
    /\ \E h \in Handler : fate[h] = "pending" /\ (Telemetry!Settled(h) \/ Telemetry!Lost(h))
    /\ UNCHANGED <<execution, handler, hue>>

Handles(h) ==
    \/ Post(h) \/ ClaimAnswered(h) \/ ClaimLost(h)
    \/ CallTarget(h) \/ InputFails(h)
    \/ TargetReturns(h) \/ TargetThrows(h) \/ TargetTimesOut(h)
    \/ Reserve(h) \/ Put(h) \/ Complete(h) \/ FileFails(h)
    \/ Conclude(h) \/ OutcomeSaved(h) \/ OutcomeLost(h)
    \/ BeginFlush(h) \/ FlushTimesOut(h) \/ TelemetrySaved(h) \/ TelemetryLost(h)

Next ==
    \/ \E h \in Handler :
         \/ Receive(h) \/ Handles(h) \/ Tick(h) \/ TargetEndsLate(h) \/ FlushEnds(h)
         \/ \E kind \in Callbacks : HueActs(h, kind)
    \/ Exports

(* Time passes and the handler goes on; Hue, the target and the flush owe  *)
(* nothing.                                                                *)
Fairness == \A h \in Handler : WF_vars(Tick(h) \/ Handles(h))

Spec == Init /\ [][Next]_vars /\ Fairness

-----------------------------------------------------------------------------
(* The target is called for one request of an execution at most, however   *)
(* often Hue posts it and whichever claims are lost, and no outcome is     *)
(* saved for a target that is still running.                               *)
CalledOnce ==
    /\ TypeOK
    /\ \A h, g \in Handler :
         target[h] # "idle" /\ target[g] # "idle" /\ execution[h] = execution[g] => h = g
    /\ \A o \in saved : target[o.by] # "running"

(* A checkpointed reply means that Hue has the outcome of this request, by *)
(* the files Hue verified; a succeeded one has all of them.                *)
AnswersAreTrue ==
    /\ \A h \in Handler : reply[h] \in {"pending", "flushed"} => Outcome(h) \in saved
    /\ \A o \in saved :
         /\ \A i \in o.artifacts : <<execution[o.by], i>> \in ready
         /\ o.state = "succeeded" => o.artifacts = 1..files[o.by]

(* Telemetry is acknowledged only once the span of the target has ended    *)
(* and settled, or its loss was thrown to some request's flush.            *)
TelemetryIsSent ==
    \A h \in Handler : claimedBy[execution[h]] = h /\ execution[h] \in acknowledged =>
        \/ fate[h] = "settled"
        \/ fate[h] = "lost" /\ \E g \in Handler : call[g] = "threw"

(* Every request that is received is answered, whatever hangs or is lost:  *)
(* again and again none is open (a handler never goes back to "new").      *)
Answers == []<>(\A h \in Handler : pc[h] \in {"new", "done"})
=============================================================================
