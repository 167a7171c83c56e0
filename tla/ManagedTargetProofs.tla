------------------------- MODULE ManagedTargetProofs -------------------------
(***************************************************************************)
(* What a managed target promises Hue, for any number of requests,         *)
(* executions and files: the claim decides who calls the target, and what  *)
(* is posted after it is fixed, so that it may reach Hue at any time.      *)
(***************************************************************************)
EXTENDS ManagedTarget, TLAPS

TelemetryTypes ==
    /\ fate \in [Handler -> {"new", "pending", "settled", "lost"}]
    /\ call \in [Handler -> {"idle", "open", "ok", "threw"}]
    /\ covered \in [Handler -> SUBSET Handler]
    /\ unthrown \in BOOLEAN

Before == {"new", "claim", "inputs", "target"}
Filing == {"reserve", "put", "complete"}
Concluded == {"outcome", "flush", "flushing", "telemetry"}

(* Only the request that holds the claim goes on, and its target has ended *)
(* when it files.                                                          *)
Holds(h) ==
    /\ pc[h] \in {"inputs", "target"} \cup Filing \cup Concluded
         => claimedBy[execution[h]] = h
    /\ target[h] # "idle" => claimedBy[execution[h]] = h
    /\ pc[h] \in {"new", "claim", "inputs"} => target[h] = "idle"
    /\ pc[h] \in Filing \cup Concluded => target[h] # "running"

(* The files up to the next one are stored, unless the outcome says error. *)
Files(h) ==
    /\ pc[h] \in Before => next[h] = 1 /\ artifacts[h] = {} /\ files[h] = 0
    /\ pc[h] \in Filing =>
         /\ next[h] \in 1..files[h] + 1
         /\ pc[h] # "reserve" => next[h] <= files[h]
         /\ result[h] = "succeeded" => artifacts[h] = 1..next[h] - 1
    /\ pc[h] \in Concluded /\ result[h] = "succeeded" => artifacts[h] = 1..files[h]
    /\ \A i \in artifacts[h] : <<execution[h], i>> \in ready

(* What a callback on its way, or taken by Hue, says stays so.             *)
Fixed(h) ==
    /\ pc[h] \in Concluded \cup {"done"}
    /\ claimedBy[execution[h]] = h
    /\ target[h] # "running"
    /\ result[h] = "succeeded" => artifacts[h] = 1..files[h]

Saved(h) == Outcome(h) \in saved

Posted(h) ==
    /\ <<h, "outcome">> \in wire => Fixed(h)
    /\ pc[h] = "outcome" /\ tried[h] > 0 /\ <<h, "outcome">> \notin wire => Saved(h)
    /\ pc[h] \in {"flush", "flushing", "telemetry"} => Saved(h)
    /\ reply[h] \in {"pending", "flushed"} => pc[h] = "done" /\ Saved(h)

SavedTrue == \A o \in saved : Fixed(o.by) /\ o = Outcome(o.by)

(* The span has ended before the flush, which then covers it.              *)
Sent(h) == fate[h] = "settled" \/ (fate[h] = "lost" /\ \E g \in Handler : call[g] = "threw")

Covers(h) ==
    /\ pc[h] \in Concluded => fate[h] # "new"
    /\ call[h] # "idle" => fate[h] # "new"
    /\ call[h] = "open" /\ fate[h] = "pending" => h \in covered[h]
    /\ fate[h] = "lost" => unthrown \/ \E g \in Handler : call[g] = "threw"
    /\ pc[h] = "telemetry" => Sent(h)
    /\ <<h, "telemetry">> \in wire => Sent(h) /\ claimedBy[execution[h]] = h

Acknowledged ==
    \A e \in acknowledged : claimedBy[e] \in Handler /\ Sent(claimedBy[e])

IInv ==
    /\ TypeOK /\ TelemetryTypes
    /\ \A h \in Handler : Holds(h) /\ Files(h) /\ Posted(h) /\ Covers(h)
    /\ SavedTrue /\ Acknowledged

USE ManagedAssumption DEF Before, Filing, Concluded, Callbacks, hue, telemetry

-----------------------------------------------------------------------------
(* Where a step of the handler leads.                                      *)
Places == Callbacks \cup {"new", "inputs", "target", "reserve", "put", "complete",
                          "flush", "flushing", "done"}

LEMMA Moves ==
  ASSUME TypeOK, NEW h \in Handler, NEW to \in Places, NEW what,
         what \in {"refused", "conflict", "uncertain", "pending", "flushed"},
         Goes(h, to) \/ Finalizes(h) \/ Replies(h, what)
  PROVE  /\ pc' \in [Handler -> Places]
         /\ passed' \in [Handler -> BOOLEAN]
         /\ tried' \in [Handler -> 0..2]
         /\ Replies(h, what) =>
              reply' \in [Handler -> {"none", "refused", "conflict", "uncertain", "pending", "flushed"}]
         /\ \A g \in Handler : g # h => pc'[g] = pc[g] /\ tried'[g] = tried[g]
<1>1. CASE Goes(h, to)
  BY <1>1 DEF TypeOK, Goes, Replies, Places
<1>2. CASE Finalizes(h)
  BY <1>2 DEF TypeOK, Finalizes, Replies, Places
<1>3. CASE Replies(h, what)
  BY <1>3 DEF TypeOK, Replies, Places
<1> QED
  BY <1>1, <1>2, <1>3

(* The span is taken by the pipeline or refused.                           *)
LEMMA SpanMoves ==
  ASSUME TelemetryTypes, NEW h \in Handler, SpanEnds(h)
  PROVE  /\ TelemetryTypes'
         /\ UNCHANGED <<call, covered>>
         /\ fate[h] \in {"new", "pending"} /\ fate'[h] \in {"pending", "lost"}
         /\ fate'[h] = "pending" => fate[h] = "new"
         /\ fate'[h] = "lost" => unthrown'
         /\ unthrown => unthrown'
         /\ \A g \in Handler : g # h => fate'[g] = fate[g]
<1>1. CASE Telemetry!Emitted(h)
  BY <1>1 DEF TelemetryTypes, Telemetry!Emitted
<1>2. CASE Telemetry!Lost(h)
  <2>1. unthrown'
    BY <1>2 DEF Telemetry!Lost
  <2>2. /\ fate[h] \in {"new", "pending"}
        /\ fate' = [fate EXCEPT ![h] = "lost"]
        /\ unthrown' = TRUE
        /\ UNCHANGED <<call, covered>>
    BY <1>2 DEF Telemetry!Lost
  <2> QED
    BY <2>1, <2>2 DEF TelemetryTypes
<1> QED
  BY <1>1, <1>2 DEF SpanEnds

(* A failure before the final deadline: the target's error, or no answer.  *)
LEMMA CaughtMoves ==
  ASSUME TypeOK, TelemetryTypes, NEW h \in Handler, Caught(h)
  PROVE  /\ pc' \in [Handler -> Places]
         /\ passed' \in [Handler -> BOOLEAN]
         /\ tried' \in [Handler -> 0..2]
         /\ result' \in [Handler -> {"succeeded", "error"}]
         /\ reply' \in [Handler -> {"none", "refused", "conflict", "uncertain", "pending", "flushed"}]
         /\ files' = files
         /\ TelemetryTypes'
         /\ UNCHANGED <<call, covered>>
         /\ \/ pc'[h] = "reserve" /\ result'[h] = "error" /\ reply' = reply /\ ~passed[h]
               /\ UNCHANGED telemetry
            \/ pc'[h] = "done" /\ reply'[h] = "uncertain" /\ result' = result /\ SpanEnds(h)
         /\ \A g \in Handler : g # h =>
              pc'[g] = pc[g] /\ tried'[g] = tried[g] /\ result'[g] = result[g] /\ reply'[g] = reply[g]
<1>1. CASE ~passed[h]
  <2>1. /\ Finalizes(h)
        /\ result' = [result EXCEPT ![h] = "error"]
        /\ UNCHANGED <<files, reply, telemetry>>
    BY <1>1 DEF Caught
  <2>2. TelemetryTypes'
    BY <2>1 DEF TelemetryTypes
  <2> QED
    BY <1>1, <2>1, <2>2 DEF TypeOK, Finalizes, Places
<1>2. CASE passed[h]
  <2>1. Replies(h, "uncertain") /\ SpanEnds(h) /\ UNCHANGED <<files, result>>
    BY <1>2 DEF Caught
  <2>2. TelemetryTypes' /\ UNCHANGED <<call, covered>>
    BY <2>1, SpanMoves
  <2> QED
    BY <2>1, <2>2 DEF TypeOK, Replies, Places
<1> QED
  BY <1>1, <1>2

(* What Hue has saved stays true while what was posted is fixed.           *)
LEMMA SavedKept ==
  ASSUME TypeOK, SavedTrue, UNCHANGED saved,
         \A g \in Handler : Fixed(g) =>
            Fixed(g)' /\ result'[g] = result[g] /\ artifacts'[g] = artifacts[g]
  PROVE  SavedTrue'
<1> SUFFICES ASSUME NEW o \in saved PROVE Fixed(o.by)' /\ o = Outcome(o.by)'
  BY DEF SavedTrue
<1>1. o.by \in Handler /\ Fixed(o.by) /\ o = Outcome(o.by)
  BY DEF SavedTrue, TypeOK, Outcomes
<1>2. Outcome(o.by)' = Outcome(o.by)
  BY <1>1 DEF Outcome
<1> QED
  BY <1>1, <1>2

-----------------------------------------------------------------------------
LEMMA ReceiveStep ==
  ASSUME IInv, NEW h \in Handler, Receive(h)
  PROVE  IInv'
<1> USE DEF IInv, Receive, Goes, Replies
<1>1. TypeOK'
  BY Moves DEF TypeOK, Files, Places
<1>2. TelemetryTypes'
  BY DEF TelemetryTypes
<1>3. ASSUME NEW g \in Handler PROVE Holds(g)'
  BY DEF TypeOK, Holds
<1>4. ASSUME NEW g \in Handler PROVE Files(g)'
  BY DEF TypeOK, Files
<1>5. ASSUME NEW g \in Handler, Fixed(g)
      PROVE  Fixed(g)' /\ result'[g] = result[g] /\ artifacts'[g] = artifacts[g]
  BY <1>5 DEF TypeOK, Fixed
<1>6. ASSUME NEW g \in Handler PROVE Posted(g)'
  BY <1>5 DEF TypeOK, Posted, Saved, Outcome, Fixed, Holds, Files
<1>7. ASSUME NEW g \in Handler PROVE Covers(g)'
  BY DEF TypeOK, TelemetryTypes, Covers, Sent, Holds
<1>8. SavedTrue'
  BY <1>5, SavedKept
<1>9. Acknowledged'
  BY DEF TypeOK, TelemetryTypes, Acknowledged, Sent
<1> QED
  BY <1>1, <1>2, <1>3, <1>4, <1>6, <1>7, <1>8, <1>9

LEMMA PostStep ==
  ASSUME IInv, NEW h \in Handler, Post(h)
  PROVE  IInv'
<1> USE DEF IInv, Post, Attempts
<1>1. TypeOK'
  <2>1. tried[h] \in {0, 1}
    BY DEF TypeOK
  <2> QED
    BY <2>1 DEF TypeOK
<1>2. TelemetryTypes'
  BY DEF TelemetryTypes
<1>3. ASSUME NEW g \in Handler PROVE Holds(g)'
  BY DEF TypeOK, Holds
<1>4. ASSUME NEW g \in Handler PROVE Files(g)'
  BY DEF TypeOK, Files
<1>5. ASSUME NEW g \in Handler, Fixed(g)
      PROVE  Fixed(g)' /\ result'[g] = result[g] /\ artifacts'[g] = artifacts[g]
  BY <1>5 DEF TypeOK, Fixed
<1>6. ASSUME NEW g \in Handler PROVE Posted(g)'
  BY <1>5 DEF TypeOK, Posted, Saved, Outcome, Fixed, Holds, Files
<1>7. ASSUME NEW g \in Handler PROVE Covers(g)'
  BY DEF TypeOK, TelemetryTypes, Covers, Sent, Holds
<1>8. SavedTrue'
  BY <1>5, SavedKept
<1>9. Acknowledged'
  BY DEF TypeOK, TelemetryTypes, Acknowledged, Sent
<1> QED
  BY <1>1, <1>2, <1>3, <1>4, <1>6, <1>7, <1>8, <1>9

LEMMA ClaimAnsweredStep ==
  ASSUME IInv, NEW h \in Handler, ClaimAnswered(h)
  PROVE  IInv'
<1> USE DEF IInv, ClaimAnswered, Answered, Claimed, Goes, Replies
<1>1. TypeOK'
  BY Moves DEF TypeOK, Files, Places
<1>2. TelemetryTypes'
  BY DEF TelemetryTypes
<1>3. ASSUME NEW g \in Handler PROVE Holds(g)'
  BY DEF TypeOK, Holds
<1>4. ASSUME NEW g \in Handler PROVE Files(g)'
  BY DEF TypeOK, Files
<1>5. ASSUME NEW g \in Handler, Fixed(g)
      PROVE  Fixed(g)' /\ result'[g] = result[g] /\ artifacts'[g] = artifacts[g]
  BY <1>5 DEF TypeOK, Fixed
<1>6. ASSUME NEW g \in Handler PROVE Posted(g)'
  BY <1>5 DEF TypeOK, Posted, Saved, Outcome, Fixed, Holds, Files
<1>7. ASSUME NEW g \in Handler PROVE Covers(g)'
  BY DEF TypeOK, TelemetryTypes, Covers, Sent, Holds
<1>8. SavedTrue'
  BY <1>5, SavedKept
<1>9. Acknowledged'
  BY DEF TypeOK, TelemetryTypes, Acknowledged, Sent
<1> QED
  BY <1>1, <1>2, <1>3, <1>4, <1>6, <1>7, <1>8, <1>9

LEMMA ClaimLostStep ==
  ASSUME IInv, NEW h \in Handler, ClaimLost(h)
  PROVE  IInv'
<1> USE DEF IInv, ClaimLost, Failed, Replies
<1>1. TypeOK'
  BY Moves DEF TypeOK, Files, Places
<1>2. TelemetryTypes'
  BY DEF TelemetryTypes
<1>3. ASSUME NEW g \in Handler PROVE Holds(g)'
  BY DEF TypeOK, Holds
<1>4. ASSUME NEW g \in Handler PROVE Files(g)'
  BY DEF TypeOK, Files
<1>5. ASSUME NEW g \in Handler, Fixed(g)
      PROVE  Fixed(g)' /\ result'[g] = result[g] /\ artifacts'[g] = artifacts[g]
  BY <1>5 DEF TypeOK, Fixed
<1>6. ASSUME NEW g \in Handler PROVE Posted(g)'
  BY <1>5 DEF TypeOK, Posted, Saved, Outcome, Fixed, Holds, Files
<1>7. ASSUME NEW g \in Handler PROVE Covers(g)'
  BY DEF TypeOK, TelemetryTypes, Covers, Sent, Holds
<1>8. SavedTrue'
  BY <1>5, SavedKept
<1>9. Acknowledged'
  BY DEF TypeOK, TelemetryTypes, Acknowledged, Sent
<1> QED
  BY <1>1, <1>2, <1>3, <1>4, <1>6, <1>7, <1>8, <1>9

LEMMA CallTargetStep ==
  ASSUME IInv, NEW h \in Handler, CallTarget(h)
  PROVE  IInv'
<1> USE DEF IInv, CallTarget, Goes
<1>1. TypeOK'
  BY Moves DEF TypeOK, Files, Places
<1>2. TelemetryTypes'
  BY DEF TelemetryTypes
<1>3. ASSUME NEW g \in Handler PROVE Holds(g)'
  BY DEF TypeOK, Holds
<1>4. ASSUME NEW g \in Handler PROVE Files(g)'
  BY DEF TypeOK, Files
<1>5. ASSUME NEW g \in Handler, Fixed(g)
      PROVE  Fixed(g)' /\ result'[g] = result[g] /\ artifacts'[g] = artifacts[g]
  BY <1>5 DEF TypeOK, Fixed
<1>6. ASSUME NEW g \in Handler PROVE Posted(g)'
  BY <1>5 DEF TypeOK, Posted, Saved, Outcome, Fixed, Holds, Files
<1>7. ASSUME NEW g \in Handler PROVE Covers(g)'
  BY DEF TypeOK, TelemetryTypes, Covers, Sent, Holds
<1>8. SavedTrue'
  BY <1>5, SavedKept
<1>9. Acknowledged'
  BY DEF TypeOK, TelemetryTypes, Acknowledged, Sent
<1> QED
  BY <1>1, <1>2, <1>3, <1>4, <1>6, <1>7, <1>8, <1>9

LEMMA InputFailsStep ==
  ASSUME IInv, NEW h \in Handler, InputFails(h)
  PROVE  IInv'
<1> USE DEF IInv, InputFails
<1>1. TypeOK'
  BY CaughtMoves, SpanMoves DEF TypeOK, Files, Places
<1>2. TelemetryTypes'
  BY CaughtMoves, SpanMoves DEF TelemetryTypes
<1>3. ASSUME NEW g \in Handler PROVE Holds(g)'
  BY CaughtMoves, SpanMoves DEF TypeOK, Holds
<1>4. ASSUME NEW g \in Handler PROVE Files(g)'
  <2>1. CASE g = h
    <3>1. next[h] = 1 /\ artifacts[h] = {} /\ files[h] = 0
      BY DEF Files
    <3> QED
      BY CaughtMoves, <2>1, <3>1 DEF Files
  <2>2. CASE g # h
    BY CaughtMoves, <2>2 DEF Files
  <2> QED
    BY <2>1, <2>2
<1>5. ASSUME NEW g \in Handler, Fixed(g)
      PROVE  Fixed(g)' /\ result'[g] = result[g] /\ artifacts'[g] = artifacts[g]
  BY CaughtMoves, SpanMoves, <1>5 DEF TypeOK, Fixed
<1>6. ASSUME NEW g \in Handler PROVE Posted(g)'
  <2>1. CASE g = h
    <3>1. <<h, "outcome">> \notin wire
      BY DEF Posted, Fixed
    <3>2. reply[h] \notin {"pending", "flushed"}
      BY DEF Posted
    <3> QED
      BY CaughtMoves, <2>1, <3>1, <3>2 DEF Posted
  <2>2. CASE g # h
    BY CaughtMoves, <1>5, <2>2 DEF TypeOK, Posted, Saved, Outcome
  <2> QED
    BY <2>1, <2>2
<1>7. ASSUME NEW g \in Handler PROVE Covers(g)'
  BY CaughtMoves, SpanMoves DEF TypeOK, TelemetryTypes, Covers, Sent, Holds
<1>8. SavedTrue'
  BY <1>5, SavedKept
<1>9. Acknowledged'
  BY CaughtMoves, SpanMoves DEF TypeOK, TelemetryTypes, Acknowledged, Sent
<1> QED
  BY <1>1, <1>2, <1>3, <1>4, <1>6, <1>7, <1>8, <1>9

LEMMA TargetReturnsStep ==
  ASSUME IInv, NEW h \in Handler, TargetReturns(h)
  PROVE  IInv'
<1> USE DEF IInv, TargetReturns, Finalizes
<1>1. TypeOK'
  BY DEF TypeOK, Files, Places
<1>2. TelemetryTypes'
  BY DEF TelemetryTypes
<1>3. ASSUME NEW g \in Handler PROVE Holds(g)'
  BY DEF TypeOK, Holds
<1>4. ASSUME NEW g \in Handler PROVE Files(g)'
  <2>1. CASE g = h
    <3>1. next'[h] = 1 /\ artifacts'[h] = {} /\ files'[h] \in Nat /\ pc'[h] = "reserve"
      BY DEF TypeOK, Files
    <3>2. 1..1 - 1 = {}
      OBVIOUS
    <3> QED
      BY <2>1, <3>1, <3>2 DEF Files
  <2>2. CASE g # h
    BY <2>2 DEF TypeOK, Files
  <2> QED
    BY <2>1, <2>2
<1>5. ASSUME NEW g \in Handler, Fixed(g)
      PROVE  Fixed(g)' /\ result'[g] = result[g] /\ artifacts'[g] = artifacts[g]
  BY <1>5 DEF TypeOK, Fixed
<1>6. ASSUME NEW g \in Handler PROVE Posted(g)'
  BY <1>5 DEF TypeOK, Posted, Saved, Outcome, Fixed, Holds, Files
<1>7. ASSUME NEW g \in Handler PROVE Covers(g)'
  BY DEF TypeOK, TelemetryTypes, Covers, Sent, Holds
<1>8. SavedTrue'
  BY <1>5, SavedKept
<1>9. Acknowledged'
  BY DEF TypeOK, TelemetryTypes, Acknowledged, Sent
<1> QED
  BY <1>1, <1>2, <1>3, <1>4, <1>6, <1>7, <1>8, <1>9

LEMMA TargetThrowsStep ==
  ASSUME IInv, NEW h \in Handler, TargetThrows(h)
  PROVE  IInv'
<1> USE DEF IInv, TargetThrows
<1>1. TypeOK'
  BY CaughtMoves, SpanMoves DEF TypeOK, Files, Places
<1>2. TelemetryTypes'
  BY CaughtMoves, SpanMoves DEF TelemetryTypes
<1>3. ASSUME NEW g \in Handler PROVE Holds(g)'
  BY CaughtMoves, SpanMoves DEF TypeOK, Holds
<1>4. ASSUME NEW g \in Handler PROVE Files(g)'
  BY CaughtMoves, SpanMoves DEF TypeOK, Files
<1>5. ASSUME NEW g \in Handler, Fixed(g)
      PROVE  Fixed(g)' /\ result'[g] = result[g] /\ artifacts'[g] = artifacts[g]
  <2>1. g # h
    BY <1>5 DEF Fixed
  <2>2. pc'[g] = pc[g] /\ result'[g] = result[g] /\ files' = files
    BY <2>1, CaughtMoves
  <2>3. target'[g] = target[g] /\ UNCHANGED <<execution, artifacts, claimedBy>>
    BY <2>1 DEF TypeOK
  <2> QED
    BY <1>5, <2>2, <2>3 DEF Fixed
<1>6. ASSUME NEW g \in Handler PROVE Posted(g)'
  <2>1. CASE g = h
    <3>1. <<h, "outcome">> \notin wire
      BY DEF Posted, Fixed
    <3>2. reply[h] \notin {"pending", "flushed"}
      BY DEF Posted
    <3> QED
      BY CaughtMoves, <2>1, <3>1, <3>2 DEF Posted
  <2>2. CASE g # h
    BY CaughtMoves, <1>5, <2>2 DEF TypeOK, Posted, Saved, Outcome
  <2> QED
    BY <2>1, <2>2
<1>7. ASSUME NEW g \in Handler PROVE Covers(g)'
  BY CaughtMoves, SpanMoves DEF TypeOK, TelemetryTypes, Covers, Sent, Holds
<1>8. SavedTrue'
  BY <1>5, SavedKept
<1>9. Acknowledged'
  BY CaughtMoves, SpanMoves DEF TypeOK, TelemetryTypes, Acknowledged, Sent
<1> QED
  BY <1>1, <1>2, <1>3, <1>4, <1>6, <1>7, <1>8, <1>9

LEMMA TargetTimesOutStep ==
  ASSUME IInv, NEW h \in Handler, TargetTimesOut(h)
  PROVE  IInv'
<1> USE DEF IInv, TargetTimesOut
<1>1. TypeOK'
  BY CaughtMoves, SpanMoves DEF TypeOK, Files, Places
<1>2. TelemetryTypes'
  BY CaughtMoves, SpanMoves DEF TelemetryTypes
<1>3. ASSUME NEW g \in Handler PROVE Holds(g)'
  BY CaughtMoves, SpanMoves DEF TypeOK, Holds
<1>4. ASSUME NEW g \in Handler PROVE Files(g)'
  BY CaughtMoves, SpanMoves DEF TypeOK, Files
<1>5. ASSUME NEW g \in Handler, Fixed(g)
      PROVE  Fixed(g)' /\ result'[g] = result[g] /\ artifacts'[g] = artifacts[g]
  BY CaughtMoves, SpanMoves, <1>5 DEF TypeOK, Fixed
<1>6. ASSUME NEW g \in Handler PROVE Posted(g)'
  BY CaughtMoves, SpanMoves, <1>5 DEF TypeOK, Posted, Saved, Outcome, Fixed, Holds, Files
<1>7. ASSUME NEW g \in Handler PROVE Covers(g)'
  BY CaughtMoves, SpanMoves DEF TypeOK, TelemetryTypes, Covers, Sent, Holds
<1>8. SavedTrue'
  BY <1>5, SavedKept
<1>9. Acknowledged'
  BY CaughtMoves, SpanMoves DEF TypeOK, TelemetryTypes, Acknowledged, Sent
<1> QED
  BY <1>1, <1>2, <1>3, <1>4, <1>6, <1>7, <1>8, <1>9

LEMMA ReserveStep ==
  ASSUME IInv, NEW h \in Handler, Reserve(h)
  PROVE  IInv'
<1> USE DEF IInv, Reserve, Stored, Proceeds, Goes, File
<1>1. TypeOK'
  <2>1. <<execution[h], next[h]>> \in Execution \X Nat /\ next[h] + 1 \in Nat
    BY DEF TypeOK
  <2>2. pc' \in [Handler -> Places] /\ passed' \in [Handler -> BOOLEAN] /\ tried' \in [Handler -> 0..2]
    BY Moves DEF TypeOK, Places
  <2>3. next[h] \in 1..files[h]
    BY DEF TypeOK, Files
  <2>4. artifacts' \in [Handler -> SUBSET Nat] /\ \A g \in Handler : artifacts'[g] \subseteq 1..files[g]
    <3>1. \/ artifacts' = artifacts
          \/ artifacts' = [artifacts EXCEPT ![h] = artifacts[h] \cup {next[h]}]
      OBVIOUS
    <3> QED
      BY <2>3, <3>1 DEF TypeOK
  <2>5. ready' \subseteq Execution \X Nat
    BY <2>1 DEF TypeOK
  <2>6. next' \in [Handler -> Nat]
    BY <2>1 DEF TypeOK
  <2> QED
    BY <2>1, <2>2, <2>4, <2>5, <2>6 DEF TypeOK, Places
<1>2. TelemetryTypes'
  BY DEF TelemetryTypes
<1>3. ASSUME NEW g \in Handler PROVE Holds(g)'
  BY DEF TypeOK, Holds
<1>4. ASSUME NEW g \in Handler PROVE Files(g)'
  <2>1. CASE Stored(h) /\ ready' = ready \cup {File(h)}
    <3>1. /\ pc'[h] = "reserve" /\ next'[h] = next[h] + 1
          /\ artifacts'[h] = artifacts[h] \cup {next[h]}
          /\ UNCHANGED <<result, files, execution>>
      BY <2>1 DEF TypeOK
    <3>2. next[h] \in 1..files[h] /\ files[h] \in Nat
      BY DEF TypeOK, Files
    <3>3. (1..next[h] - 1) \cup {next[h]} = 1..(next[h] + 1) - 1
      BY <3>2
    <3>4. CASE g = h
      <4>1. result[h] = "succeeded" => artifacts'[h] = 1..next'[h] - 1
        BY <3>1, <3>2, <3>3 DEF Files
      <4>2. \A i \in artifacts'[h] : <<execution[h], i>> \in ready'
        BY <2>1, <3>1 DEF Files
      <4>3. next'[h] \in 1..files[h] + 1
        BY <3>1, <3>2
      <4> QED
        BY <3>1, <3>4, <4>1, <4>2, <4>3 DEF Files
    <3>5. CASE g # h
      BY <2>1, <3>5 DEF TypeOK, Files
    <3> QED
      BY <3>4, <3>5
  <2>2. CASE Goes(h, "put") /\ UNCHANGED <<ready, next, artifacts>>
    BY <2>2 DEF TypeOK, Files
  <2> QED
    BY <2>1, <2>2
<1>5. ASSUME NEW g \in Handler, Fixed(g)
      PROVE  Fixed(g)' /\ result'[g] = result[g] /\ artifacts'[g] = artifacts[g]
  BY <1>5 DEF TypeOK, Fixed
<1>6. ASSUME NEW g \in Handler PROVE Posted(g)'
  <2>1. CASE g = h
    <3>1. <<h, "outcome">> \notin wire /\ reply[h] \notin {"pending", "flushed"}
      BY DEF Posted, Fixed
    <3>2. pc'[h] \in {"reserve", "put"}
      BY DEF TypeOK
    <3> QED
      BY <2>1, <3>1, <3>2 DEF Posted
  <2>2. CASE g # h
    BY <1>5, <2>2 DEF TypeOK, Posted, Saved, Outcome
  <2> QED
    BY <2>1, <2>2
<1>7. ASSUME NEW g \in Handler PROVE Covers(g)'
  BY DEF TypeOK, TelemetryTypes, Covers, Sent, Holds
<1>8. SavedTrue'
  BY <1>5, SavedKept
<1>9. Acknowledged'
  BY DEF TypeOK, TelemetryTypes, Acknowledged, Sent
<1> QED
  BY <1>1, <1>2, <1>3, <1>4, <1>6, <1>7, <1>8, <1>9

LEMMA PutStep ==
  ASSUME IInv, NEW h \in Handler, Put(h)
  PROVE  IInv'
<1> USE DEF IInv, Put, Goes, File
<1>1. TypeOK'
  <2>1. <<execution[h], next[h]>> \in Execution \X Nat /\ next[h] + 1 \in Nat
    BY DEF TypeOK
  <2>2. pc' \in [Handler -> Places] /\ passed' \in [Handler -> BOOLEAN] /\ tried' \in [Handler -> 0..2]
    BY Moves DEF TypeOK, Places
  <2>3. bytes' \subseteq Execution \X Nat /\ ready' \subseteq Execution \X Nat
    BY <2>1 DEF TypeOK
  <2> QED
    BY <2>1, <2>2, <2>3 DEF TypeOK, Places
<1>2. TelemetryTypes'
  BY DEF TelemetryTypes
<1>3. ASSUME NEW g \in Handler PROVE Holds(g)'
  BY DEF TypeOK, Holds
<1>4. ASSUME NEW g \in Handler PROVE Files(g)'
  BY DEF TypeOK, Files
<1>5. ASSUME NEW g \in Handler, Fixed(g)
      PROVE  Fixed(g)' /\ result'[g] = result[g] /\ artifacts'[g] = artifacts[g]
  BY <1>5 DEF TypeOK, Fixed
<1>6. ASSUME NEW g \in Handler PROVE Posted(g)'
  BY <1>5 DEF TypeOK, Posted, Saved, Outcome, Fixed, Holds, Files
<1>7. ASSUME NEW g \in Handler PROVE Covers(g)'
  BY DEF TypeOK, TelemetryTypes, Covers, Sent, Holds
<1>8. SavedTrue'
  BY <1>5, SavedKept
<1>9. Acknowledged'
  BY DEF TypeOK, TelemetryTypes, Acknowledged, Sent
<1> QED
  BY <1>1, <1>2, <1>3, <1>4, <1>6, <1>7, <1>8, <1>9

LEMMA CompleteStep ==
  ASSUME IInv, NEW h \in Handler, Complete(h)
  PROVE  IInv'
<1> USE DEF IInv, Complete, Stored, Proceeds, Goes, File
<1>1. TypeOK'
  <2>1. <<execution[h], next[h]>> \in Execution \X Nat /\ next[h] + 1 \in Nat
    BY DEF TypeOK
  <2>2. pc' \in [Handler -> Places] /\ passed' \in [Handler -> BOOLEAN] /\ tried' \in [Handler -> 0..2]
    BY Moves DEF TypeOK, Places
  <2>3. next[h] \in 1..files[h]
    BY DEF TypeOK, Files
  <2>4. artifacts' \in [Handler -> SUBSET Nat] /\ \A g \in Handler : artifacts'[g] \subseteq 1..files[g]
    <3>1. \/ artifacts' = artifacts
          \/ artifacts' = [artifacts EXCEPT ![h] = artifacts[h] \cup {next[h]}]
      OBVIOUS
    <3> QED
      BY <2>3, <3>1 DEF TypeOK
  <2>5. ready' \subseteq Execution \X Nat
    BY <2>1 DEF TypeOK
  <2>6. next' \in [Handler -> Nat]
    BY <2>1 DEF TypeOK
  <2> QED
    BY <2>1, <2>2, <2>4, <2>5, <2>6 DEF TypeOK, Places
<1>2. TelemetryTypes'
  BY DEF TelemetryTypes
<1>3. ASSUME NEW g \in Handler PROVE Holds(g)'
  BY DEF TypeOK, Holds
<1>4. ASSUME NEW g \in Handler PROVE Files(g)'
  BY DEF TypeOK, Files
<1>5. ASSUME NEW g \in Handler, Fixed(g)
      PROVE  Fixed(g)' /\ result'[g] = result[g] /\ artifacts'[g] = artifacts[g]
  BY <1>5 DEF TypeOK, Fixed
<1>6. ASSUME NEW g \in Handler PROVE Posted(g)'
  BY <1>5 DEF TypeOK, Posted, Saved, Outcome, Fixed, Holds, Files
<1>7. ASSUME NEW g \in Handler PROVE Covers(g)'
  BY DEF TypeOK, TelemetryTypes, Covers, Sent, Holds
<1>8. SavedTrue'
  BY <1>5, SavedKept
<1>9. Acknowledged'
  BY DEF TypeOK, TelemetryTypes, Acknowledged, Sent
<1> QED
  BY <1>1, <1>2, <1>3, <1>4, <1>6, <1>7, <1>8, <1>9

LEMMA FileFailsStep ==
  ASSUME IInv, NEW h \in Handler, FileFails(h)
  PROVE  IInv'
<1> USE DEF IInv, FileFails, Proceeds, Goes, File
<1>1. TypeOK'
  <2>1. <<execution[h], next[h]>> \in Execution \X Nat /\ next[h] + 1 \in Nat
    BY DEF TypeOK
  <2>2. pc' \in [Handler -> Places] /\ passed' \in [Handler -> BOOLEAN] /\ tried' \in [Handler -> 0..2]
    BY Moves DEF TypeOK, Places
  <2>3. bytes' \subseteq Execution \X Nat /\ ready' \subseteq Execution \X Nat
    BY <2>1 DEF TypeOK
  <2> QED
    BY <2>1, <2>2, <2>3 DEF TypeOK, Places
<1>2. TelemetryTypes'
  BY DEF TelemetryTypes
<1>3. ASSUME NEW g \in Handler PROVE Holds(g)'
  BY DEF TypeOK, Holds
<1>4. ASSUME NEW g \in Handler PROVE Files(g)'
  BY DEF TypeOK, Files
<1>5. ASSUME NEW g \in Handler, Fixed(g)
      PROVE  Fixed(g)' /\ result'[g] = result[g] /\ artifacts'[g] = artifacts[g]
  BY <1>5 DEF TypeOK, Fixed
<1>6. ASSUME NEW g \in Handler PROVE Posted(g)'
  BY <1>5 DEF TypeOK, Posted, Saved, Outcome, Fixed, Holds, Files
<1>7. ASSUME NEW g \in Handler PROVE Covers(g)'
  BY DEF TypeOK, TelemetryTypes, Covers, Sent, Holds
<1>8. SavedTrue'
  BY <1>5, SavedKept
<1>9. Acknowledged'
  BY DEF TypeOK, TelemetryTypes, Acknowledged, Sent
<1> QED
  BY <1>1, <1>2, <1>3, <1>4, <1>6, <1>7, <1>8, <1>9

LEMMA ConcludeStep ==
  ASSUME IInv, NEW h \in Handler, Conclude(h)
  PROVE  IInv'
<1> USE DEF IInv, Conclude, Goes
<1>1. TypeOK'
  BY Moves DEF TypeOK, Files, Places
<1>2. TelemetryTypes'
  BY SpanMoves DEF TelemetryTypes
<1>3. ASSUME NEW g \in Handler PROVE Holds(g)'
  BY SpanMoves DEF TypeOK, Holds
<1>4. ASSUME NEW g \in Handler PROVE Files(g)'
  BY SpanMoves DEF TypeOK, Files
<1>5. ASSUME NEW g \in Handler, Fixed(g)
      PROVE  Fixed(g)' /\ result'[g] = result[g] /\ artifacts'[g] = artifacts[g]
  BY SpanMoves, <1>5 DEF TypeOK, Fixed
<1>6. ASSUME NEW g \in Handler PROVE Posted(g)'
  BY SpanMoves, <1>5 DEF TypeOK, Posted, Saved, Outcome, Fixed, Holds, Files
<1>7. ASSUME NEW g \in Handler PROVE Covers(g)'
  BY SpanMoves DEF TypeOK, TelemetryTypes, Covers, Sent, Holds
<1>8. SavedTrue'
  BY <1>5, SavedKept
<1>9. Acknowledged'
  BY SpanMoves DEF TypeOK, TelemetryTypes, Acknowledged, Sent
<1> QED
  BY <1>1, <1>2, <1>3, <1>4, <1>6, <1>7, <1>8, <1>9

LEMMA OutcomeSavedStep ==
  ASSUME IInv, NEW h \in Handler, OutcomeSaved(h)
  PROVE  IInv'
<1> USE DEF IInv, OutcomeSaved, Answered, Goes
<1>1. TypeOK'
  BY Moves DEF TypeOK, Files, Places
<1>2. TelemetryTypes'
  BY DEF TelemetryTypes
<1>3. ASSUME NEW g \in Handler PROVE Holds(g)'
  BY DEF TypeOK, Holds
<1>4. ASSUME NEW g \in Handler PROVE Files(g)'
  BY DEF TypeOK, Files
<1>5. ASSUME NEW g \in Handler, Fixed(g)
      PROVE  Fixed(g)' /\ result'[g] = result[g] /\ artifacts'[g] = artifacts[g]
  BY <1>5 DEF TypeOK, Fixed
<1>6. ASSUME NEW g \in Handler PROVE Posted(g)'
  BY <1>5 DEF TypeOK, Posted, Saved, Outcome, Fixed, Holds, Files
<1>7. ASSUME NEW g \in Handler PROVE Covers(g)'
  BY DEF TypeOK, TelemetryTypes, Covers, Sent, Holds
<1>8. SavedTrue'
  BY <1>5, SavedKept
<1>9. Acknowledged'
  BY DEF TypeOK, TelemetryTypes, Acknowledged, Sent
<1> QED
  BY <1>1, <1>2, <1>3, <1>4, <1>6, <1>7, <1>8, <1>9

LEMMA OutcomeLostStep ==
  ASSUME IInv, NEW h \in Handler, OutcomeLost(h)
  PROVE  IInv'
<1> USE DEF IInv, OutcomeLost, Failed, Replies
<1>1. TypeOK'
  BY Moves DEF TypeOK, Files, Places
<1>2. TelemetryTypes'
  BY DEF TelemetryTypes
<1>3. ASSUME NEW g \in Handler PROVE Holds(g)'
  BY DEF TypeOK, Holds
<1>4. ASSUME NEW g \in Handler PROVE Files(g)'
  BY DEF TypeOK, Files
<1>5. ASSUME NEW g \in Handler, Fixed(g)
      PROVE  Fixed(g)' /\ result'[g] = result[g] /\ artifacts'[g] = artifacts[g]
  BY <1>5 DEF TypeOK, Fixed
<1>6. ASSUME NEW g \in Handler PROVE Posted(g)'
  BY <1>5 DEF TypeOK, Posted, Saved, Outcome, Fixed, Holds, Files
<1>7. ASSUME NEW g \in Handler PROVE Covers(g)'
  BY DEF TypeOK, TelemetryTypes, Covers, Sent, Holds
<1>8. SavedTrue'
  BY <1>5, SavedKept
<1>9. Acknowledged'
  BY DEF TypeOK, TelemetryTypes, Acknowledged, Sent
<1> QED
  BY <1>1, <1>2, <1>3, <1>4, <1>6, <1>7, <1>8, <1>9

LEMMA BeginFlushStep ==
  ASSUME IInv, NEW h \in Handler, BeginFlush(h)
  PROVE  IInv'
<1> USE DEF IInv, BeginFlush, Goes, Telemetry!Begins, Telemetry!Pending
<1>1. TypeOK'
  BY Moves DEF TypeOK, Files, Places
<1>2. TelemetryTypes'
  BY DEF TelemetryTypes
<1>3. ASSUME NEW g \in Handler PROVE Holds(g)'
  BY DEF TypeOK, Holds
<1>4. ASSUME NEW g \in Handler PROVE Files(g)'
  BY DEF TypeOK, Files
<1>5. ASSUME NEW g \in Handler, Fixed(g)
      PROVE  Fixed(g)' /\ result'[g] = result[g] /\ artifacts'[g] = artifacts[g]
  BY <1>5 DEF TypeOK, Fixed
<1>6. ASSUME NEW g \in Handler PROVE Posted(g)'
  BY <1>5 DEF TypeOK, Posted, Saved, Outcome, Fixed, Holds, Files
<1>7. ASSUME NEW g \in Handler PROVE Covers(g)'
  BY DEF TypeOK, TelemetryTypes, Covers, Sent, Holds
<1>8. SavedTrue'
  BY <1>5, SavedKept
<1>9. Acknowledged'
  BY DEF TypeOK, TelemetryTypes, Acknowledged, Sent
<1> QED
  BY <1>1, <1>2, <1>3, <1>4, <1>6, <1>7, <1>8, <1>9

LEMMA FlushTimesOutStep ==
  ASSUME IInv, NEW h \in Handler, FlushTimesOut(h)
  PROVE  IInv'
<1> USE DEF IInv, FlushTimesOut, Replies
<1>1. TypeOK'
  BY Moves DEF TypeOK, Files, Places
<1>2. TelemetryTypes'
  BY DEF TelemetryTypes
<1>3. ASSUME NEW g \in Handler PROVE Holds(g)'
  BY DEF TypeOK, Holds
<1>4. ASSUME NEW g \in Handler PROVE Files(g)'
  BY DEF TypeOK, Files
<1>5. ASSUME NEW g \in Handler, Fixed(g)
      PROVE  Fixed(g)' /\ result'[g] = result[g] /\ artifacts'[g] = artifacts[g]
  BY <1>5 DEF TypeOK, Fixed
<1>6. ASSUME NEW g \in Handler PROVE Posted(g)'
  BY <1>5 DEF TypeOK, Posted, Saved, Outcome, Fixed, Holds, Files
<1>7. ASSUME NEW g \in Handler PROVE Covers(g)'
  BY DEF TypeOK, TelemetryTypes, Covers, Sent, Holds
<1>8. SavedTrue'
  BY <1>5, SavedKept
<1>9. Acknowledged'
  BY DEF TypeOK, TelemetryTypes, Acknowledged, Sent
<1> QED
  BY <1>1, <1>2, <1>3, <1>4, <1>6, <1>7, <1>8, <1>9

LEMMA TelemetrySavedStep ==
  ASSUME IInv, NEW h \in Handler, TelemetrySaved(h)
  PROVE  IInv'
<1> USE DEF IInv, TelemetrySaved, Answered, Replies
<1>1. TypeOK'
  BY Moves DEF TypeOK, Files, Places
<1>2. TelemetryTypes'
  BY DEF TelemetryTypes
<1>3. ASSUME NEW g \in Handler PROVE Holds(g)'
  BY DEF TypeOK, Holds
<1>4. ASSUME NEW g \in Handler PROVE Files(g)'
  BY DEF TypeOK, Files
<1>5. ASSUME NEW g \in Handler, Fixed(g)
      PROVE  Fixed(g)' /\ result'[g] = result[g] /\ artifacts'[g] = artifacts[g]
  BY <1>5 DEF TypeOK, Fixed
<1>6. ASSUME NEW g \in Handler PROVE Posted(g)'
  BY <1>5 DEF TypeOK, Posted, Saved, Outcome, Fixed, Holds, Files
<1>7. ASSUME NEW g \in Handler PROVE Covers(g)'
  BY DEF TypeOK, TelemetryTypes, Covers, Sent, Holds
<1>8. SavedTrue'
  BY <1>5, SavedKept
<1>9. Acknowledged'
  BY DEF TypeOK, TelemetryTypes, Acknowledged, Sent
<1> QED
  BY <1>1, <1>2, <1>3, <1>4, <1>6, <1>7, <1>8, <1>9

LEMMA TelemetryLostStep ==
  ASSUME IInv, NEW h \in Handler, TelemetryLost(h)
  PROVE  IInv'
<1> USE DEF IInv, TelemetryLost, Failed, Replies
<1>1. TypeOK'
  BY Moves DEF TypeOK, Files, Places
<1>2. TelemetryTypes'
  BY DEF TelemetryTypes
<1>3. ASSUME NEW g \in Handler PROVE Holds(g)'
  BY DEF TypeOK, Holds
<1>4. ASSUME NEW g \in Handler PROVE Files(g)'
  BY DEF TypeOK, Files
<1>5. ASSUME NEW g \in Handler, Fixed(g)
      PROVE  Fixed(g)' /\ result'[g] = result[g] /\ artifacts'[g] = artifacts[g]
  BY <1>5 DEF TypeOK, Fixed
<1>6. ASSUME NEW g \in Handler PROVE Posted(g)'
  BY <1>5 DEF TypeOK, Posted, Saved, Outcome, Fixed, Holds, Files
<1>7. ASSUME NEW g \in Handler PROVE Covers(g)'
  BY DEF TypeOK, TelemetryTypes, Covers, Sent, Holds
<1>8. SavedTrue'
  BY <1>5, SavedKept
<1>9. Acknowledged'
  BY DEF TypeOK, TelemetryTypes, Acknowledged, Sent
<1> QED
  BY <1>1, <1>2, <1>3, <1>4, <1>6, <1>7, <1>8, <1>9

LEMMA TickStep ==
  ASSUME IInv, NEW h \in Handler, Tick(h)
  PROVE  IInv'
<1> USE DEF IInv, Tick
<1>1. TypeOK'
  BY DEF TypeOK, Files, Places
<1>2. TelemetryTypes'
  BY DEF TelemetryTypes
<1>3. ASSUME NEW g \in Handler PROVE Holds(g)'
  BY DEF TypeOK, Holds
<1>4. ASSUME NEW g \in Handler PROVE Files(g)'
  BY DEF TypeOK, Files
<1>5. ASSUME NEW g \in Handler, Fixed(g)
      PROVE  Fixed(g)' /\ result'[g] = result[g] /\ artifacts'[g] = artifacts[g]
  BY <1>5 DEF TypeOK, Fixed
<1>6. ASSUME NEW g \in Handler PROVE Posted(g)'
  BY <1>5 DEF TypeOK, Posted, Saved, Outcome, Fixed, Holds, Files
<1>7. ASSUME NEW g \in Handler PROVE Covers(g)'
  BY DEF TypeOK, TelemetryTypes, Covers, Sent, Holds
<1>8. SavedTrue'
  BY <1>5, SavedKept
<1>9. Acknowledged'
  BY DEF TypeOK, TelemetryTypes, Acknowledged, Sent
<1> QED
  BY <1>1, <1>2, <1>3, <1>4, <1>6, <1>7, <1>8, <1>9

LEMMA TargetEndsLateStep ==
  ASSUME IInv, NEW h \in Handler, TargetEndsLate(h)
  PROVE  IInv'
<1> USE DEF IInv, TargetEndsLate
<1>1. TypeOK'
  BY DEF TypeOK, Files, Places
<1>2. TelemetryTypes'
  BY DEF TelemetryTypes
<1>3. ASSUME NEW g \in Handler PROVE Holds(g)'
  BY DEF TypeOK, Holds
<1>4. ASSUME NEW g \in Handler PROVE Files(g)'
  BY DEF TypeOK, Files
<1>5. ASSUME NEW g \in Handler, Fixed(g)
      PROVE  Fixed(g)' /\ result'[g] = result[g] /\ artifacts'[g] = artifacts[g]
  BY <1>5 DEF TypeOK, Fixed
<1>6. ASSUME NEW g \in Handler PROVE Posted(g)'
  BY <1>5 DEF TypeOK, Posted, Saved, Outcome, Fixed, Holds, Files
<1>7. ASSUME NEW g \in Handler PROVE Covers(g)'
  BY DEF TypeOK, TelemetryTypes, Covers, Sent, Holds
<1>8. SavedTrue'
  BY <1>5, SavedKept
<1>9. Acknowledged'
  BY DEF TypeOK, TelemetryTypes, Acknowledged, Sent
<1> QED
  BY <1>1, <1>2, <1>3, <1>4, <1>6, <1>7, <1>8, <1>9

LEMMA FlushEndsStep ==
  ASSUME IInv, NEW h \in Handler, FlushEnds(h)
  PROVE  IInv'
<1> USE DEF IInv, FlushEnds, Goes, Replies, Telemetry!Succeeds, Telemetry!Throws
<1>1. TypeOK'
  BY Moves DEF TypeOK, Files, Places
<1>2. TelemetryTypes'
  BY DEF TelemetryTypes
<1>3. ASSUME NEW g \in Handler PROVE Holds(g)'
  BY DEF TypeOK, Holds
<1>4. ASSUME NEW g \in Handler PROVE Files(g)'
  BY DEF TypeOK, Files
<1>5. ASSUME NEW g \in Handler, Fixed(g)
      PROVE  Fixed(g)' /\ result'[g] = result[g] /\ artifacts'[g] = artifacts[g]
  BY <1>5 DEF TypeOK, Fixed
<1>6. ASSUME NEW g \in Handler PROVE Posted(g)'
  BY <1>5 DEF TypeOK, Posted, Saved, Outcome, Fixed, Holds, Files
<1>7. ASSUME NEW g \in Handler PROVE Covers(g)'
  BY DEF TypeOK, TelemetryTypes, Covers, Sent, Holds
<1>8. SavedTrue'
  BY <1>5, SavedKept
<1>9. Acknowledged'
  BY DEF TypeOK, TelemetryTypes, Acknowledged, Sent
<1> QED
  BY <1>1, <1>2, <1>3, <1>4, <1>6, <1>7, <1>8, <1>9

-----------------------------------------------------------------------------
(* What Hue takes was fixed when it was posted.                            *)
LEMMA HueActsStep ==
  ASSUME IInv, NEW h \in Handler, NEW kind \in Callbacks, HueActs(h, kind)
  PROVE  IInv'
<1> USE DEF IInv, HueActs, handler
<1> DEFINE e == execution[h]
<1>1. /\ e \in Execution
      /\ kind = "claim" \/ claimedBy' = claimedBy
      /\ \A x \in Execution : claimedBy[x] # None => claimedBy'[x] = claimedBy[x]
  BY DEF TypeOK
<1>2. TypeOK'
  <2>1. Outcome(h) \in Outcomes
    BY DEF TypeOK, Outcome, Outcomes
  <2>2. claimedBy' \in [Execution -> Handler \cup {None}]
    BY DEF TypeOK
  <2>3. saved' \subseteq Outcomes
    BY <2>1 DEF TypeOK
  <2>4. acknowledged' \subseteq Execution /\ wire' \subseteq Handler \X Callbacks
    BY <1>1 DEF TypeOK
  <2> QED
    BY <2>2, <2>3, <2>4 DEF TypeOK
<1>3. TelemetryTypes'
  BY DEF TelemetryTypes
<1>4. ASSUME NEW g \in Handler PROVE Holds(g)'
  BY <1>1 DEF TypeOK, Holds
<1>5. ASSUME NEW g \in Handler PROVE Files(g)'
  BY DEF Files
<1>6. ASSUME NEW g \in Handler, Fixed(g) PROVE Fixed(g)' /\ Outcome(g)' = Outcome(g)
  BY <1>1, <1>6 DEF TypeOK, Fixed, Outcome
<1>7. kind = "outcome" => Fixed(h) /\ Saved(h)'
  <2>1. CASE \E o \in saved : execution[o.by] = e
    <3>1. PICK o \in saved : execution[o.by] = e
      BY <2>1
    <3>2. kind = "outcome" => Fixed(h)
      BY DEF Posted
    <3>3. o.by \in Handler /\ Fixed(o.by) /\ o = Outcome(o.by)
      BY DEF SavedTrue, TypeOK, Outcomes
    <3>4. kind = "outcome" => o.by = h
      BY <3>1, <3>2, <3>3 DEF Fixed
    <3> QED
      BY <1>6, <3>2, <3>3, <3>4 DEF Saved
  <2>2. CASE \A o \in saved : execution[o.by] # e
    BY <1>6, <2>2 DEF Posted, Saved
  <2> QED
    BY <2>1, <2>2
<1>8. ASSUME NEW g \in Handler PROVE Posted(g)'
  <2>1. Saved(g) => Saved(g)'
    BY DEF Saved, Outcome
  <2>2. CASE g = h /\ kind = "outcome"
    BY <1>6, <1>7, <2>1, <2>2 DEF Posted
  <2>3. CASE ~(g = h /\ kind = "outcome")
    BY <1>6, <2>1, <2>3 DEF Posted
  <2> QED
    BY <2>2, <2>3
<1>9. ASSUME NEW g \in Handler PROVE Covers(g)'
  BY <1>1 DEF TypeOK, Covers, Sent
<1>10. SavedTrue'
  <2> SUFFICES ASSUME NEW o \in saved' PROVE Fixed(o.by)' /\ o = Outcome(o.by)'
    BY DEF SavedTrue
  <2>1. CASE o \in saved
    <3>1. o.by \in Handler /\ Fixed(o.by) /\ o = Outcome(o.by)
      BY <2>1 DEF SavedTrue, TypeOK, Outcomes
    <3> QED
      BY <1>6, <3>1
  <2>2. CASE o \notin saved
    <3>1. o = Outcome(h) /\ kind = "outcome"
      BY <2>2
    <3>2. o.by = h
      BY <3>1 DEF Outcome
    <3> QED
      BY <1>6, <1>7, <3>1, <3>2
  <2> QED
    BY <2>1, <2>2
<1>11. Acknowledged'
  <2> SUFFICES ASSUME NEW x \in acknowledged' PROVE claimedBy'[x] \in Handler /\ Sent(claimedBy'[x])
    BY DEF Acknowledged, Sent
  <2>1. CASE x \in acknowledged
    <3>1. claimedBy[x] \in Handler /\ Sent(claimedBy[x]) /\ x \in Execution
      BY <2>1 DEF Acknowledged, TypeOK
    <3> QED
      BY <1>1, <3>1
  <2>2. CASE x \notin acknowledged
    <3>1. kind = "telemetry" /\ x = e
      BY <2>2
    <3> QED
      BY <1>1, <3>1 DEF Covers
  <2> QED
    BY <2>1, <2>2
<1> QED
  BY <1>2, <1>3, <1>4, <1>5, <1>8, <1>9, <1>10, <1>11

(* The pipeline settles or loses a record; what is sent is neither.        *)
LEMMA ExportsStep ==
  ASSUME IInv, Exports
  PROVE  IInv'
<1> USE DEF IInv
<1>1. PICK h \in Handler : /\ fate[h] = "pending"
                           /\ Telemetry!Settled(h) \/ Telemetry!Lost(h)
  BY DEF Exports
<1>2. UNCHANGED <<execution, handler, hue>>
  BY DEF Exports
<1>3. /\ TelemetryTypes' /\ UNCHANGED <<call, covered>>
      /\ fate'[h] \in {"settled", "lost"}
      /\ fate'[h] = "lost" => unthrown'
      /\ unthrown => unthrown'
      /\ \A g \in Handler : g # h => fate'[g] = fate[g]
  <2>1. CASE Telemetry!Settled(h)
    BY <1>1, <2>1 DEF TelemetryTypes, Telemetry!Settled
  <2>2. CASE Telemetry!Lost(h)
    <3>1. unthrown'
      BY <2>2 DEF Telemetry!Lost
    <3>2. /\ fate' = [fate EXCEPT ![h] = "lost"]
          /\ unthrown' = TRUE
          /\ UNCHANGED <<call, covered>>
      BY <2>2 DEF Telemetry!Lost
    <3> QED
      BY <3>1, <3>2 DEF TelemetryTypes
  <2> QED
    BY <1>1, <2>1, <2>2
<1>4. TypeOK'
  BY <1>2 DEF TypeOK, handler
<1>5. ASSUME NEW g \in Handler PROVE Holds(g)' /\ Files(g)' /\ Posted(g)'
  BY <1>2 DEF Holds, Files, Posted, Fixed, Saved, Outcome, handler
<1>6. ASSUME NEW g \in Handler PROVE Covers(g)'
  BY <1>1, <1>2, <1>3 DEF Covers, Sent, handler
<1>7. SavedTrue'
  BY <1>2 DEF SavedTrue, Fixed, Outcome, handler
<1>8. Acknowledged'
  BY <1>1, <1>2, <1>3 DEF Acknowledged, Sent, handler
<1> QED
  BY <1>3, <1>4, <1>5, <1>6, <1>7, <1>8

-----------------------------------------------------------------------------
LEMMA InitInv == Init => IInv
<1> SUFFICES ASSUME Init PROVE IInv
  OBVIOUS
<1>1. TypeOK
  BY DEF Init, TypeOK
<1>2. TelemetryTypes
  BY DEF Init, TelemetryTypes, Telemetry!PromiseInit
<1>3. ASSUME NEW h \in Handler PROVE Holds(h) /\ Files(h) /\ Posted(h)
  BY DEF Init, Holds, Files, Posted
<1>4. ASSUME NEW h \in Handler PROVE Covers(h)
  BY DEF Init, Covers, Telemetry!PromiseInit
<1>5. SavedTrue /\ Acknowledged
  BY DEF Init, SavedTrue, Acknowledged
<1> QED
  BY <1>1, <1>2, <1>3, <1>4, <1>5 DEF IInv

LEMMA StepInv == IInv /\ [Next]_vars => IInv'
<1> SUFFICES ASSUME IInv, [Next]_vars PROVE IInv'
  OBVIOUS
<1>1. ASSUME NEW h \in Handler, Handles(h) PROVE IInv'
  BY <1>1, PostStep, ClaimAnsweredStep, ClaimLostStep, CallTargetStep, InputFailsStep,
     TargetReturnsStep, TargetThrowsStep, TargetTimesOutStep, ReserveStep, PutStep, CompleteStep,
     FileFailsStep, ConcludeStep, OutcomeSavedStep, OutcomeLostStep, BeginFlushStep,
     FlushTimesOutStep, TelemetrySavedStep, TelemetryLostStep
  DEF Handles
<1>2. ASSUME NEW h \in Handler, Receive(h) \/ Tick(h) \/ TargetEndsLate(h) \/ FlushEnds(h)
      PROVE  IInv'
  BY <1>2, ReceiveStep, TickStep, TargetEndsLateStep, FlushEndsStep
<1>3. ASSUME NEW h \in Handler, NEW kind \in Callbacks, HueActs(h, kind) PROVE IInv'
  BY <1>3, HueActsStep
<1>4. CASE Exports
  BY <1>4, ExportsStep
<1>5. CASE UNCHANGED vars
  BY <1>5 DEF vars, handler, IInv, TypeOK, TelemetryTypes, Holds, Files, Posted, Fixed, Saved,
     Outcome, Covers, Sent, SavedTrue, Acknowledged
<1> QED
  BY <1>1, <1>2, <1>3, <1>4, <1>5 DEF Next

(* The target is called once for an execution however often Hue posts it,  *)
(* and no outcome is saved while it runs (the claim and `within`).         *)
THEOREM TargetCalledOnce == Spec => []CalledOnce
<1>1. Spec => []IInv
  BY InitInv, StepInv, PTL DEF Spec
<1>2. IInv => CalledOnce
  <2> SUFFICES ASSUME IInv PROVE CalledOnce
    OBVIOUS
  <2>1. ASSUME NEW h \in Handler, NEW g \in Handler, target[h] # "idle", target[g] # "idle",
               execution[h] = execution[g]
        PROVE  h = g
    BY <2>1 DEF IInv, Holds
  <2>2. ASSUME NEW o \in saved PROVE target[o.by] # "running"
    BY DEF IInv, SavedTrue, Fixed
  <2> QED
    BY <2>1, <2>2 DEF IInv, CalledOnce
<1> QED
  BY <1>1, <1>2, PTL

(* A checkpointed reply means that Hue has the outcome, and an outcome     *)
(* names only files Hue verified, all of them if it succeeded.             *)
THEOREM RepliesAreTrue == Spec => []AnswersAreTrue
<1>1. Spec => []IInv
  BY InitInv, StepInv, PTL DEF Spec
<1>2. IInv => AnswersAreTrue
  <2> SUFFICES ASSUME IInv PROVE AnswersAreTrue
    OBVIOUS
  <2>1. ASSUME NEW h \in Handler, reply[h] \in {"pending", "flushed"} PROVE Outcome(h) \in saved
    BY <2>1 DEF IInv, Posted, Saved
  <2>2. ASSUME NEW o \in saved
        PROVE  /\ \A i \in o.artifacts : <<execution[o.by], i>> \in ready
               /\ o.state = "succeeded" => o.artifacts = 1..files[o.by]
    <3>1. o.by \in Handler /\ Fixed(o.by) /\ o = Outcome(o.by)
      BY DEF IInv, SavedTrue, TypeOK, Outcomes
    <3>2. o.state = result[o.by] /\ o.artifacts = artifacts[o.by]
      BY <3>1 DEF Outcome
    <3> QED
      BY <3>1, <3>2 DEF IInv, Fixed, Files
  <2> QED
    BY <2>1, <2>2 DEF AnswersAreTrue
<1> QED
  BY <1>1, <1>2, PTL

(* Telemetry is acknowledged only for a span that settled, or whose loss   *)
(* some request's flush was told of.                                       *)
THEOREM AcknowledgedIsSent == Spec => []TelemetryIsSent
<1>1. Spec => []IInv
  BY InitInv, StepInv, PTL DEF Spec
<1>2. IInv => TelemetryIsSent
  BY DEF IInv, Acknowledged, Sent, TelemetryIsSent
<1> QED
  BY <1>1, <1>2, PTL
=============================================================================
