--------------------------- MODULE DeliveryProofs ---------------------------
(***************************************************************************)
(* What becomes of the spans that are sent.  A case accepted on the flush  *)
(* alone lost nothing, for every number of cases, size of the history and  *)
(* cap on the names of an issue.  Every span that the OTLP exporter is     *)
(* given is counted once and every loss is shown or still counted, for any *)
(* exports at the same time, any sizes and limits and any answers.  And    *)
(* the pool that uploads their large values loses no place and charges     *)
(* nothing twice, for any uploads, places and texts.                       *)
(***************************************************************************)
EXTENDS TraceAttribution, OtlpDelivery, ValueUploads, SumTheorems, SequenceTheorems

-----------------------------------------------------------------------------
(* Losses attributed to cases (TraceAttribution).                          *)

Unsettled == {"running", "ended", "flushed", "counted"}

(* Some failure since the case began is either rolled past by the history  *)
(* or retained by an issue that names the case or nobody.                  *)
Noted(c) ==
    \E s \in (before[c] + 1)..failureSequence :
        s > sequence - History =>
            \E i \in issues :
                i.seq = s /\ i.kind = "failure" /\ (i.names = {} \/ c \in i.names)

LogInv ==
    /\ sequence \in Nat
    /\ failureSequence \in 0..sequence
    /\ \A i \in issues : i.seq \in Int /\ i.seq > sequence - History

CasesTyped ==
    /\ record \in [Trace -> [Records -> Status]]
    /\ phase \in [Trace -> Phases]
    /\ before \in [Trace -> Nat]
    /\ via \in [Trace -> {"", "flush", "receipt"}]

Begun ==
    \A c \in Trace :
        /\ phase[c] = "idle" => \A r \in Records : record[c][r] = "none"
        /\ phase[c] \in Unsettled => before[c] <= failureSequence

Drained ==
    \A c \in Trace : phase[c] \in {"flushed", "counted", "decided"} =>
        \A r \in Records : record[c][r] # "queued"

LossNoted ==
    \A c \in Trace :
        phase[c] \in Unsettled /\ (\E r \in Records : record[c][r] \in {"lost", "dropped"})
            => Noted(c)

Settled == \A c \in Trace : via[c] = "flush" => phase[c] = "decided"

IInv ==
    /\ LogInv
    /\ CasesTyped
    /\ Begun
    /\ Drained
    /\ LossNoted
    /\ Settled
    /\ FlushAcceptsWhole

-----------------------------------------------------------------------------
(* An issue keeps the log's window and every failure noted before it.      *)
LEMMA IssueKeeps ==
    ASSUME LogInv, NEW kind \in Kinds, NEW names, Issue(kind, names)
    PROVE  /\ LogInv'
           /\ failureSequence <= failureSequence'
           /\ \A c \in Trace : before[c] \in Nat /\ before'[c] = before[c] /\ Noted(c) => Noted(c)'
<1> USE LogAssumption
<1>1. LogInv'
  BY SMT DEF LogInv, Issue, Kinds
<1>2. failureSequence <= failureSequence'
  BY SMT DEF LogInv, Issue, Kinds
<1>3. ASSUME NEW c \in Trace, before[c] \in Nat, before'[c] = before[c], Noted(c)
      PROVE  Noted(c)'
  <2>1. PICK s \in (before[c] + 1)..failureSequence :
           s > sequence - History =>
             \E i \in issues :
               i.seq = s /\ i.kind = "failure" /\ (i.names = {} \/ c \in i.names)
    BY <1>3 DEF Noted
  <2>2. s \in (before'[c] + 1)..failureSequence'
    BY <1>2, <1>3, <2>1, SMT DEF LogInv, Issue, Kinds
  <2>3. ASSUME s > sequence' - History
        PROVE  \E i \in issues' :
                 i.seq = s /\ i.kind = "failure" /\ (i.names = {} \/ c \in i.names)
    BY <2>1, <2>3, SMT DEF LogInv, Issue
  <2> QED
    BY <2>2, <2>3 DEF Noted
<1> QED
  BY <1>1, <1>2, <1>3

(* A failure issued for a case in flight, by name or for nobody, is noted. *)
LEMMA FailureNoted ==
    ASSUME LogInv, NEW names, Issue("failure", names),
           NEW c \in Trace, before[c] \in Nat, before'[c] = before[c],
           before[c] <= failureSequence, names = {} \/ c \in names
    PROVE  Noted(c)'
<1>1. failureSequence' = sequence + 1 /\ sequence' = sequence + 1
  BY SMT DEF LogInv, Issue
<1>2. sequence + 1 \in (before'[c] + 1)..failureSequence'
  BY <1>1, SMT DEF LogInv
<1>3. [seq |-> sequence + 1, kind |-> "failure", names |-> names] \in issues'
  BY SMT DEF Issue
<1>4. \E i \in issues' :
        i.seq = sequence + 1 /\ i.kind = "failure" /\ (i.names = {} \/ c \in i.names)
  BY <1>3
<1> QED
  BY <1>2, <1>4 DEF Noted

(* What a settled batch changes: its own records, all of them queued.      *)
LEMMA SettleChanges ==
    ASSUME CasesTyped, NEW batch \in Batches, NEW held \in SUBSET batch, Settle(batch, held)
    PROVE  /\ record' \in [Trace -> [Records -> Status]]
           /\ \A c \in Trace, r \in Records :
                \/ record'[c][r] = record[c][r] /\ <<c, r>> \notin batch
                \/ /\ <<c, r>> \in batch
                   /\ c \in TracesOf(batch)
                   /\ record[c][r] = "queued"
                   /\ record'[c][r] = IF <<c, r>> \in held THEN "held" ELSE "lost"
<1>1. \A c \in Trace, r \in Records :
        <<c, r>> \in batch => record[c][r] = "queued" /\ c \in TracesOf(batch)
  <2> SUFFICES ASSUME NEW c \in Trace, NEW r \in Records, <<c, r>> \in batch
               PROVE  record[c][r] = "queued" /\ c \in TracesOf(batch)
    OBVIOUS
  <2>1. batch \in SUBSET Queued
    BY DEF Batches
  <2>2. <<c, r>> \in Queued
    BY <2>1
  <2>3. record[c][r] = "queued"
    BY <2>2 DEF Queued
  <2>4. c \in TracesOf(batch)
    BY DEF TracesOf
  <2> QED
    BY <2>3, <2>4
<1>2. \A c \in Trace, r \in Records :
        record'[c][r] = IF <<c, r>> \notin batch THEN record[c][r]
                        ELSE IF <<c, r>> \in held THEN "held" ELSE "lost"
  BY DEF Settle
<1>3. \A c \in Trace, r \in Records :
        (IF <<c, r>> \notin batch THEN record[c][r]
         ELSE IF <<c, r>> \in held THEN "held" ELSE "lost") \in Status
  BY DEF CasesTyped, Status
<1>4. record' \in [Trace -> [Records -> Status]]
  BY <1>3 DEF Settle
<1> QED
  BY <1>1, <1>2, <1>4

-----------------------------------------------------------------------------
(* A step that records no issue and settles nothing badly keeps what was   *)
(* noted: the log, the history and the case's starting point stand.        *)
LEMMA QuietKeeps ==
    ASSUME NoIssue, NEW c \in Trace, before'[c] = before[c], Noted(c)
    PROVE  Noted(c)'
  BY DEF NoIssue, logVars, Noted

(* Decide takes the case to the flush only when no failure it could have   *)
(* caused went unread.                                                     *)
LEMMA CleanHasNothingNoted ==
    ASSUME LogInv, NEW c \in Trace, before[c] \in Nat,
           \/ failureSequence = before[c]
           \/ ~NamedIssue(c) /\ ~Unattributed(c) /\ ~Evicted(c)
    PROVE  ~Noted(c)
<1>1. CASE failureSequence = before[c]
  BY <1>1, SMT DEF Noted, LogInv
<1>2. CASE ~NamedIssue(c) /\ ~Unattributed(c) /\ ~Evicted(c)
  <2>1. PICK old \in issues : ~(old.seq > before[c] + 1)
    BY <1>2 DEF Evicted
  <2>2. before[c] + 1 > sequence - History
    BY <2>1, LogAssumption, SMT DEF LogInv
  <2> SUFFICES ASSUME Noted(c)
               PROVE  FALSE
    OBVIOUS
  <2>3. PICK s \in (before[c] + 1)..failureSequence :
           s > sequence - History =>
             \E i \in issues :
               i.seq = s /\ i.kind = "failure" /\ (i.names = {} \/ c \in i.names)
    BY DEF Noted
  <2>4. s > sequence - History /\ s > before[c]
    BY <2>2, <2>3, LogAssumption, SMT DEF LogInv
  <2>5. PICK i \in issues :
           i.seq = s /\ i.kind = "failure" /\ (i.names = {} \/ c \in i.names)
    BY <2>3, <2>4
  <2>6. i \in Since(c)
    BY <2>4, <2>5 DEF Since
  <2> QED
    BY <1>2, <2>5, <2>6 DEF NamedIssue, Unattributed
<1> QED
  BY <1>1, <1>2

-----------------------------------------------------------------------------
LEMMA InitInv == Init => IInv
<1> SUFFICES ASSUME Init
             PROVE  IInv
  OBVIOUS
<1>1. LogInv
  <2>1. sequence = 0 /\ failureSequence = 0 /\ issues = {}
    BY DEF Init, InitLog
  <2>2. sequence \in Nat /\ failureSequence \in 0..sequence
    BY <2>1, SMT
  <2> QED
    BY <2>1, <2>2 DEF LogInv
<1>2. CasesTyped
  BY DEF Init, CasesTyped, Phases, Status
<1>3. Begun /\ Drained /\ LossNoted
  BY DEF Init, Begun, Drained, LossNoted, Unsettled
<1>4. Settled /\ FlushAcceptsWhole
  BY DEF Init, Settled, FlushAcceptsWhole
<1> QED
  BY <1>1, <1>2, <1>3, <1>4 DEF IInv

(* A settled batch: with an issue that covers the records it lost, nothing *)
(* is lost unnoted.                                                        *)
LEMMA BatchInv ==
    ASSUME IInv, NEW batch \in Batches, NEW held \in SUBSET batch, Settle(batch, held),
           UNCHANGED caseVars,
           \/ held = batch /\ NoIssue
           \/ \E names : /\ Issue("failure", names)
                         /\ names = {} \/ names = TracesOf(batch)
    PROVE  IInv'
<1>1. /\ record' \in [Trace -> [Records -> Status]]
      /\ \A c \in Trace, r \in Records :
           \/ record'[c][r] = record[c][r] /\ <<c, r>> \notin batch
           \/ /\ <<c, r>> \in batch
              /\ c \in TracesOf(batch)
              /\ record[c][r] = "queued"
              /\ record'[c][r] = IF <<c, r>> \in held THEN "held" ELSE "lost"
  BY SettleChanges DEF IInv
<1>2. LogInv' /\ failureSequence <= failureSequence'
  <2>1. CASE NoIssue
    BY <2>1, SMT DEF NoIssue, logVars, IInv, LogInv
  <2>2. CASE \E names : Issue("failure", names)
    BY <2>2, IssueKeeps DEF IInv, Kinds
  <2> QED
    BY <2>1, <2>2
<1>3. CasesTyped'
  BY <1>1 DEF IInv, CasesTyped, caseVars
<1>4. Begun'
  <2> SUFFICES ASSUME NEW c \in Trace
               PROVE  /\ phase'[c] = "idle" => \A r \in Records : record'[c][r] = "none"
                      /\ phase'[c] \in Unsettled => before'[c] <= failureSequence'
    BY DEF Begun
  <2>1. phase'[c] = "idle" => \A r \in Records : record'[c][r] = "none"
    <3> SUFFICES ASSUME phase[c] = "idle", NEW r \in Records
                 PROVE  record'[c][r] = "none"
      BY DEF caseVars
    <3>1. record[c][r] = "none"
      BY DEF IInv, Begun
    <3> QED
      BY <1>1, <3>1
  <2>2. phase'[c] \in Unsettled => before'[c] <= failureSequence'
    <3>1. phase'[c] = phase[c] /\ before'[c] = before[c] /\ before[c] \in Nat
      BY DEF caseVars, IInv, CasesTyped
    <3>2. failureSequence \in Int /\ failureSequence' \in Int
      BY <1>2, SMT DEF IInv, LogInv
    <3>3. phase[c] \in Unsettled => before[c] <= failureSequence
      BY DEF IInv, Begun
    <3> QED
      BY <1>2, <3>1, <3>2, <3>3, SMT
  <2> QED
    BY <2>1, <2>2
<1>5. Drained'
  <2> SUFFICES ASSUME NEW c \in Trace, phase[c] \in {"flushed", "counted", "decided"},
                      NEW r \in Records
               PROVE  record'[c][r] # "queued"
    BY DEF Drained, caseVars
  <2>1. record[c][r] # "queued"
    BY DEF IInv, Drained
  <2> QED
    BY <1>1, <2>1
<1>6. LossNoted'
  <2> SUFFICES ASSUME NEW c \in Trace, phase[c] \in Unsettled,
                      NEW r \in Records, record'[c][r] \in {"lost", "dropped"}
               PROVE  Noted(c)'
    BY DEF LossNoted, caseVars
  <2>0. before[c] \in Nat /\ before'[c] = before[c] /\ before[c] <= failureSequence
    BY DEF IInv, CasesTyped, Begun, caseVars
  <2>1. CASE record'[c][r] = record[c][r]
    <3>1. Noted(c)
      BY <2>1 DEF IInv, LossNoted
    <3>2. CASE NoIssue
      BY <2>0, <3>1, <3>2, QuietKeeps
    <3>3. CASE \E names : Issue("failure", names)
      BY <2>0, <3>1, <3>3, IssueKeeps DEF IInv, Kinds
    <3> QED
      BY <3>2, <3>3
  <2>2. CASE record'[c][r] # record[c][r]
    <3>1. <<c, r>> \in batch /\ <<c, r>> \notin held /\ c \in TracesOf(batch)
      BY <1>1, <2>2
    <3>2. PICK names : /\ Issue("failure", names)
                       /\ names = {} \/ names = TracesOf(batch)
      BY <3>1
    <3> QED
      BY <2>0, <3>1, <3>2, FailureNoted DEF IInv
  <2> QED
    BY <2>1, <2>2
<1>7. Settled'
  BY DEF IInv, Settled, caseVars
<1>8. FlushAcceptsWhole'
  <2> SUFFICES ASSUME NEW c \in Trace, via[c] = "flush", NEW r \in Records
               PROVE  record'[c][r] \in {"none", "held"}
    BY DEF FlushAcceptsWhole, caseVars
  <2>1. record[c][r] \in {"none", "held"}
    BY DEF IInv, FlushAcceptsWhole
  <2> QED
    BY <1>1, <2>1
<1> QED
  BY <1>2, <1>3, <1>4, <1>5, <1>6, <1>7, <1>8 DEF IInv

(* The other steps touch one case, the log, or both.                       *)
LEMMA QuietLog ==
    ASSUME IInv, NoIssue
    PROVE  LogInv' /\ failureSequence' = failureSequence
  BY SMT DEF IInv, NoIssue, logVars, LogInv

LEMMA RunnerInv ==
    ASSUME IInv, NEW c \in Trace, UNCHANGED record, NoIssue,
           before' = before,
           phase[c] # "idle",
           \A d \in Trace : d # c => phase'[d] = phase[d] /\ via'[d] = via[d],
           phase' \in [Trace -> Phases],
           via' \in [Trace -> {"", "flush", "receipt"}],
           phase'[c] \in {"flushed", "counted", "decided"},
           phase[c] \in Unsettled \/ phase'[c] = phase[c],
           \A r \in Records : record[c][r] # "queued",
           via'[c] = "flush" => /\ phase'[c] = "decided"
                                /\ \A r \in Records : record[c][r] \in {"none", "held"}
    PROVE  IInv'
<1>1. LogInv' /\ failureSequence' = failureSequence
  BY QuietLog
<1>2. CasesTyped'
  BY DEF IInv, CasesTyped
<1>3. Begun'
  <2> SUFFICES ASSUME NEW d \in Trace
               PROVE  /\ phase'[d] = "idle" => \A r \in Records : record[d][r] = "none"
                      /\ phase'[d] \in Unsettled => before[d] <= failureSequence
    BY <1>1 DEF Begun
  <2>1. phase'[d] = "idle" => phase[d] = "idle"
    OBVIOUS
  <2>2. phase'[d] \in Unsettled => phase[d] \in Unsettled
    BY DEF Unsettled
  <2> QED
    BY <2>1, <2>2 DEF IInv, Begun
<1>4. Drained'
  BY DEF IInv, Drained
<1>5. LossNoted'
  <2> SUFFICES ASSUME NEW d \in Trace, phase'[d] \in Unsettled,
                      \E r \in Records : record[d][r] \in {"lost", "dropped"}
               PROVE  Noted(d)'
    BY DEF LossNoted
  <2>1. phase[d] \in Unsettled
    BY DEF Unsettled
  <2>2. Noted(d)
    BY <2>1 DEF IInv, LossNoted
  <2> QED
    BY <2>2, QuietKeeps
<1>6. Settled' /\ FlushAcceptsWhole'
  BY DEF IInv, Settled, FlushAcceptsWhole
<1> QED
  BY <1>1, <1>2, <1>3, <1>4, <1>5, <1>6 DEF IInv

(* A record admitted by a running case, which goes on or ends.             *)
LEMMA AdmitInv ==
    ASSUME IInv, NEW c \in Trace, NEW r \in Records, NEW next \in {"running", "ended"},
           phase[c] = "running", NoIssue,
           phase' = [phase EXCEPT ![c] = next],
           record' = [record EXCEPT ![c][r] = "queued"],
           before' = before, via' = via
    PROVE  IInv'
<1>1. LogInv' /\ failureSequence' = failureSequence
  BY QuietLog
<1>2. CasesTyped'
  BY DEF IInv, CasesTyped, Phases, Status
<1>3. Begun'
  BY <1>1 DEF IInv, CasesTyped, Begun, Unsettled
<1>4. Drained'
  BY DEF IInv, CasesTyped, Drained
<1>5. LossNoted'
  <2> SUFFICES ASSUME NEW d \in Trace, phase'[d] \in Unsettled,
                      \E q \in Records : record'[d][q] \in {"lost", "dropped"}
               PROVE  Noted(d)'
    BY DEF LossNoted
  <2>1. PICK q \in Records : record'[d][q] \in {"lost", "dropped"}
    OBVIOUS
  <2>2. record[d][q] = record'[d][q]
    BY <2>1 DEF IInv, CasesTyped
  <2>3. phase[d] \in Unsettled
    BY DEF IInv, CasesTyped, Unsettled
  <2>4. Noted(d)
    BY <2>1, <2>2, <2>3 DEF IInv, LossNoted
  <2> QED
    BY <2>4, QuietKeeps
<1>6. Settled' /\ FlushAcceptsWhole'
  BY DEF IInv, CasesTyped, Settled, FlushAcceptsWhole
<1> QED
  BY <1>1, <1>2, <1>3, <1>4, <1>5, <1>6 DEF IInv

LEMMA NextInv == IInv /\ [Next]_vars => IInv'
<1> SUFFICES ASSUME IInv, [Next]_vars
             PROVE  IInv'
  OBVIOUS
<1>1. CASE OtherIssue \/ ProcessorFails
  <2>1. PICK kind \in Kinds, names \in {{}, {Other}} : Issue(kind, names)
    BY <1>1 DEF OtherIssue, ProcessorFails, Kinds
  <2>2. UNCHANGED <<record, caseVars>>
    BY <1>1 DEF OtherIssue, ProcessorFails
  <2>3. /\ LogInv'
        /\ failureSequence <= failureSequence'
        /\ \A c \in Trace : Noted(c) => Noted(c)'
    BY <2>1, <2>2, IssueKeeps DEF IInv, CasesTyped, caseVars
  <2>4. Begun'
    <3> SUFFICES ASSUME NEW c \in Trace, phase[c] \in Unsettled
                 PROVE  before[c] <= failureSequence'
      BY <2>2 DEF IInv, Begun, caseVars
    <3>1. before[c] \in Nat /\ before[c] <= failureSequence
      BY DEF IInv, Begun, CasesTyped
    <3> QED
      BY <2>3, <3>1, SMT DEF IInv, LogInv
  <2>5. LossNoted'
    BY <2>2, <2>3 DEF IInv, LossNoted, caseVars
  <2> QED
    BY <2>2, <2>3, <2>4, <2>5
    DEF IInv, CasesTyped, Drained, Settled, FlushAcceptsWhole, caseVars
<1>2. ASSUME NEW batch \in Batches, Accept(batch)
      PROVE  IInv'
  BY <1>2, BatchInv DEF Accept
<1>3. ASSUME NEW batch \in Batches, Reject(batch)
      PROVE  IInv'
  <2> DEFINE traces == TraceIdsOf(TracesOf(batch))
             logs == \A x \in batch : x[2] = "log"
             names == IF logs \/ Cardinality(traces) = 1 THEN traces ELSE {}
  <2>1. names = {} \/ names = TracesOf(batch)
    BY DEF TraceIdsOf
  <2>2. PICK held \in SUBSET batch : Settle(batch, held)
    BY <1>3 DEF Reject
  <2>3. Issue("failure", names)
    BY <1>3 DEF Reject
  <2>4. UNCHANGED caseVars
    BY <1>3 DEF Reject
  <2> QED
    BY <2>1, <2>2, <2>3, <2>4, BatchInv
<1>4. ASSUME NEW batch \in Batches, Fail(batch)
      PROVE  IInv'
  <2>1. TraceIdsOf(TracesOf(batch)) \in {{}, TracesOf(batch)}
    BY DEF TraceIdsOf
  <2> QED
    BY <1>4, <2>1, BatchInv DEF Fail
<1>5. ASSUME NEW c \in Trace, Begin(c)
      PROVE  IInv'
  <2>1. LogInv' /\ failureSequence' = failureSequence
    BY <1>5, QuietLog DEF Begin
  <2>2. CasesTyped'
    <3>1. failureSequence \in Nat
      BY SMT DEF IInv, LogInv
    <3> QED
      BY <1>5, <3>1 DEF Begin, IInv, CasesTyped, Phases
  <2>3. Begun'
    <3> SUFFICES ASSUME NEW d \in Trace
                 PROVE  /\ phase'[d] = "idle" => \A r \in Records : record'[d][r] = "none"
                        /\ phase'[d] \in Unsettled => before'[d] <= failureSequence'
      BY DEF Begun
    <3>1. CASE d = c
      <4>1. phase'[c] = "running" /\ before'[c] = failureSequence
        BY <1>5 DEF Begin, IInv, CasesTyped
      <4>2. failureSequence <= failureSequence
        BY SMT DEF IInv, LogInv
      <4> QED
        BY <2>1, <3>1, <4>1, <4>2
    <3>2. CASE d # c
      BY <1>5, <2>1, <3>2 DEF Begin, IInv, CasesTyped, Begun
    <3> QED
      BY <3>1, <3>2
  <2>4. Drained'
    BY <1>5 DEF Begin, IInv, CasesTyped, Drained
  <2>5. LossNoted'
    <3> SUFFICES ASSUME NEW d \in Trace, phase'[d] \in Unsettled,
                        \E r \in Records : record[d][r] \in {"lost", "dropped"}
                 PROVE  Noted(d)'
      BY <1>5 DEF LossNoted, Begin
    <3>1. d # c
      BY <1>5 DEF Begin, IInv, Begun
    <3>2. phase[d] \in Unsettled /\ before'[d] = before[d]
      BY <1>5, <3>1 DEF Begin, IInv, CasesTyped
    <3> QED
      BY <1>5, <3>2, QuietKeeps DEF Begin, IInv, LossNoted
  <2>6. Settled' /\ FlushAcceptsWhole'
    BY <1>5 DEF Begin, IInv, CasesTyped, Settled, FlushAcceptsWhole
  <2> QED
    BY <2>1, <2>2, <2>3, <2>4, <2>5, <2>6 DEF IInv
<1>6. ASSUME NEW c \in Trace, NEW r \in Records, Admit(c, r)
      PROVE  IInv'
  <2>1. LogInv' /\ failureSequence' = failureSequence
    BY <1>6, QuietLog DEF Admit
  <2>2. CASE r = "root"
    <3>1. phase' = [phase EXCEPT ![c] = "ended"]
      BY <1>6, <2>2 DEF Admit, Closes
    <3> QED
      BY <1>6, <2>1, <3>1, AdmitInv DEF Admit
  <2>3. CASE r # "root"
    <3>1. phase' = [phase EXCEPT ![c] = "running"]
      BY <1>6, <2>3 DEF Admit, Closes, IInv, CasesTyped
    <3> QED
      BY <1>6, <2>1, <3>1, AdmitInv DEF Admit
  <2> QED
    BY <2>2, <2>3
<1>7. ASSUME NEW c \in Trace, NEW r \in Records, Drop(c, r)
      PROVE  IInv'
  <2>1. PICK next \in {"running", "ended"} : phase' = [phase EXCEPT ![c] = next]
    <3>1. phase' = [phase EXCEPT ![c] = IF r = "root" THEN "ended" ELSE phase[c]]
      BY <1>7 DEF Drop, Closes
    <3>2. phase[c] = "running"
      BY <1>7 DEF Drop
    <3> QED
      BY <3>1, <3>2
  <2>2. /\ LogInv'
        /\ failureSequence <= failureSequence'
        /\ \A d \in Trace : Noted(d) => Noted(d)'
    BY <1>7, IssueKeeps DEF Drop, IInv, CasesTyped, Kinds
  <2>3. CasesTyped'
    BY <1>7, <2>1 DEF Drop, IInv, CasesTyped, Phases, Status
  <2>4. Begun'
    <3> SUFFICES ASSUME NEW d \in Trace
                 PROVE  /\ phase'[d] = "idle" => \A q \in Records : record'[d][q] = "none"
                        /\ phase'[d] \in Unsettled => before[d] <= failureSequence'
      BY <1>7 DEF Begun, Drop
    <3>1. phase'[d] = "idle" => \A q \in Records : record'[d][q] = "none"
      BY <1>7, <2>1 DEF Drop, IInv, CasesTyped, Begun
    <3>2. phase'[d] \in Unsettled => phase[d] \in Unsettled
      BY <1>7, <2>1 DEF Drop, IInv, CasesTyped, Unsettled
    <3>3. phase[d] \in Unsettled => before[d] <= failureSequence
      BY DEF IInv, Begun
    <3>4. before[d] \in Nat
      BY DEF IInv, CasesTyped
    <3>5. phase'[d] \in Unsettled => before[d] <= failureSequence'
      BY <2>2, <3>2, <3>3, <3>4, SMT DEF IInv, LogInv
    <3> QED
      BY <3>1, <3>5
  <2>5. Drained'
    BY <1>7, <2>1 DEF Drop, IInv, CasesTyped, Drained
  <2>6. LossNoted'
    <3> SUFFICES ASSUME NEW d \in Trace, phase'[d] \in Unsettled,
                        \E q \in Records : record'[d][q] \in {"lost", "dropped"}
                 PROVE  Noted(d)'
      BY DEF LossNoted
    <3>1. CASE d = c
      <4>1. before[c] \in Nat /\ before[c] <= failureSequence /\ before'[c] = before[c]
        BY <1>7 DEF Drop, IInv, CasesTyped, Begun, Unsettled
      <4> QED
        BY <1>7, <3>1, <4>1, FailureNoted DEF Drop, IInv
    <3>2. CASE d # c
      BY <1>7, <2>1, <2>2, <3>2 DEF Drop, IInv, CasesTyped, LossNoted
    <3> QED
      BY <3>1, <3>2
  <2>7. Settled' /\ FlushAcceptsWhole'
    BY <1>7, <2>1 DEF Drop, IInv, CasesTyped, Settled, FlushAcceptsWhole
  <2> QED
    BY <2>2, <2>3, <2>4, <2>5, <2>6, <2>7 DEF IInv
<1>8. ASSUME NEW c \in Trace, Flushed(c)
      PROVE  IInv'
  <2>1. via[c] # "flush"
    BY <1>8 DEF Flushed, IInv, Settled
  <2> QED
    BY <1>8, <2>1, RunnerInv DEF Flushed, IInv, CasesTyped, Phases, Unsettled
<1>9. ASSUME NEW c \in Trace, SaveCount(c)
      PROVE  IInv'
  <2>1. via[c] # "flush" /\ \A r \in Records : record[c][r] # "queued"
    BY <1>9 DEF SaveCount, IInv, Settled, Drained
  <2> QED
    BY <1>9, <2>1, RunnerInv DEF SaveCount, IInv, CasesTyped, Phases, Unsettled
<1>10. ASSUME NEW c \in Trace, Decide(c)
      PROVE  IInv'
  <2>1. /\ phase[c] = "counted" /\ phase' = [phase EXCEPT ![c] = "decided"]
        /\ NoIssue /\ UNCHANGED <<record, before>>
    BY <1>10 DEF Decide
  <2>2. via[c] # "flush" /\ \A r \in Records : record[c][r] # "queued"
    BY <2>1 DEF IInv, Settled, Drained
  <2>3. /\ via' \in [Trace -> {"", "flush", "receipt"}]
        /\ \A d \in Trace : d # c => via'[d] = via[d]
    BY <1>10 DEF Decide, AcceptedBy, IInv, CasesTyped
  <2>4. via'[c] = "flush" => \A r \in Records : record[c][r] \in {"none", "held"}
    <3> SUFFICES ASSUME via'[c] = "flush"
                 PROVE  \A r \in Records : record[c][r] \in {"none", "held"}
      OBVIOUS
    <3>1. \/ failureSequence = before[c]
          \/ ~NamedIssue(c) /\ ~Unattributed(c) /\ ~Evicted(c)
      BY <1>10, <2>2 DEF Decide, AcceptedBy, IInv, CasesTyped
    <3>2. ~Noted(c)
      BY <3>1, CleanHasNothingNoted DEF IInv, CasesTyped
    <3>3. \A r \in Records : record[c][r] \notin {"lost", "dropped"}
      BY <2>1, <3>2 DEF IInv, LossNoted, Unsettled
    <3> QED
      BY <2>2, <3>3 DEF IInv, CasesTyped, Status
  <2> QED
    BY <2>1, <2>2, <2>3, <2>4, RunnerInv DEF IInv, CasesTyped, Phases, Unsettled
<1>11. ASSUME NEW c \in Trace, AskReceipt(c)
      PROVE  IInv'
  <2>1. \A r \in Records : record[c][r] # "queued"
    BY <1>11 DEF AskReceipt, IInv, Drained
  <2> QED
    BY <1>11, <2>1, RunnerInv DEF AskReceipt, AcceptedBy, IInv, CasesTyped, Phases
<1>12. ASSUME Crash
      PROVE  IInv'
  <2>1. LogInv'
    BY <1>12, LogAssumption, SMT DEF Crash, LogInv
  <2>2. \A c \in Trace :
          /\ phase'[c] \in Phases \ Unsettled
          /\ phase'[c] = "idle" => phase[c] = "idle"
          /\ phase[c] = "decided" => phase'[c] = "decided"
    BY <1>12 DEF Crash, IInv, CasesTyped, Phases, Unsettled
  <2>3. \A c \in Trace, r \in Records :
          record'[c][r] = IF record[c][r] = "queued" THEN "lost" ELSE record[c][r]
    BY <1>12 DEF Crash
  <2>4. CasesTyped'
    <3>1. phase' \in [Trace -> Phases]
      BY <1>12, <2>2 DEF Crash
    <3>2. \A c \in Trace, r \in Records :
            (IF record[c][r] = "queued" THEN "lost" ELSE record[c][r]) \in Status
      BY DEF IInv, CasesTyped, Status
    <3>3. record' \in [Trace -> [Records -> Status]]
      BY <1>12, <3>2 DEF Crash
    <3> QED
      BY <1>12, <3>1, <3>3 DEF Crash, IInv, CasesTyped
  <2>5. Begun' /\ LossNoted'
    BY <2>2, <2>3 DEF IInv, Begun, LossNoted
  <2>6. Drained'
    BY <2>3 DEF Drained
  <2>7. Settled' /\ FlushAcceptsWhole'
    BY <1>12, <2>2, <2>3 DEF Crash, IInv, Settled, FlushAcceptsWhole
  <2> QED
    BY <2>1, <2>4, <2>5, <2>6, <2>7 DEF IInv
<1>13. CASE UNCHANGED vars
  <2>1. NoIssue /\ UNCHANGED <<record, caseVars>>
    BY <1>13 DEF vars, NoIssue
  <2>2. LogInv' /\ failureSequence' = failureSequence
    BY <2>1, QuietLog
  <2>3. LossNoted'
    BY <2>1, QuietKeeps DEF IInv, LossNoted, caseVars
  <2> QED
    BY <2>1, <2>2, <2>3
    DEF IInv, CasesTyped, Begun, Drained, Settled, FlushAcceptsWhole, caseVars
<1> QED
  BY <1>1, <1>2, <1>3, <1>4, <1>5, <1>6, <1>7, <1>8, <1>9, <1>10, <1>11, <1>12, <1>13
  DEF Next

(* A case the flush alone accepted lost no span and no log record: the     *)
(* issue log, bounded and shared by every case, never hides a case's own   *)
(* failure from the attribution (runner.ts, transport.ts).                 *)
THEOREM FlushAcceptance == Spec => []FlushAcceptsWhole
<1>1. IInv => FlushAcceptsWhole
  BY DEF IInv
<1> QED
  BY <1>1, InitInv, NextInv, PTL DEF Spec

-----------------------------------------------------------------------------
(* What the receipt is held to.  The count of a trace's ended spans is     *)
(* what the receipt must show, as long as none is forgotten.               *)

NoneForgotten == IsFiniteSet(Trace) /\ Cardinality(Trace) <= MaxRemembered

EndedSpans(c) == {r \in Spans : record[c][r] \in {"queued", "held", "lost"}}

Uncounted == {"idle", "running", "ended", "flushed"}

CountsTyped ==
    /\ issues \subseteq IssueRecord
    /\ \A i \in issues : i.seq <= sequence
    /\ order \in Seq(Trace)
    /\ \A i, j \in 1..Len(order) : order[i] = order[j] => i = j
    /\ ended \in [Trace -> Nat]
    /\ spans \in [Trace -> Nat \cup {NoCount}]
    /\ export \in [Trace -> {"pending", "accepted", "failed"}]
    /\ crashes \in Nat

CountsTrue ==
    \A c \in Trace :
        /\ phase[c] \in Uncounted =>
              spans[c] = NoCount /\ ended[c] = Cardinality(EndedSpans(c))
        /\ spans[c] # NoCount => spans[c] = Cardinality(EndedSpans(c))

Decided ==
    \A c \in Trace :
        /\ export[c] # "pending" => phase[c] = "decided"
        /\ export[c] = "accepted" => \A r \in Spans : record[c][r] \notin {"queued", "lost"}

CountInv == CountsTyped /\ CountsTrue /\ Decided

LEMMA SpansFinite ==
  ASSUME NEW S \in SUBSET Spans
  PROVE  IsFiniteSet(S) /\ Cardinality(S) \in Nat
<1>1. IsFiniteSet({"root"})
  BY FS_Singleton
<1>2. IsFiniteSet({"root"} \cup {"child"})
  BY <1>1, FS_AddElement
<1>3. Spans = {"root"} \cup {"child"}
  BY DEF Spans
<1> QED
  BY <1>2, <1>3, FS_Subset, FS_CardinalityType

(* The count is forgotten by nobody: there is room for every trace.        *)
LEMMA OrderFits ==
  ASSUME NoneForgotten, NEW q \in Seq(Trace), \A i, j \in 1..Len(q) : q[i] = q[j] => i = j
  PROVE  Len(q) <= MaxRemembered
<1> DEFINE I == 1..Len(q)
           f == [i \in I |-> q[i]]
<1>1. Len(q) \in Nat /\ \A i \in I : q[i] \in Trace
  OBVIOUS
<1>2. f \in Injection(I, Trace)
  BY <1>1 DEF Injection, IsInjective
<1>3. IsFiniteSet(I) /\ Cardinality(I) = Len(q)
  <2>1. IsFiniteSet(I) /\ Cardinality(I) = IF 1 > Len(q) THEN 0 ELSE Len(q) - 1 + 1
    BY <1>1, FS_Interval
  <2> QED
    BY <1>1, <2>1
<1>4. Cardinality(I) <= Cardinality(Trace)
  BY <1>2, FS_Injection DEF NoneForgotten
<1>5. Cardinality(Trace) \in Nat /\ MaxRemembered \in Nat
  BY FS_CardinalityType, AttributionAssumption DEF NoneForgotten
<1> QED
  BY <1>1, <1>3, <1>4, <1>5 DEF NoneForgotten

LEMMA CountsUp ==
  ASSUME NoneForgotten, CountsTyped, NEW c \in Trace, CountEnded(c)
  PROVE  /\ order' \in Seq(Trace)
         /\ \A i, j \in 1..Len(order') : order'[i] = order'[j] => i = j
         /\ ended' = [ended EXCEPT ![c] = @ + 1]
<1> DEFINE counted == IF c \in Range(order) THEN order ELSE Append(order, c)
<1>1. order \in Seq(Trace) /\ \A i, j \in 1..Len(order) : order[i] = order[j] => i = j
  BY DEF CountsTyped
<1>2. counted \in Seq(Trace) /\ \A i, j \in 1..Len(counted) : counted[i] = counted[j] => i = j
  <2>1. CASE c \in Range(order)
    BY <1>1, <2>1
  <2>2. CASE c \notin Range(order)
    <3>1. \A i \in 1..Len(order) : order[i] # c
      BY <1>1, <2>2 DEF Range
    <3>2. /\ Append(order, c) \in Seq(Trace) /\ Len(Append(order, c)) = Len(order) + 1
          /\ Append(order, c)[Len(order) + 1] = c /\ Len(order) \in Nat
          /\ \A i \in 1..Len(order) : Append(order, c)[i] = order[i]
      BY <1>1, AppendProperties
    <3> QED
      BY <1>1, <2>2, <3>1, <3>2
  <2> QED
    BY <2>1, <2>2
<1> HIDE DEF counted
<1>3. ~ (Len(counted) > MaxRemembered)
  BY <1>2, OrderFits, AttributionAssumption
<1>4. order' = counted /\ ended' = [d \in Trace |-> IF d = c THEN ended[c] + 1 ELSE ended[d]]
  BY <1>3 DEF CountEnded, counted
<1>5. ended' = [ended EXCEPT ![c] = @ + 1]
  BY <1>4 DEF CountsTyped
<1> QED
  BY <1>2, <1>4, <1>5

LEMMA IssueTyped ==
  ASSUME LogInv, CountsTyped, NEW kind \in Kinds, NEW names \in SUBSET Named, Issue(kind, names)
  PROVE  issues' \subseteq IssueRecord /\ \A i \in issues' : i.seq <= sequence'
<1>1. sequence \in Nat /\ sequence' = sequence + 1
  BY DEF LogInv, Issue
<1>2. [seq |-> sequence + 1, kind |-> kind, names |-> names] \in IssueRecord
  BY <1>1 DEF IssueRecord
<1>3. \A i \in issues' : i \in issues \/ i = [seq |-> sequence + 1, kind |-> kind, names |-> names]
  BY DEF Issue
<1>4. \A i \in issues : i \in IssueRecord /\ i.seq <= sequence /\ i.seq \in Nat
  BY DEF CountsTyped, IssueRecord
<1> QED
  BY <1>1, <1>2, <1>3, <1>4

LEMMA InitCounts ==
  ASSUME Init
  PROVE  CountInv
<1>1. CountsTyped
  <2>1. order = <<>> /\ issues = {} /\ crashes = 0
    BY DEF Init, InitLog
  <2>2. order \in Seq(Trace) /\ Len(order) = 0
    BY <2>1, EmptySeq
  <2>3. \A i, j \in 1..Len(order) : order[i] = order[j] => i = j
    BY <2>2
  <2>4. /\ ended \in [Trace -> Nat] /\ spans \in [Trace -> Nat \cup {NoCount}]
        /\ export \in [Trace -> {"pending", "accepted", "failed"}]
    BY DEF Init
  <2>5. issues \subseteq IssueRecord /\ (\A i \in issues : i.seq <= sequence) /\ crashes \in Nat
    BY <2>1
  <2> QED
    BY <2>2, <2>3, <2>4, <2>5 DEF CountsTyped
<1>2. CountsTrue
  <2>1. \A c \in Trace : EndedSpans(c) = {}
    BY DEF Init, EndedSpans, Spans, Records
  <2> QED
    BY <2>1, FS_EmptySet DEF Init, CountsTrue
<1>3. Decided
  BY DEF Init, Decided
<1> QED
  BY <1>1, <1>2, <1>3 DEF CountInv

(* What an issue, or the outcome of a batch, leaves of the counts: a span  *)
(* that ended stays one, and a decided case has nothing in the queue.      *)
LEMMA BatchCounts ==
  ASSUME IInv, CountInv, UNCHANGED <<caseVars, countVars, crashes>>,
         issues' \subseteq IssueRecord, \A i \in issues' : i.seq <= sequence',
         \A c \in Trace, r \in Records :
            \/ record'[c][r] = record[c][r]
            \/ record[c][r] = "queued" /\ record'[c][r] \in {"held", "lost"}
  PROVE  CountInv'
<1>1. UNCHANGED <<phase, spans, export, order, ended, crashes>>
  BY DEF caseVars, countVars
<1>2. CountsTyped'
  BY <1>1 DEF CountInv, CountsTyped
<1>3. \A c \in Trace : EndedSpans(c)' = EndedSpans(c)
  BY DEF EndedSpans, Records
<1>4. CountsTrue'
  BY <1>1, <1>3 DEF CountInv, CountsTrue
<1>5. Decided'
  <2>1. \A c \in Trace : phase[c] = "decided" => \A r \in Records : record'[c][r] = record[c][r]
    BY DEF IInv, Drained
  <2> QED
    BY <1>1, <2>1 DEF CountInv, Decided, Records
<1> QED
  BY <1>2, <1>4, <1>5 DEF CountInv

LEMMA SettleOnly ==
  ASSUME CasesTyped, NEW batch \in Batches, NEW held \in SUBSET batch, Settle(batch, held)
  PROVE  \A c \in Trace, r \in Records :
            \/ record'[c][r] = record[c][r]
            \/ record[c][r] = "queued" /\ record'[c][r] \in {"held", "lost"}
BY SettleChanges

(* A record of a running case, counted or dropped.                         *)
LEMMA RecordCounts ==
  ASSUME IInv, CountInv, NEW c \in Trace, NEW r \in Records, NEW next \in {"running", "ended"},
         NEW v \in {"queued", "dropped"},
         phase[c] = "running", record[c][r] = "none",
         phase' = [phase EXCEPT ![c] = next],
         record' = [record EXCEPT ![c][r] = v],
         UNCHANGED <<spans, export, crashes>>,
         issues' \subseteq IssueRecord, \A i \in issues' : i.seq <= sequence',
         order' \in Seq(Trace), \A i, j \in 1..Len(order') : order'[i] = order'[j] => i = j,
         ended' = IF r \in Spans /\ v = "queued" THEN [ended EXCEPT ![c] = @ + 1] ELSE ended
  PROVE  CountInv'
<1>1. /\ \A d \in Trace : phase'[d] = IF d = c THEN next ELSE phase[d]
      /\ \A d \in Trace, q \in Records : record'[d][q] = IF d = c /\ q = r THEN v ELSE record[d][q]
  BY DEF IInv, CasesTyped
<1>2. /\ ended' \in [Trace -> Nat]
      /\ \A d \in Trace : ended'[d] = IF d = c /\ r \in Spans /\ v = "queued" THEN ended[c] + 1 ELSE ended[d]
  BY DEF CountInv, CountsTyped
<1>3. CountsTyped'
  BY <1>2 DEF CountInv, CountsTyped
<1>4. ASSUME NEW d \in Trace, d # c PROVE EndedSpans(d)' = EndedSpans(d)
  BY <1>1, <1>4 DEF EndedSpans, Records
<1>5. phase[c] \in Uncounted /\ spans[c] = NoCount /\ ended[c] = Cardinality(EndedSpans(c))
  BY DEF CountInv, CountsTrue, Uncounted
<1>6. ended'[c] = Cardinality(EndedSpans(c)')
  <2>1. CASE r \in Spans /\ v = "queued"
    <3>1. EndedSpans(c)' = EndedSpans(c) \cup {r} /\ r \notin EndedSpans(c)
      BY <1>1, <2>1 DEF EndedSpans, Records
    <3>2. IsFiniteSet(EndedSpans(c)) /\ Cardinality(EndedSpans(c)) \in Nat
      BY SpansFinite DEF EndedSpans
    <3>3. Cardinality(EndedSpans(c) \cup {r}) = Cardinality(EndedSpans(c)) + 1
      BY <3>1, <3>2, FS_AddElement
    <3> QED
      BY <1>2, <1>5, <2>1, <3>1, <3>3
  <2>2. CASE ~(r \in Spans /\ v = "queued")
    <3>1. EndedSpans(c)' = EndedSpans(c)
      BY <1>1, <2>2 DEF EndedSpans, Records
    <3> QED
      BY <1>2, <1>5, <2>2, <3>1
  <2> QED
    BY <2>1, <2>2
<1>7. CountsTrue'
  <2> SUFFICES ASSUME NEW d \in Trace
               PROVE  /\ phase'[d] \in Uncounted =>
                            spans'[d] = NoCount /\ ended'[d] = Cardinality(EndedSpans(d)')
                      /\ spans'[d] # NoCount => spans'[d] = Cardinality(EndedSpans(d)')
    BY DEF CountsTrue
  <2>1. CASE d = c
    BY <1>5, <1>6, <2>1
  <2>2. CASE d # c
    BY <1>1, <1>2, <1>4, <2>2 DEF CountInv, CountsTrue
  <2> QED
    BY <2>1, <2>2
<1>8. Decided'
  <2>1. export[c] = "pending"
    BY DEF CountInv, Decided, CountsTyped
  <2> QED
    BY <1>1, <2>1 DEF CountInv, Decided, Records
<1> QED
  BY <1>3, <1>7, <1>8 DEF CountInv

(* The runner takes the next step with a case.                             *)
LEMMA RunnerCounts ==
  ASSUME IInv, CountInv, NEW c \in Trace,
         UNCHANGED <<record, issues, sequence, countVars, crashes>>,
         NEW next \in Phases, phase' = [phase EXCEPT ![c] = next],
         spans' \in [Trace -> Nat \cup {NoCount}],
         export' \in [Trace -> {"pending", "accepted", "failed"}],
         \A d \in Trace : d # c => spans'[d] = spans[d] /\ export'[d] = export[d],
         next \in Uncounted => phase[c] \in Uncounted /\ spans'[c] = NoCount,
         spans'[c] # NoCount => spans'[c] = Cardinality(EndedSpans(c)),
         export'[c] # "pending" => next = "decided",
         export'[c] = "accepted" => \A r \in Spans : record[c][r] \notin {"queued", "lost"}
  PROVE  CountInv'
<1>1. /\ \A d \in Trace : phase'[d] = IF d = c THEN next ELSE phase[d]
      /\ order' = order /\ ended' = ended
  BY DEF IInv, CasesTyped, countVars
<1>2. CountsTyped'
  BY <1>1 DEF CountInv, CountsTyped
<1>3. \A d \in Trace : EndedSpans(d)' = EndedSpans(d)
  BY DEF EndedSpans
<1>4. CountsTrue'
  BY <1>1, <1>3 DEF CountInv, CountsTrue
<1>5. Decided'
  BY <1>1 DEF CountInv, Decided
<1> QED
  BY <1>2, <1>4, <1>5 DEF CountInv

(* A receipt that shows as many spans as ended shows them all.             *)
LEMMA LandedWhole ==
  ASSUME IInv, CountInv, NEW c \in Trace, Landed(c)
  PROVE  \A r \in Spans : record[c][r] \notin {"queued", "lost"}
<1> DEFINE H == {r \in Spans : record[c][r] = "held"}
<1>1. spans[c] # NoCount /\ Cardinality(H) >= spans[c]
  BY DEF Landed
<1>2. spans[c] = Cardinality(EndedSpans(c))
  BY <1>1 DEF CountInv, CountsTrue
<1>3. H \in SUBSET EndedSpans(c) /\ EndedSpans(c) \in SUBSET Spans /\ H \in SUBSET Spans
  BY DEF EndedSpans
<1>4. /\ IsFiniteSet(EndedSpans(c)) /\ Cardinality(EndedSpans(c)) \in Nat
      /\ Cardinality(H) \in Nat
  BY <1>3, SpansFinite
<1>5. Cardinality(H) <= Cardinality(EndedSpans(c)) /\
      (Cardinality(H) = Cardinality(EndedSpans(c)) => H = EndedSpans(c))
  BY <1>3, <1>4, FS_Subset
<1>6. H = EndedSpans(c)
  BY <1>1, <1>2, <1>4, <1>5
<1> QED
  BY <1>6 DEF EndedSpans

(* A crash forgets the counts; a case of which none was saved has none.    *)
LEMMA CrashCounts ==
  ASSUME IInv, CountInv, Crash
  PROVE  CountInv'
<1>1. /\ \A c \in Trace : phase'[c] = CASE phase[c] = "running" -> "crashed"
                                        [] phase[c] \in {"ended", "flushed", "counted"} -> "decided"
                                        [] OTHER -> phase[c]
      /\ \A c \in Trace, r \in Records :
            record'[c][r] = IF record[c][r] = "queued" THEN "lost" ELSE record[c][r]
      /\ UNCHANGED <<spans, export>>
      /\ ended' = [c \in Trace |-> 0] /\ order' = <<>> /\ issues' = {} /\ crashes' = crashes + 1
  BY DEF Crash
<1>2. CountsTyped'
  <2>1. order' \in Seq(Trace) /\ Len(order') = 0
    BY <1>1, EmptySeq
  <2>2. \A i, j \in 1..Len(order') : order'[i] = order'[j] => i = j
    BY <2>1
  <2>3. issues' \subseteq IssueRecord /\ (\A i \in issues' : i.seq <= sequence') /\ ended' \in [Trace -> Nat]
    BY <1>1
  <2> QED
    BY <1>1, <2>1, <2>2, <2>3 DEF CountInv, CountsTyped
<1>3. \A c \in Trace : EndedSpans(c)' = EndedSpans(c)
  BY <1>1 DEF EndedSpans, Records
<1>4. \A c \in Trace : phase'[c] \in Uncounted => phase[c] = "idle" /\ phase'[c] = "idle"
  BY <1>1 DEF Uncounted, IInv, CasesTyped, Phases
<1>5. CountsTrue'
  <2> SUFFICES ASSUME NEW c \in Trace
               PROVE  /\ phase'[c] \in Uncounted =>
                            spans'[c] = NoCount /\ ended'[c] = Cardinality(EndedSpans(c)')
                      /\ spans'[c] # NoCount => spans'[c] = Cardinality(EndedSpans(c)')
    BY DEF CountsTrue
  <2>1. ASSUME phase'[c] \in Uncounted
        PROVE  spans'[c] = NoCount /\ ended'[c] = Cardinality(EndedSpans(c)')
    <3>1. EndedSpans(c) = {}
      BY <1>4, <2>1 DEF IInv, Begun, EndedSpans, Records
    <3>2. spans[c] = NoCount
      BY <1>4, <2>1 DEF CountInv, CountsTrue, Uncounted
    <3> QED
      BY <1>1, <1>3, <3>1, <3>2, FS_EmptySet
  <2>2. spans'[c] # NoCount => spans'[c] = Cardinality(EndedSpans(c)')
    BY <1>1, <1>3 DEF CountInv, CountsTrue
  <2> QED
    BY <2>1, <2>2
<1>6. Decided'
  <2> SUFFICES ASSUME NEW c \in Trace
               PROVE  /\ export'[c] # "pending" => phase'[c] = "decided"
                      /\ export'[c] = "accepted" => \A r \in Spans : record'[c][r] \notin {"queued", "lost"}
    BY DEF Decided
  <2>1. export[c] # "pending" => phase[c] = "decided"
    BY DEF CountInv, Decided
  <2>2. phase[c] = "decided" => phase'[c] = "decided"
    BY <1>1
  <2>3. export[c] = "accepted" => \A r \in Spans : record[c][r] \notin {"queued", "lost"}
    BY DEF CountInv, Decided
  <2> QED
    BY <1>1, <2>1, <2>2, <2>3 DEF Records
<1> QED
  BY <1>2, <1>5, <1>6 DEF CountInv

LEMMA DecideCounts ==
  ASSUME IInv, IInv', CountInv, NEW c \in Trace, Decide(c)
  PROVE  CountInv'
<1>1. /\ phase[c] = "counted" /\ phase' = [phase EXCEPT ![c] = "decided"]
      /\ UNCHANGED <<record, issues, sequence, countVars, spans, crashes>>
  BY DEF Decide, NoIssue, logVars
<1>2. export \in [Trace -> {"pending", "accepted", "failed"}] /\ via \in [Trace -> {"", "flush", "receipt"}]
  BY DEF CountInv, CountsTyped, IInv, CasesTyped
<1>3. export[c] = "pending"
  BY <1>1, <1>2 DEF CountInv, Decided
<1>4. \/ /\ AcceptedBy(c, "flush")
      \/ export' = [export EXCEPT ![c] = "failed"]
      \/ Landed(c) /\ AcceptedBy(c, "receipt")
      \/ UNCHANGED export
  BY DEF Decide
<1>5. /\ export' \in [Trace -> {"pending", "accepted", "failed"}]
      /\ \A d \in Trace : d # c => export'[d] = export[d]
  BY <1>2, <1>4 DEF AcceptedBy
<1>6. ASSUME export'[c] = "accepted" PROVE \A r \in Spans : record[c][r] \notin {"queued", "lost"}
  <2>1. CASE AcceptedBy(c, "flush")
    <3>1. via'[c] = "flush"
      BY <1>2, <2>1 DEF AcceptedBy
    <3> QED
      BY <1>1, <3>1 DEF IInv, FlushAcceptsWhole, Records
  <2>2. CASE Landed(c)
    BY <2>2, LandedWhole
  <2>3. CASE export' = [export EXCEPT ![c] = "failed"] \/ UNCHANGED export
    BY <1>2, <1>3, <1>6, <2>3
  <2> QED
    BY <1>4, <2>1, <2>2, <2>3
<1>7. "decided" \in Phases /\ "decided" \notin Uncounted
  BY DEF Phases, Uncounted
<1>8. spans \in [Trace -> Nat \cup {NoCount}] /\ (spans[c] # NoCount => spans[c] = Cardinality(EndedSpans(c)))
  BY DEF CountInv, CountsTyped, CountsTrue
<1> QED
  BY <1>1, <1>5, <1>6, <1>7, <1>8, RunnerCounts

LEMMA NextCounts ==
  ASSUME NoneForgotten, IInv, IInv', CountInv, [Next]_vars
  PROVE  CountInv'
<1>1. CASE OtherIssue \/ ProcessorFails
  <2>1. PICK kind \in Kinds, names \in SUBSET Named : Issue(kind, names)
    BY <1>1 DEF OtherIssue, ProcessorFails, Kinds, Named
  <2>2. UNCHANGED <<record, caseVars, countVars, crashes>>
    BY <1>1 DEF OtherIssue, ProcessorFails
  <2> QED
    BY <2>1, <2>2, IssueTyped, BatchCounts DEF IInv, CountInv
<1>2. ASSUME NEW batch \in Batches, Accept(batch) \/ Reject(batch) \/ Fail(batch) PROVE CountInv'
  <2>1. PICK held \in SUBSET batch : Settle(batch, held)
    BY <1>2 DEF Accept, Reject, Fail
  <2>2. UNCHANGED <<caseVars, countVars, crashes>>
    BY <1>2 DEF Accept, Reject, Fail
  <2>3. issues' \subseteq IssueRecord /\ \A i \in issues' : i.seq <= sequence'
    <3>1. CASE NoIssue
      BY <3>1 DEF NoIssue, logVars, CountInv, CountsTyped
    <3>2. CASE ~NoIssue
      <4>1. TracesOf(batch) \in SUBSET Named /\ "failure" \in Kinds
        BY DEF TracesOf, Batches, Queued, Named, Kinds
      <4>2. PICK names \in SUBSET Named : Issue("failure", names)
        BY <1>2, <3>2, <4>1 DEF Accept, Reject, Fail, TraceIdsOf
      <4> QED
        BY <4>1, <4>2, IssueTyped DEF IInv, CountInv
    <3> QED
      BY <3>1, <3>2
  <2>4. \A c \in Trace, r \in Records :
            \/ record'[c][r] = record[c][r]
            \/ record[c][r] = "queued" /\ record'[c][r] \in {"held", "lost"}
    BY <2>1, SettleOnly DEF IInv
  <2> QED
    BY <2>2, <2>3, <2>4, BatchCounts
<1>3. ASSUME NEW c \in Trace, Begin(c) PROVE CountInv'
  <2>1. /\ phase[c] = "idle" /\ phase' = [phase EXCEPT ![c] = "running"]
        /\ UNCHANGED <<record, issues, sequence, countVars, spans, export, crashes>>
    BY <1>3 DEF Begin, NoIssue, logVars
  <2>2. phase[c] \in Uncounted /\ "running" \in Phases /\ spans[c] = NoCount /\ export[c] = "pending"
    BY <2>1 DEF CountInv, CountsTrue, Decided, Uncounted, Phases, CountsTyped
  <2>3. /\ spans \in [Trace -> Nat \cup {NoCount}]
        /\ export \in [Trace -> {"pending", "accepted", "failed"}]
    BY DEF CountInv, CountsTyped
  <2> QED
    BY <2>1, <2>2, <2>3, RunnerCounts
<1>4. ASSUME NEW c \in Trace, NEW r \in Records, Admit(c, r) PROVE CountInv'
  <2>1. PICK next \in {"running", "ended"} : phase' = [phase EXCEPT ![c] = next]
    <3>1. phase' = [phase EXCEPT ![c] = IF r = "root" THEN "ended" ELSE phase[c]] /\ phase[c] = "running"
      BY <1>4 DEF Admit, Closes
    <3> QED
      BY <3>1
  <2>2. /\ phase[c] = "running" /\ record[c][r] = "none"
        /\ record' = [record EXCEPT ![c][r] = "queued"]
        /\ UNCHANGED <<spans, export, crashes, issues, sequence>>
    BY <1>4 DEF Admit, NoIssue, logVars
  <2>3. issues' \subseteq IssueRecord /\ \A i \in issues' : i.seq <= sequence'
    BY <2>2 DEF CountInv, CountsTyped
  <2>4. /\ order' \in Seq(Trace)
        /\ \A i, j \in 1..Len(order') : order'[i] = order'[j] => i = j
        /\ ended' = IF r \in Spans THEN [ended EXCEPT ![c] = @ + 1] ELSE ended
    <3>1. CASE r \in Spans
      BY <1>4, <3>1, CountsUp DEF Admit, CountInv
    <3>2. CASE r \notin Spans
      BY <1>4, <3>2 DEF Admit, countVars, CountInv, CountsTyped
    <3> QED
      BY <3>1, <3>2
  <2> QED
    BY <2>1, <2>2, <2>3, <2>4, RecordCounts
<1>5. ASSUME NEW c \in Trace, NEW r \in Records, Drop(c, r) PROVE CountInv'
  <2>1. PICK next \in {"running", "ended"} : phase' = [phase EXCEPT ![c] = next]
    <3>1. phase' = [phase EXCEPT ![c] = IF r = "root" THEN "ended" ELSE phase[c]] /\ phase[c] = "running"
      BY <1>5 DEF Drop, Closes
    <3> QED
      BY <3>1
  <2>2. /\ phase[c] = "running" /\ record[c][r] = "none"
        /\ record' = [record EXCEPT ![c][r] = "dropped"]
        /\ UNCHANGED <<spans, export, crashes, order, ended>>
        /\ Issue("failure", {c})
    BY <1>5 DEF Drop, countVars
  <2>3. issues' \subseteq IssueRecord /\ \A i \in issues' : i.seq <= sequence'
    <3>1. {c} \in SUBSET Named /\ "failure" \in Kinds
      BY DEF Named, Kinds
    <3> QED
      BY <2>2, <3>1, IssueTyped DEF IInv, CountInv
  <2>4. order' \in Seq(Trace) /\ \A i, j \in 1..Len(order') : order'[i] = order'[j] => i = j
    BY <2>2 DEF CountInv, CountsTyped
  <2>5. "dropped" # "queued" /\ "dropped" \in {"queued", "dropped"}
    OBVIOUS
  <2> QED
    BY <2>1, <2>2, <2>3, <2>4, <2>5, RecordCounts
<1>6. ASSUME NEW c \in Trace, Flushed(c) PROVE CountInv'
  <2>1. /\ phase[c] = "ended" /\ phase' = [phase EXCEPT ![c] = "flushed"]
        /\ UNCHANGED <<record, issues, sequence, countVars, spans, export, crashes>>
    BY <1>6 DEF Flushed, NoIssue, logVars
  <2>2. phase[c] \in Uncounted /\ "flushed" \in Phases /\ spans[c] = NoCount /\ export[c] = "pending"
    BY <2>1 DEF CountInv, CountsTrue, Decided, Uncounted, Phases, CountsTyped
  <2>3. /\ spans \in [Trace -> Nat \cup {NoCount}]
        /\ export \in [Trace -> {"pending", "accepted", "failed"}]
    BY DEF CountInv, CountsTyped
  <2> QED
    BY <2>1, <2>2, <2>3, RunnerCounts
<1>7. ASSUME NEW c \in Trace, SaveCount(c) PROVE CountInv'
  <2>1. /\ phase[c] = "flushed" /\ phase' = [phase EXCEPT ![c] = "counted"]
        /\ spans' = [spans EXCEPT ![c] = IF c \in Range(order) THEN ended[c] ELSE NoCount]
        /\ UNCHANGED <<record, issues, sequence, countVars, export, crashes>>
    BY <1>7 DEF SaveCount, NoIssue, logVars
  <2>2. /\ ended[c] = Cardinality(EndedSpans(c)) /\ export[c] = "pending"
        /\ "counted" \in Phases /\ "counted" \notin Uncounted
    BY <2>1 DEF CountInv, CountsTrue, Decided, Uncounted, Phases, CountsTyped
  <2>3. /\ spans \in [Trace -> Nat \cup {NoCount}] /\ ended[c] \in Nat
        /\ export \in [Trace -> {"pending", "accepted", "failed"}]
    BY DEF CountInv, CountsTyped
  <2>4. spans'[c] \in {NoCount, ended[c]} /\ spans' \in [Trace -> Nat \cup {NoCount}]
    BY <2>1, <2>3
  <2>5. \A d \in Trace : d # c => spans'[d] = spans[d] /\ export'[d] = export[d]
    BY <2>1, <2>3
  <2> QED
    BY <2>1, <2>2, <2>3, <2>4, <2>5, RunnerCounts
<1>8. ASSUME NEW c \in Trace, Decide(c) PROVE CountInv'
  BY <1>8, DecideCounts
<1>9. ASSUME NEW c \in Trace, AskReceipt(c) PROVE CountInv'
  <2>1. /\ phase[c] = "decided" /\ phase' = phase /\ Landed(c)
        /\ export' = [export EXCEPT ![c] = "accepted"]
        /\ UNCHANGED <<record, issues, sequence, countVars, spans, crashes>>
    BY <1>9 DEF AskReceipt, AcceptedBy, NoIssue, logVars
  <2>2. phase' = [phase EXCEPT ![c] = "decided"] /\ "decided" \in Phases /\ "decided" \notin Uncounted
    BY <2>1 DEF IInv, CasesTyped, Phases, Uncounted
  <2>3. /\ export' \in [Trace -> {"pending", "accepted", "failed"}]
        /\ \A d \in Trace : d # c => export'[d] = export[d]
        /\ spans \in [Trace -> Nat \cup {NoCount}]
        /\ spans[c] # NoCount => spans[c] = Cardinality(EndedSpans(c))
    BY <2>1 DEF CountInv, CountsTyped, CountsTrue
  <2>4. \A r \in Spans : record[c][r] \notin {"queued", "lost"}
    BY <2>1, LandedWhole
  <2> QED
    BY <2>1, <2>2, <2>3, <2>4, RunnerCounts
<1>10. CASE Crash
  BY <1>10, CrashCounts
<1>11. CASE UNCHANGED vars
  <2>1. UNCHANGED <<record, caseVars, countVars, crashes, issues, sequence>>
    BY <1>11 DEF vars, logVars
  <2>2. issues' \subseteq IssueRecord /\ \A i \in issues' : i.seq <= sequence'
    BY <2>1 DEF CountInv, CountsTyped
  <2> QED
    BY <2>1, <2>2, BatchCounts
<1> QED
  BY <1>1, <1>2, <1>3, <1>4, <1>5, <1>6, <1>7, <1>8, <1>9, <1>10, <1>11 DEF Next

LEMMA CountsImply ==
  ASSUME IInv, CountInv
  PROVE  AcceptedSpansHeld
<1>1. sequence \in Nat /\ History \in Nat \ {0} /\ failureSequence \in 0..sequence
  BY LogAssumption DEF IInv, LogInv
<1>2. issues \subseteq IssueRecord /\ \A i \in issues : i.seq \in (sequence - History + 1)..sequence
  BY <1>1 DEF IInv, LogInv, CountInv, CountsTyped, IssueRecord
<1>3. LogTypeOK
  BY <1>1, <1>2 DEF LogTypeOK
<1>4. TypeOK
  BY <1>3 DEF TypeOK, IInv, CasesTyped, CountInv, CountsTyped
<1> QED
  BY <1>4 DEF AcceptedSpansHeld, CountInv, Decided

(* Only a case that is not decided is decided, and only a pending outcome  *)
(* is asked about again.                                                   *)
LEMMA FailureIsFinal ==
  ASSUME IInv, CountInv, [Next]_vars
  PROVE  \A c \in Trace : export[c] = "failed" => export'[c] = "failed"
<1> SUFFICES ASSUME NEW c \in Trace, export[c] = "failed"
             PROVE  export'[c] = "failed"
  OBVIOUS
<1>1. phase[c] = "decided" /\ export \in [Trace -> {"pending", "accepted", "failed"}]
  BY DEF CountInv, CountsTyped, Decided
<1>2. CASE UNCHANGED export
  BY <1>2
<1>3. ASSUME NEW d \in Trace, Decide(d) PROVE export'[c] = "failed"
  <2>1. d # c
    BY <1>1, <1>3 DEF Decide
  <2> QED
    BY <1>1, <1>3, <2>1 DEF Decide, AcceptedBy
<1>4. ASSUME NEW d \in Trace, AskReceipt(d) PROVE export'[c] = "failed"
  BY <1>1, <1>4 DEF AskReceipt, AcceptedBy
<1>5. UNCHANGED export \/ \E d \in Trace : Decide(d) \/ AskReceipt(d)
  BY DEF Next, vars, caseVars, OtherIssue, ProcessorFails, Crash, Accept, Reject, Fail, Begin, Admit,
         Drop, Flushed, SaveCount
<1> QED
  BY <1>2, <1>3, <1>4, <1>5

(* What was decided of a case's telemetry holds: as long as no count of a  *)
(* trace's ended spans is forgotten, a case accepted by the flush or by    *)
(* the receipt, also after a crash, has every span that was counted in     *)
(* Hue, and a failure that named it is final (runner.ts, runCase).         *)
THEOREM Decisions ==
  ASSUME NoneForgotten
  PROVE  Spec => DecisionsHold
<1> DEFINE Both == IInv /\ CountInv
<1>1. Init => Both
  BY InitInv, InitCounts
<1>2. Both /\ [Next]_vars => Both'
  BY NextInv, NextCounts
<1>3. Both => AcceptedSpansHeld
  BY CountsImply
<1>4. Both /\ [Next]_vars => [\A c \in Trace : export[c] = "failed" => export'[c] = "failed"]_export
  BY FailureIsFinal
<1> HIDE DEF Both
<1> QED
  BY <1>1, <1>2, <1>3, <1>4, PTL DEF Spec, DecisionsHold, NamedFailureIsFinal

-----------------------------------------------------------------------------
(* The delivery of an export (OtlpDelivery).                               *)

(* No span is twice in a batch.                                            *)
Clean(batch) == \A i, j \in DOMAIN batch : batch[i].span = batch[j].span => i = j

InWork(w) == UNION {SpansIn(w[i].batch) : i \in DOMAIN w}

Separate(w) ==
    /\ \A i \in DOMAIN w : Clean(w[i].batch)
    /\ \A i, j \in DOMAIN w : i # j => SpansIn(w[i].batch) \cap SpansIn(w[j].batch) = {}

(* Records measured, packed and sent: each of these spans is once in them. *)
Holding(td, pl, w, batch, left) ==
    /\ Clean(td) /\ Clean(pl) /\ Clean(batch) /\ Separate(w)
    /\ SpansIn(td) \cap SpansIn(pl) = {}
    /\ SpansIn(td) \cap InWork(w) = {} /\ SpansIn(td) \cap SpansIn(batch) = {}
    /\ SpansIn(pl) \cap InWork(w) = {} /\ SpansIn(pl) \cap SpansIn(batch) = {}
    /\ InWork(w) \cap SpansIn(batch) = {}
    /\ left = SpansIn(td) \cup SpansIn(pl) \cup InWork(w) \cup SpansIn(batch)

Opens(e) == {s \in SpansOf(e) : fate[s] = "open"}

(* What has not left the exporter is in its export, once.                  *)
Lined(e) == Holding(todo[e], placed[e], work[e], request[e].batch, Opens(e))

Item == [batch : Seq(Record), refitted : BOOLEAN]

Typed ==
    /\ limit \in Limits
    /\ dropped \in [Traces -> Nat] /\ shown \in [Traces -> Nat] /\ lost \in [Traces -> Nat]
    /\ holdsReleased \in BOOLEAN
    /\ todo \in [Export -> Seq(Record)] /\ placed \in [Export -> Seq(Record)]
    /\ work \in [Export -> Seq(Item)]
    /\ request \in [Export -> [batch : Seq(Record), carried : [Traces -> Nat], tries : 0..MaxRetries]]
    /\ stage \in [Export -> {"none", "ready", "posted", "holding", "done"}]
    /\ hold \in [Export -> 0..MaxHold]
    /\ failed \subseteq Export
    /\ counters \in [accepted : Nat, rejected : Nat, failed : Nat]
    /\ fate \in [Span -> {"open", "accepted", "rejected", "failed", "unfit", "over"}]
    /\ unsure \subseteq Span

(* Nothing is packed before all is measured, and what left before then was *)
(* unfit; a span that Hue did not answer for fails its export.             *)
Staged(e) ==
    /\ stage[e] \in {"none", "done"} => request[e] = NoRequest
    /\ stage[e] = "done" => placed[e] = <<>> /\ work[e] = <<>>
    /\ stage[e] # "none" \/ work[e] # <<>> => todo[e] = <<>>
    /\ \A s \in SpansOf(e) : fate[s] \notin {"open", "unfit"} => todo[e] = <<>>
    /\ \A s \in SpansOf(e) : fate[s] \in {"failed", "unfit", "over"} => e \in failed

Counted ==
    counters.accepted + counters.rejected + counters.failed
        = Cardinality({s \in Span : fate[s] # "open"})

(* The count of a trace and what its root showed are of losses it had; only *)
(* a root that Hue may have stored shows any; and what it does not show is *)
(* still counted.                                                          *)
Kept ==
    \A t \in Traces :
        /\ dropped[t] <= lost[t] /\ shown[t] <= lost[t]
        /\ shown[t] > 0 =>
              \E r \in Roots \cap Span : TraceOf[r] = t /\ (fate[r] = "accepted" \/ r \in unsure)
        /\ Uncertain(t) \/ lost[t] <= dropped[t] + shown[t]

UnfitOf(e, r) == Cardinality(Unfit(e, TraceOf[r]))

(* A request carries counts of losses, on roots, and on a root those of    *)
(* the spans that its export could not fit.                                *)
Carrying(e) ==
    /\ \A t \in Traces :
          /\ request[e].carried[t] <= lost[t]
          /\ request[e].carried[t] > 0 =>
                \E r \in Roots \cap SpansIn(request[e].batch) : TraceOf[r] = t
    /\ \A r \in Roots \cap SpansIn(request[e].batch) :
          UnfitOf(e, r) <= request[e].carried[TraceOf[r]]

(* Before that they are counted, and after it the root shows them.         *)
Unfitted(e) ==
    \A r \in Roots \cap SpansOf(e) :
        /\ fate[r] = "open" => UnfitOf(e, r) <= dropped[TraceOf[r]]
        /\ fate[r] = "accepted" => UnfitOf(e, r) <= shown[TraceOf[r]]

Lines == \A e \in Export : Lined(e) /\ Staged(e)
Losses == Kept /\ \A e \in Export : Carrying(e) /\ Unfitted(e)
DeliveryInv == Typed /\ Lines /\ Counted /\ Losses

-----------------------------------------------------------------------------
(* Constants, and batches of records.                                      *)

LEMMA SpansAreFinite ==
  /\ \A S \in SUBSET Span : IsFiniteSet(S) /\ Cardinality(S) \in Nat
  /\ \A e \in Export : SpansOf(e) \in SUBSET Span
  /\ \A s \in Span : \E e \in Export : s \in SpansOf(e)
  /\ \A s \in Span : TraceOf[s] \in Traces
  /\ \A e, f \in Export : e # f => SpansOf(e) \cap SpansOf(f) = {}
<1>1. \A e \in Export : SpansOf(e) \in SUBSET Span
  BY DEF Span
<1> QED
  BY <1>1, DeliveryAssumption, FS_Subset, FS_CardinalityType DEF Span, Traces

LEMMA RecordType ==
  /\ \A r \in Record : r.span \in Span /\ r.shed \in BOOLEAN
  /\ \A s \in Span : \A b \in BOOLEAN : [span |-> s, shed |-> b] \in Record
BY DEF Record

LEMMA SpansInBatch ==
  ASSUME NEW b \in Seq(Record)
  PROVE  /\ SpansIn(b) = {b[i].span : i \in 1..Len(b)}
         /\ SpansIn(b) \in SUBSET Span
         /\ DOMAIN b = 1..Len(b) /\ Len(b) \in Nat
         /\ \A i \in 1..Len(b) : b[i] \in Record
<1>1. DOMAIN b = 1..Len(b) /\ Len(b) \in Nat /\ \A i \in 1..Len(b) : b[i] \in Record
  OBVIOUS
<1>2. SpansIn(b) = {b[i].span : i \in 1..Len(b)}
  BY <1>1 DEF SpansIn, ToSet
<1> QED
  BY <1>1, <1>2, RecordType

LEMMA NoBatch ==
  /\ <<>> \in Seq(Record) /\ Clean(<<>>) /\ SpansIn(<<>>) = {} /\ Len(<<>>) = 0
<1>1. <<>> \in Seq(Record) /\ Len(<<>>) = 0
  BY EmptySeq
<1>2. \A i \in DOMAIN <<>> : FALSE
  OBVIOUS
<1> QED
  BY <1>1, <1>2 DEF Clean, SpansIn, ToSet

LEMMA CleanCount ==
  ASSUME NEW b \in Seq(Record), Clean(b)
  PROVE  Cardinality(SpansIn(b)) = Len(b) /\ b \in Batch
<1> DEFINE n == Len(b)
           at == [i \in 1..n |-> b[i].span]
<1>1. n \in Nat /\ SpansIn(b) = {at[i] : i \in 1..n} /\ SpansIn(b) \in SUBSET Span
  BY SpansInBatch
<1>2. \A i, j \in 1..n : at[i] = at[j] => i = j
  BY SpansInBatch DEF Clean
<1> HIDE DEF n
<1>3. at \in Bijection(1..n, SpansIn(b))
  <2>1. at \in Surjection(1..n, SpansIn(b))
    <3>1. at \in [1..n -> SpansIn(b)] /\ \A s \in SpansIn(b) : \E i \in 1..n : at[i] = s
      BY <1>1
    <3> QED
      BY <3>1 DEF Surjection
  <2>2. at \in Injection(1..n, SpansIn(b))
    <3>1. at \in [1..n -> SpansIn(b)]
      BY <1>1
    <3> QED
      BY <1>2, <3>1 DEF Injection, IsInjective
  <2> QED
    BY <2>1, <2>2 DEF Bijection
<1>4. IsFiniteSet(1..n) /\ Cardinality(1..n) = n
  <2>1. IsFiniteSet(1..n) /\ Cardinality(1..n) = IF 1 > n THEN 0 ELSE n - 1 + 1
    BY <1>1, FS_Interval
  <2> QED
    BY <1>1, <2>1
<1>5. Cardinality(SpansIn(b)) = n
  <2>1. ExistsBijection(1..n, SpansIn(b))
    BY <1>3 DEF ExistsBijection
  <2> QED
    BY <1>4, <2>1, FS_Bijection
<1>6. Cardinality(SpansIn(b)) <= Cardinality(Span)
  BY <1>1, DeliveryAssumption, FS_Subset
<1>7. n \in 0..Cardinality(Span)
  BY <1>1, <1>5, <1>6, SpansAreFinite
<1>8. b \in [1..n -> Record]
  BY SpansInBatch DEF n
<1> QED
  BY <1>5, <1>7, <1>8 DEF Batch, n

LEMMA TakeHead ==
  ASSUME NEW b \in Seq(Record), b # <<>>, Clean(b)
  PROVE  /\ Head(b) \in Record /\ Tail(b) \in Seq(Record) /\ Clean(Tail(b))
         /\ SpansIn(b) = SpansIn(Tail(b)) \cup {Head(b).span}
         /\ Head(b).span \notin SpansIn(Tail(b))
<1>1. /\ Head(b) \in Record /\ Head(b) = b[1] /\ Tail(b) \in Seq(Record)
      /\ Len(b) \in Nat \ {0} /\ Len(Tail(b)) = Len(b) - 1
      /\ \A i \in 1..Len(b) - 1 : Tail(b)[i] = b[i + 1]
  BY HeadTailProperties, EmptySeq
<1>2. /\ SpansIn(b) = {b[i].span : i \in 1..Len(b)}
      /\ SpansIn(Tail(b)) = {Tail(b)[i].span : i \in 1..Len(b) - 1}
      /\ DOMAIN b = 1..Len(b) /\ DOMAIN Tail(b) = 1..Len(b) - 1
  BY <1>1, SpansInBatch
<1>3. \A i, j \in 1..Len(b) : b[i].span = b[j].span => i = j
  BY <1>2 DEF Clean
<1>4. \A i \in 1..Len(b) : i = 1 \/ (i - 1 \in 1..Len(b) - 1 /\ Tail(b)[i - 1] = b[i])
  BY <1>1
<1>5. \A i \in 1..Len(b) - 1 : i + 1 \in 1..Len(b) /\ i + 1 # 1
  BY <1>1
<1>6. Clean(Tail(b))
  BY <1>1, <1>2, <1>3, <1>5 DEF Clean
<1>7. SpansIn(b) = SpansIn(Tail(b)) \cup {Head(b).span}
  <2>1. 1 \in 1..Len(b)
    BY <1>1
  <2>2. \A i \in 1..Len(b) : b[i].span \in SpansIn(Tail(b)) \cup {Head(b).span}
    BY <1>1, <1>2, <1>4
  <2>3. \A i \in 1..Len(b) - 1 : Tail(b)[i].span \in SpansIn(b)
    BY <1>1, <1>2, <1>5
  <2>4. Head(b).span \in SpansIn(b)
    BY <1>1, <1>2, <2>1
  <2> QED
    BY <1>2, <2>2, <2>3, <2>4, Zenon
<1>8. Head(b).span \notin SpansIn(Tail(b))
  <2>1. 1 \in 1..Len(b)
    BY <1>1
  <2> QED
    BY <1>1, <1>2, <1>3, <1>5, <2>1
<1> QED
  BY <1>1, <1>6, <1>7, <1>8

LEMMA AppendRecord ==
  ASSUME NEW b \in Seq(Record), Clean(b), NEW r \in Record, r.span \notin SpansIn(b)
  PROVE  /\ Append(b, r) \in Seq(Record) /\ Clean(Append(b, r))
         /\ SpansIn(Append(b, r)) = SpansIn(b) \cup {r.span}
<1> DEFINE c == Append(b, r)
           n == Len(b)
<1>1. /\ c \in Seq(Record) /\ Len(c) = n + 1 /\ n \in Nat /\ c[n + 1] = r
      /\ \A i \in 1..n : c[i] = b[i]
  BY AppendProperties
<1>2. /\ SpansIn(b) = {b[i].span : i \in 1..n}
      /\ SpansIn(c) = {c[i].span : i \in 1..n + 1}
      /\ DOMAIN b = 1..n /\ DOMAIN c = 1..n + 1
  <2> HIDE DEF c
  <2> QED
    BY <1>1, SpansInBatch
<1> HIDE DEF c, n
<1>3. \A i \in 1..n + 1 : i \in 1..n \/ i = n + 1
  BY <1>1
<1>4. \A i \in 1..n : i \in 1..n + 1
  BY <1>1
<1>5. n + 1 \in 1..n + 1
  BY <1>1
<1>6. SpansIn(c) = SpansIn(b) \cup {r.span}
  BY <1>1, <1>2, <1>3, <1>4, <1>5
<1>7. Clean(c)
  <2> SUFFICES ASSUME NEW i \in 1..n + 1, NEW j \in 1..n + 1, c[i].span = c[j].span PROVE i = j
    BY <1>2 DEF Clean
  <2>1. \A k \in 1..n : b[k].span # r.span
    BY <1>2
  <2> QED
    BY <1>1, <1>2, <1>3, <2>1 DEF Clean
<1> QED
  BY <1>1, <1>6, <1>7 DEF c

LEMMA CutBatch ==
  ASSUME NEW b \in Seq(Record), Clean(b), NEW n \in 1..Len(b)
  PROVE  LET p == SubSeq(b, 1, n)
             q == SubSeq(b, n + 1, Len(b))
         IN  /\ p \in Seq(Record) /\ q \in Seq(Record) /\ Clean(p) /\ Clean(q)
             /\ SpansIn(p) \cap SpansIn(q) = {} /\ SpansIn(b) = SpansIn(p) \cup SpansIn(q)
<1> DEFINE p == SubSeq(b, 1, n)
           q == SubSeq(b, n + 1, Len(b))
           l == Len(b)
<1>1. /\ l \in Nat /\ DOMAIN b = 1..l /\ n \in Nat /\ n >= 1 /\ n <= l
      /\ \A i \in 1..l : b[i] \in Record
  BY SpansInBatch
<1>2. p \in Seq(Record) /\ Len(p) = n /\ \A i \in 1..n : p[i] = b[i]
  <2>1. \A i \in 1..n : b[i] \in Record
    BY <1>1
  <2>2. /\ p \in Seq(Record) /\ Len(p) = IF 1 <= n THEN n - 1 + 1 ELSE 0
        /\ \A i \in 1..n - 1 + 1 : p[i] = b[1 + i - 1]
    BY <1>1, <2>1, SubSeqProperties
  <2> HIDE DEF p
  <2> QED
    BY <1>1, <2>2
<1>3. q \in Seq(Record) /\ Len(q) = l - n /\ \A i \in 1..l - n : q[i] = b[n + i]
  <2>1. \A i \in n + 1..l : b[i] \in Record
    BY <1>1
  <2>2. n + 1 \in Int /\ l \in Int
    BY <1>1
  <2>3. /\ q \in Seq(Record) /\ Len(q) = IF n + 1 <= l THEN l - (n + 1) + 1 ELSE 0
        /\ \A i \in 1..l - (n + 1) + 1 : q[i] = b[n + 1 + i - 1]
    BY <2>1, <2>2, SubSeqProperties
  <2> HIDE DEF q, l
  <2>4. l - (n + 1) + 1 = l - n /\ \A i \in 1..l - n : n + 1 + i - 1 = n + i
    BY <1>1
  <2>5. Len(q) = l - n
    BY <1>1, <2>3
  <2>6. \A i \in 1..l - n : q[i] = b[n + i]
    BY <2>3, <2>4
  <2> QED
    BY <2>3, <2>5, <2>6
<1> HIDE DEF p, q
<1>4. /\ SpansIn(b) = {b[i].span : i \in 1..l} /\ SpansIn(p) = {p[i].span : i \in 1..n}
      /\ SpansIn(q) = {q[i].span : i \in 1..l - n} /\ DOMAIN p = 1..n /\ DOMAIN q = 1..l - n
  BY <1>2, <1>3, SpansInBatch
<1>5. \A i, j \in 1..l : b[i].span = b[j].span => i = j
  BY <1>1 DEF Clean
<1> HIDE DEF l
<1>6. \A i \in 1..n : i \in 1..l
  BY <1>1
<1>7. \A i \in 1..l - n : n + i \in 1..l /\ n + i \notin 1..n
  BY <1>1
<1>8. \A i \in 1..l : i \in 1..n \/ (i - n \in 1..l - n /\ n + (i - n) = i)
  BY <1>1
<1>9. Clean(p)
  BY <1>2, <1>4, <1>5, <1>6 DEF Clean
<1>10. Clean(q)
  <2>1. \A i, j \in 1..l - n : n + i = n + j => i = j
    BY <1>1
  <2> QED
    BY <1>3, <1>4, <1>5, <1>7, <2>1 DEF Clean
<1>11. SpansIn(p) \cap SpansIn(q) = {}
  BY <1>2, <1>3, <1>4, <1>5, <1>6, <1>7
<1>12. SpansIn(b) = SpansIn(p) \cup SpansIn(q)
  <2>1. \A i \in 1..l : b[i].span \in SpansIn(p) \cup SpansIn(q)
    <3> SUFFICES ASSUME NEW i \in 1..l PROVE b[i].span \in SpansIn(p) \cup SpansIn(q)
      OBVIOUS
    <3>1. CASE i \in 1..n
      BY <1>2, <1>4, <3>1
    <3>2. CASE i - n \in 1..l - n /\ n + (i - n) = i
      <4>1. q[i - n] = b[i]
        BY <1>3, <3>2
      <4> QED
        BY <1>4, <3>2, <4>1
    <3> QED
      BY <1>8, <3>1, <3>2
  <2>2. \A i \in 1..n : p[i].span \in SpansIn(b)
    BY <1>2, <1>4, <1>6
  <2>3. \A i \in 1..l - n : q[i].span \in SpansIn(b)
    BY <1>3, <1>4, <1>7
  <2> QED
    BY <1>4, <2>1, <2>2, <2>3, Zenon
<1> QED
  BY <1>2, <1>3, <1>9, <1>10, <1>11, <1>12 DEF p, q, l

-----------------------------------------------------------------------------
(* The batches an export has to deliver.                                   *)

LEMMA ItemType ==
  /\ \A x \in Item : x.batch \in Seq(Record) /\ x.refitted \in BOOLEAN
  /\ \A b \in Seq(Record) : \A v \in BOOLEAN :
        /\ [batch |-> b, refitted |-> v] \in Item
        /\ [batch |-> b, refitted |-> v].batch = b
BY DEF Item

LEMMA NoWork ==
  /\ <<>> \in Seq(Item) /\ Separate(<<>>) /\ InWork(<<>>) = {}
<1>1. <<>> \in Seq(Item) /\ \A i \in DOMAIN <<>> : FALSE
  BY EmptySeq
<1> QED
  BY <1>1 DEF Separate, InWork

LEMMA SpansInWork ==
  ASSUME NEW w \in Seq(Item)
  PROVE  /\ InWork(w) \in SUBSET Span
         /\ \A i \in 1..Len(w) : w[i] \in Item /\ w[i].batch \in Seq(Record)
         /\ DOMAIN w = 1..Len(w) /\ Len(w) \in Nat
<1>1. DOMAIN w = 1..Len(w) /\ Len(w) \in Nat /\ \A i \in 1..Len(w) : w[i] \in Item
  OBVIOUS
<1>2. \A i \in 1..Len(w) : w[i].batch \in Seq(Record)
  BY <1>1, ItemType
<1>3. \A i \in 1..Len(w) : SpansIn(w[i].batch) \in SUBSET Span
  BY <1>2, SpansInBatch
<1> QED
  BY <1>1, <1>2, <1>3 DEF InWork

LEMMA TakeWork ==
  ASSUME NEW w \in Seq(Item), w # <<>>, Separate(w)
  PROVE  /\ Head(w) \in Item /\ Tail(w) \in Seq(Item)
         /\ Clean(Head(w).batch) /\ Separate(Tail(w))
         /\ SpansIn(Head(w).batch) \cap InWork(Tail(w)) = {}
         /\ InWork(w) = SpansIn(Head(w).batch) \cup InWork(Tail(w))
<1> DEFINE n == Len(w)
           v == Tail(w)
           in(i) == SpansIn(w[i].batch)
<1>1. /\ Head(w) \in Item /\ Head(w) = w[1] /\ v \in Seq(Item)
      /\ n \in Nat \ {0} /\ Len(v) = n - 1 /\ \A i \in 1..n - 1 : v[i] = w[i + 1]
  BY HeadTailProperties, EmptySeq
<1>2. DOMAIN w = 1..n /\ DOMAIN v = 1..n - 1
  <2> HIDE DEF v
  <2> QED
    BY <1>1, SpansInWork
<1>3. /\ \A i \in 1..n : Clean(w[i].batch)
      /\ \A i, j \in 1..n : i # j => in(i) \cap in(j) = {}
  BY <1>2 DEF Separate
<1> HIDE DEF v, n
<1>4. 1 \in 1..n /\ \A i \in 1..n - 1 : i + 1 \in 1..n /\ i + 1 # 1
  BY <1>1
<1>5. \A i \in 1..n : i = 1 \/ (i - 1 \in 1..n - 1 /\ v[i - 1] = w[i])
  BY <1>1
<1>6. \A i, j \in 1..n - 1 : i # j => i + 1 # j + 1
  BY <1>1
<1>7. InWork(v) = UNION {in(i + 1) : i \in 1..n - 1} /\ InWork(w) = UNION {in(i) : i \in 1..n}
  BY <1>1, <1>2 DEF InWork
<1>8. Separate(v)
  <2>1. \A i \in 1..n - 1 : SpansIn(v[i].batch) = in(i + 1) /\ Clean(v[i].batch)
    BY <1>1, <1>3, <1>4
  <2> HIDE DEF in
  <2>2. \A i, j \in 1..n - 1 : i # j => SpansIn(v[i].batch) \cap SpansIn(v[j].batch) = {}
    BY <2>1, <1>3, <1>4, <1>6
  <2> QED
    BY <1>2, <2>1, <2>2 DEF Separate
<1>9. in(1) \cap InWork(v) = {}
  <2> HIDE DEF in
  <2> QED
    BY <1>3, <1>4, <1>7
<1>10. InWork(w) = in(1) \cup InWork(v)
  <2>1. \A i \in 1..n : i = 1 \/ \E k \in 1..n - 1 : in(i) = in(k + 1)
    <3>1. \A i \in 1..n : i - 1 + 1 = i
      BY <1>1
    <3> QED
      BY <1>5, <3>1
  <2> HIDE DEF in
  <2> QED
    BY <1>4, <1>7, <2>1
<1> QED
  BY <1>1, <1>3, <1>4, <1>8, <1>9, <1>10 DEF v

LEMMA PutWork ==
  ASSUME NEW w \in Seq(Item), Separate(w), NEW b \in Seq(Record), NEW again \in BOOLEAN,
         Clean(b), SpansIn(b) \cap InWork(w) = {}
  PROVE  LET v == <<[batch |-> b, refitted |-> again]>> \o w
         IN  /\ v \in Seq(Item) /\ Separate(v)
             /\ InWork(v) = SpansIn(b) \cup InWork(w)
<1> DEFINE item == [batch |-> b, refitted |-> again]
           v == <<item>> \o w
           n == Len(w)
           in(i) == SpansIn(w[i].batch)
<1>1. /\ v \in Seq(Item) /\ Len(v) = n + 1 /\ n \in Nat
      /\ v[1] = item /\ \A i \in 1..n : v[i + 1] = w[i]
  <2>1. item \in Item
    BY ItemType
  <2> HIDE DEF item
  <2>2. <<item>> \in Seq(Item) /\ Len(<<item>>) = 1 /\ <<item>>[1] = item
    BY <2>1
  <2>3. /\ v \in Seq(Item) /\ Len(v) = 1 + n
        /\ \A i \in 1..1 + n : v[i] = IF i <= 1 THEN <<item>>[i] ELSE w[i - 1]
    BY <2>2, ConcatProperties
  <2> HIDE DEF v
  <2>4. n \in Nat
    BY SpansInWork
  <2> HIDE DEF n
  <2>5. \A i \in 1..n : i + 1 \in 1..1 + n /\ ~(i + 1 <= 1) /\ (i + 1) - 1 = i
    BY <2>4
  <2>6. v[1] = item
    BY <2>2, <2>3, <2>4
  <2>7. \A i \in 1..n : v[i + 1] = w[i]
    BY <2>3, <2>5
  <2> QED
    BY <2>3, <2>4, <2>6, <2>7
<1>2. item.batch = b
  OBVIOUS
<1>3. DOMAIN w = 1..n /\ DOMAIN v = 1..n + 1
  <2> HIDE DEF v
  <2> QED
    BY <1>1, SpansInWork
<1> HIDE DEF v, n, item
<1>4. \A i \in 1..n + 1 : i = 1 \/ \E k \in 1..n : i = k + 1
  <2>1. \A i \in 1..n + 1 : i = 1 \/ (i - 1 \in 1..n /\ i = (i - 1) + 1)
    BY <1>1
  <2> QED
    BY <2>1
<1>5. 1 \in 1..n + 1 /\ \A k \in 1..n : k + 1 \in 1..n + 1
  BY <1>1
<1>6. /\ SpansIn(v[1].batch) = SpansIn(b) /\ Clean(v[1].batch)
      /\ \A k \in 1..n : SpansIn(v[k + 1].batch) = in(k) /\ Clean(v[k + 1].batch)
  BY <1>1, <1>2, <1>3 DEF Separate
<1>7. /\ \A i, j \in 1..n : i # j => in(i) \cap in(j) = {}
      /\ InWork(w) = UNION {in(i) : i \in 1..n}
      /\ InWork(v) = UNION {SpansIn(v[i].batch) : i \in 1..n + 1}
  BY <1>3 DEF Separate, InWork
<1> HIDE DEF in
<1>8. \A k \in 1..n : in(k) \cap SpansIn(b) = {}
  BY <1>7
<1>9. Separate(v)
  <2>1. \A i \in 1..n + 1 : Clean(v[i].batch)
    BY <1>4, <1>6
  <2>2. ASSUME NEW i \in 1..n + 1, NEW j \in 1..n + 1, i # j
        PROVE  SpansIn(v[i].batch) \cap SpansIn(v[j].batch) = {}
    <3>1. CASE i = 1
      BY <1>4, <1>6, <1>8, <2>2, <3>1
    <3>2. CASE j = 1
      BY <1>4, <1>6, <1>8, <2>2, <3>2
    <3>3. CASE i # 1 /\ j # 1
      <4>1. PICK k \in 1..n : i = k + 1
        BY <1>4, <3>3
      <4>2. PICK l \in 1..n : j = l + 1
        BY <1>4, <3>3
      <4>3. k # l
        BY <2>2, <4>1, <4>2
      <4> QED
        BY <1>6, <1>7, <4>1, <4>2, <4>3
    <3> QED
      BY <3>1, <3>2, <3>3
  <2> QED
    BY <1>3, <2>1, <2>2 DEF Separate
<1>10. InWork(v) = SpansIn(b) \cup InWork(w)
  BY <1>4, <1>5, <1>6, <1>7
<1> QED
  BY <1>1, <1>9, <1>10 DEF v, item

-----------------------------------------------------------------------------
(* What the parts of the invariant say of one export.                      *)

LEMMA ExportTypes ==
  ASSUME Typed, NEW e \in Export
  PROVE  /\ todo[e] \in Seq(Record) /\ placed[e] \in Seq(Record) /\ work[e] \in Seq(Item)
         /\ request[e].batch \in Seq(Record) /\ request[e].carried \in [Traces -> Nat]
         /\ request[e].tries \in 0..MaxRetries
         /\ request[e] \in [batch : Seq(Record), carried : [Traces -> Nat], tries : 0..MaxRetries]
<1>1. request[e] \in [batch : Seq(Record), carried : [Traces -> Nat], tries : 0..MaxRetries]
  BY DEF Typed
<1> QED
  BY <1>1 DEF Typed

LEMMA EmptyRequest ==
  /\ NoRequest \in [batch : Seq(Record), carried : [Traces -> Nat], tries : 0..MaxRetries]
  /\ NoRequest.batch = <<>> /\ NoRequest.tries = 0
  /\ SpansIn(NoRequest.batch) = {} /\ \A t \in Traces : NoRequest.carried[t] = 0
<1>1. <<>> \in Seq(Record) /\ 0 \in 0..MaxRetries
  BY NoBatch, DeliveryAssumption
<1>2. NoRequest.batch = <<>> /\ NoRequest.tries = 0 /\ NoRequest.carried = [t \in Traces |-> 0]
  BY DEF NoRequest
<1>3. NoRequest \in [batch : Seq(Record), carried : [Traces -> Nat], tries : 0..MaxRetries]
  <2>1. [t \in Traces |-> 0] \in [Traces -> Nat]
    OBVIOUS
  <2> QED
    BY <1>1, <2>1 DEF NoRequest
<1> QED
  BY <1>2, <1>3, NoBatch

(* A span in a request is open and of its export.                          *)
LEMMA InRequest ==
  ASSUME Typed, NEW e \in Export, Lined(e)
  PROVE  /\ Clean(request[e].batch)
         /\ SpansIn(request[e].batch) \in SUBSET Opens(e)
         /\ Opens(e) \in SUBSET Span
         /\ \A s \in Opens(e) : fate[s] = "open" /\ s \in SpansOf(e)
BY SpansAreFinite DEF Lined, Holding, Opens

(* A trace has one root.                                                   *)
LEMMA OneRoot ==
  ASSUME NEW r \in Roots \cap Span, NEW s \in Roots \cap Span, TraceOf[r] = TraceOf[s]
  PROVE  r = s
BY DeliveryAssumption

(* An export that does nothing keeps its part of the invariant.            *)
LEMMA ApartLines ==
  ASSUME NEW f \in Export, Lined(f), Staged(f),
         todo'[f] = todo[f], placed'[f] = placed[f], work'[f] = work[f],
         request'[f] = request[f], stage'[f] = stage[f],
         \A s \in SpansOf(f) : fate'[s] = fate[s], f \in failed => f \in failed'
  PROVE  Lined(f)' /\ Staged(f)'
<1>1. Opens(f)' = Opens(f)
  BY DEF Opens
<1>2. Lined(f)'
  BY <1>1 DEF Lined
<1>3. Staged(f)'
  BY DEF Staged
<1> QED
  BY <1>2, <1>3

LEMMA SameUnfit ==
  ASSUME NEW e \in Export, NEW t,
         \A s \in SpansOf(e) : fate'[s] = "unfit" <=> fate[s] = "unfit"
  PROVE  Unfit(e, t)' = Unfit(e, t)
BY DEF Unfit

LEMMA UnfitFinite ==
  ASSUME NEW e \in Export, NEW t
  PROVE  IsFiniteSet(Unfit(e, t)) /\ Cardinality(Unfit(e, t)) \in Nat
<1>1. Unfit(e, t) \in SUBSET Span
  BY SpansAreFinite DEF Unfit
<1> QED
  BY <1>1, SpansAreFinite

(* Spans that leave are counted.                                           *)
LEMMA CountLeaves ==
  ASSUME NEW B \in SUBSET Span, \A s \in B : fate[s] = "open",
         \A s \in Span : IF s \in B THEN fate'[s] # "open" ELSE fate'[s] = fate[s]
  PROVE  /\ Cardinality({s \in Span : fate'[s] # "open"})
              = Cardinality({s \in Span : fate[s] # "open"}) + Cardinality(B)
         /\ Cardinality({s \in Span : fate[s] # "open"}) \in Nat /\ Cardinality(B) \in Nat
<1> DEFINE A == {s \in Span : fate[s] # "open"}
           C == {s \in Span : fate'[s] # "open"}
<1>1. C = A \cup B /\ A \cap B = {}
  OBVIOUS
<1>2. A \in SUBSET Span
  OBVIOUS
<1> HIDE DEF A, C
<1>3. IsFiniteSet(A) /\ IsFiniteSet(B) /\ Cardinality(A) \in Nat /\ Cardinality(B) \in Nat
  BY <1>2, SpansAreFinite
<1>4. /\ Cardinality(A \cup B) = Cardinality(A) + Cardinality(B) - Cardinality(A \cap B)
      /\ Cardinality(A \cap B) = 0
  BY <1>1, <1>3, FS_Union, FS_EmptySet
<1>5. Cardinality(A \cup B) = Cardinality(A) + Cardinality(B)
  BY <1>3, <1>4
<1>6. Cardinality(C) = Cardinality(A) + Cardinality(B)
  BY <1>1, <1>5, Zenon
<1> QED
  BY <1>3, <1>6 DEF A, C

-----------------------------------------------------------------------------
LEMMA DeliveryStarts == DeliveryInit => DeliveryInv
<1> SUFFICES ASSUME DeliveryInit PROVE DeliveryInv
  OBVIOUS
<1> DEFINE first(e) == [i \in DOMAIN Given[e] |-> [span |-> Given[e][i], shed |-> FALSE]]
<1>1. ASSUME NEW e \in Export
      PROVE  /\ first(e) \in Seq(Record) /\ Clean(first(e)) /\ SpansIn(first(e)) = SpansOf(e)
  <2>1. /\ Given[e] \in Seq(Span) /\ DOMAIN Given[e] = 1..Len(Given[e]) /\ Len(Given[e]) \in Nat
        /\ \A i \in 1..Len(Given[e]) : Given[e][i] \in Span
        /\ \A i, j \in 1..Len(Given[e]) : Given[e][i] = Given[e][j] => i = j
    <3>1. Given[e] \in Seq(Span) /\ IsInjective(Given[e])
      BY DeliveryAssumption
    <3>2. /\ DOMAIN Given[e] = 1..Len(Given[e]) /\ Len(Given[e]) \in Nat
          /\ \A i \in 1..Len(Given[e]) : Given[e][i] \in Span
      BY <3>1
    <3>3. \A i, j \in DOMAIN Given[e] : Given[e][i] = Given[e][j] => i = j
      BY <3>1 DEF IsInjective
    <3> QED
      BY <3>1, <3>2, <3>3
  <2>2. first(e) = [i \in 1..Len(Given[e]) |-> [span |-> Given[e][i], shed |-> FALSE]]
    BY <2>1
  <2>3. \A i \in 1..Len(Given[e]) : [span |-> Given[e][i], shed |-> FALSE] \in Record
    BY <2>1, RecordType
  <2>4. first(e) \in Seq(Record)
    BY <2>1, <2>2, <2>3, IsASeq
  <2>5. /\ DOMAIN first(e) = 1..Len(Given[e])
        /\ \A i \in 1..Len(Given[e]) : first(e)[i].span = Given[e][i]
    BY <2>2
  <2> HIDE DEF first
  <2>6. Clean(first(e))
    BY <2>1, <2>5 DEF Clean
  <2>7. SpansIn(first(e)) = {first(e)[i].span : i \in 1..Len(Given[e])}
    <3>1. Len(first(e)) = Len(Given[e])
      BY <2>1, <2>4, <2>5
    <3> QED
      BY <2>4, <3>1, SpansInBatch
  <2>8. SpansOf(e) = {Given[e][i] : i \in 1..Len(Given[e])}
    BY <2>1 DEF SpansOf, ToSet
  <2> QED
    BY <2>4, <2>5, <2>6, <2>7, <2>8
<1>2. todo = [e \in Export |-> first(e)]
  BY DEF DeliveryInit
<1> HIDE DEF first
<1>3. Typed
  <2>1. todo \in [Export -> Seq(Record)]
    BY <1>1, <1>2
  <2>2. placed \in [Export -> Seq(Record)] /\ work \in [Export -> Seq(Item)]
    BY NoBatch, NoWork DEF DeliveryInit
  <2>3. request \in [Export -> [batch : Seq(Record), carried : [Traces -> Nat], tries : 0..MaxRetries]]
    BY EmptyRequest DEF DeliveryInit
  <2>4. counters \in [accepted : Nat, rejected : Nat, failed : Nat]
    BY DEF DeliveryInit
  <2>5. hold \in [Export -> 0..MaxHold]
    BY DeliveryAssumption DEF DeliveryInit
  <2>6. limit \in Limits
    BY DeliveryAssumption DEF DeliveryInit
  <2> QED
    BY <2>1, <2>2, <2>3, <2>4, <2>5, <2>6 DEF DeliveryInit, Typed
<1>4. ASSUME NEW e \in Export PROVE Lined(e) /\ Staged(e)
  <2>1. Opens(e) = SpansOf(e)
    BY SpansAreFinite DEF DeliveryInit, Opens
  <2>2. /\ todo[e] = first(e) /\ placed[e] = <<>> /\ work[e] = <<>> /\ request[e] = NoRequest
        /\ stage[e] = "none"
    BY <1>2 DEF DeliveryInit
  <2>3. Lined(e)
    BY <1>1, <2>1, <2>2, NoBatch, NoWork, EmptyRequest DEF Lined, Holding
  <2>4. Staged(e)
    BY <2>2, SpansAreFinite DEF DeliveryInit, Staged
  <2> QED
    BY <2>3, <2>4
<1>5. Counted
  <2>1. {s \in Span : fate[s] # "open"} = {}
    BY DEF DeliveryInit
  <2>2. Cardinality({}) = 0
    BY FS_EmptySet
  <2>3. counters.accepted = 0 /\ counters.rejected = 0 /\ counters.failed = 0
    BY DEF DeliveryInit
  <2> QED
    BY <2>1, <2>2, <2>3 DEF Counted
<1>6. Losses
  <2>1. Kept
    BY DEF DeliveryInit, Kept
  <2>2. ASSUME NEW e \in Export PROVE Carrying(e) /\ Unfitted(e)
    <3>1. Carrying(e)
      BY EmptyRequest DEF DeliveryInit, Carrying
    <3>2. \A t : Unfit(e, t) = {}
      BY SpansAreFinite DEF DeliveryInit, Unfit
    <3>3. \A t : Cardinality(Unfit(e, t)) = 0
      BY <3>2, FS_EmptySet
    <3>4. \A r \in SpansOf(e) : r \in Span /\ TraceOf[r] \in Traces
      BY SpansAreFinite
    <3>5. Unfitted(e)
      BY <3>3, <3>4 DEF DeliveryInit, Unfitted, UnfitOf
    <3> QED
      BY <3>1, <3>5
  <2> QED
    BY <2>1, <2>2 DEF Losses
<1> QED
  BY <1>3, <1>4, <1>5, <1>6 DEF DeliveryInv, Lines

-----------------------------------------------------------------------------
(* What steps of an export have in common.                                 *)

Idle(f) ==
    /\ todo'[f] = todo[f] /\ placed'[f] = placed[f] /\ work'[f] = work[f]
    /\ request'[f] = request[f] /\ stage'[f] = stage[f]

LEMMA SameCarrying ==
  ASSUME NEW f \in Export, Carrying(f), Typed,
         request'[f].batch = request[f].batch, request'[f].carried = request[f].carried,
         \A t \in Traces : lost'[t] \in Nat /\ lost[t] <= lost'[t],
         \A s \in SpansOf(f) : fate'[s] = "unfit" <=> fate[s] = "unfit"
  PROVE  Carrying(f)'
<1>1. \A r \in Roots : UnfitOf(f, r)' = UnfitOf(f, r)
  BY SameUnfit DEF UnfitOf
<1>2. \A t \in Traces : request[f].carried[t] \in Nat /\ lost[t] \in Nat
  BY ExportTypes DEF Typed
<1>3. \A t \in Traces : request'[f].carried[t] <= lost'[t]
  BY <1>2 DEF Carrying
<1> QED
  BY <1>1, <1>3 DEF Carrying

LEMMA EmptyCarrying ==
  ASSUME NEW f \in Export, request'[f] = NoRequest, \A t \in Traces : lost'[t] \in Nat
  PROVE  Carrying(f)'
BY EmptyRequest DEF Carrying

(* Nothing is stored and nothing lost.                                     *)
LEMMA QuietStep ==
  ASSUME DeliveryInv, Typed', NEW e \in Export,
         \A f \in Export \ {e} : Idle(f),
         UNCHANGED <<dropped, lost, shown, unsure, fate, counters, failed>>,
         Lined(e)', Staged(e)', Carrying(e)'
  PROVE  DeliveryInv'
<1>1. ASSUME NEW f \in Export PROVE Lined(f)' /\ Staged(f)'
  <2>1. CASE f = e
    BY <2>1
  <2>2. CASE f # e
    BY <2>2, ApartLines DEF DeliveryInv, Lines, Idle
  <2> QED
    BY <2>1, <2>2
<1>2. Counted'
  BY DEF DeliveryInv, Counted
<1>3. Kept'
  BY DEF DeliveryInv, Losses, Kept, Uncertain
<1>4. ASSUME NEW f \in Export PROVE Carrying(f)' /\ Unfitted(f)'
  <2>1. Unfitted(f)'
    BY DEF DeliveryInv, Losses, Unfitted, UnfitOf, Unfit
  <2>2. CASE f = e
    BY <2>1, <2>2
  <2>3. CASE f # e
    <3>1. \A t \in Traces : lost'[t] \in Nat /\ lost[t] <= lost'[t]
      BY DEF DeliveryInv, Typed
    <3> QED
      BY <2>1, <2>3, <3>1, SameCarrying DEF DeliveryInv, Losses, Idle
  <2> QED
    BY <2>2, <2>3
<1> QED
  BY <1>1, <1>2, <1>3, <1>4 DEF DeliveryInv, Lines, Losses

(* As many of the trace as there are among the spans.                      *)
OfTrace(B, t) == Cardinality({s \in B : TraceOf[s] = t})

LEMMA OfTraceNat ==
  ASSUME NEW B \in SUBSET Span, NEW t
  PROVE  OfTrace(B, t) \in Nat
<1>1. {s \in B : TraceOf[s] = t} \in SUBSET Span
  OBVIOUS
<1> QED
  BY <1>1, SpansAreFinite DEF OfTrace

LEMMA DroppedTypes ==
  ASSUME Typed, NEW B \in SUBSET Span, CountDropped(B)
  PROVE  dropped' \in [Traces -> Nat] /\ lost' \in [Traces -> Nat]
<1> DEFINE n == [t \in Traces |-> OfTrace(B, t)]
<1>1. n \in [Traces -> Nat]
  BY OfTraceNat
<1>2. /\ dropped' = [t \in Traces |-> dropped[t] + n[t]] /\ lost' = [t \in Traces |-> lost[t] + n[t]]
  BY DEF CountDropped, OfTrace
<1>3. dropped \in [Traces -> Nat] /\ lost \in [Traces -> Nat]
  BY DEF Typed
<1> HIDE DEF n
<1> QED
  BY <1>1, <1>2, <1>3

LEMMA CountFailed ==
  ASSUME Typed, NEW n \in Nat, counters' = [counters EXCEPT !.failed = @ + n]
  PROVE  /\ counters' \in [accepted : Nat, rejected : Nat, failed : Nat]
         /\ counters'.accepted = counters.accepted /\ counters'.rejected = counters.rejected
         /\ counters'.failed = counters.failed + n
<1>1. counters \in [accepted : Nat, rejected : Nat, failed : Nat]
  BY DEF Typed
<1>2. /\ counters'.accepted = counters.accepted /\ counters'.rejected = counters.rejected
      /\ counters'.failed = counters.failed + n
  BY <1>1
<1>3. counters.failed + n \in Nat
  BY <1>1
<1>4. counters' = [accepted |-> counters.accepted, rejected |-> counters.rejected, failed |-> counters.failed + n]
  BY <1>1
<1> QED
  BY <1>1, <1>2, <1>3, <1>4

(* Spans are lost and counted on their traces.                             *)
LEMMA LossStep ==
  ASSUME DeliveryInv, Typed', NEW e \in Export, NEW B \in SUBSET Opens(e),
         NEW how \in {"failed", "unfit", "over"},
         \A f \in Export \ {e} : Idle(f),
         CountDropped(B), failed' = failed \cup {e},
         \A s \in Span : fate'[s] = IF s \in B THEN how ELSE fate[s],
         counters'.accepted = counters.accepted, counters'.rejected = counters.rejected,
         counters'.failed = counters.failed + Cardinality(B),
         UNCHANGED <<shown, unsure>>,
         Lined(e)', Staged(e)',
         request'[e] = NoRequest \/ request'[e] = request[e],
         how = "unfit" => todo[e] # <<>> /\ request'[e] = NoRequest
  PROVE  DeliveryInv'
<1>0. /\ B \in SUBSET Span /\ B \in SUBSET SpansOf(e) /\ \A s \in B : fate[s] = "open"
  BY InRequest, SpansAreFinite DEF DeliveryInv, Lines, Opens
<1>1. ASSUME NEW f \in Export, f # e PROVE \A s \in SpansOf(f) : fate'[s] = fate[s]
  BY <1>0, <1>1, SpansAreFinite
<1>2. ASSUME NEW f \in Export PROVE Lined(f)' /\ Staged(f)'
  <2>1. CASE f = e
    BY <2>1
  <2>2. CASE f # e
    BY <1>1, <2>2, ApartLines DEF DeliveryInv, Lines, Idle
  <2> QED
    BY <2>1, <2>2
<1>3. Counted'
  <2>1. /\ Cardinality({s \in Span : fate'[s] # "open"})
             = Cardinality({s \in Span : fate[s] # "open"}) + Cardinality(B)
        /\ Cardinality({s \in Span : fate[s] # "open"}) \in Nat /\ Cardinality(B) \in Nat
    <3>1. \A s \in Span : IF s \in B THEN fate'[s] # "open" ELSE fate'[s] = fate[s]
      OBVIOUS
    <3> QED
      BY <1>0, <3>1, CountLeaves
  <2>2. counters.accepted \in Nat /\ counters.rejected \in Nat /\ counters.failed \in Nat
    BY DEF DeliveryInv, Typed
  <2>3. counters.accepted + counters.rejected + counters.failed
          = Cardinality({s \in Span : fate[s] # "open"})
    BY DEF DeliveryInv, Counted
  <2>4. counters'.accepted + counters'.rejected + counters'.failed
          = Cardinality({s \in Span : fate'[s] # "open"})
    BY <2>1, <2>2, <2>3
  <2> QED
    BY <2>4 DEF Counted
<1>4. ASSUME NEW t \in Traces
      PROVE  /\ dropped'[t] = dropped[t] + OfTrace(B, t) /\ lost'[t] = lost[t] + OfTrace(B, t)
             /\ OfTrace(B, t) \in Nat /\ dropped[t] \in Nat /\ lost[t] \in Nat /\ shown[t] \in Nat
  <2>1. dropped'[t] = dropped[t] + OfTrace(B, t) /\ lost'[t] = lost[t] + OfTrace(B, t)
    BY DEF CountDropped, OfTrace
  <2>2. OfTrace(B, t) \in Nat
    BY <1>0, OfTraceNat
  <2>3. dropped[t] \in Nat /\ lost[t] \in Nat /\ shown[t] \in Nat
    BY DEF DeliveryInv, Typed
  <2> QED
    BY <2>1, <2>2, <2>3
<1>5. Kept'
  <2> SUFFICES ASSUME NEW t \in Traces
               PROVE  /\ dropped'[t] <= lost'[t] /\ shown'[t] <= lost'[t]
                      /\ shown'[t] > 0 =>
                           \E r \in Roots \cap Span :
                              TraceOf[r] = t /\ (fate'[r] = "accepted" \/ r \in unsure')
                      /\ Uncertain(t)' \/ lost'[t] <= dropped'[t] + shown'[t]
    BY DEF Kept
  <2>1. /\ dropped[t] <= lost[t] /\ shown[t] <= lost[t]
        /\ shown[t] > 0 =>
             \E r \in Roots \cap Span : TraceOf[r] = t /\ (fate[r] = "accepted" \/ r \in unsure)
        /\ Uncertain(t) \/ lost[t] <= dropped[t] + shown[t]
    BY DEF DeliveryInv, Losses, Kept
  <2>2. dropped'[t] <= lost'[t] /\ shown'[t] <= lost'[t]
    BY <1>4, <2>1
  <2>3. \A r \in Span : fate[r] \in {"accepted", "rejected"} => fate'[r] = fate[r]
    BY <1>0
  <2>4. Uncertain(t) => Uncertain(t)'
    BY <2>3 DEF Uncertain
  <2>5. lost[t] <= dropped[t] + shown[t] => lost'[t] <= dropped'[t] + shown'[t]
    BY <1>4
  <2> QED
    BY <2>1, <2>2, <2>3, <2>4, <2>5
<1>6. ASSUME NEW f \in Export PROVE Carrying(f)'
  <2>1. \A t \in Traces : lost'[t] \in Nat /\ lost[t] <= lost'[t]
    BY <1>4
  <2>2. CASE f = e /\ request'[e] = NoRequest
    BY <2>1, <2>2, EmptyCarrying
  <2>3. CASE f = e /\ how # "unfit" /\ request'[e] = request[e]
    <3>1. \A s \in SpansOf(e) : fate'[s] = "unfit" <=> fate[s] = "unfit"
      BY <1>0, <2>3, SpansAreFinite
    <3> QED
      BY <2>1, <2>3, <3>1, SameCarrying DEF DeliveryInv, Losses
  <2>4. CASE f # e
    <3>1. Idle(f)
      BY <2>4
    <3> QED
      BY <1>1, <2>1, <2>4, <3>1, SameCarrying DEF DeliveryInv, Losses, Idle
  <2> QED
    BY <2>2, <2>3, <2>4
<1>7. ASSUME NEW f \in Export PROVE Unfitted(f)'
  <2> SUFFICES ASSUME NEW r \in Roots \cap SpansOf(f)
               PROVE  /\ fate'[r] = "open" => UnfitOf(f, r)' <= dropped'[TraceOf[r]]
                      /\ fate'[r] = "accepted" => UnfitOf(f, r)' <= shown'[TraceOf[r]]
    BY DEF Unfitted
  <2>1. r \in Span /\ TraceOf[r] \in Traces
    BY SpansAreFinite
  <2>2. /\ fate'[r] = "open" => fate[r] = "open"
        /\ fate'[r] = "accepted" => fate[r] = "accepted"
    BY <2>1
  <2>3. /\ fate[r] = "open" => UnfitOf(f, r) <= dropped[TraceOf[r]]
        /\ fate[r] = "accepted" => UnfitOf(f, r) <= shown[TraceOf[r]]
    BY DEF DeliveryInv, Losses, Unfitted
  <2>4. UnfitOf(f, r) \in Nat
    BY UnfitFinite DEF UnfitOf
  <2>5. CASE f # e \/ how # "unfit"
    <3>1. \A s \in SpansOf(f) : fate'[s] = "unfit" <=> fate[s] = "unfit"
      BY <1>0, <1>1, <2>5, SpansAreFinite
    <3>2. UnfitOf(f, r)' = UnfitOf(f, r)
      BY <3>1, SameUnfit DEF UnfitOf
    <3> QED
      BY <1>4, <2>1, <2>2, <2>3, <2>4, <3>2
  <2>6. CASE f = e /\ how = "unfit"
    <3> DEFINE t == TraceOf[r]
               A == Unfit(e, t)
               C == {s \in B : TraceOf[s] = t}
    <3>1. fate[r] # "accepted"
      BY <2>6 DEF DeliveryInv, Lines, Staged
    <3>2. Unfit(e, t)' = A \cup C
      BY <1>0, <2>6, SpansAreFinite DEF Unfit
    <3>3. IsFiniteSet(A) /\ IsFiniteSet(C) /\ Cardinality(A) \in Nat /\ Cardinality(C) \in Nat
      <4>1. C \in SUBSET Span
        BY <1>0
      <4> QED
        BY <4>1, UnfitFinite, SpansAreFinite
    <3>4. Cardinality(C) = OfTrace(B, t) /\ Cardinality(A) = UnfitOf(f, r)
      BY <2>6 DEF OfTrace, UnfitOf
    <3>5. UnfitOf(f, r)' = Cardinality(A \cup C)
      BY <2>6, <3>2 DEF UnfitOf
    <3> HIDE DEF A, C
    <3>6. Cardinality(A \cup C) = Cardinality(A) + Cardinality(C) - Cardinality(A \cap C)
      BY <3>3, FS_Union
    <3>7. Cardinality(A \cap C) \in Nat
      BY <3>3, FS_Intersection, FS_CardinalityType
    <3>8. UnfitOf(f, r)' <= UnfitOf(f, r) + OfTrace(B, t)
      BY <3>3, <3>4, <3>5, <3>6, <3>7
    <3>9. UnfitOf(f, r)' \in Nat
      BY <3>3, <3>5, <3>6, FS_Union, FS_CardinalityType
    <3> QED
      BY <1>4, <2>1, <2>2, <2>3, <2>4, <3>1, <3>8, <3>9
  <2> QED
    BY <2>5, <2>6
<1> QED
  BY <1>2, <1>3, <1>5, <1>6, <1>7 DEF DeliveryInv, Lines, Losses

-----------------------------------------------------------------------------
(* The steps of an export.                                                 *)

LEMMA SizesAreNat ==
  /\ \A r \in Record : Bytes(r) \in Nat
  /\ Typed => limit \in Nat
  /\ Target \in Nat
<1>1. \A s \in Span : Full[s] \in Nat /\ Bare[s] \in Nat
  BY DeliveryAssumption
<1> QED
  BY <1>1, RecordType, DeliveryAssumption DEF Bytes, Typed

LEMMA BatchBytesNat ==
  ASSUME NEW b \in Seq(Record)
  PROVE  BatchBytes(b) \in Nat
<1> DEFINE size == [i \in DOMAIN b |-> Bytes(b[i])]
<1>1. DOMAIN b = 1..Len(b) /\ Len(b) \in Nat /\ \A i \in 1..Len(b) : b[i] \in Record
  BY SpansInBatch
<1>2. DOMAIN size = 1..Len(b) /\ \A i \in 1..Len(b) : size[i] \in Nat
  BY <1>1, SizesAreNat
<1>3. IsFiniteSet(1..Len(b))
  BY <1>1, FS_Interval
<1> HIDE DEF size
<1>4. Total(size, 1..Len(b)) \in Nat
  BY <1>2, <1>3, TotalNat
<1>5. SumFunction(size) = Total(size, 1..Len(b))
  BY <1>2, SumIsTotal
<1> QED
  BY <1>4, <1>5 DEF BatchBytes, size

LEMMA PackedSome ==
  ASSUME Typed, NEW b \in Seq(Record), b # <<>>
  PROVE  Packed(b) \in 1..Len(b)
<1> DEFINE target == IF limit < Target THEN limit ELSE Target
           up(n) == BatchBytes(SubSeq(b, 1, n))
           N == {n \in 1..Len(b) : n = Len(b) \/ up(n + 1) > target}
<1>1. Len(b) \in Nat \ {0} /\ DOMAIN b = 1..Len(b) /\ \A i \in 1..Len(b) : b[i] \in Record
  BY SpansInBatch, EmptySeq
<1>2. target \in Nat
  BY SizesAreNat
<1>3. \A n \in 1..Len(b) : up(n) \in Nat
  <2> SUFFICES ASSUME NEW n \in 1..Len(b) PROVE up(n) \in Nat
    OBVIOUS
  <2>1. SubSeq(b, 1, n) \in Seq(Record)
    <3>1. \A i \in 1..n : b[i] \in Record
      BY <1>1
    <3> QED
      BY <3>1, SubSeqProperties
  <2> QED
    BY <2>1, BatchBytesNat
<1> HIDE DEF target, up
<1>4. N \in SUBSET Nat /\ N # {}
  BY <1>1
<1>5. PICK n \in N : \A m \in N : n <= m
  <2> HIDE DEF N
  <2> QED
    BY <1>4, LeastOf
<1>6. n = 1 \/ up(n) <= target
  <2> SUFFICES ASSUME n # 1 PROVE up(n) <= target
    OBVIOUS
  <2>1. n \in 1..Len(b)
    BY <1>5
  <2>2. n - 1 \in 1..Len(b) /\ n - 1 # Len(b) /\ (n - 1) + 1 = n /\ ~(n <= n - 1)
    <3> DEFINE l == Len(b)
    <3>1. l \in Nat /\ n \in 1..l /\ n # 1
      BY <1>1, <2>1
    <3> HIDE DEF l, N
    <3>2. n - 1 \in 1..l /\ n - 1 # l /\ (n - 1) + 1 = n /\ ~(n <= n - 1)
      BY <3>1
    <3> QED
      BY <3>2 DEF l
  <2>3. n - 1 \notin N
    <3> HIDE DEF N
    <3> QED
      BY <1>5, <2>2
  <2>4. ~ (up(n) > target)
    BY <2>2, <2>3
  <2> QED
    BY <1>2, <1>3, <2>1, <2>4
<1>7. /\ n \in 1..Len(b)
      /\ n = 1 \/ BatchBytes(SubSeq(b, 1, n)) <= target
      /\ n = Len(b) \/ BatchBytes(SubSeq(b, 1, n + 1)) > target
  BY <1>5, <1>6 DEF up
<1>8. Packed(b) = CHOOSE k \in 1..Len(b) :
          /\ k = 1 \/ BatchBytes(SubSeq(b, 1, k)) <= target
          /\ k = Len(b) \/ BatchBytes(SubSeq(b, 1, k + 1)) > target
  BY DEF Packed, target
<1> QED
  BY <1>7, <1>8

LEMMA FitRecord ==
  ASSUME NEW r \in Record
  PROVE  Fit(r) \in Record /\ Fit(r).span = r.span
<1>1. [r EXCEPT !.shed = TRUE] \in Record /\ [r EXCEPT !.shed = TRUE].span = r.span
  BY DEF Record
<1> QED
  BY <1>1 DEF Fit

LEMMA ReleaseKeeps == DeliveryInv /\ Release => DeliveryInv'
<1> SUFFICES ASSUME DeliveryInv, Release PROVE DeliveryInv'
  OBVIOUS
<1>1. UNCHANGED <<limit, dropped, todo, placed, work, request, stage, hold, failed, counters,
                  fate, shown, unsure, lost>> /\ holdsReleased' = TRUE
  BY DEF Release, exports, ghosts
<1>2. Typed'
  BY <1>1 DEF DeliveryInv, Typed
<1>3. ASSUME NEW e \in Export PROVE Lined(e)' /\ Staged(e)' /\ Carrying(e)' /\ Unfitted(e)'
  BY <1>1 DEF DeliveryInv, Lines, Losses, Lined, Opens, Staged, Carrying, Unfitted, UnfitOf, Unfit
<1>4. Counted' /\ Kept'
  BY <1>1 DEF DeliveryInv, Losses, Counted, Kept, Uncertain
<1> QED
  BY <1>2, <1>3, <1>4 DEF DeliveryInv, Lines, Losses

LEMMA LoseKeeps ==
  ASSUME DeliveryInv, NEW t \in Traces, Lose(t)
  PROVE  DeliveryInv'
<1>1. UNCHANGED <<limit, holdsReleased, todo, placed, work, request, stage, hold, failed, counters,
                  fate, shown, unsure>>
  BY DEF Lose, exports
<1>2. /\ dropped' = [dropped EXCEPT ![t] = @ + 1] /\ lost' = [lost EXCEPT ![t] = @ + 1]
      /\ dropped \in [Traces -> Nat] /\ lost \in [Traces -> Nat] /\ shown \in [Traces -> Nat]
  BY DEF Lose, DeliveryInv, Typed
<1>3. Typed'
  BY <1>1, <1>2 DEF DeliveryInv, Typed
<1>4. \A d \in Traces :
          /\ dropped'[d] = IF d = t THEN dropped[d] + 1 ELSE dropped[d]
          /\ lost'[d] = IF d = t THEN lost[d] + 1 ELSE lost[d]
          /\ dropped[d] \in Nat /\ lost[d] \in Nat /\ shown[d] \in Nat
  BY <1>2
<1>5. ASSUME NEW e \in Export PROVE Lined(e)' /\ Staged(e)'
  BY <1>1 DEF DeliveryInv, Lines, Lined, Opens, Staged
<1>6. ASSUME NEW e \in Export PROVE Carrying(e)'
  <2>1. \A d \in Traces : lost'[d] \in Nat /\ lost[d] <= lost'[d]
    BY <1>4
  <2> QED
    BY <1>1, <2>1, SameCarrying DEF DeliveryInv, Losses
<1>7. ASSUME NEW e \in Export PROVE Unfitted(e)'
  <2> SUFFICES ASSUME NEW r \in Roots \cap SpansOf(e)
               PROVE  /\ fate'[r] = "open" => UnfitOf(e, r)' <= dropped'[TraceOf[r]]
                      /\ fate'[r] = "accepted" => UnfitOf(e, r)' <= shown'[TraceOf[r]]
    BY DEF Unfitted
  <2>1. TraceOf[r] \in Traces
    BY SpansAreFinite
  <2>2. UnfitOf(e, r)' = UnfitOf(e, r) /\ UnfitOf(e, r) \in Nat
    BY <1>1, SameUnfit, UnfitFinite DEF UnfitOf
  <2>3. /\ fate[r] = "open" => UnfitOf(e, r) <= dropped[TraceOf[r]]
        /\ fate[r] = "accepted" => UnfitOf(e, r) <= shown[TraceOf[r]]
    BY DEF DeliveryInv, Losses, Unfitted
  <2> QED
    BY <1>1, <1>4, <2>1, <2>2, <2>3
<1>8. Counted'
  BY <1>1 DEF DeliveryInv, Counted
<1>9. Kept'
  <2>1. \A d \in Traces : Uncertain(d)' <=> Uncertain(d)
    BY <1>1 DEF Uncertain
  <2> SUFFICES ASSUME NEW d \in Traces
               PROVE  /\ dropped'[d] <= lost'[d] /\ shown'[d] <= lost'[d]
                      /\ Uncertain(d)' \/ lost'[d] <= dropped'[d] + shown'[d]
    BY <1>1 DEF Kept, DeliveryInv, Losses
  <2>2. /\ dropped[d] <= lost[d] /\ shown[d] <= lost[d]
        /\ Uncertain(d) \/ lost[d] <= dropped[d] + shown[d]
    BY DEF DeliveryInv, Losses, Kept
  <2> QED
    BY <1>1, <1>4, <2>1, <2>2
<1> QED
  BY <1>3, <1>5, <1>6, <1>7, <1>8, <1>9 DEF DeliveryInv, Lines, Losses

LEMMA MeasureKeeps ==
  ASSUME DeliveryInv, NEW e \in Export, Measure(e)
  PROVE  DeliveryInv'
<1> DEFINE r == Head(todo[e])
           s == r.span
<1>0. Typed /\ Lined(e) /\ Staged(e)
  BY DEF DeliveryInv, Lines
<1>1. /\ stage[e] = "none" /\ todo[e] # <<>> /\ todo[e] \in Seq(Record) /\ placed[e] \in Seq(Record)
      /\ todo' = [todo EXCEPT ![e] = Tail(@)]
      /\ UNCHANGED <<limit, holdsReleased, work, request, stage, hold, shown, unsure>>
  BY <1>0, ExportTypes DEF Measure
<1>2. work[e] = <<>> /\ request[e] = NoRequest
  BY <1>0, <1>1 DEF Staged
<1>3. /\ Clean(todo[e]) /\ Clean(placed[e]) /\ SpansIn(todo[e]) \cap SpansIn(placed[e]) = {}
      /\ Opens(e) = SpansIn(todo[e]) \cup SpansIn(placed[e])
  BY <1>0, <1>2, NoWork, EmptyRequest DEF Lined, Holding
<1>4. /\ r \in Record /\ Tail(todo[e]) \in Seq(Record) /\ Clean(Tail(todo[e]))
      /\ SpansIn(todo[e]) = SpansIn(Tail(todo[e])) \cup {s} /\ s \notin SpansIn(Tail(todo[e]))
  BY <1>1, <1>3, TakeHead
<1>5. s \in Opens(e) /\ Opens(e) \in SUBSET Span /\ \A q \in Opens(e) : fate[q] = "open"
  BY <1>0, <1>3, <1>4, InRequest
<1>6. /\ todo' \in [Export -> Seq(Record)] /\ todo'[e] = Tail(todo[e])
      /\ \A f \in Export \ {e} : todo'[f] = todo[f]
  BY <1>0, <1>1, <1>4 DEF Typed
<1>7. /\ stage'[e] = "none" /\ work'[e] = <<>> /\ request'[e] = NoRequest
      /\ \A q \in SpansOf(e) : fate[q] \in {"open", "unfit"}
  BY <1>0, <1>1, <1>2 DEF Staged
<1>8. SpansIn(<<>>) = {} /\ Clean(<<>>) /\ NoRequest.batch = <<>>
  BY NoBatch, EmptyRequest
<1> HIDE DEF r
<1>9. CASE /\ placed' = [placed EXCEPT ![e] = Append(@, Fit(r))]
           /\ UNCHANGED <<dropped, failed, counters, fate, lost>>
  <2>1. Fit(r) \in Record /\ Fit(r).span = s /\ s \notin SpansIn(placed[e])
    BY <1>3, <1>4, FitRecord
  <2>2. /\ Append(placed[e], Fit(r)) \in Seq(Record) /\ Clean(Append(placed[e], Fit(r)))
        /\ SpansIn(Append(placed[e], Fit(r))) = SpansIn(placed[e]) \cup {s}
    BY <1>1, <1>3, <2>1, AppendRecord
  <2>3. /\ placed' \in [Export -> Seq(Record)] /\ placed'[e] = Append(placed[e], Fit(r))
        /\ \A f \in Export \ {e} : placed'[f] = placed[f]
    BY <1>0, <1>9, <2>2 DEF Typed
  <2>4. Typed'
    BY <1>0, <1>1, <1>6, <1>9, <2>3 DEF Typed
  <2>5. Lined(e)'
    <3>1. Opens(e)' = Opens(e)
      BY <1>9 DEF Opens
    <3>2. Holding(Tail(todo[e]), Append(placed[e], Fit(r)), <<>>, <<>>, Opens(e))
      BY <1>3, <1>4, <1>8, <2>2, NoWork DEF Holding
    <3> QED
      BY <1>6, <1>7, <1>8, <2>3, <3>1, <3>2 DEF Lined
  <2>6. Staged(e)'
    BY <1>0, <1>7, <1>9 DEF Staged
  <2>7. Carrying(e)'
    <3>1. \A t \in Traces : lost'[t] \in Nat
      BY <1>0, <1>9 DEF Typed
    <3> QED
      BY <1>7, <3>1, EmptyCarrying
  <2>8. \A f \in Export \ {e} : Idle(f)
    BY <1>1, <1>6, <2>3 DEF Idle
  <2> QED
    BY <1>1, <1>9, <2>4, <2>5, <2>6, <2>7, <2>8, QuietStep
<1>10. CASE Invalid(e, r, "unfit") /\ UNCHANGED placed
  <2>1. /\ CountDropped({s}) /\ failed' = failed \cup {e}
        /\ counters' = [counters EXCEPT !.failed = @ + 1]
        /\ fate' = [fate EXCEPT ![s] = "unfit"]
    BY <1>10 DEF Invalid
  <2>2. \A q \in Span : fate'[q] = IF q \in {s} THEN "unfit" ELSE fate[q]
    BY <1>0, <2>1 DEF Typed
  <2>3. /\ counters' \in [accepted : Nat, rejected : Nat, failed : Nat]
        /\ counters'.accepted = counters.accepted /\ counters'.rejected = counters.rejected
        /\ counters'.failed = counters.failed + Cardinality({s})
    <3>1. Cardinality({s}) = 1 /\ 1 \in Nat
      BY FS_Singleton
    <3> QED
      BY <1>0, <2>1, <3>1, CountFailed
  <2>4. Typed'
    <3>1. dropped' \in [Traces -> Nat] /\ lost' \in [Traces -> Nat]
      BY <1>0, <1>5, <2>1, DroppedTypes
    <3>2. fate' \in [Span -> {"open", "accepted", "rejected", "failed", "unfit", "over"}]
      BY <1>0, <2>1 DEF Typed
    <3>3. failed' \subseteq Export
      BY <1>0, <2>1 DEF Typed
    <3> QED
      BY <1>0, <1>1, <1>6, <1>10, <2>3, <3>1, <3>2, <3>3 DEF Typed
  <2>5. Opens(e)' = Opens(e) \ {s}
    BY <1>5, <2>2, SpansAreFinite DEF Opens
  <2>6. Lined(e)'
    <3>1. Holding(Tail(todo[e]), placed[e], <<>>, <<>>, Opens(e) \ {s})
      BY <1>3, <1>4, <1>8, NoWork DEF Holding
    <3> QED
      BY <1>6, <1>7, <1>8, <1>10, <2>5, <3>1 DEF Lined
  <2>7. Staged(e)'
    <3>1. \A q \in SpansOf(e) : fate'[q] \in {"open", "unfit"}
      BY <1>7, <2>2, SpansAreFinite
    <3>2. e \in failed'
      BY <2>1
    <3> QED
      BY <1>7, <3>1, <3>2 DEF Staged
  <2>8. \A f \in Export \ {e} : Idle(f)
    BY <1>1, <1>6, <1>10 DEF Idle
  <2>9. {s} \in SUBSET Opens(e) /\ "unfit" \in {"failed", "unfit", "over"}
    BY <1>5
  <2> HIDE DEF s
  <2> QED
    BY <1>1, <1>7, <2>1, <2>2, <2>3, <2>4, <2>6, <2>7, <2>8, <2>9, LossStep
<1> QED
  BY <1>9, <1>10 DEF Measure, r

LEMMA PackKeeps ==
  ASSUME DeliveryInv, NEW e \in Export, Pack(e)
  PROVE  DeliveryInv'
<1> DEFINE b == placed[e]
           n == Packed(b)
           p == SubSeq(b, 1, n)
           q == SubSeq(b, n + 1, Len(b))
           v == <<[batch |-> p, refitted |-> FALSE]>>
<1>0. Typed /\ Lined(e) /\ Staged(e)
  BY DEF DeliveryInv, Lines
<1>1. /\ stage[e] = "none" /\ todo[e] = <<>> /\ work[e] = <<>> /\ b # <<>> /\ b \in Seq(Record)
      /\ work' = [work EXCEPT ![e] = v] /\ placed' = [placed EXCEPT ![e] = q]
      /\ UNCHANGED <<limit, dropped, holdsReleased, todo, request, stage, hold, failed, counters,
                     fate, shown, unsure, lost>>
  BY <1>0, ExportTypes DEF Pack, MeasuredAll, ghosts
<1>2. request[e] = NoRequest
  BY <1>0, <1>1 DEF Staged
<1>3. Clean(b) /\ Opens(e) = SpansIn(b)
  BY <1>0, <1>1, <1>2, NoWork, NoBatch, EmptyRequest DEF Lined, Holding
<1>4. /\ p \in Seq(Record) /\ q \in Seq(Record) /\ Clean(p) /\ Clean(q)
      /\ SpansIn(p) \cap SpansIn(q) = {} /\ SpansIn(b) = SpansIn(p) \cup SpansIn(q)
  <2>1. n \in 1..Len(b)
    BY <1>0, <1>1, PackedSome
  <2> HIDE DEF b, n
  <2> QED
    BY <1>1, <1>3, <2>1, CutBatch
<1> HIDE DEF p, q
<1>5. v \in Seq(Item) /\ Separate(v) /\ InWork(v) = SpansIn(p)
  <2>1. v \o <<>> = v
    <3>1. [batch |-> p, refitted |-> FALSE] \in Item
      BY <1>4, ItemType
    <3>2. v \in Seq(Item)
      BY <3>1
    <3> QED
      BY <3>2, ConcatEmptySeq
  <2>2. FALSE \in BOOLEAN /\ SpansIn(p) \cap InWork(<<>>) = {}
    BY NoWork
  <2>3. /\ v \o <<>> \in Seq(Item) /\ Separate(v \o <<>>)
        /\ InWork(v \o <<>>) = SpansIn(p) \cup InWork(<<>>)
    BY <1>4, <2>2, NoWork, PutWork
  <2> HIDE DEF v
  <2> QED
    BY <2>1, <2>3, NoWork
<1> HIDE DEF v, b, n
<1>6. /\ work' \in [Export -> Seq(Item)] /\ placed' \in [Export -> Seq(Record)]
      /\ work'[e] = v /\ placed'[e] = q
      /\ \A f \in Export \ {e} : work'[f] = work[f] /\ placed'[f] = placed[f]
  BY <1>0, <1>1, <1>4, <1>5 DEF Typed
<1>7. Typed'
  BY <1>0, <1>1, <1>6 DEF Typed
<1>8. Lined(e)'
  <2>1. Opens(e)' = Opens(e)
    BY <1>1 DEF Opens
  <2>2. Holding(<<>>, q, v, <<>>, Opens(e))
    BY <1>3, <1>4, <1>5, NoBatch DEF Holding
  <2> QED
    BY <1>1, <1>2, <1>6, <2>1, <2>2, EmptyRequest DEF Lined
<1>9. Staged(e)'
  BY <1>0, <1>1 DEF Staged
<1>10. Carrying(e)'
  <2>1. \A t \in Traces : lost'[t] \in Nat
    BY <1>0, <1>1 DEF Typed
  <2> QED
    BY <1>1, <1>2, <2>1, EmptyCarrying
<1>11. \A f \in Export \ {e} : Idle(f)
  BY <1>1, <1>6 DEF Idle
<1> QED
  BY <1>1, <1>7, <1>8, <1>9, <1>10, <1>11, QuietStep

(* The next batch is taken up.                                             *)
LEMMA NextBatch ==
  ASSUME DeliveryInv, NEW e \in Export, stage[e] = "none", work[e] # <<>>
  PROVE  LET w == Tail(work[e])
             b == Head(work[e]).batch
         IN  /\ request[e] = NoRequest /\ todo[e] = <<>>
             /\ w \in Seq(Item) /\ Separate(w) /\ Head(work[e]) \in Item
             /\ b \in Seq(Record) /\ Clean(b) /\ SpansIn(b) \cap InWork(w) = {}
             /\ placed[e] \in Seq(Record) /\ Clean(placed[e])
             /\ SpansIn(placed[e]) \cap (SpansIn(b) \cup InWork(w)) = {}
             /\ Opens(e) = SpansIn(placed[e]) \cup SpansIn(b) \cup InWork(w)
<1>0. Typed /\ Lined(e) /\ Staged(e)
  BY DEF DeliveryInv, Lines
<1>1. request[e] = NoRequest /\ todo[e] = <<>>
  BY <1>0 DEF Staged
<1>2. work[e] \in Seq(Item) /\ Separate(work[e]) /\ placed[e] \in Seq(Record)
  BY <1>0, ExportTypes DEF Lined, Holding
<1>3. /\ Clean(placed[e]) /\ SpansIn(placed[e]) \cap InWork(work[e]) = {}
      /\ Opens(e) = SpansIn(placed[e]) \cup InWork(work[e])
  BY <1>0, <1>1, NoBatch, EmptyRequest DEF Lined, Holding
<1>4. /\ Head(work[e]) \in Item /\ Tail(work[e]) \in Seq(Item)
      /\ Clean(Head(work[e]).batch) /\ Separate(Tail(work[e]))
      /\ SpansIn(Head(work[e]).batch) \cap InWork(Tail(work[e])) = {}
      /\ InWork(work[e]) = SpansIn(Head(work[e]).batch) \cup InWork(Tail(work[e]))
  BY <1>2, TakeWork
<1>5. Head(work[e]).batch \in Seq(Record)
  BY <1>4, ItemType
<1> QED
  BY <1>1, <1>2, <1>3, <1>4, <1>5

LEMMA PairIsConcat ==
  ASSUME NEW S, NEW a \in S, NEW b \in S
  PROVE  <<a>> \o <<b>> = <<a, b>>
<1>1. /\ <<a>> \in Seq(S) /\ <<b>> \in Seq(S) /\ Len(<<a>>) = 1 /\ Len(<<b>>) = 1
      /\ <<a, b>> \in Seq(S) /\ Len(<<a, b>>) = 2
      /\ <<a>>[1] = a /\ <<b>>[1] = b /\ <<a, b>>[1] = a /\ <<a, b>>[2] = b
  OBVIOUS
<1> DEFINE c == <<a>> \o <<b>>
           p == <<a>>
           q == <<b>>
           d == <<a, b>>
<1> HIDE DEF p, q, d
<1>2. /\ c \in Seq(S) /\ Len(c) = Len(p) + Len(q)
      /\ \A i \in 1..Len(p) + Len(q) : c[i] = IF i <= Len(p) THEN p[i] ELSE q[i - Len(p)]
  BY <1>1, ConcatProperties DEF p, q
<1>3. Len(c) = 2 /\ c[1] = a /\ c[2] = b
  <2>1. Len(p) = 1 /\ Len(q) = 1 /\ p[1] = a /\ q[1] = b
    BY <1>1 DEF p, q
  <2> HIDE DEF c
  <2>2. Len(c) = 2 /\ 1 \in 1..1 + 1 /\ 2 \in 1..1 + 1
    BY <1>2, <2>1
  <2>3. c[1] = p[1] /\ c[2] = q[2 - 1]
    BY <1>2, <2>1, <2>2
  <2> QED
    BY <2>1, <2>2, <2>3
<1>4. d \in Seq(S) /\ Len(d) = 2 /\ d[1] = a /\ d[2] = b
  BY <1>1 DEF d
<1> HIDE DEF c
<1>5. \A i \in 1..2 : c[i] = d[i]
  <2>1. \A i \in 1..2 : i = 1 \/ i = 2
    OBVIOUS
  <2> QED
    BY <1>3, <1>4, <2>1
<1>6. c = d
  BY <1>2, <1>3, <1>4, <1>5, SeqEqual
<1> QED
  BY <1>6 DEF c, d

LEMMA RequestType ==
  ASSUME NEW b \in Seq(Record), NEW c \in [Traces -> Nat], NEW n \in 0..MaxRetries
  PROVE  LET q == [batch |-> b, carried |-> c, tries |-> n]
         IN  /\ q \in [batch : Seq(Record), carried : [Traces -> Nat], tries : 0..MaxRetries]
             /\ q.batch = b /\ q.carried = c /\ q.tries = n
OBVIOUS

LEMMA MakeRequestKeeps ==
  ASSUME DeliveryInv, NEW e \in Export, stage[e] = "none", work[e] # <<>>,
         MakeRequest(e, Head(work[e]).batch),
         UNCHANGED <<limit, holdsReleased, todo, placed, hold, shown, unsure>>
  PROVE  DeliveryInv'
<1> DEFINE b == Head(work[e]).batch
           w == Tail(work[e])
           c == Carried(b)
           q == [batch |-> b, carried |-> c, tries |-> 0]
<1>0. Typed /\ Lined(e) /\ Staged(e) /\ Kept /\ Unfitted(e)
  BY DEF DeliveryInv, Lines, Losses
<1>1. /\ request[e] = NoRequest /\ todo[e] = <<>>
      /\ w \in Seq(Item) /\ Separate(w)
      /\ b \in Seq(Record) /\ Clean(b) /\ SpansIn(b) \cap InWork(w) = {}
      /\ placed[e] \in Seq(Record) /\ Clean(placed[e])
      /\ SpansIn(placed[e]) \cap (SpansIn(b) \cup InWork(w)) = {}
      /\ Opens(e) = SpansIn(placed[e]) \cup SpansIn(b) \cup InWork(w)
  BY NextBatch
<1>2. /\ request' = [request EXCEPT ![e] = q] /\ stage' = [stage EXCEPT ![e] = "ready"]
      /\ work' = [work EXCEPT ![e] = w]
      /\ UNCHANGED <<dropped, failed, counters, fate, lost>>
  BY DEF MakeRequest
<1>3. /\ c \in [Traces -> Nat]
      /\ \A t \in Traces : c[t] = IF \E r \in Roots \cap SpansIn(b) : TraceOf[r] = t THEN dropped[t] ELSE 0
  BY <1>0 DEF Carried, Typed
<1> HIDE DEF b, w, c
<1>4. /\ q \in [batch : Seq(Record), carried : [Traces -> Nat], tries : 0..MaxRetries]
      /\ q.batch = b /\ q.carried = c
  BY <1>1, <1>3, RequestType, DeliveryAssumption
<1> HIDE DEF q
<1>5. /\ request' \in [Export -> [batch : Seq(Record), carried : [Traces -> Nat], tries : 0..MaxRetries]]
      /\ request'[e] = q /\ \A f \in Export \ {e} : request'[f] = request[f]
  BY <1>0, <1>2, <1>4 DEF Typed
<1>6. /\ work' \in [Export -> Seq(Item)] /\ work'[e] = w
      /\ stage' \in [Export -> {"none", "ready", "posted", "holding", "done"}] /\ stage'[e] = "ready"
      /\ \A f \in Export \ {e} : work'[f] = work[f] /\ stage'[f] = stage[f]
  BY <1>0, <1>1, <1>2 DEF Typed
<1>7. Typed'
  BY <1>0, <1>2, <1>5, <1>6 DEF Typed
<1>8. Lined(e)'
  <2>1. Opens(e)' = Opens(e)
    BY <1>2 DEF Opens
  <2>2. Holding(<<>>, placed[e], w, b, Opens(e))
    BY <1>1, NoBatch DEF Holding
  <2> QED
    BY <1>1, <1>4, <1>5, <1>6, <2>1, <2>2 DEF Lined
<1>9. Staged(e)'
  BY <1>0, <1>1, <1>2, <1>6 DEF Staged
<1>10. Carrying(e)'
  <2>1. ASSUME NEW t \in Traces PROVE c[t] <= lost[t]
    <3>1. dropped[t] <= lost[t] /\ dropped[t] \in Nat /\ lost[t] \in Nat
      BY <1>0 DEF Kept, Typed
    <3>2. c[t] = dropped[t] \/ c[t] = 0
      BY <1>3
    <3> QED
      BY <3>1, <3>2
  <2>2. ASSUME NEW t \in Traces, c[t] > 0 PROVE \E r \in Roots \cap SpansIn(b) : TraceOf[r] = t
    BY <1>3, <2>2
  <2>3. ASSUME NEW r \in Roots \cap SpansIn(b) PROVE UnfitOf(e, r) <= c[TraceOf[r]]
    <3>1. r \in Opens(e)
      BY <1>1
    <3>2. r \in SpansOf(e) /\ fate[r] = "open" /\ TraceOf[r] \in Traces
      BY <1>0, <3>1, InRequest, SpansAreFinite
    <3>3. UnfitOf(e, r) <= dropped[TraceOf[r]]
      BY <1>0, <3>2 DEF Unfitted
    <3> QED
      BY <1>3, <3>2, <3>3
  <2>4. \A r : UnfitOf(e, r)' = UnfitOf(e, r)
    BY <1>2, SameUnfit DEF UnfitOf
  <2> QED
    BY <1>2, <1>4, <1>5, <2>1, <2>2, <2>3, <2>4 DEF Carrying
<1>11. \A f \in Export \ {e} : Idle(f)
  BY <1>5, <1>6 DEF Idle
<1> QED
  BY <1>2, <1>7, <1>8, <1>9, <1>10, <1>11, QuietStep

LEMMA SplitKeeps ==
  ASSUME DeliveryInv, NEW e \in Export, stage[e] = "none", work[e] # <<>>,
         Split(e, Head(work[e]).batch),
         UNCHANGED <<limit, holdsReleased, todo, placed, hold, shown, unsure>>
  PROVE  DeliveryInv'
<1> DEFINE b == Head(work[e]).batch
           w == Tail(work[e])
           half == (Len(b) + 1) \div 2
           p == SubSeq(b, 1, half)
           q == SubSeq(b, half + 1, Len(b))
           first == [batch |-> p, refitted |-> FALSE]
           second == [batch |-> q, refitted |-> FALSE]
           v == <<second>> \o w
           u == <<first>> \o v
<1>0. Typed /\ Lined(e) /\ Staged(e)
  BY DEF DeliveryInv, Lines
<1>1. /\ request[e] = NoRequest /\ todo[e] = <<>>
      /\ w \in Seq(Item) /\ Separate(w)
      /\ b \in Seq(Record) /\ Clean(b) /\ SpansIn(b) \cap InWork(w) = {}
      /\ placed[e] \in Seq(Record) /\ Clean(placed[e])
      /\ SpansIn(placed[e]) \cap (SpansIn(b) \cup InWork(w)) = {}
      /\ Opens(e) = SpansIn(placed[e]) \cup SpansIn(b) \cup InWork(w)
  BY NextBatch
<1>2. /\ work' = [work EXCEPT ![e] = <<first, second>> \o w] /\ Len(b) > 1
      /\ UNCHANGED <<dropped, request, stage, failed, counters, fate, lost>>
  BY DEF Split, Halves
<1> HIDE DEF b, w
<1>3. half \in 1..Len(b)
  BY <1>1, <1>2, SpansInBatch
<1> HIDE DEF half
<1>4. /\ p \in Seq(Record) /\ q \in Seq(Record) /\ Clean(p) /\ Clean(q)
      /\ SpansIn(p) \cap SpansIn(q) = {} /\ SpansIn(b) = SpansIn(p) \cup SpansIn(q)
  BY <1>1, <1>3, CutBatch
<1> HIDE DEF p, q
<1>5. v \in Seq(Item) /\ Separate(v) /\ InWork(v) = SpansIn(q) \cup InWork(w)
  BY <1>1, <1>4, FALSE \in BOOLEAN, PutWork
<1>6. first \in Item /\ second \in Item
  BY <1>4, ItemType
<1> HIDE DEF v
<1>7. u \in Seq(Item) /\ Separate(u) /\ InWork(u) = SpansIn(b) \cup InWork(w)
  <2>1. SpansIn(p) \cap InWork(v) = {}
    BY <1>1, <1>4, <1>5
  <2>2. u \in Seq(Item) /\ Separate(u) /\ InWork(u) = SpansIn(p) \cup InWork(v)
    BY <1>4, <1>5, <2>1, FALSE \in BOOLEAN, PutWork
  <2> QED
    BY <1>4, <1>5, <2>2
<1> HIDE DEF first, second
<1>8. <<first, second>> \o w = u
  <2>1. <<first>> \in Seq(Item) /\ <<second>> \in Seq(Item)
    BY <1>6
  <2>2. (<<first>> \o <<second>>) \o w = <<first>> \o (<<second>> \o w)
    BY <1>1, <2>1, ConcatAssociative
  <2>3. <<first>> \o <<second>> = <<first, second>>
    BY <1>6, PairIsConcat
  <2> QED
    BY <2>2, <2>3 DEF v
<1> HIDE DEF u
<1>9. /\ work' \in [Export -> Seq(Item)] /\ work'[e] = u
      /\ \A f \in Export \ {e} : work'[f] = work[f]
  BY <1>0, <1>2, <1>7, <1>8 DEF Typed
<1>10. Typed'
  BY <1>0, <1>2, <1>9 DEF Typed
<1>11. Lined(e)'
  <2>1. Opens(e)' = Opens(e)
    BY <1>2 DEF Opens
  <2>2. Holding(<<>>, placed[e], u, <<>>, Opens(e))
    BY <1>1, <1>7, NoBatch DEF Holding
  <2> QED
    BY <1>1, <1>2, <1>9, <2>1, <2>2, EmptyRequest DEF Lined
<1>12. Staged(e)'
  BY <1>0, <1>1, <1>2 DEF Staged
<1>13. Carrying(e)'
  BY <1>2 DEF DeliveryInv, Losses, Carrying, UnfitOf, Unfit
<1>14. \A f \in Export \ {e} : Idle(f)
  BY <1>2, <1>9 DEF Idle
<1> QED
  BY <1>2, <1>10, <1>11, <1>12, <1>13, <1>14, QuietStep

LEMMA ShedKeeps ==
  ASSUME DeliveryInv, NEW e \in Export, stage[e] = "none", work[e] # <<>>,
         Len(Head(work[e]).batch) = 1,
         ShedAgain(e, Head(work[e]).batch[1], Head(work[e]).refitted),
         UNCHANGED <<limit, holdsReleased, todo, placed, hold, shown, unsure>>
  PROVE  DeliveryInv'
<1> DEFINE b == Head(work[e]).batch
           w == Tail(work[e])
           r == b[1]
           s == r.span
           p == <<Fit(r)>>
           v == <<[batch |-> p, refitted |-> TRUE]>> \o w
<1>0. Typed /\ Lined(e) /\ Staged(e)
  BY DEF DeliveryInv, Lines
<1>1. /\ request[e] = NoRequest /\ todo[e] = <<>>
      /\ w \in Seq(Item) /\ Separate(w)
      /\ b \in Seq(Record) /\ Clean(b) /\ SpansIn(b) \cap InWork(w) = {}
      /\ placed[e] \in Seq(Record) /\ Clean(placed[e])
      /\ SpansIn(placed[e]) \cap (SpansIn(b) \cup InWork(w)) = {}
      /\ Opens(e) = SpansIn(placed[e]) \cup SpansIn(b) \cup InWork(w)
  BY NextBatch
<1>2. /\ \/ /\ work' = [work EXCEPT ![e] = v]
            /\ UNCHANGED <<dropped, failed, counters, fate, lost>>
         \/ /\ work' = [work EXCEPT ![e] = w]
            /\ Invalid(e, r, "over")
      /\ UNCHANGED <<request, stage>>
  BY DEF ShedAgain
<1>3. Len(b) = 1
  OBVIOUS
<1> HIDE DEF b, w
<1>4. r \in Record /\ SpansIn(b) = {s}
  <2>1. 1 \in 1..Len(b) /\ \A i \in 1..Len(b) : i = 1
    BY <1>3
  <2>2. /\ SpansIn(b) = {b[i].span : i \in 1..Len(b)}
        /\ \A i \in 1..Len(b) : b[i] \in Record
    BY <1>1, SpansInBatch
  <2> QED
    BY <2>1, <2>2
<1> HIDE DEF r
<1>5. s \in Opens(e) /\ Opens(e) \in SUBSET Span /\ fate[s] = "open"
  BY <1>0, <1>1, <1>4, InRequest
<1>6. \A f \in Export \ {e} : work'[f] = work[f]
  BY <1>0, <1>2 DEF Typed
<1>7. \A f \in Export \ {e} : Idle(f)
  BY <1>2, <1>6 DEF Idle
<1>8. CASE work' = [work EXCEPT ![e] = v] /\ UNCHANGED <<dropped, failed, counters, fate, lost>>
  <2>1. p \in Seq(Record) /\ Clean(p) /\ SpansIn(p) = {s}
    <3>1. Fit(r) \in Record /\ Fit(r).span = s /\ s \notin SpansIn(<<>>)
      BY <1>4, FitRecord, NoBatch
    <3>2. Append(<<>>, Fit(r)) = p
      OBVIOUS
    <3> HIDE DEF p, s
    <3> QED
      BY <3>1, <3>2, NoBatch, AppendRecord
  <2> HIDE DEF p
  <2>2. v \in Seq(Item) /\ Separate(v) /\ InWork(v) = SpansIn(b) \cup InWork(w)
    BY <1>1, <1>4, <2>1, TRUE \in BOOLEAN, PutWork
  <2> HIDE DEF v
  <2>3. work' \in [Export -> Seq(Item)] /\ work'[e] = v
    BY <1>0, <1>8, <2>2 DEF Typed
  <2>4. Typed'
    BY <1>0, <1>2, <1>8, <2>3 DEF Typed
  <2>5. Lined(e)'
    <3>1. Opens(e)' = Opens(e)
      BY <1>8 DEF Opens
    <3>2. Holding(<<>>, placed[e], v, <<>>, Opens(e))
      BY <1>1, <2>2, NoBatch DEF Holding
    <3> QED
      BY <1>1, <1>2, <2>3, <3>1, <3>2, EmptyRequest DEF Lined
  <2>6. Staged(e)'
    BY <1>0, <1>1, <1>2, <1>8 DEF Staged
  <2>7. Carrying(e)'
    BY <1>2, <1>8 DEF DeliveryInv, Losses, Carrying, UnfitOf, Unfit
  <2> QED
    BY <1>7, <1>8, <2>4, <2>5, <2>6, <2>7, QuietStep
<1>9. CASE work' = [work EXCEPT ![e] = w] /\ Invalid(e, r, "over")
  <2>1. /\ CountDropped({s}) /\ failed' = failed \cup {e}
        /\ counters' = [counters EXCEPT !.failed = @ + 1]
        /\ fate' = [fate EXCEPT ![s] = "over"]
    BY <1>9 DEF Invalid
  <2>2. \A q \in Span : fate'[q] = IF q \in {s} THEN "over" ELSE fate[q]
    BY <1>0, <2>1 DEF Typed
  <2>3. /\ counters' \in [accepted : Nat, rejected : Nat, failed : Nat]
        /\ counters'.accepted = counters.accepted /\ counters'.rejected = counters.rejected
        /\ counters'.failed = counters.failed + Cardinality({s})
    <3>1. Cardinality({s}) = 1 /\ 1 \in Nat
      BY FS_Singleton
    <3> QED
      BY <1>0, <2>1, <3>1, CountFailed
  <2>4. work' \in [Export -> Seq(Item)] /\ work'[e] = w
    BY <1>0, <1>1, <1>9 DEF Typed
  <2>5. Typed'
    <3>1. dropped' \in [Traces -> Nat] /\ lost' \in [Traces -> Nat]
      BY <1>0, <1>5, <2>1, DroppedTypes
    <3>2. fate' \in [Span -> {"open", "accepted", "rejected", "failed", "unfit", "over"}]
      BY <1>0, <2>1 DEF Typed
    <3>3. failed' \subseteq Export
      BY <1>0, <2>1 DEF Typed
    <3> QED
      BY <1>0, <1>2, <2>3, <2>4, <3>1, <3>2, <3>3 DEF Typed
  <2>6. Opens(e)' = Opens(e) \ {s}
    BY <1>5, <2>2, SpansAreFinite DEF Opens
  <2>7. Lined(e)'
    <3>1. Holding(<<>>, placed[e], w, <<>>, Opens(e) \ {s})
      BY <1>1, <1>4, NoBatch DEF Holding
    <3> QED
      BY <1>1, <1>2, <2>4, <2>6, <3>1, EmptyRequest DEF Lined
  <2>8. Staged(e)'
    <3>1. e \in failed' /\ todo'[e] = <<>> /\ request'[e] = NoRequest /\ stage'[e] = "none"
      BY <1>1, <1>2, <2>1
    <3> QED
      BY <3>1 DEF Staged
  <2>9. {s} \in SUBSET Opens(e) /\ "over" \in {"failed", "unfit", "over"} /\ "over" # "unfit"
    BY <1>5
  <2>10. request'[e] = request[e]
    BY <1>2
  <2> HIDE DEF s
  <2> QED
    BY <1>7, <2>1, <2>2, <2>3, <2>5, <2>7, <2>8, <2>9, <2>10, LossStep
<1> QED
  BY <1>2, <1>8, <1>9

LEMMA DeliverKeeps ==
  ASSUME DeliveryInv, NEW e \in Export, Deliver(e)
  PROVE  DeliveryInv'
BY MakeRequestKeeps, SplitKeeps, ShedKeeps DEF Deliver

(* The request's spans have left.                                          *)
LEMMA RequestEnds ==
  ASSUME Typed, NEW e \in Export, Lined(e), request'[e] = NoRequest,
         todo'[e] = todo[e], placed'[e] = placed[e], work'[e] = work[e],
         NEW how \in [Span -> {"accepted", "rejected", "failed"}],
         \A s \in Span : fate'[s] = IF s \in SpansIn(request[e].batch) THEN how[s] ELSE fate[s]
  PROVE  Lined(e)'
<1> DEFINE B == SpansIn(request[e].batch)
<1>1. Opens(e)' = Opens(e) \ B
  <2>1. \A s \in Span : how[s] # "open"
    OBVIOUS
  <2>2. SpansOf(e) \in SUBSET Span
    BY SpansAreFinite
  <2> QED
    BY <2>1, <2>2 DEF Opens
<1>2. Holding(todo[e], placed[e], work[e], <<>>, Opens(e) \ B)
  BY NoBatch DEF Lined, Holding
<1> QED
  BY <1>1, <1>2, EmptyRequest DEF Lined

LEMMA RequestLeaves ==
  ASSUME Typed, NEW e \in Export, EndRequest(e)
  PROVE  /\ request' \in [Export -> [batch : Seq(Record), carried : [Traces -> Nat], tries : 0..MaxRetries]]
         /\ stage' \in [Export -> {"none", "ready", "posted", "holding", "done"}]
         /\ request'[e] = NoRequest /\ stage'[e] = "none"
         /\ \A f \in Export \ {e} : request'[f] = request[f] /\ stage'[f] = stage[f]
BY EmptyRequest DEF EndRequest, Typed

LEMMA UndeliveredKeeps ==
  ASSUME DeliveryInv, NEW e \in Export, stage[e] \in {"posted", "holding"}, Undelivered(e),
         UNCHANGED <<holdsReleased, todo, placed, work, shown, unsure>>,
         limit' \in Limits, hold' \in [Export -> 0..MaxHold]
  PROVE  DeliveryInv'
<1> DEFINE b == request[e].batch
           B == SpansIn(b)
<1>0. Typed /\ Lined(e) /\ Staged(e)
  BY DEF DeliveryInv, Lines
<1>1. /\ CountDropped(B) /\ failed' = failed \cup {e} /\ EndRequest(e)
      /\ counters' = [counters EXCEPT !.failed = @ + Len(b)]
      /\ fate' = [s \in Span |-> IF s \in B THEN "failed" ELSE fate[s]]
  BY DEF Undelivered, FailRequest
<1>2. b \in Seq(Record) /\ Clean(b) /\ B \in SUBSET Opens(e) /\ B \in SUBSET Span
  BY <1>0, ExportTypes, InRequest
<1>3. Cardinality(B) = Len(b) /\ Len(b) \in Nat
  BY <1>2, CleanCount, SpansInBatch
<1> HIDE DEF b
<1>4. /\ request' \in [Export -> [batch : Seq(Record), carried : [Traces -> Nat], tries : 0..MaxRetries]]
      /\ stage' \in [Export -> {"none", "ready", "posted", "holding", "done"}]
      /\ request'[e] = NoRequest /\ stage'[e] = "none"
      /\ \A f \in Export \ {e} : request'[f] = request[f] /\ stage'[f] = stage[f]
  BY <1>0, <1>1, RequestLeaves
<1>5. /\ counters' \in [accepted : Nat, rejected : Nat, failed : Nat]
      /\ counters'.accepted = counters.accepted /\ counters'.rejected = counters.rejected
      /\ counters'.failed = counters.failed + Len(b)
  BY <1>0, <1>1, <1>3, CountFailed
<1>6. Typed'
  <2>1. dropped' \in [Traces -> Nat] /\ lost' \in [Traces -> Nat]
    BY <1>0, <1>1, <1>2, DroppedTypes
  <2>2. fate' \in [Span -> {"open", "accepted", "rejected", "failed", "unfit", "over"}]
    BY <1>0, <1>1 DEF Typed
  <2>3. failed' \subseteq Export
    BY <1>0, <1>1 DEF Typed
  <2> QED
    BY <1>0, <1>4, <1>5, <2>1, <2>2, <2>3 DEF Typed
<1>7. \A s \in Span : fate'[s] = IF s \in B THEN "failed" ELSE fate[s]
  BY <1>1
<1>8. Lined(e)'
  <2> DEFINE how == [s \in Span |-> "failed"]
  <2>1. how \in [Span -> {"accepted", "rejected", "failed"}]
    OBVIOUS
  <2>2. \A s \in Span : fate'[s] = IF s \in SpansIn(request[e].batch) THEN how[s] ELSE fate[s]
    BY <1>7 DEF b
  <2> HIDE DEF how
  <2> QED
    BY <1>0, <1>4, <2>1, <2>2, RequestEnds
<1>9. Staged(e)'
  <2>1. e \in failed' /\ todo'[e] = <<>>
    BY <1>0, <1>1 DEF Staged
  <2> QED
    BY <1>4, <2>1 DEF Staged
<1>10. \A f \in Export \ {e} : Idle(f)
  BY <1>4 DEF Idle
<1>11. "failed" \in {"failed", "unfit", "over"} /\ "failed" # "unfit"
  OBVIOUS
<1>12. counters'.failed = counters.failed + Cardinality(B)
  BY <1>3, <1>5
<1> HIDE DEF B
<1> QED
  BY <1>1, <1>2, <1>4, <1>5, <1>6, <1>7, <1>8, <1>9, <1>10, <1>11, <1>12, LossStep

(* The request's place in its course changes.                              *)
LEMMA StageStep ==
  ASSUME DeliveryInv, NEW e \in Export, todo[e] = <<>>,
         NEW to \in {"ready", "posted", "holding"}, stage' = [stage EXCEPT ![e] = to],
         \/ request' = request
         \/ \E n \in 0..MaxRetries : request' = [request EXCEPT ![e].tries = n]
  PROVE  /\ stage' \in [Export -> {"none", "ready", "posted", "holding", "done"}]
         /\ request' \in [Export -> [batch : Seq(Record), carried : [Traces -> Nat], tries : 0..MaxRetries]]
         /\ request'[e].batch = request[e].batch /\ request'[e].carried = request[e].carried
         /\ stage'[e] = to
         /\ \A f \in Export \ {e} : stage'[f] = stage[f] /\ request'[f] = request[f]
<1>0. Typed
  BY DEF DeliveryInv
<1>1. /\ stage' \in [Export -> {"none", "ready", "posted", "holding", "done"}]
      /\ stage'[e] = to /\ \A f \in Export \ {e} : stage'[f] = stage[f]
  BY <1>0 DEF Typed
<1>2. /\ request' \in [Export -> [batch : Seq(Record), carried : [Traces -> Nat], tries : 0..MaxRetries]]
      /\ request'[e].batch = request[e].batch /\ request'[e].carried = request[e].carried
      /\ \A f \in Export \ {e} : request'[f] = request[f]
  <2>1. CASE request' = request
    BY <1>0, <2>1 DEF Typed
  <2>2. ASSUME NEW n \in 0..MaxRetries, request' = [request EXCEPT ![e].tries = n]
        PROVE  /\ request' \in [Export -> [batch : Seq(Record), carried : [Traces -> Nat], tries : 0..MaxRetries]]
               /\ request'[e].batch = request[e].batch /\ request'[e].carried = request[e].carried
               /\ \A f \in Export \ {e} : request'[f] = request[f]
    <3> DEFINE q == [request[e] EXCEPT !.tries = n]
    <3>1. request[e] \in [batch : Seq(Record), carried : [Traces -> Nat], tries : 0..MaxRetries]
      BY <1>0, ExportTypes
    <3>2. /\ q \in [batch : Seq(Record), carried : [Traces -> Nat], tries : 0..MaxRetries]
          /\ q.batch = request[e].batch /\ q.carried = request[e].carried
      BY <2>2, <3>1
    <3>3. request' = [request EXCEPT ![e] = q]
      BY <2>2
    <3> HIDE DEF q
    <3> QED
      BY <1>0, <3>2, <3>3 DEF Typed
  <2> QED
    BY <2>1, <2>2
<1> QED
  BY <1>1, <1>2

(* A request goes on to its next stage.                                    *)
LEMMA OnwardKeeps ==
  ASSUME DeliveryInv, NEW e \in Export, stage[e] \in {"ready", "posted", "holding"},
         NEW to \in {"ready", "posted", "holding"}, stage' = [stage EXCEPT ![e] = to],
         \/ request' = request
         \/ \E n \in 0..MaxRetries : request' = [request EXCEPT ![e].tries = n],
         UNCHANGED <<dropped, holdsReleased, todo, placed, work, failed, counters, fate, shown,
                     unsure, lost>>,
         limit' \in Limits, hold' \in [Export -> 0..MaxHold]
  PROVE  DeliveryInv'
<1>0. Typed /\ Lined(e) /\ Staged(e)
  BY DEF DeliveryInv, Lines
<1>1. todo[e] = <<>>
  BY <1>0 DEF Staged
<1>2. /\ stage' \in [Export -> {"none", "ready", "posted", "holding", "done"}]
      /\ request' \in [Export -> [batch : Seq(Record), carried : [Traces -> Nat], tries : 0..MaxRetries]]
      /\ request'[e].batch = request[e].batch /\ request'[e].carried = request[e].carried
      /\ stage'[e] = to
      /\ \A f \in Export \ {e} : stage'[f] = stage[f] /\ request'[f] = request[f]
  BY <1>1, StageStep
<1>3. Typed'
  BY <1>0, <1>2 DEF Typed
<1>4. Lined(e)'
  BY <1>0, <1>2 DEF Lined, Opens
<1>5. Staged(e)'
  BY <1>0, <1>1, <1>2 DEF Staged
<1>6. Carrying(e)'
  <2>1. \A t \in Traces : lost'[t] \in Nat /\ lost[t] <= lost'[t]
    BY <1>0 DEF Typed
  <2> QED
    BY <1>0, <1>2, <2>1, SameCarrying DEF DeliveryInv, Losses
<1>7. \A f \in Export \ {e} : Idle(f)
  BY <1>2 DEF Idle
<1> QED
  BY <1>3, <1>4, <1>5, <1>6, <1>7, QuietStep

LEMMA PostKeeps ==
  ASSUME DeliveryInv, NEW e \in Export, Post(e)
  PROVE  DeliveryInv'
<1> DEFINE b == request[e].batch
           v == <<[batch |-> b, refitted |-> FALSE]>> \o work[e]
<1>0. Typed /\ Lined(e) /\ Staged(e)
  BY DEF DeliveryInv, Lines
<1>1. /\ stage[e] = "ready"
      /\ UNCHANGED <<limit, dropped, holdsReleased, todo, placed, hold, failed, counters, fate,
                     shown, unsure, lost>>
  BY DEF Post, ghosts
<1>2. CASE Fits(b)
  <2>1. stage' = [stage EXCEPT ![e] = "posted"] /\ UNCHANGED <<work, request>>
    BY <1>2 DEF Post
  <2>2. limit' \in Limits /\ hold' \in [Export -> 0..MaxHold]
    BY <1>0, <1>1 DEF Typed
  <2> QED
    BY <1>1, <2>1, <2>2, OnwardKeeps
<1>3. CASE ~Fits(b)
  <2>1. /\ stage' = [stage EXCEPT ![e] = "none"] /\ work' = [work EXCEPT ![e] = v]
        /\ request' = [request EXCEPT ![e] = NoRequest]
    BY <1>3 DEF Post
  <2>2. /\ request' \in [Export -> [batch : Seq(Record), carried : [Traces -> Nat], tries : 0..MaxRetries]]
        /\ stage' \in [Export -> {"none", "ready", "posted", "holding", "done"}]
        /\ request'[e] = NoRequest /\ stage'[e] = "none"
        /\ \A f \in Export \ {e} : request'[f] = request[f] /\ stage'[f] = stage[f]
    BY <1>0, <2>1, RequestLeaves DEF EndRequest
  <2>3. todo[e] = <<>> /\ b \in Seq(Record) /\ work[e] \in Seq(Item)
    BY <1>0, <1>1, ExportTypes DEF Staged
  <2>4. /\ Clean(b) /\ Separate(work[e]) /\ SpansIn(b) \cap InWork(work[e]) = {}
        /\ Clean(placed[e]) /\ SpansIn(placed[e]) \cap InWork(work[e]) = {}
        /\ SpansIn(placed[e]) \cap SpansIn(b) = {}
        /\ Opens(e) = SpansIn(placed[e]) \cup InWork(work[e]) \cup SpansIn(b)
    BY <1>0, <2>3, NoBatch DEF Lined, Holding
  <2> HIDE DEF b
  <2>5. v \in Seq(Item) /\ Separate(v) /\ InWork(v) = SpansIn(b) \cup InWork(work[e])
    BY <2>3, <2>4, FALSE \in BOOLEAN, PutWork
  <2> HIDE DEF v
  <2>6. /\ work' \in [Export -> Seq(Item)] /\ work'[e] = v
        /\ \A f \in Export \ {e} : work'[f] = work[f]
    BY <1>0, <2>1, <2>5 DEF Typed
  <2>7. Typed'
    BY <1>0, <1>1, <2>2, <2>6 DEF Typed
  <2>8. Lined(e)'
    <3>1. Opens(e)' = Opens(e)
      BY <1>1 DEF Opens
    <3>2. Holding(<<>>, placed[e], v, <<>>, Opens(e))
      BY <2>4, <2>5, NoBatch DEF Holding
    <3> QED
      BY <1>1, <2>2, <2>3, <2>6, <3>1, <3>2, EmptyRequest DEF Lined
  <2>9. Staged(e)'
    BY <1>0, <1>1, <2>2, <2>3 DEF Staged
  <2>10. Carrying(e)'
    <3>1. \A t \in Traces : lost'[t] \in Nat
      BY <1>0, <1>1 DEF Typed
    <3> QED
      BY <2>2, <3>1, EmptyCarrying
  <2>11. \A f \in Export \ {e} : Idle(f)
    BY <1>1, <2>2, <2>6 DEF Idle
  <2> QED
    BY <1>1, <2>7, <2>8, <2>9, <2>10, <2>11, QuietStep
<1> QED
  BY <1>2, <1>3

LEMMA FinishKeeps ==
  ASSUME DeliveryInv, NEW e \in Export, Finish(e)
  PROVE  DeliveryInv'
<1>0. Typed /\ Lined(e) /\ Staged(e)
  BY DEF DeliveryInv, Lines
<1>1. /\ stage[e] = "none" /\ todo[e] = <<>> /\ placed[e] = <<>> /\ work[e] = <<>>
      /\ stage' = [stage EXCEPT ![e] = "done"]
      /\ UNCHANGED <<limit, dropped, holdsReleased, todo, placed, work, request, hold, failed,
                     counters, fate, shown, unsure, lost>>
  BY DEF Finish, MeasuredAll, ghosts
<1>2. /\ stage' \in [Export -> {"none", "ready", "posted", "holding", "done"}]
      /\ stage'[e] = "done" /\ \A f \in Export \ {e} : stage'[f] = stage[f]
  BY <1>0, <1>1 DEF Typed
<1>3. Typed'
  BY <1>0, <1>1, <1>2 DEF Typed
<1>4. Lined(e)'
  BY <1>0, <1>1 DEF Lined, Opens
<1>5. Staged(e)'
  BY <1>0, <1>1, <1>2 DEF Staged
<1>6. Carrying(e)'
  BY <1>1 DEF DeliveryInv, Losses, Carrying, UnfitOf, Unfit
<1>7. \A f \in Export \ {e} : Idle(f)
  BY <1>1, <1>2 DEF Idle
<1> QED
  BY <1>1, <1>3, <1>4, <1>5, <1>6, <1>7, QuietStep

LEMMA HoldEndsKeeps ==
  ASSUME DeliveryInv, NEW e \in Export, HoldEnds(e)
  PROVE  DeliveryInv'
<1>1. /\ stage[e] = "holding" /\ stage' = [stage EXCEPT ![e] = "ready"]
      /\ request' = [request EXCEPT ![e].tries = 0]
      /\ UNCHANGED <<limit, dropped, holdsReleased, todo, placed, work, hold, failed, counters,
                     fate, shown, unsure, lost>>
  BY DEF HoldEnds, ghosts
<1>2. 0 \in 0..MaxRetries
  BY DeliveryAssumption
<1>3. limit' \in Limits /\ hold' \in [Export -> 0..MaxHold]
  BY <1>1 DEF DeliveryInv, Typed
<1>4. \E n \in 0..MaxRetries : request' = [request EXCEPT ![e].tries = n]
  BY <1>1, <1>2
<1>5. stage[e] \in {"ready", "posted", "holding"} /\ "ready" \in {"ready", "posted", "holding"}
  BY <1>1
<1> QED
  BY <1>1, <1>3, <1>4, <1>5, OnwardKeeps

LEMMA HoldReleasedKeeps ==
  ASSUME DeliveryInv, NEW e \in Export, HoldReleased(e)
  PROVE  DeliveryInv'
<1>1. limit' \in Limits /\ hold' \in [Export -> 0..MaxHold]
  BY DEF HoldReleased, DeliveryInv, Typed
<1> QED
  BY <1>1, UndeliveredKeeps DEF HoldReleased

LEMMA RateLimitedKeeps ==
  ASSUME DeliveryInv, NEW e \in Export, RateLimited(e)
  PROVE  DeliveryInv'
<1>0. Typed /\ hold[e] \in 0..MaxHold /\ MaxHold \in Nat
  BY DeliveryAssumption DEF DeliveryInv, Typed
<1>1. /\ stage[e] = "posted" /\ limit' \in Limits
      /\ UNCHANGED <<holdsReleased, todo, placed, work, shown, unsure>>
  BY DEF RateLimited, AdoptLimits
<1>2. PICK wait \in Waits :
         \/ /\ Holdable(e, wait) /\ Charge(e, wait)
            /\ stage' = [stage EXCEPT ![e] = "holding"]
            /\ UNCHANGED <<dropped, request, failed, counters, fate, lost>>
         \/ Holdable(e, wait) /\ Charge(e, wait) /\ Undelivered(e)
         \/ Undelivered(e) /\ UNCHANGED hold
  BY DEF RateLimited
<1>3. hold' \in [Export -> 0..MaxHold]
  <2>1. ASSUME Holdable(e, wait), Charge(e, wait) PROVE hold' \in [Export -> 0..MaxHold]
    <3>1. wait \in Nat
      BY DeliveryAssumption
    <3>2. hold[e] + wait \in 0..MaxHold
      BY <1>0, <2>1, <3>1 DEF Holdable
    <3> QED
      BY <1>0, <2>1, <3>2 DEF Charge, Typed
  <2>2. ASSUME UNCHANGED hold PROVE hold' \in [Export -> 0..MaxHold]
    BY <1>0, <2>2 DEF Typed
  <2> QED
    BY <1>2, <2>1, <2>2
<1>4. CASE Undelivered(e)
  BY <1>1, <1>3, <1>4, UndeliveredKeeps
<1>5. CASE /\ stage' = [stage EXCEPT ![e] = "holding"]
           /\ UNCHANGED <<dropped, request, failed, counters, fate, lost>>
  <2>1. "holding" \in {"ready", "posted", "holding"} /\ stage[e] \in {"ready", "posted", "holding"}
    BY <1>1
  <2> QED
    BY <1>1, <1>3, <1>5, <2>1, OnwardKeeps
<1> QED
  BY <1>2, <1>4, <1>5

-----------------------------------------------------------------------------
(* Hue stores.                                                             *)

(* What a store leaves is known by the one root that may have been stored. *)
LEMMA StoreShows ==
  ASSUME Typed, NEW e \in Export, NEW S \in SUBSET Span, Store(e, S), NEW t \in Traces
  PROVE  /\ (\E r \in Roots \cap S : TraceOf[r] = t) => shown'[t] = request[e].carried[t]
         /\ ~(\E r \in Roots \cap S : TraceOf[r] = t) => shown'[t] = shown[t]
BY DEF Store

(* A request that is not acknowledged, which Hue may have stored.          *)
LEMMA StoreStep ==
  ASSUME DeliveryInv, Typed', NEW e \in Export, MayStore(e), UNCHANGED <<dropped, lost>>,
         \A f \in Export \ {e} : Idle(f),
         \A s \in Span : \/ fate'[s] = fate[s]
                         \/ s \in SpansIn(request[e].batch) /\ fate'[s] = "failed",
         Counted', Lined(e)', Staged(e)', failed \subseteq failed',
         \/ request'[e] = NoRequest
         \/ /\ request'[e].batch = request[e].batch
            /\ request'[e].carried = request[e].carried
  PROVE  DeliveryInv'
<1> DEFINE B == SpansIn(request[e].batch)
<1>0. Typed /\ Lined(e) /\ Staged(e) /\ Kept
  BY DEF DeliveryInv, Lines, Losses
<1>1. B \in SUBSET Opens(e) /\ B \in SUBSET Span /\ B \in SUBSET SpansOf(e) /\ \A s \in B : fate[s] = "open"
  BY <1>0, InRequest DEF Opens
<1>2. ASSUME NEW f \in Export, f # e PROVE \A s \in SpansOf(f) : fate'[s] = fate[s]
  BY <1>1, <1>2, SpansAreFinite
<1>3. ASSUME NEW f \in Export PROVE Lined(f)' /\ Staged(f)'
  <2>1. CASE f = e
    BY <2>1
  <2>2. CASE f # e
    BY <1>2, <2>2, ApartLines DEF DeliveryInv, Lines, Idle
  <2> QED
    BY <2>1, <2>2
<1>4. ASSUME NEW f \in Export
      PROVE  \A s \in SpansOf(f) : fate'[s] = "unfit" <=> fate[s] = "unfit"
  BY <1>1, SpansAreFinite
<1>5. ASSUME NEW f \in Export PROVE Carrying(f)'
  <2>1. \A t \in Traces : lost'[t] \in Nat /\ lost[t] <= lost'[t]
    BY <1>0 DEF Typed
  <2>2. CASE f = e /\ request'[e] = NoRequest
    BY <2>1, <2>2, EmptyCarrying
  <2>3. CASE f = e /\ request'[e] # NoRequest
    BY <1>0, <1>4, <2>1, <2>3, SameCarrying DEF DeliveryInv, Losses
  <2>4. CASE f # e
    <3>1. Idle(f)
      BY <2>4
    <3> QED
      BY <1>0, <1>4, <2>1, <3>1, SameCarrying DEF DeliveryInv, Losses, Idle
  <2> QED
    BY <2>2, <2>3, <2>4
<1> DEFINE Rooted(t) == \E r \in Roots \cap B : TraceOf[r] = t
<1>6. ASSUME NEW t \in Traces
      PROVE  /\ Rooted(t) => \/ shown'[t] = shown[t] /\ unsure' = unsure
                             \/ shown'[t] = request[e].carried[t] /\ B \subseteq unsure'
             /\ ~Rooted(t) => shown'[t] = shown[t]
             /\ unsure \subseteq unsure'
  <2>1. CASE UNCHANGED <<shown, unsure>>
    BY <2>1
  <2>2. CASE Store(e, B) /\ unsure' = unsure \cup B
    BY <1>0, <1>1, <2>2, StoreShows
  <2> QED
    BY <2>1, <2>2 DEF MayStore
<1>7. \A s \in Span : fate[s] \in {"accepted", "rejected"} <=> fate'[s] \in {"accepted", "rejected"}
  BY <1>1
<1>8. \A s \in Span : fate[s] \in {"accepted", "rejected"} => fate'[s] = fate[s]
  BY <1>1
<1>9. Kept'
  <2> SUFFICES ASSUME NEW t \in Traces
               PROVE  /\ dropped'[t] <= lost'[t] /\ shown'[t] <= lost'[t]
                      /\ shown'[t] > 0 =>
                           \E r \in Roots \cap Span :
                              TraceOf[r] = t /\ (fate'[r] = "accepted" \/ r \in unsure')
                      /\ Uncertain(t)' \/ lost'[t] <= dropped'[t] + shown'[t]
    BY DEF Kept
  <2>1. /\ dropped[t] <= lost[t] /\ shown[t] <= lost[t]
        /\ shown[t] > 0 =>
             \E r \in Roots \cap Span : TraceOf[r] = t /\ (fate[r] = "accepted" \/ r \in unsure)
        /\ Uncertain(t) \/ lost[t] <= dropped[t] + shown[t]
        /\ request[e].carried[t] <= lost[t]
    BY <1>0 DEF Kept, DeliveryInv, Losses, Carrying
  <2>2. unsure \subseteq unsure'
    BY <1>6
  <2>3. Uncertain(t) => Uncertain(t)'
    BY <1>8, <2>2 DEF Uncertain
  <2>4. CASE shown'[t] = shown[t]
    BY <1>8, <2>1, <2>2, <2>3, <2>4
  <2>5. CASE shown'[t] # shown[t]
    <3>1. PICK r \in Roots \cap B : TraceOf[r] = t
      BY <1>6, <2>5
    <3>2. shown'[t] = request[e].carried[t] /\ r \in unsure' /\ r \in Roots \cap Span
      BY <1>1, <1>6, <2>5, <3>1
    <3>3. Uncertain(t)'
      BY <3>1, <3>2 DEF Uncertain
    <3> QED
      BY <2>1, <3>1, <3>2, <3>3
  <2> QED
    BY <2>4, <2>5
<1>10. ASSUME NEW f \in Export PROVE Unfitted(f)'
  <2> SUFFICES ASSUME NEW r \in Roots \cap SpansOf(f)
               PROVE  /\ fate'[r] = "open" => UnfitOf(f, r)' <= dropped'[TraceOf[r]]
                      /\ fate'[r] = "accepted" => UnfitOf(f, r)' <= shown'[TraceOf[r]]
    BY DEF Unfitted
  <2>1. r \in Roots \cap Span /\ TraceOf[r] \in Traces
    BY SpansAreFinite
  <2>2. UnfitOf(f, r)' = UnfitOf(f, r)
    BY <1>4, SameUnfit DEF UnfitOf
  <2>3. /\ fate[r] = "open" => UnfitOf(f, r) <= dropped[TraceOf[r]]
        /\ fate[r] = "accepted" => UnfitOf(f, r) <= shown[TraceOf[r]]
    BY DEF DeliveryInv, Losses, Unfitted
  <2>4. CASE fate'[r] = "open"
    <3>1. fate[r] = "open"
      BY <2>1, <2>4
    <3> QED
      BY <2>2, <2>3, <2>4, <3>1
  <2>5. CASE fate'[r] = "accepted"
    <3>1. fate[r] = "accepted"
      BY <2>1, <2>5
    <3>2. ~Rooted(TraceOf[r])
      <4> SUFFICES ASSUME NEW q \in Roots \cap B, TraceOf[q] = TraceOf[r] PROVE FALSE
        OBVIOUS
      <4>1. q = r
        BY <1>1, <2>1, OneRoot
      <4> QED
        BY <1>1, <3>1, <4>1
    <3>3. shown'[TraceOf[r]] = shown[TraceOf[r]]
      BY <1>6, <2>1, <3>2
    <3> QED
      BY <2>2, <2>3, <2>5, <3>1, <3>3
  <2> QED
    BY <2>4, <2>5
<1> QED
  BY <1>3, <1>5, <1>9, <1>10 DEF DeliveryInv, Lines, Losses

LEMMA StoreTypes ==
  ASSUME Typed, NEW e \in Export, NEW S \in SUBSET Span, Store(e, S)
  PROVE  shown' \in [Traces -> Nat]
<1>1. request[e].carried \in [Traces -> Nat] /\ shown \in [Traces -> Nat]
  BY ExportTypes DEF Typed
<1> QED
  BY <1>1 DEF Store

LEMMA MayStoreTypes ==
  ASSUME Typed, NEW e \in Export, Lined(e), MayStore(e)
  PROVE  shown' \in [Traces -> Nat] /\ unsure' \subseteq Span
<1>1. SpansIn(request[e].batch) \in SUBSET Span
  BY InRequest
<1> QED
  BY <1>1, StoreTypes DEF MayStore, Typed

LEMMA RetryKeeps ==
  ASSUME DeliveryInv, NEW e \in Export, Retry(e)
  PROVE  DeliveryInv'
<1>0. Typed /\ Lined(e) /\ Staged(e)
  BY DEF DeliveryInv, Lines
<1>1. /\ stage[e] = "posted" /\ request[e].tries < MaxRetries
      /\ request' = [request EXCEPT ![e].tries = @ + 1]
      /\ stage' = [stage EXCEPT ![e] = "ready"]
      /\ MayStore(e) /\ limit' \in Limits
      /\ UNCHANGED <<dropped, holdsReleased, todo, placed, work, hold, failed, counters, fate, lost>>
  BY DEF Retry, AdoptLimits
<1>2. todo[e] = <<>>
  BY <1>0, <1>1 DEF Staged
<1>3. \E n \in 0..MaxRetries : request' = [request EXCEPT ![e].tries = n]
  <2>1. request[e].tries \in 0..MaxRetries /\ MaxRetries \in Nat
    BY <1>0, ExportTypes, DeliveryAssumption
  <2>2. request[e].tries + 1 \in 0..MaxRetries
    BY <1>1, <2>1
  <2> QED
    BY <1>1, <2>2
<1>4. /\ stage' \in [Export -> {"none", "ready", "posted", "holding", "done"}]
      /\ request' \in [Export -> [batch : Seq(Record), carried : [Traces -> Nat], tries : 0..MaxRetries]]
      /\ request'[e].batch = request[e].batch /\ request'[e].carried = request[e].carried
      /\ stage'[e] = "ready"
      /\ \A f \in Export \ {e} : stage'[f] = stage[f] /\ request'[f] = request[f]
  <2>1. "ready" \in {"ready", "posted", "holding"}
    OBVIOUS
  <2> QED
    BY <1>1, <1>2, <1>3, <2>1, StageStep
<1>5. Typed'
  BY <1>0, <1>1, <1>4, MayStoreTypes DEF Typed
<1>6. Lined(e)'
  BY <1>0, <1>1, <1>4 DEF Lined, Opens
<1>7. Staged(e)'
  BY <1>0, <1>1, <1>2, <1>4 DEF Staged
<1>8. Counted'
  BY <1>1 DEF DeliveryInv, Counted
<1>9. \A f \in Export \ {e} : Idle(f)
  BY <1>1, <1>4 DEF Idle
<1> QED
  BY <1>1, <1>4, <1>5, <1>6, <1>7, <1>8, <1>9, StoreStep

LEMMA GiveUpKeeps ==
  ASSUME DeliveryInv, NEW e \in Export, GiveUp(e)
  PROVE  DeliveryInv'
<1> DEFINE b == request[e].batch
           B == SpansIn(b)
<1>0. Typed /\ Lined(e) /\ Staged(e)
  BY DEF DeliveryInv, Lines
<1>1. /\ stage[e] = "posted" /\ failed' = failed \cup {e} /\ EndRequest(e)
      /\ counters' = [counters EXCEPT !.failed = @ + Len(b)]
      /\ fate' = [s \in Span |-> IF s \in B THEN "failed" ELSE fate[s]]
      /\ MayStore(e) /\ limit' \in Limits
      /\ UNCHANGED <<dropped, holdsReleased, todo, placed, work, hold, lost>>
  BY DEF GiveUp, FailRequest, AdoptLimits
<1>2. b \in Seq(Record) /\ Clean(b) /\ B \in SUBSET Span /\ \A s \in B : fate[s] = "open"
  BY <1>0, ExportTypes, InRequest
<1>3. Cardinality(B) = Len(b) /\ Len(b) \in Nat
  BY <1>2, CleanCount, SpansInBatch
<1> HIDE DEF b
<1>4. /\ request' \in [Export -> [batch : Seq(Record), carried : [Traces -> Nat], tries : 0..MaxRetries]]
      /\ stage' \in [Export -> {"none", "ready", "posted", "holding", "done"}]
      /\ request'[e] = NoRequest /\ stage'[e] = "none"
      /\ \A f \in Export \ {e} : request'[f] = request[f] /\ stage'[f] = stage[f]
  BY <1>0, <1>1, RequestLeaves
<1>5. /\ counters' \in [accepted : Nat, rejected : Nat, failed : Nat]
      /\ counters'.accepted = counters.accepted /\ counters'.rejected = counters.rejected
      /\ counters'.failed = counters.failed + Len(b)
  BY <1>0, <1>1, <1>3, CountFailed
<1>6. Typed'
  <2>1. fate' \in [Span -> {"open", "accepted", "rejected", "failed", "unfit", "over"}]
    BY <1>0, <1>1 DEF Typed
  <2>2. failed' \subseteq Export
    BY <1>0, <1>1 DEF Typed
  <2> QED
    BY <1>0, <1>1, <1>4, <1>5, <2>1, <2>2, MayStoreTypes DEF Typed
<1>7. \A s \in Span : fate'[s] = IF s \in B THEN "failed" ELSE fate[s]
  BY <1>1
<1>8. Lined(e)'
  <2> DEFINE how == [s \in Span |-> "failed"]
  <2>1. how \in [Span -> {"accepted", "rejected", "failed"}]
    OBVIOUS
  <2>2. \A s \in Span : fate'[s] = IF s \in SpansIn(request[e].batch) THEN how[s] ELSE fate[s]
    BY <1>7 DEF b
  <2> HIDE DEF how
  <2> QED
    BY <1>0, <1>1, <1>4, <2>1, <2>2, RequestEnds
<1>9. Staged(e)'
  <2>1. e \in failed' /\ todo'[e] = <<>>
    BY <1>0, <1>1 DEF Staged
  <2> QED
    BY <1>4, <2>1 DEF Staged
<1>10. Counted'
  <2>1. /\ Cardinality({s \in Span : fate'[s] # "open"})
             = Cardinality({s \in Span : fate[s] # "open"}) + Cardinality(B)
        /\ Cardinality({s \in Span : fate[s] # "open"}) \in Nat
    <3>1. \A s \in Span : IF s \in B THEN fate'[s] # "open" ELSE fate'[s] = fate[s]
      BY <1>7
    <3> HIDE DEF B
    <3> QED
      BY <1>2, <3>1, CountLeaves
  <2>2. counters.accepted \in Nat /\ counters.rejected \in Nat /\ counters.failed \in Nat
    BY <1>0 DEF Typed
  <2>3. counters.accepted + counters.rejected + counters.failed
          = Cardinality({s \in Span : fate[s] # "open"})
    BY DEF DeliveryInv, Counted
  <2>4. counters'.accepted + counters'.rejected + counters'.failed
          = Cardinality({s \in Span : fate'[s] # "open"})
    BY <1>3, <1>5, <2>1, <2>2, <2>3
  <2> QED
    BY <2>4 DEF Counted
<1>11. \A f \in Export \ {e} : Idle(f)
  BY <1>1, <1>4 DEF Idle
<1>12. \A s \in Span : \/ fate'[s] = fate[s]
                       \/ s \in SpansIn(request[e].batch) /\ fate'[s] = "failed"
  BY <1>7 DEF b
<1>13. failed \subseteq failed'
  BY <1>1
<1> QED
  BY <1>1, <1>4, <1>6, <1>8, <1>9, <1>10, <1>11, <1>12, <1>13, StoreStep

LEMMA CountAnswered ==
  ASSUME Typed, NEW n \in Nat, NEW m \in Nat, m <= n,
         counters' = [counters EXCEPT !.accepted = @ + n - m, !.rejected = @ + m]
  PROVE  /\ counters' \in [accepted : Nat, rejected : Nat, failed : Nat]
         /\ counters'.accepted + counters'.rejected + counters'.failed
              = counters.accepted + counters.rejected + counters.failed + n
         /\ counters.accepted + counters.rejected + counters.failed \in Nat
<1>1. counters \in [accepted : Nat, rejected : Nat, failed : Nat]
  BY DEF Typed
<1>2. /\ counters'.accepted = counters.accepted + n - m /\ counters'.rejected = counters.rejected + m
      /\ counters'.failed = counters.failed
  BY <1>1
<1>3. counters' = [accepted |-> counters.accepted + n - m, rejected |-> counters.rejected + m,
                   failed |-> counters.failed]
  BY <1>1
<1>4. counters.accepted \in Nat /\ counters.rejected \in Nat /\ counters.failed \in Nat
  BY <1>1
<1>5. counters.accepted + n - m \in Nat /\ counters.rejected + m \in Nat
  BY <1>4
<1> QED
  BY <1>2, <1>3, <1>4, <1>5

LEMMA AcknowledgeKeeps ==
  ASSUME DeliveryInv, NEW e \in Export, Acknowledge(e)
  PROVE  DeliveryInv'
<1> DEFINE b == request[e].batch
           B == SpansIn(b)
           c == request[e].carried
<1>0. Typed /\ Lined(e) /\ Staged(e) /\ Kept /\ Carrying(e)
  BY DEF DeliveryInv, Lines, Losses
<1> PICK rejected \in SUBSET B :
      /\ Store(e, B \ rejected)
      /\ fate' = [s \in Span |-> IF s \in rejected THEN "rejected"
                                 ELSE IF s \in B THEN "accepted" ELSE fate[s]]
      /\ counters' = [counters EXCEPT !.accepted = @ + Len(b) - Cardinality(rejected),
                                      !.rejected = @ + Cardinality(rejected)]
  BY DEF Acknowledge
<1>1. /\ stage[e] = "posted" /\ EndRequest(e) /\ limit' \in Limits /\ Consume(c)
      /\ UNCHANGED <<holdsReleased, todo, placed, work, hold, failed, unsure, lost>>
  BY DEF Acknowledge, AdoptLimits
<1>2. /\ b \in Seq(Record) /\ Clean(b) /\ B \in SUBSET Span /\ B \in SUBSET SpansOf(e)
      /\ \A s \in B : fate[s] = "open"
  BY <1>0, ExportTypes, InRequest DEF Opens
<1>3. /\ Cardinality(B) = Len(b) /\ Len(b) \in Nat
      /\ Cardinality(rejected) \in Nat /\ Cardinality(rejected) <= Len(b)
  <2>1. Cardinality(B) = Len(b) /\ Len(b) \in Nat
    BY <1>2, CleanCount, SpansInBatch
  <2>2. rejected \in SUBSET Span /\ IsFiniteSet(B)
    BY <1>2, SpansAreFinite
  <2>3. Cardinality(rejected) <= Cardinality(B)
    BY <2>2, FS_Subset
  <2> QED
    BY <2>1, <2>2, <2>3, SpansAreFinite
<1>4. /\ request' \in [Export -> [batch : Seq(Record), carried : [Traces -> Nat], tries : 0..MaxRetries]]
      /\ stage' \in [Export -> {"none", "ready", "posted", "holding", "done"}]
      /\ request'[e] = NoRequest /\ stage'[e] = "none"
      /\ \A f \in Export \ {e} : request'[f] = request[f] /\ stage'[f] = stage[f]
  BY <1>0, <1>1, RequestLeaves
<1> HIDE DEF b
<1>5. /\ counters' \in [accepted : Nat, rejected : Nat, failed : Nat]
      /\ counters'.accepted + counters'.rejected + counters'.failed
           = counters.accepted + counters.rejected + counters.failed + Len(b)
      /\ counters.accepted + counters.rejected + counters.failed \in Nat
  BY <1>0, <1>3, CountAnswered
<1>6. \A s \in Span : fate'[s] = IF s \in rejected THEN "rejected"
                                 ELSE IF s \in B THEN "accepted" ELSE fate[s]
  OBVIOUS
<1>7. c \in [Traces -> Nat] /\ dropped \in [Traces -> Nat] /\ shown \in [Traces -> Nat] /\ lost \in [Traces -> Nat]
  BY <1>0, ExportTypes DEF Typed
<1>8. \A t \in Traces : dropped'[t] = IF dropped[t] > c[t] THEN dropped[t] - c[t] ELSE 0
  BY <1>1 DEF Consume
<1>9. B \in SUBSET Span /\ B \ rejected \in SUBSET Span
  BY <1>2
<1>10. Typed'
  <2>1. fate' \in [Span -> {"open", "accepted", "rejected", "failed", "unfit", "over"}]
    BY <1>0 DEF Typed
  <2>2. shown' \in [Traces -> Nat]
    BY <1>0, <1>9, StoreTypes
  <2>3. dropped' \in [Traces -> Nat]
    <3>1. dropped' = [t \in Traces |-> IF dropped[t] > c[t] THEN dropped[t] - c[t] ELSE 0]
      BY <1>1 DEF Consume
    <3> HIDE DEF c
    <3> QED
      BY <1>7, <3>1
  <2> QED
    BY <1>0, <1>1, <1>4, <1>5, <2>1, <2>2, <2>3 DEF Typed
<1>11. Lined(e)'
  <2> DEFINE how == [s \in Span |-> IF s \in rejected THEN "rejected" ELSE "accepted"]
  <2>1. how \in [Span -> {"accepted", "rejected", "failed"}]
    OBVIOUS
  <2>2. \A s \in Span : fate'[s] = IF s \in SpansIn(request[e].batch) THEN how[s] ELSE fate[s]
    BY <1>6 DEF b
  <2> HIDE DEF how
  <2> QED
    BY <1>0, <1>1, <1>4, <2>1, <2>2, RequestEnds
<1>12. Staged(e)'
  <2>1. todo'[e] = <<>>
    BY <1>0, <1>1 DEF Staged
  <2>2. \A s \in SpansOf(e) : fate'[s] \in {"failed", "unfit", "over"} => e \in failed'
    BY <1>0, <1>1, <1>6, SpansAreFinite DEF Staged
  <2> QED
    BY <1>4, <2>1, <2>2 DEF Staged
<1>13. Counted'
  <2>1. /\ Cardinality({s \in Span : fate'[s] # "open"})
             = Cardinality({s \in Span : fate[s] # "open"}) + Cardinality(B)
        /\ Cardinality({s \in Span : fate[s] # "open"}) \in Nat
    <3>1. \A s \in Span : IF s \in B THEN fate'[s] # "open" ELSE fate'[s] = fate[s]
      BY <1>6
    <3> HIDE DEF B
    <3> QED
      BY <1>2, <3>1, CountLeaves
  <2>2. counters.accepted + counters.rejected + counters.failed
          = Cardinality({s \in Span : fate[s] # "open"})
    BY DEF DeliveryInv, Counted
  <2>3. counters'.accepted + counters'.rejected + counters'.failed
          = Cardinality({s \in Span : fate'[s] # "open"})
    BY <1>3, <1>5, <2>1, <2>2
  <2> QED
    BY <2>3 DEF Counted
<1>14. \A f \in Export \ {e} : Idle(f)
  BY <1>1, <1>4 DEF Idle
<1>15. ASSUME NEW f \in Export PROVE Lined(f)' /\ Staged(f)'
  <2>1. CASE f = e
    BY <1>11, <1>12, <2>1
  <2>2. CASE f # e
    <3>1. \A s \in SpansOf(f) : fate'[s] = fate[s]
      BY <1>2, <1>6, <2>2, SpansAreFinite
    <3> QED
      BY <1>1, <1>14, <2>2, <3>1, ApartLines DEF DeliveryInv, Lines, Idle
  <2> QED
    BY <2>1, <2>2
<1>16. ASSUME NEW f \in Export
       PROVE  \A s \in SpansOf(f) : fate'[s] = "unfit" <=> fate[s] = "unfit"
  BY <1>2, <1>6, SpansAreFinite
<1>17. ASSUME NEW f \in Export PROVE Carrying(f)'
  <2>1. \A t \in Traces : lost'[t] \in Nat /\ lost[t] <= lost'[t]
    BY <1>1, <1>7
  <2>2. CASE f = e
    BY <1>4, <2>1, <2>2, EmptyCarrying
  <2>3. CASE f # e
    BY <1>0, <1>14, <1>16, <2>1, <2>3, SameCarrying DEF DeliveryInv, Losses, Idle
  <2> QED
    BY <2>2, <2>3
<1>18. ASSUME NEW t \in Traces, \A r \in Roots \cap B : TraceOf[r] # t
       PROVE  dropped'[t] = dropped[t] /\ shown'[t] = shown[t]
  <2>1. ~(c[t] > 0)
    BY <1>0, <1>18 DEF Carrying, b
  <2>2. c[t] \in Nat /\ dropped[t] \in Nat
    BY <1>7
  <2>3. dropped'[t] = dropped[t]
    BY <1>8, <2>1, <2>2
  <2>4. shown'[t] = shown[t]
    BY <1>0, <1>9, <1>18, StoreShows
  <2> QED
    BY <2>3, <2>4
<1>19. ASSUME NEW r \in Roots \cap B
       PROVE  /\ TraceOf[r] \in Traces
              /\ r \in rejected => shown'[TraceOf[r]] = shown[TraceOf[r]]
              /\ r \notin rejected => shown'[TraceOf[r]] = c[TraceOf[r]]
  <2>1. r \in Span /\ TraceOf[r] \in Traces
    BY <1>2, SpansAreFinite
  <2>2. ASSUME NEW q \in Roots \cap (B \ rejected), TraceOf[q] = TraceOf[r] PROVE q = r
    BY <1>2, <2>1, <2>2, OneRoot
  <2>3. r \in rejected => ~(\E q \in Roots \cap (B \ rejected) : TraceOf[q] = TraceOf[r])
    BY <2>2
  <2>4. r \notin rejected => \E q \in Roots \cap (B \ rejected) : TraceOf[q] = TraceOf[r]
    OBVIOUS
  <2> QED
    BY <1>0, <1>9, <2>1, <2>3, <2>4, StoreShows
<1>20. Kept'
  <2> SUFFICES ASSUME NEW t \in Traces
               PROVE  /\ dropped'[t] <= lost'[t] /\ shown'[t] <= lost'[t]
                      /\ shown'[t] > 0 =>
                           \E r \in Roots \cap Span :
                              TraceOf[r] = t /\ (fate'[r] = "accepted" \/ r \in unsure')
                      /\ Uncertain(t)' \/ lost'[t] <= dropped'[t] + shown'[t]
    BY DEF Kept
  <2>1. /\ dropped[t] <= lost[t] /\ shown[t] <= lost[t]
        /\ shown[t] > 0 =>
             \E r \in Roots \cap Span : TraceOf[r] = t /\ (fate[r] = "accepted" \/ r \in unsure)
        /\ Uncertain(t) \/ lost[t] <= dropped[t] + shown[t]
        /\ c[t] <= lost[t]
    BY <1>0 DEF Kept, Carrying
  <2>2. c[t] \in Nat /\ dropped[t] \in Nat /\ shown[t] \in Nat /\ lost[t] \in Nat
    BY <1>7
  <2>3. lost'[t] = lost[t] /\ unsure' = unsure
    BY <1>1
  <2>4. \A r \in Span : fate[r] \in {"accepted", "rejected"} => fate'[r] = fate[r]
    BY <1>2, <1>6
  <2>5. Uncertain(t) => Uncertain(t)'
    BY <2>3, <2>4 DEF Uncertain
  <2>6. CASE \A r \in Roots \cap B : TraceOf[r] # t
    <3>1. dropped'[t] = dropped[t] /\ shown'[t] = shown[t]
      BY <1>18, <2>6
    <3> QED
      BY <2>1, <2>3, <2>4, <2>5, <3>1
  <2>7. ASSUME NEW r \in Roots \cap B, TraceOf[r] = t
        PROVE  /\ dropped'[t] <= lost'[t] /\ shown'[t] <= lost'[t]
               /\ shown'[t] > 0 =>
                    \E q \in Roots \cap Span :
                       TraceOf[q] = t /\ (fate'[q] = "accepted" \/ q \in unsure')
               /\ Uncertain(t)' \/ lost'[t] <= dropped'[t] + shown'[t]
    <3>1. r \in Roots \cap Span /\ fate[r] = "open"
      BY <1>2
    <3>2. dropped'[t] = (IF dropped[t] > c[t] THEN dropped[t] - c[t] ELSE 0) /\ dropped'[t] <= lost'[t]
      BY <1>8, <2>1, <2>2, <2>3
    <3>3. CASE r \in rejected
      <4>1. shown'[t] = shown[t] /\ fate'[r] = "rejected"
        BY <1>6, <1>19, <2>7, <3>1, <3>3
      <4>2. Uncertain(t)'
        BY <2>7, <3>1, <4>1 DEF Uncertain
      <4> QED
        BY <2>1, <2>3, <2>4, <3>2, <4>1, <4>2
    <3>4. CASE r \notin rejected
      <4>1. shown'[t] = c[t] /\ fate'[r] = "accepted"
        BY <1>6, <1>19, <2>7, <3>1, <3>4
      <4>2. ASSUME ~Uncertain(t) PROVE shown[t] = 0
        <5>1. ASSUME NEW q \in Roots \cap Span, TraceOf[q] = t PROVE fate[q] = "open" /\ q \notin unsure
          <6>1. q = r
            BY <2>7, <3>1, <5>1, OneRoot
          <6> QED
            BY <2>7, <3>1, <4>2, <6>1 DEF Uncertain
        <5>2. ~(shown[t] > 0)
          BY <2>1, <5>1
        <5> QED
          BY <2>2, <5>2
      <4>3. Uncertain(t)' \/ lost'[t] <= dropped'[t] + shown'[t]
        <5>1. CASE Uncertain(t)
          BY <2>5, <5>1
        <5>2. CASE ~Uncertain(t)
          BY <2>1, <2>2, <2>3, <3>2, <4>1, <4>2, <5>2
        <5> QED
          BY <5>1, <5>2
      <4> QED
        BY <2>1, <2>3, <2>7, <3>1, <3>2, <4>1, <4>3
    <3> QED
      BY <3>3, <3>4
  <2> QED
    BY <2>6, <2>7
<1>21. ASSUME NEW f \in Export PROVE Unfitted(f)'
  <2> SUFFICES ASSUME NEW r \in Roots \cap SpansOf(f)
               PROVE  /\ fate'[r] = "open" => UnfitOf(f, r)' <= dropped'[TraceOf[r]]
                      /\ fate'[r] = "accepted" => UnfitOf(f, r)' <= shown'[TraceOf[r]]
    BY DEF Unfitted
  <2>1. r \in Roots \cap Span /\ TraceOf[r] \in Traces
    BY SpansAreFinite
  <2>2. UnfitOf(f, r)' = UnfitOf(f, r)
    BY <1>16, SameUnfit DEF UnfitOf
  <2>3. /\ fate[r] = "open" => UnfitOf(f, r) <= dropped[TraceOf[r]]
        /\ fate[r] = "accepted" => UnfitOf(f, r) <= shown[TraceOf[r]]
    BY DEF DeliveryInv, Losses, Unfitted
  <2>4. CASE r \in B
    <3>1. f = e
      BY <1>2, <2>4, SpansAreFinite
    <3>2. UnfitOf(e, r) <= c[TraceOf[r]]
      BY <1>0, <2>4 DEF Carrying, b
    <3>3. fate'[r] # "open" /\ (fate'[r] = "accepted" => r \notin rejected)
      BY <1>6, <2>1, <2>4
    <3> QED
      BY <1>19, <2>2, <2>4, <3>1, <3>2, <3>3
  <2>5. CASE r \notin B
    <3>1. \A q \in Roots \cap B : TraceOf[q] # TraceOf[r]
      <4> SUFFICES ASSUME NEW q \in Roots \cap B, TraceOf[q] = TraceOf[r] PROVE FALSE
        OBVIOUS
      <4>1. q = r
        BY <1>2, <2>1, OneRoot
      <4> QED
        BY <2>5, <4>1
    <3>2. dropped'[TraceOf[r]] = dropped[TraceOf[r]] /\ shown'[TraceOf[r]] = shown[TraceOf[r]]
      BY <1>18, <2>1, <3>1
    <3>3. fate'[r] = fate[r]
      BY <1>6, <2>1, <2>5
    <3> QED
      BY <2>2, <2>3, <3>2, <3>3
  <2> QED
    BY <2>4, <2>5
<1> QED
  BY <1>10, <1>13, <1>15, <1>17, <1>20, <1>21 DEF DeliveryInv, Lines, Losses

LEMMA DeliverySteps == DeliveryInv /\ [DeliveryNext]_deliveryVars => DeliveryInv'
<1> SUFFICES ASSUME DeliveryInv, [DeliveryNext]_deliveryVars PROVE DeliveryInv'
  OBVIOUS
<1>1. ASSUME NEW e \in Export, Step(e) PROVE DeliveryInv'
  <2>1. CASE Measure(e) \/ Pack(e) \/ Deliver(e) \/ Post(e)
    BY <2>1, MeasureKeeps, PackKeeps, DeliverKeeps, PostKeeps
  <2>2. CASE Answer(e)
    BY <2>2, AcknowledgeKeeps, GiveUpKeeps, RetryKeeps, RateLimitedKeeps DEF Answer
  <2>3. CASE HoldEnds(e) \/ HoldReleased(e) \/ Finish(e)
    BY <2>3, HoldEndsKeeps, HoldReleasedKeeps, FinishKeeps
  <2> QED
    BY <1>1, <2>1, <2>2, <2>3 DEF Step
<1>2. CASE UNCHANGED deliveryVars
  <2>1. UNCHANGED <<limit, dropped, holdsReleased, todo, placed, work, request, stage, hold, failed,
                    counters, fate, shown, unsure, lost>>
    BY <1>2 DEF deliveryVars, exports, ghosts
  <2>2. Typed'
    BY <2>1 DEF DeliveryInv, Typed
  <2>3. ASSUME NEW e \in Export PROVE Lined(e)' /\ Staged(e)' /\ Carrying(e)' /\ Unfitted(e)'
    BY <2>1 DEF DeliveryInv, Lines, Losses, Lined, Opens, Staged, Carrying, Unfitted, UnfitOf, Unfit
  <2>4. Counted' /\ Kept'
    BY <2>1 DEF DeliveryInv, Losses, Counted, Kept, Uncertain
  <2> QED
    BY <2>2, <2>3, <2>4 DEF DeliveryInv, Lines, Losses
<1> QED
  BY <1>1, <1>2, ReleaseKeeps, LoseKeeps DEF DeliveryNext

LEMMA Inductive == DeliverySpec => []DeliveryInv
<1>1. DeliveryInit => DeliveryInv
  BY DeliveryStarts
<1>2. DeliveryInv /\ [DeliveryNext]_deliveryVars => DeliveryInv'
  BY DeliverySteps
<1> QED
  BY <1>1, <1>2, PTL DEF DeliverySpec

-----------------------------------------------------------------------------
(* What the invariant says of the counts.                                  *)

LEMMA InvTypes == DeliveryInv => DeliveryTypeOK
<1> SUFFICES ASSUME DeliveryInv PROVE DeliveryTypeOK
  OBVIOUS
<1>1. ASSUME NEW e \in Export
      PROVE  /\ {todo[e], placed[e], request[e].batch} \subseteq Batch
             /\ \A i \in DOMAIN work[e] : work[e][i] \in [batch : Batch, refitted : BOOLEAN]
  <2>1. /\ todo[e] \in Seq(Record) /\ placed[e] \in Seq(Record) /\ request[e].batch \in Seq(Record)
        /\ work[e] \in Seq(Item)
    BY ExportTypes DEF DeliveryInv
  <2>2. Clean(todo[e]) /\ Clean(placed[e]) /\ Clean(request[e].batch) /\ Separate(work[e])
    BY DEF DeliveryInv, Lines, Lined, Holding
  <2>3. todo[e] \in Batch /\ placed[e] \in Batch /\ request[e].batch \in Batch
    BY <2>1, <2>2, CleanCount
  <2>4. ASSUME NEW i \in DOMAIN work[e] PROVE work[e][i] \in [batch : Batch, refitted : BOOLEAN]
    <3>1. work[e][i] \in Item /\ work[e][i].batch \in Seq(Record) /\ Clean(work[e][i].batch)
      BY <2>1, <2>2, SpansInWork DEF Separate
    <3>2. work[e][i].batch \in Batch
      BY <3>1, CleanCount
    <3> QED
      BY <3>1, <3>2 DEF Item
  <2> QED
    BY <2>3, <2>4
<1>2. ASSUME NEW e \in Export
      PROVE  /\ request[e].carried \in [Traces -> Nat] /\ request[e].tries \in 0..MaxRetries
             /\ stage[e] \in {"none", "ready", "posted", "holding", "done"}
             /\ hold[e] \in 0..MaxHold
  BY ExportTypes DEF DeliveryInv, Typed
<1>3. counters \in [{"accepted", "rejected", "failed"} -> Nat]
  <2>1. counters \in [accepted : Nat, rejected : Nat, failed : Nat]
    BY DEF DeliveryInv, Typed
  <2> QED
    BY <2>1
<1> QED
  BY <1>1, <1>2, <1>3 DEF DeliveryTypeOK, DeliveryInv, Typed

(* The batches of an export have as many records as spans in them.         *)
LEMMA WorkCount ==
  ASSUME NEW w \in Seq(Item), Separate(w)
  PROVE  /\ SumFunction([i \in DOMAIN w |-> Len(w[i].batch)]) = Cardinality(InWork(w))
         /\ IsFiniteSet(InWork(w))
<1> DEFINE n == [i \in DOMAIN w |-> Len(w[i].batch)]
           part == [i \in DOMAIN w |-> SpansIn(w[i].batch)]
<1>1. DOMAIN w = 1..Len(w) /\ Len(w) \in Nat /\ \A i \in DOMAIN w : w[i].batch \in Seq(Record)
  BY SpansInWork
<1>2. IsFiniteSet(DOMAIN w)
  BY <1>1, FS_Interval
<1>3. ASSUME NEW i \in DOMAIN w
      PROVE  IsFiniteSet(part[i]) /\ n[i] = Cardinality(part[i])
  <2>1. w[i].batch \in Seq(Record) /\ Clean(w[i].batch)
    BY <1>1 DEF Separate
  <2>2. SpansIn(w[i].batch) \in SUBSET Span /\ Cardinality(SpansIn(w[i].batch)) = Len(w[i].batch)
    BY <2>1, SpansInBatch, CleanCount
  <2> QED
    BY <2>2, SpansAreFinite
<1>4. \A i, j \in DOMAIN w : i # j => part[i] \cap part[j] = {}
  BY DEF Separate
<1>5. InWork(w) = UNION {part[i] : i \in DOMAIN w}
  BY DEF InWork
<1>6. DOMAIN n = DOMAIN w
  OBVIOUS
<1> DEFINE S == DOMAIN w
           W == InWork(w)
<1> HIDE DEF n, part
<1>7. IsFiniteSet(W) /\ Cardinality(W) = Total(n, S)
  <2>1. /\ IsFiniteSet(S) /\ W = UNION {part[i] : i \in S}
        /\ \A i \in S : IsFiniteSet(part[i]) /\ n[i] = Cardinality(part[i])
        /\ \A i, j \in S : i # j => part[i] \cap part[j] = {}
    BY <1>2, <1>3, <1>4, <1>5
  <2> DEFINE U == UNION {part[i] : i \in S}
  <2> HIDE DEF S, W
  <2>2. IsFiniteSet(U) /\ Cardinality(U) = Total(n, S)
    BY <2>1, TotalOfParts
  <2>3. W = U
    BY <2>1
  <2> HIDE DEF U
  <2> QED
    BY <2>2, <2>3
<1>8. SumFunction(n) = Total(n, DOMAIN w)
  BY <1>6, SumIsTotal
<1> QED
  BY <1>7, <1>8 DEF n

LEMMA OpenCount ==
  ASSUME Typed, NEW e \in Export, Lined(e)
  PROVE  Open(e) = Cardinality(Opens(e)) /\ IsFiniteSet(Opens(e))
<1> DEFINE A == SpansIn(todo[e])
           B == SpansIn(placed[e])
           C == SpansIn(request[e].batch)
           D == InWork(work[e])
<1>1. /\ todo[e] \in Seq(Record) /\ placed[e] \in Seq(Record) /\ request[e].batch \in Seq(Record)
      /\ work[e] \in Seq(Item)
  BY ExportTypes
<1>2. /\ Clean(todo[e]) /\ Clean(placed[e]) /\ Clean(request[e].batch) /\ Separate(work[e])
      /\ A \cap B = {} /\ A \cap D = {} /\ A \cap C = {} /\ B \cap D = {} /\ B \cap C = {}
      /\ D \cap C = {} /\ Opens(e) = A \cup B \cup D \cup C
  BY DEF Lined, Holding
<1>3. /\ Cardinality(A) = Len(todo[e]) /\ Cardinality(B) = Len(placed[e])
      /\ Cardinality(C) = Len(request[e].batch)
  BY <1>1, <1>2, CleanCount
<1>4. SumFunction([i \in DOMAIN work[e] |-> Len(work[e][i].batch)]) = Cardinality(D)
  BY <1>1, <1>2, WorkCount
<1>5. /\ A \in SUBSET Span /\ B \in SUBSET Span /\ C \in SUBSET Span /\ D \in SUBSET Span
  BY <1>1, SpansInBatch, SpansInWork
<1>6. /\ Cardinality(A) \in Nat /\ Cardinality(B) \in Nat /\ Cardinality(C) \in Nat
      /\ Cardinality(D) \in Nat
      /\ IsFiniteSet(A) /\ IsFiniteSet(B) /\ IsFiniteSet(C) /\ IsFiniteSet(D)
  BY <1>5, SpansAreFinite
<1> HIDE DEF A, B, C, D
<1>7. Cardinality(A \cup B) = Cardinality(A) + Cardinality(B) /\ IsFiniteSet(A \cup B)
  BY <1>2, <1>6, ApartCount
<1>8. (A \cup B) \cap D = {} /\ (A \cup B \cup D) \cap C = {}
  BY <1>2
<1>9. /\ Cardinality(A \cup B \cup D) = Cardinality(A) + Cardinality(B) + Cardinality(D)
      /\ IsFiniteSet(A \cup B \cup D)
  BY <1>6, <1>7, <1>8, ApartCount
<1>10. /\ Cardinality(A \cup B \cup D \cup C)
            = Cardinality(A) + Cardinality(B) + Cardinality(D) + Cardinality(C)
       /\ IsFiniteSet(A \cup B \cup D \cup C)
  BY <1>6, <1>8, <1>9, ApartCount
<1>11. Open(e) = Cardinality(A) + Cardinality(B) + Cardinality(C) + Cardinality(D)
  BY <1>3, <1>4 DEF Open
<1> QED
  BY <1>2, <1>6, <1>10, <1>11

LEMMA AllCounted ==
  ASSUME DeliveryInv
  PROVE  counters.accepted + counters.rejected + counters.failed
            + SumFunction([e \in Export |-> Open(e)]) = Cardinality(Span)
<1> DEFINE n == [e \in Export |-> Open(e)]
           part == [e \in Export |-> Opens(e)]
           O == {s \in Span : fate[s] = "open"}
           L == {s \in Span : fate[s] # "open"}
<1>1. \A e \in Export : IsFiniteSet(part[e]) /\ n[e] = Cardinality(part[e])
  BY OpenCount DEF DeliveryInv, Lines
<1>2. \A e, f \in Export : e # f => part[e] \cap part[f] = {}
  BY SpansAreFinite DEF Opens
<1>3. O = UNION {part[e] : e \in Export}
  <2>1. ASSUME NEW s \in O PROVE \E e \in Export : s \in part[e]
    BY SpansAreFinite DEF Opens
  <2>2. ASSUME NEW e \in Export, NEW s \in part[e] PROVE s \in O
    BY SpansAreFinite DEF Opens
  <2> QED
    BY <2>1, <2>2
<1>4. O \cup L = Span /\ O \cap L = {} /\ O \in SUBSET Span /\ L \in SUBSET Span
  OBVIOUS
<1>5. counters.accepted + counters.rejected + counters.failed = Cardinality(L)
  BY DEF DeliveryInv, Counted
<1>6. DOMAIN n = Export
  OBVIOUS
<1> HIDE DEF n, part, O, L
<1>7. Cardinality(O) = Total(n, Export)
  BY <1>1, <1>2, <1>3, TotalOfParts, DeliveryAssumption
<1>8. SumFunction(n) = Cardinality(O)
  BY <1>6, <1>7, SumIsTotal
<1>9. Cardinality(O) \in Nat /\ Cardinality(L) \in Nat /\ IsFiniteSet(O) /\ IsFiniteSet(L)
  BY <1>4, SpansAreFinite
<1>10. Cardinality(Span) = Cardinality(L) + Cardinality(O)
  BY <1>4, <1>9, ApartCount
<1>11. counters.accepted + counters.rejected + counters.failed + SumFunction(n) = Cardinality(Span)
  BY <1>5, <1>8, <1>10
<1> QED
  BY <1>11 DEF n

LEMMA DoneMeansAcknowledged ==
  ASSUME DeliveryInv, NEW e \in Export, stage[e] = "done", e \notin failed, NEW s \in SpansOf(e)
  PROVE  fate[s] \in {"accepted", "rejected"}
<1>1. Lined(e) /\ Staged(e) /\ s \in Span
  BY SpansAreFinite DEF DeliveryInv, Lines
<1>2. todo[e] = <<>> /\ placed[e] = <<>> /\ work[e] = <<>> /\ request[e] = NoRequest
  BY <1>1 DEF Staged
<1>3. SpansIn(<<>>) = {} /\ InWork(<<>>) = {} /\ SpansIn(NoRequest.batch) = {}
  BY NoBatch, NoWork, EmptyRequest
<1>4. Opens(e) = {}
  BY <1>1, <1>2, <1>3 DEF Lined, Holding
<1>5. fate[s] # "open"
  BY <1>4 DEF Opens
<1>6. fate[s] \notin {"failed", "unfit", "over"}
  BY <1>1 DEF Staged
<1>7. fate[s] \in {"open", "accepted", "rejected", "failed", "unfit", "over"}
  BY <1>1 DEF DeliveryInv, Typed
<1> QED
  BY <1>5, <1>6, <1>7

LEMMA InvCounts == DeliveryInv => CountsAddUp
BY InvTypes, AllCounted, DoneMeansAcknowledged DEF CountsAddUp

LEMMA InvShows == DeliveryInv => RootsShowLosses
<1> SUFFICES ASSUME DeliveryInv PROVE RootsShowLosses
  OBVIOUS
<1>1. LossesShown
  BY DEF DeliveryInv, Losses, Kept, LossesShown
<1>2. ASSUME NEW e \in Export, NEW r \in Roots \cap SpansOf(e), fate[r] = "accepted"
      PROVE  shown[TraceOf[r]] >= Cardinality(Unfit(e, TraceOf[r]))
  <2>1. Cardinality(Unfit(e, TraceOf[r])) <= shown[TraceOf[r]]
    BY <1>2 DEF DeliveryInv, Losses, Unfitted, UnfitOf
  <2>2. Cardinality(Unfit(e, TraceOf[r])) \in Nat /\ shown[TraceOf[r]] \in Nat
    BY UnfitFinite, SpansAreFinite DEF DeliveryInv, Typed
  <2> QED
    BY <2>1, <2>2
<1> QED
  BY <1>1, <1>2 DEF RootsShowLosses, RootShowsUnfit

(* Every span that an export was given is counted once when it leaves, as  *)
(* accepted, rejected or failed, and an export succeeds only if Hue        *)
(* answered for each of them: for any exports, spans and sizes, whatever   *)
(* placeAndSend splits, sheds and sends back to be fitted again, whatever  *)
(* OtlpHttpTransport.send retries and holds, and however the exports that  *)
(* run at the same time move each other's limits.                          *)
THEOREM CountsHold == DeliverySpec => []CountsAddUp
<1>1. DeliveryInv => CountsAddUp
  BY InvCounts
<1> QED
  BY <1>1, Inductive, PTL

(* A stored root never shows more losses than its trace had, a loss it     *)
(* does not show is still counted unless Hue rejected the root or stored   *)
(* it unacknowledged (withDroppedRecords, consumeDroppedRecords), and an   *)
(* accepted root shows the spans of its export that could not be fitted.   *)
THEOREM LossesAreShown == DeliverySpec => []RootsShowLosses
<1>1. DeliveryInv => RootsShowLosses
  BY InvShows
<1> QED
  BY <1>1, Inductive, PTL

-----------------------------------------------------------------------------
(* The uploads of large values (ValueUploads).                             *)

InPlace(places) == {u \in Upload : pc[u] \in places}

(* The places are those of the uploads under way; the size bounds them, but *)
(* for those past their deadline, which end without more work; and nobody   *)
(* waits while one is free.                                                 *)
Places ==
    /\ running = Cardinality(InPlace(Placed))
    /\ waiting \in Seq(Upload) /\ IsInjective(waiting)
    /\ ToSet(waiting) = InPlace({"queued", "returning"})
    /\ waiting # <<>> => running >= Size
    /\ closed => waiting = <<>>
    /\ ~closed => Cardinality(InPlace(Placed \ {"overdue"})) <= Size
    /\ InPlace({"overdue"}) \subseteq expired

(* What is charged is what the unsettled uploads hold.                     *)
Charges ==
    /\ queued \in 0..MaxQueued /\ queuedBytes \in Nat /\ holding \in [Text -> Nat]
    /\ HeldOnce

(* Where an upload is that others share the outcome of.                    *)
Shared == Place \ {"new", "sharing", "refused"}

(* An unsettled upload that does not share an outcome has the one of its   *)
(* bytes; one that shares has the same bytes as the other, which has an    *)
(* outcome or is on its way to one.                                        *)
Outcomes ==
    /\ outcomes \in Seq(Upload) /\ Len(outcomes) <= MaxOutcomes
    /\ \A i, j \in DOMAIN outcomes : Value[outcomes[i]] = Value[outcomes[j]] => i = j
    /\ ~closed => \A u \in Charged : pc[u] # "sharing" => u \in ToSet(outcomes)
    /\ \A v \in ToSet(outcomes) : pc[v] \in Shared
    /\ \A u \in InPlace({"sharing"}) :
          known[u] \in Upload /\ Value[known[u]] = Value[u] /\ pc[known[u]] \in Shared

(* Success is of bytes that are stored.                                    *)
Results ==
    /\ \A u \in InPlace({"completing"}) : Value[u] \in stored
    /\ \A u \in Upload : result[u] = "ok" => Value[u] \in stored
    /\ \A u \in Upload : result[u] = "changed" => u \in Altered

PoolTyped ==
    /\ pc \in [Upload -> Place]
    /\ step \in [Upload -> {"reserving", "putting"}]
    /\ known \in [Upload -> Upload \cup {None}]
    /\ tries \in [Upload -> 0..Attempts - 1]
    /\ puts \in [Upload -> 0..Attempts - 1]
    /\ presigns \in [Upload -> 0..2]
    /\ expired \subseteq Upload
    /\ result \in [Upload -> Result]
    /\ unsupported \in BOOLEAN /\ closed \in BOOLEAN
    /\ stored \subseteq Values
    /\ faults \in 0..MaxFaults

PoolInv == PoolTyped /\ Places /\ Charges /\ Outcomes /\ Results

-----------------------------------------------------------------------------
(* Sequences that lose or gain an element.                                 *)

LEMMA SeqSet ==
  ASSUME NEW S, NEW s \in Seq(S)
  PROVE  /\ DOMAIN s = 1..Len(s) /\ Len(s) \in Nat /\ \A i \in 1..Len(s) : s[i] \in S
         /\ ToSet(s) = {s[i] : i \in 1..Len(s)}
         /\ ToSet(s) \in SUBSET S
<1>1. DOMAIN s = 1..Len(s) /\ Len(s) \in Nat /\ \A i \in 1..Len(s) : s[i] \in S
  OBVIOUS
<1> QED
  BY <1>1 DEF ToSet

LEMMA CutOut ==
  ASSUME NEW S, NEW s \in Seq(S), NEW k \in 1..Len(s)
  PROVE  /\ RemoveAt(s, k) \in Seq(S) /\ Len(RemoveAt(s, k)) = Len(s) - 1
         /\ \A i \in 1..Len(s) - 1 : RemoveAt(s, k)[i] = IF i < k THEN s[i] ELSE s[i + 1]
<1> DEFINE n == Len(s)
           p == SubSeq(s, 1, k - 1)
           q == SubSeq(s, k + 1, n)
           r == p \o q
<1>1. n \in Nat /\ k \in Nat /\ k >= 1 /\ k <= n /\ \A i \in 1..n : s[i] \in S
  BY SeqSet
<1>2. p \in Seq(S) /\ Len(p) = k - 1 /\ \A i \in 1..k - 1 : p[i] = s[i]
  <2>1. \A i \in 1..k - 1 : s[i] \in S
    BY <1>1
  <2>2. /\ p \in Seq(S)
        /\ Len(p) = IF 1 <= k - 1 THEN (k - 1) - 1 + 1 ELSE 0
        /\ \A i \in 1..(k - 1) - 1 + 1 : p[i] = s[1 + i - 1]
    BY <1>1, <2>1, SubSeqProperties
  <2> QED
    BY <1>1, <2>2
<1>3. q \in Seq(S) /\ Len(q) = n - k /\ \A i \in 1..n - k : q[i] = s[i + k]
  <2>1. \A i \in k + 1..n : s[i] \in S
    BY <1>1
  <2>2. /\ q \in Seq(S)
        /\ Len(q) = IF k + 1 <= n THEN n - (k + 1) + 1 ELSE 0
        /\ \A i \in 1..n - (k + 1) + 1 : q[i] = s[(k + 1) + i - 1]
    BY <1>1, <2>1, SubSeqProperties
  <2> QED
    BY <1>1, <2>2
<1> HIDE DEF p, q
<1>4. /\ r \in Seq(S) /\ Len(r) = (k - 1) + (n - k)
      /\ \A i \in 1..(k - 1) + (n - k) : r[i] = IF i <= k - 1 THEN p[i] ELSE q[i - (k - 1)]
  <2>1. /\ r \in Seq(S) /\ Len(r) = Len(p) + Len(q)
        /\ \A i \in 1..Len(p) + Len(q) : r[i] = IF i <= Len(p) THEN p[i] ELSE q[i - Len(p)]
    BY <1>2, <1>3, ConcatProperties
  <2> HIDE DEF r
  <2> QED
    BY <1>2, <1>3, <2>1
<1>5. RemoveAt(s, k) = r
  BY DEF RemoveAt, p, q
<1> HIDE DEF r, n
<1>6. ASSUME NEW i \in 1..n - 1 PROVE r[i] = IF i < k THEN s[i] ELSE s[i + 1]
  <2>1. i \in Nat /\ i >= 1 /\ i <= n - 1 /\ i \in 1..(k - 1) + (n - k)
    BY <1>1
  <2>2. CASE i < k
    <3>1. i \in 1..k - 1
      BY <1>1, <2>1, <2>2
    <3> QED
      BY <1>1, <1>2, <1>4, <2>1, <2>2, <3>1
  <2>3. CASE ~(i < k)
    <3>1. i - (k - 1) \in 1..n - k /\ (i - (k - 1)) + k = i + 1 /\ ~(i <= k - 1)
      BY <1>1, <2>1, <2>3
    <3> QED
      BY <1>3, <1>4, <2>1, <2>3, <3>1
  <2> QED
    BY <2>2, <2>3
<1>7. Len(r) = n - 1
  BY <1>1, <1>4
<1> QED
  BY <1>4, <1>5, <1>6, <1>7 DEF n

(* The other entries are kept.                                             *)
LEMMA CutKeeps ==
  ASSUME NEW S, NEW s \in Seq(S), NEW k \in 1..Len(s)
  PROVE  LET r == RemoveAt(s, k)
         IN  /\ r \in Seq(S) /\ Len(r) = Len(s) - 1
             /\ ToSet(r) = {s[i] : i \in (1..Len(s)) \ {k}}
             /\ \A i, j \in DOMAIN r : \E x, y \in DOMAIN s :
                   r[i] = s[x] /\ r[j] = s[y] /\ (x = y => i = j)
<1> DEFINE r == RemoveAt(s, k)
           n == Len(s)
           at(i) == IF i < k THEN i ELSE i + 1
<1>1. /\ r \in Seq(S) /\ Len(r) = n - 1
      /\ \A i \in 1..n - 1 : r[i] = IF i < k THEN s[i] ELSE s[i + 1]
  BY CutOut
<1>2. n \in Nat /\ k \in Nat /\ k >= 1 /\ k <= n /\ DOMAIN s = 1..n /\ DOMAIN r = 1..n - 1
  BY <1>1, SeqSet
<1>3. ToSet(r) = {r[i] : i \in 1..n - 1}
  BY <1>1, SeqSet
<1> HIDE DEF r, n
<1>4. \A i \in 1..n - 1 : at(i) \in 1..n /\ at(i) # k /\ r[i] = s[at(i)]
  BY <1>1, <1>2
<1>5. \A i, j \in 1..n - 1 : at(i) = at(j) => i = j
  BY <1>2
<1>6. ASSUME NEW x \in (1..n) \ {k} PROVE \E i \in 1..n - 1 : r[i] = s[x]
  <2>1. CASE x < k
    <3>1. x \in 1..n - 1
      BY <1>2, <2>1
    <3> QED
      BY <1>1, <2>1, <3>1
  <2>2. CASE ~(x < k)
    <3>1. x - 1 \in 1..n - 1 /\ ~(x - 1 < k) /\ (x - 1) + 1 = x
      BY <1>2, <2>2
    <3> QED
      BY <1>1, <3>1
  <2> QED
    BY <2>1, <2>2
<1> HIDE DEF at
<1>7. ToSet(r) = {s[i] : i \in (1..n) \ {k}}
  <2>1. \A e \in ToSet(r) : e \in {s[i] : i \in (1..n) \ {k}}
    BY <1>3, <1>4
  <2>2. \A e \in {s[i] : i \in (1..n) \ {k}} : e \in ToSet(r)
    BY <1>3, <1>6
  <2> QED
    BY <2>1, <2>2
<1>8. \A i, j \in DOMAIN r : \E x, y \in DOMAIN s : r[i] = s[x] /\ r[j] = s[y] /\ (x = y => i = j)
  BY <1>2, <1>4, <1>5
<1> QED
  BY <1>1, <1>7, <1>8 DEF r, n

LEMMA FirstPosition ==
  ASSUME NEW n \in Nat, NEW I, I \subseteq 1..n, I # {}
  PROVE  Min(I) \in I
<1>1. I \subseteq Nat
  OBVIOUS
<1>2. \E x \in I : \A y \in I : x <= y
  BY <1>1, LeastOf
<1> QED
  BY <1>2 DEF Min

LEMMA RemovesFirst ==
  ASSUME NEW S, NEW s \in Seq(S), NEW e
  PROVE  IF e \in ToSet(s) THEN \E k \in 1..Len(s) : s[k] = e /\ RemoveFirst(s, e) = RemoveAt(s, k)
         ELSE RemoveFirst(s, e) = s
<1> DEFINE I == {i \in 1..Len(s) : s[i] = e}
<1>1. Len(s) \in Nat /\ (e \in ToSet(s) <=> I # {})
  BY SeqSet
<1>2. I # {} => Min(I) \in I
  BY <1>1, FirstPosition
<1>3. RemoveFirst(s, e) = IF I # {} THEN RemoveAt(s, Min(I)) ELSE s
  BY DEF RemoveFirst, SelectInSeq
<1> QED
  BY <1>1, <1>2, <1>3

(* Of a sequence without repetition, all of it.                            *)
LEMMA RemovesOne ==
  ASSUME NEW S, NEW s \in Seq(S), NEW e, IsInjective(s)
  PROVE  LET r == RemoveFirst(s, e)
         IN  /\ r \in Seq(S) /\ IsInjective(r) /\ ToSet(r) = ToSet(s) \ {e} /\ Len(r) <= Len(s)
<1>1. CASE e \notin ToSet(s)
  <2>1. RemoveFirst(s, e) = s /\ ToSet(s) = ToSet(s) \ {e} /\ Len(s) \in Nat
    BY <1>1, RemovesFirst, SeqSet
  <2> QED
    BY <2>1
<1>2. CASE e \in ToSet(s)
  <2>1. PICK k \in 1..Len(s) : s[k] = e /\ RemoveFirst(s, e) = RemoveAt(s, k)
    BY <1>2, RemovesFirst
  <2> DEFINE r == RemoveAt(s, k)
  <2>2. /\ r \in Seq(S) /\ Len(r) = Len(s) - 1
        /\ ToSet(r) = {s[i] : i \in (1..Len(s)) \ {k}}
        /\ \A i, j \in DOMAIN r : \E x, y \in DOMAIN s :
              r[i] = s[x] /\ r[j] = s[y] /\ (x = y => i = j)
    BY CutKeeps
  <2>3. /\ DOMAIN s = 1..Len(s) /\ Len(s) \in Nat /\ ToSet(s) = {s[i] : i \in 1..Len(s)}
    BY SeqSet
  <2>4. \A i, j \in 1..Len(s) : s[i] = s[j] => i = j
    BY <2>3 DEF IsInjective
  <2> HIDE DEF r
  <2>5. ToSet(r) = ToSet(s) \ {e}
    <3>1. ASSUME NEW i \in 1..Len(s) PROVE s[i] \in ToSet(r) <=> s[i] # e
      BY <2>1, <2>2, <2>4
    <3>2. ToSet(r) \subseteq ToSet(s)
      BY <2>2, <2>3
    <3> QED
      BY <2>3, <3>1, <3>2
  <2>6. IsInjective(r)
    <3> SUFFICES ASSUME NEW i \in DOMAIN r, NEW j \in DOMAIN r, r[i] = r[j] PROVE i = j
      BY DEF IsInjective
    <3> QED
      BY <2>2, <2>3, <2>4
  <2>7. Len(r) <= Len(s)
    BY <2>2, <2>3
  <2> QED
    BY <2>1, <2>2, <2>5, <2>6, <2>7 DEF r
<1> QED
  BY <1>1, <1>2

LEMMA AppendOne ==
  ASSUME NEW S, NEW s \in Seq(S), NEW e \in S
  PROVE  /\ Append(s, e) \in Seq(S) /\ Len(Append(s, e)) = Len(s) + 1
         /\ ToSet(Append(s, e)) = ToSet(s) \cup {e}
         /\ DOMAIN Append(s, e) = 1..Len(s) + 1
         /\ \A i \in 1..Len(s) : Append(s, e)[i] = s[i]
         /\ Append(s, e)[Len(s) + 1] = e
<1> DEFINE a == Append(s, e)
           n == Len(s)
<1>1. /\ a \in Seq(S) /\ Len(a) = n + 1 /\ a[n + 1] = e /\ \A i \in 1..n : a[i] = s[i]
  BY AppendProperties
<1>2. n \in Nat /\ ToSet(s) = {s[i] : i \in 1..n} /\ ToSet(a) = {a[i] : i \in 1..n + 1}
      /\ DOMAIN a = 1..n + 1
  <2>1. ToSet(a) = {a[i] : i \in 1..Len(a)} /\ DOMAIN a = 1..Len(a)
    BY <1>1, SeqSet
  <2>2. n \in Nat /\ ToSet(s) = {s[i] : i \in 1..n}
    BY SeqSet
  <2> QED
    BY <1>1, <2>1, <2>2
<1> HIDE DEF a, n
<1>3. 1..n + 1 = (1..n) \cup {n + 1}
  BY <1>2
<1>4. ToSet(a) = ToSet(s) \cup {e}
  <2>1. \A x \in ToSet(a) : x \in ToSet(s) \cup {e}
    BY <1>1, <1>2, <1>3
  <2>2. \A x \in ToSet(s) \cup {e} : x \in ToSet(a)
    BY <1>1, <1>2, <1>3
  <2> QED
    BY <2>1, <2>2
<1> QED
  BY <1>1, <1>2, <1>4 DEF a, n

LEMMA TailOne ==
  ASSUME NEW S, NEW s \in Seq(S), s # <<>>, IsInjective(s)
  PROVE  /\ Head(s) \in ToSet(s) /\ Head(s) \in S /\ Tail(s) \in Seq(S) /\ IsInjective(Tail(s))
         /\ ToSet(Tail(s)) = ToSet(s) \ {Head(s)}
<1> DEFINE n == Len(s)
           t == Tail(s)
<1>1. /\ Head(s) = s[1] /\ t \in Seq(S) /\ n \in Nat \ {0} /\ Len(t) = n - 1
      /\ \A i \in 1..n - 1 : t[i] = s[i + 1]
  BY HeadTailProperties, EmptySeq
<1>2. /\ DOMAIN s = 1..n /\ ToSet(s) = {s[i] : i \in 1..n} /\ \A i \in 1..n : s[i] \in S
  BY SeqSet
<1>3. DOMAIN t = 1..n - 1 /\ ToSet(t) = {t[i] : i \in 1..n - 1}
  <2>1. DOMAIN t = 1..Len(t) /\ ToSet(t) = {t[i] : i \in 1..Len(t)}
    BY <1>1, SeqSet
  <2> QED
    BY <1>1, <2>1
<1>4. \A i, j \in 1..n : s[i] = s[j] => i = j
  BY <1>2 DEF IsInjective
<1> HIDE DEF n, t
<1>5. \A i \in 1..n - 1 : i + 1 \in 1..n /\ i + 1 # 1
  BY <1>1
<1>6. \A x \in 1..n : x # 1 => x - 1 \in 1..n - 1 /\ (x - 1) + 1 = x
  BY <1>1
<1>7. \A e \in ToSet(t) : e \in ToSet(s) \ {s[1]}
  BY <1>1, <1>2, <1>3, <1>4, <1>5
<1>8. ASSUME NEW e \in ToSet(s) \ {s[1]} PROVE e \in ToSet(t)
  <2>1. PICK x \in 1..n : e = s[x] /\ x # 1
    BY <1>2
  <2>2. t[x - 1] = s[x]
    BY <1>1, <1>6, <2>1
  <2> QED
    BY <1>3, <1>6, <2>1, <2>2
<1>9. IsInjective(t)
  <2> SUFFICES ASSUME NEW i \in DOMAIN t, NEW j \in DOMAIN t, t[i] = t[j] PROVE i = j
    BY DEF IsInjective
  <2>1. i \in 1..n - 1 /\ j \in 1..n - 1
    BY <1>3
  <2>2. s[i + 1] = s[j + 1] /\ i + 1 \in 1..n /\ j + 1 \in 1..n
    BY <1>1, <1>5, <2>1
  <2>3. i + 1 = j + 1
    BY <1>4, <2>2
  <2> QED
    BY <1>1, <2>1, <2>3
<1>10. 1 \in 1..n
  BY <1>1
<1>11. ToSet(t) = ToSet(s) \ {s[1]}
  BY <1>7, <1>8
<1> QED
  BY <1>1, <1>2, <1>9, <1>10, <1>11 DEF t, n

LEMMA AppendFresh ==
  ASSUME NEW S, NEW s \in Seq(S), NEW e \in S, e \notin ToSet(s), IsInjective(s)
  PROVE  IsInjective(Append(s, e))
<1> DEFINE a == Append(s, e)
           n == Len(s)
<1>1. /\ DOMAIN a = 1..n + 1 /\ a[n + 1] = e /\ \A i \in 1..n : a[i] = s[i]
  BY AppendOne
<1>2. n \in Nat /\ DOMAIN s = 1..n /\ ToSet(s) = {s[i] : i \in 1..n}
  BY SeqSet
<1>3. \A i, j \in 1..n : s[i] = s[j] => i = j
  BY <1>2 DEF IsInjective
<1> HIDE DEF a, n
<1>4. \A i \in 1..n + 1 : i \in 1..n \/ i = n + 1
  BY <1>2
<1>5. \A i \in 1..n : a[i] # e
  BY <1>1, <1>2
<1>6. \A i, j \in 1..n + 1 : a[i] = a[j] => i = j
  BY <1>1, <1>3, <1>4, <1>5
<1> QED
  BY <1>1, <1>6 DEF IsInjective, a


LEMMA EmptyOne ==
  ASSUME NEW S
  PROVE  <<>> \in Seq(S) /\ IsInjective(<<>>) /\ ToSet(<<>>) = {} /\ DOMAIN <<>> = {} /\ Len(<<>>) = 0
<1>1. <<>> \in Seq(S) /\ Len(<<>>) = 0
  BY EmptySeq
<1>2. DOMAIN <<>> = {}
  BY <1>1
<1>3. ToSet(<<>>) = {<<>>[i] : i \in 1..Len(<<>>)}
  BY <1>1, SeqSet
<1>4. ToSet(<<>>) = {}
  BY <1>1, <1>3
<1> QED
  BY <1>1, <1>2, <1>4 DEF IsInjective

(* A sequence without repetition is as long as it has elements.            *)
LEMMA InjectiveLength ==
  ASSUME NEW S, NEW s \in Seq(S), IsInjective(s)
  PROVE  Len(s) = Cardinality(ToSet(s))
<1>1. DOMAIN s = 1..Len(s) /\ Len(s) \in Nat /\ ToSet(s) = {s[i] : i \in 1..Len(s)}
  BY SeqSet
<1>2. s \in Bijection(1..Len(s), ToSet(s))
  <2>1. s \in [1..Len(s) -> ToSet(s)]
    BY <1>1
  <2>2. \A i, j \in 1..Len(s) : s[i] = s[j] => i = j
    BY <1>1 DEF IsInjective
  <2>3. \A t \in ToSet(s) : \E i \in 1..Len(s) : s[i] = t
    BY <1>1
  <2> QED
    BY <2>1, <2>2, <2>3 DEF Bijection, Injection, Surjection
<1>3. IsFiniteSet(1..Len(s)) /\ Cardinality(1..Len(s)) = Len(s)
  BY <1>1, FS_Interval
<1> QED
  BY <1>2, <1>3, FS_Bijection DEF ExistsBijection
-----------------------------------------------------------------------------
(* The places.                                                             *)

LEMMA UploadsFinite ==
  /\ \A S \in SUBSET Upload : IsFiniteSet(S) /\ Cardinality(S) \in Nat
  /\ \A S, T \in SUBSET Upload : S \subseteq T => Cardinality(S) <= Cardinality(T)
  /\ \A S \in SUBSET Upload : \A u \in Upload :
        /\ u \notin S => Cardinality(S \cup {u}) = Cardinality(S) + 1
        /\ u \in S => Cardinality(S \ {u}) = Cardinality(S) - 1
<1>1. \A S \in SUBSET Upload : IsFiniteSet(S) /\ Cardinality(S) \in Nat
  BY UploadAssumption, FS_Subset, FS_CardinalityType
<1>2. \A S, T \in SUBSET Upload : S \subseteq T => Cardinality(S) <= Cardinality(T)
  BY <1>1, FS_Subset
<1>3. \A S \in SUBSET Upload : \A u \in Upload :
         /\ u \notin S => Cardinality(S \cup {u}) = Cardinality(S) + 1
         /\ u \in S => Cardinality(S \ {u}) = Cardinality(S) - 1
  BY <1>1, FS_AddElement, FS_RemoveElement
<1> QED
  BY <1>1, <1>2, <1>3

LEMMA LimitsAreNat == /\ Size \in Nat \ {0} /\ Attempts \in Nat \ {0} /\ MaxOutcomes \in Nat \ {0}
                      /\ MaxQueued \in Nat /\ MaxHeld \in Nat /\ MaxFaults \in Nat
BY UploadAssumption

InLine == {"queued", "returning"}
Sized == Placed \ {"overdue"}

LEMMA PlaceNames ==
  /\ Placed = {"reserving", "putting", "completing", "fresh", "resumed", "overdue"}
  /\ Sized = {"reserving", "putting", "completing", "fresh", "resumed"}
  /\ Requesting \subseteq Sized /\ Placed \subseteq Place /\ InLine \subseteq Place
  /\ Ended = {"refused", "settled"} /\ Ended \subseteq Place
  /\ {"new", "sharing", "pausing"} \subseteq Place
BY DEF Placed, Sized, Requesting, Place, InLine, Ended

LEMMA InPlaceSet ==
  /\ \A P : InPlace(P) \in SUBSET Upload
  /\ \A P, Q : P \subseteq Q => InPlace(P) \subseteq InPlace(Q)
BY DEF InPlace

LEMMA MovesOne ==
  ASSUME PoolTyped, NEW u \in Upload, NEW to \in Place, pc' = [pc EXCEPT ![u] = to], NEW P
  PROVE  /\ InPlace(P)' = IF to \in P THEN InPlace(P) \cup {u} ELSE InPlace(P) \ {u}
         /\ pc' \in [Upload -> Place]
<1>1. pc \in [Upload -> Place]
  BY DEF PoolTyped
<1> QED
  BY <1>1 DEF InPlace

(* The step of an upload lets at most others that wait for a place have it. *)
Moved(u) ==
  /\ pc' \in [Upload -> Place]
  /\ \A v \in Upload \ {u} :
        \/ pc'[v] = pc[v]
        \/ pc[v] \in InLine /\ pc'[v] \in {"fresh", "resumed"}

LEMMA MovesAlone ==
  ASSUME PoolTyped, NEW u \in Upload, NEW to \in Place, pc' = [pc EXCEPT ![u] = to]
  PROVE  Moved(u) /\ pc'[u] = to
BY DEF PoolTyped, Moved

(* From one place to another, or outside of the places.                    *)
LEMMA StaysKeeps ==
  ASSUME PoolTyped, Places, NEW u \in Upload, NEW to \in Place, pc' = [pc EXCEPT ![u] = to],
         \/ pc[u] \in Sized /\ to \in Sized
         \/ pc[u] \notin Placed \cup InLine /\ to \notin Placed \cup InLine,
         UNCHANGED <<running, waiting, closed>>, expired \ {u} \subseteq expired'
  PROVE  Places'
<1>1. u \in InPlace(Placed) <=> pc[u] \in Placed
  BY DEF InPlace
<1>2. InPlace(Placed)' = InPlace(Placed) /\ InPlace(Sized)' = InPlace(Sized)
  <2>1. /\ InPlace(Placed)' = IF to \in Placed THEN InPlace(Placed) \cup {u} ELSE InPlace(Placed) \ {u}
        /\ InPlace(Sized)' = IF to \in Sized THEN InPlace(Sized) \cup {u} ELSE InPlace(Sized) \ {u}
    BY MovesOne
  <2>2. /\ u \in InPlace(Placed) <=> to \in Placed
        /\ u \in InPlace(Sized) <=> to \in Sized
    BY PlaceNames DEF InPlace
  <2> QED
    BY <2>1, <2>2
<1>3. InPlace(InLine)' = InPlace(InLine)
  <2>1. InPlace(InLine)' = IF to \in InLine THEN InPlace(InLine) \cup {u} ELSE InPlace(InLine) \ {u}
    BY MovesOne
  <2>2. u \notin InPlace(InLine) /\ to \notin InLine
    BY PlaceNames DEF InPlace, InLine
  <2> QED
    BY <2>1, <2>2
<1>4. InPlace({"overdue"})' \subseteq expired'
  <2>1. InPlace({"overdue"})' = InPlace({"overdue"}) \ {u}
    <3>1. InPlace({"overdue"})' = IF to \in {"overdue"} THEN InPlace({"overdue"}) \cup {u}
                                   ELSE InPlace({"overdue"}) \ {u}
      BY MovesOne
    <3>2. to # "overdue"
      BY PlaceNames
    <3> QED
      BY <3>1, <3>2
  <2> QED
    BY <2>1 DEF Places
<1> QED
  BY <1>2, <1>3, <1>4 DEF Places, InLine, Sized

LEMMA TakeKeeps ==
  ASSUME PoolTyped, Places, NEW u \in Upload, pc[u] \notin Placed \cup InLine,
         NEW given \in {"fresh", "resumed"}, NEW waits \in InLine, Take(u, given, waits),
         closed' = closed, expired' = expired
  PROVE  Places' /\ Moved(u) /\ pc'[u] \in {given, waits}
<1>1. given \in Place /\ waits \in Place /\ given \in Sized /\ given \in Placed /\ given \notin InLine
  BY PlaceNames DEF InLine
<1>2. /\ waits \notin Placed /\ waits \notin Sized /\ waits # "overdue" /\ given # "overdue"
  BY PlaceNames DEF InLine
<1>3. u \notin InPlace(Placed) /\ u \notin InPlace(InLine) /\ u \notin InPlace({"overdue"})
  BY PlaceNames DEF InPlace
<1>4. /\ running = Cardinality(InPlace(Placed)) /\ running \in Nat
      /\ InPlace(Placed) \in SUBSET Upload /\ InPlace(Sized) \in SUBSET Upload
      /\ Cardinality(InPlace(Sized)) \in Nat
  BY InPlaceSet, UploadsFinite DEF Places
<1>5. Size \in Nat
  BY LimitsAreNat
<1>6. CASE running < Size \/ closed
  <2>1. /\ running' = running + 1 /\ pc' = [pc EXCEPT ![u] = given] /\ waiting' = waiting
    BY <1>6 DEF Take
  <2>2. /\ InPlace(Placed)' = InPlace(Placed) \cup {u} /\ InPlace(Sized)' = InPlace(Sized) \cup {u}
        /\ InPlace(InLine)' = InPlace(InLine) \ {u}
        /\ InPlace({"overdue"})' = InPlace({"overdue"}) \ {u}
    BY <1>1, <1>2, <2>1, MovesOne
  <2>3. running' = Cardinality(InPlace(Placed)')
    BY <1>3, <1>4, <2>1, <2>2, UploadsFinite
  <2>4. Cardinality(InPlace(Sized)') <= Cardinality(InPlace(Placed)')
    <3>1. InPlace(Sized) \subseteq InPlace(Placed)
      BY InPlaceSet, PlaceNames
    <3>2. /\ InPlace(Sized) \cup {u} \in SUBSET Upload /\ InPlace(Placed) \cup {u} \in SUBSET Upload
          /\ InPlace(Sized) \cup {u} \subseteq InPlace(Placed) \cup {u}
      BY <1>4, <3>1
    <3> QED
      BY <2>2, <3>2, UploadsFinite
  <2>5. ~closed' => Cardinality(InPlace(Sized)') <= Size
    <3>1. Cardinality(InPlace(Sized)') \in Nat
      BY <1>4, <2>2, UploadsFinite
    <3> QED
      BY <1>4, <1>5, <1>6, <2>1, <2>3, <2>4, <3>1
  <2>6. InPlace(InLine)' = InPlace(InLine) /\ InPlace({"overdue"})' = InPlace({"overdue"})
    BY <1>3, <2>2
  <2>7. waiting' # <<>> => running' >= Size
    BY <1>4, <1>5, <2>1 DEF Places
  <2>8. Places'
    BY <2>1, <2>3, <2>5, <2>6, <2>7 DEF Places, InLine, Sized
  <2> QED
    BY <1>1, <2>1, <2>8, MovesAlone
<1>7. CASE ~(running < Size \/ closed)
  <2>1. /\ waiting' = Append(waiting, u) /\ pc' = [pc EXCEPT ![u] = waits] /\ running' = running
    BY <1>7 DEF Take
  <2>2. /\ InPlace(Placed)' = InPlace(Placed) \ {u} /\ InPlace(Sized)' = InPlace(Sized) \ {u}
        /\ InPlace(InLine)' = InPlace(InLine) \cup {u}
        /\ InPlace({"overdue"})' = InPlace({"overdue"}) \ {u}
    BY <1>1, <1>2, <2>1, MovesOne
  <2>3. InPlace(Placed)' = InPlace(Placed) /\ InPlace({"overdue"})' = InPlace({"overdue"})
    BY <1>3, <2>2
  <2>4. InPlace(Sized)' = InPlace(Sized)
    BY <1>3, <2>2, InPlaceSet, PlaceNames
  <2>5. waiting \in Seq(Upload) /\ IsInjective(waiting) /\ ToSet(waiting) = InPlace(InLine)
    BY DEF Places, InLine
  <2>6. waiting' \in Seq(Upload) /\ ToSet(waiting') = InPlace(InLine)'
    BY <2>1, <2>2, <2>5, AppendOne
  <2>7. IsInjective(waiting')
    BY <1>3, <2>1, <2>5, AppendFresh
  <2>8. running' >= Size
    BY <1>4, <1>5, <1>7, <2>1
  <2>9. Places'
    BY <1>7, <2>1, <2>3, <2>4, <2>6, <2>7, <2>8 DEF Places, InLine, Sized
  <2> QED
    BY <1>1, <2>1, <2>9, MovesAlone
<1> QED
  BY <1>6, <1>7

LEMMA GiveKeeps ==
  ASSUME PoolTyped, Places, NEW u \in Upload, pc[u] \in Placed,
         NEW to \in {"settled", "pausing"}, Give(u, to),
         closed' = closed, expired \ {u} \subseteq expired'
  PROVE  Places' /\ Moved(u) /\ pc'[u] = to
<1>1. to \in Place /\ to \notin Placed /\ to \notin Sized /\ to \notin InLine /\ to # "overdue"
  BY PlaceNames DEF InLine
<1>2. /\ running = Cardinality(InPlace(Placed)) /\ running \in Nat
      /\ InPlace(Placed) \in SUBSET Upload /\ InPlace(Sized) \in SUBSET Upload
      /\ Cardinality(InPlace(Sized)) \in Nat
  BY InPlaceSet, UploadsFinite DEF Places
<1>3. Size \in Nat
  BY LimitsAreNat
<1>4. u \in InPlace(Placed) /\ u \notin InPlace(InLine)
  BY PlaceNames DEF InPlace, InLine
<1>5. waiting \in Seq(Upload) /\ IsInjective(waiting) /\ ToSet(waiting) = InPlace(InLine)
  BY DEF Places, InLine
<1>6. CASE running <= Size /\ waiting # <<>>
  <2> DEFINE h == Head(waiting)
             w == Woken(h)
  <2>1. /\ waiting' = Tail(waiting) /\ running' = running
        /\ pc' = [pc EXCEPT ![u] = to, ![h] = w]
    BY <1>6 DEF Give
  <2>2. /\ h \in Upload /\ h \in InPlace(InLine) /\ waiting' \in Seq(Upload) /\ IsInjective(waiting')
        /\ ToSet(waiting') = InPlace(InLine) \ {h}
    BY <1>5, <1>6, <2>1, TailOne
  <2>3. w \in {"fresh", "resumed"} /\ w \in Sized /\ w \in Placed /\ w \notin InLine /\ w \in Place
    BY PlaceNames DEF Woken, InLine
  <2>4. pc[h] \in InLine /\ h \notin InPlace(Placed) /\ h # u
    BY <1>4, <2>2, PlaceNames DEF InPlace, InLine
  <2> HIDE DEF h, w
  <2>5. pc \in [Upload -> Place]
    BY DEF PoolTyped
  <2>6. /\ pc' \in [Upload -> Place] /\ pc'[u] = to /\ pc'[h] = w
        /\ \A v \in Upload \ {u, h} : pc'[v] = pc[v]
    BY <1>1, <2>1, <2>2, <2>3, <2>4, <2>5
  <2>7. Moved(u)
    BY <2>3, <2>4, <2>6 DEF Moved
  <2>8. InPlace(Placed)' = (InPlace(Placed) \ {u}) \cup {h}
    BY <1>1, <1>4, <2>2, <2>3, <2>4, <2>6 DEF InPlace
  <2>9. InPlace(InLine)' = InPlace(InLine) \ {h}
    BY <1>1, <1>4, <2>2, <2>3, <2>4, <2>6 DEF InPlace
  <2>10. InPlace({"overdue"})' \subseteq InPlace({"overdue"}) \ {u}
    BY <1>1, <2>3, <2>6 DEF InPlace
  <2>11. running' = Cardinality(InPlace(Placed)')
    <3> DEFINE A == InPlace(Placed) \ {u}
    <3>1. Cardinality(A) = running - 1 /\ A \in SUBSET Upload /\ h \notin A
      BY <1>2, <1>4, <2>4, UploadsFinite
    <3> HIDE DEF A
    <3>2. Cardinality(A \cup {h}) = Cardinality(A) + 1
      BY <2>2, <3>1, UploadsFinite
    <3>3. InPlace(Placed)' = A \cup {h}
      BY <2>8 DEF A
    <3> QED
      BY <1>2, <2>1, <3>1, <3>2, <3>3
  <2>12. Cardinality(InPlace(Sized)') <= Size
    <3>1. /\ InPlace(Sized)' \in SUBSET Upload /\ InPlace(Placed)' \in SUBSET Upload
          /\ InPlace(Sized)' \subseteq InPlace(Placed)'
      BY PlaceNames DEF InPlace
    <3>2. Cardinality(InPlace(Sized)') <= Cardinality(InPlace(Placed)') /\ Cardinality(InPlace(Sized)') \in Nat
      BY <3>1, UploadsFinite
    <3> QED
      BY <1>2, <1>3, <1>6, <2>1, <2>11, <3>2
  <2>13. running' >= Size /\ ~closed'
    BY <1>2, <1>3, <1>6, <2>1 DEF Places
  <2> QED
    BY <2>2, <2>6, <2>7, <2>9, <2>10, <2>11, <2>12, <2>13 DEF Places, InLine, Sized
<1>7. CASE ~(running <= Size /\ waiting # <<>>)
  <2>1. /\ running' = running - 1 /\ pc' = [pc EXCEPT ![u] = to] /\ waiting' = waiting
    BY <1>7 DEF Give
  <2>2. /\ InPlace(Placed)' = InPlace(Placed) \ {u} /\ InPlace(Sized)' = InPlace(Sized) \ {u}
        /\ InPlace(InLine)' = InPlace(InLine) \ {u}
        /\ InPlace({"overdue"})' = InPlace({"overdue"}) \ {u}
    BY <1>1, <2>1, MovesOne
  <2>3. running' = Cardinality(InPlace(Placed)')
    BY <1>2, <1>4, <2>1, <2>2, UploadsFinite
  <2>4. ~closed' => Cardinality(InPlace(Sized)') <= Size
    <3>1. InPlace(Sized)' \in SUBSET Upload /\ InPlace(Sized)' \subseteq InPlace(Sized)
      BY <1>2, <2>2
    <3>2. Cardinality(InPlace(Sized)') <= Cardinality(InPlace(Sized)) /\ Cardinality(InPlace(Sized)') \in Nat
      BY <1>2, <3>1, UploadsFinite
    <3>3. ~closed' => Cardinality(InPlace(Sized)) <= Size
      BY DEF Places, Sized
    <3> QED
      BY <1>2, <1>3, <3>2, <3>3
  <2>5. InPlace(InLine)' = InPlace(InLine)
    BY <1>4, <2>2
  <2>6. waiting' # <<>> => running' >= Size
    BY <1>2, <1>3, <1>7, <2>1
  <2>7. Places'
    BY <2>1, <2>2, <2>3, <2>4, <2>5, <2>6 DEF Places, InLine, Sized
  <2> QED
    BY <1>1, <2>1, <2>7, MovesAlone
<1> QED
  BY <1>6, <1>7

-----------------------------------------------------------------------------
(* The charges.                                                            *)

LEMMA ChargedSet == Charged \in SUBSET Upload
BY DEF Charged

LEMMA ChargedMoves ==
  ASSUME NEW u \in Upload, Moved(u)
  PROVE  Charged' = IF pc'[u] \notin {"new"} \cup Ended THEN Charged \cup {u} ELSE Charged \ {u}
<1>1. \A v \in Upload \ {u} : (pc'[v] \notin {"new"} \cup Ended) <=> (pc[v] \notin {"new"} \cup Ended)
  BY PlaceNames DEF Moved, InLine
<1> QED
  BY <1>1 DEF Charged

LEMMA ChargesSame ==
  ASSUME Charges, Charged' = Charged, UNCHANGED budget
  PROVE  Charges'
BY DEF Charges, HeldOnce, budget

LEMMA HeldTexts ==
  /\ \A u \in Upload : Held[u] \in SUBSET Text
  /\ \A T \in SUBSET Text : IsFiniteSet(T) /\ TotalBytes(T) \in Nat /\ TotalBytes(T) = Total(TextBytes, T)
  /\ \A S, T \in SUBSET Text : S \cap T = {} => TotalBytes(S \cup T) = TotalBytes(S) + TotalBytes(T)
  /\ \A S, T \in SUBSET Text : S \subseteq T => TotalBytes(S) <= TotalBytes(T)
  /\ \A x \in Text : TextBytes[x] \in Nat \ {0}
<1>1. \A u \in Upload : Held[u] \in SUBSET Text
  BY UploadAssumption
<1>2. \A x \in Text : TextBytes[x] \in Nat \ {0}
  BY UploadAssumption
<1>3. \A T : TotalBytes(T) = Total(TextBytes, T)
  BY DEF TotalBytes, Total
<1>4. \A T \in SUBSET Text : IsFiniteSet(T) /\ \A x \in T : TextBytes[x] \in Nat /\ TextBytes[x] \in Int
  BY <1>2, UploadAssumption, FS_Subset
<1>5. \A T \in SUBSET Text : Total(TextBytes, T) \in Nat
  BY <1>4, TotalNat
<1>6. ASSUME NEW S \in SUBSET Text, NEW T \in SUBSET Text, S \cap T = {}
      PROVE  Total(TextBytes, S \cup T) = Total(TextBytes, S) + Total(TextBytes, T)
  <2>1. \A x \in S \cup T : TextBytes[x] \in Int
    BY <1>4
  <2> QED
    BY <1>4, <1>6, <2>1, TotalUnion
<1>7. ASSUME NEW S \in SUBSET Text, NEW T \in SUBSET Text, S \subseteq T
      PROVE  Total(TextBytes, S) <= Total(TextBytes, T)
  <2>1. /\ Total(TextBytes, T) = Total(TextBytes, S) + Total(TextBytes, T \ S)
        /\ Total(TextBytes, S) \in Nat /\ Total(TextBytes, T \ S) \in Nat
    <3>1. S \in SUBSET T /\ IsFiniteSet(T) /\ \A x \in T : TextBytes[x] \in Int /\ TextBytes[x] \in Nat
      BY <1>4, <1>7
    <3>2. Total(TextBytes, S) \in Nat /\ Total(TextBytes, T \ S) \in Nat
      BY <1>5
    <3> QED
      BY <3>1, <3>2, TotalPart
  <2> QED
    BY <2>1
<1> QED
  BY <1>1, <1>2, <1>3, <1>4, <1>5, <1>6, <1>7

(* The texts that somebody holds are those whose count is not 0.           *)
LEMMA HoldingCounts ==
  ASSUME Charges, NEW x \in Text
  PROVE  /\ holding[x] = Cardinality({u \in Charged : x \in Held[u]}) /\ holding[x] \in Nat
         /\ {u \in Charged : x \in Held[u]} \in SUBSET Upload
         /\ holding[x] = 0 <=> \A u \in Charged : x \notin Held[u]
<1> DEFINE H == {u \in Charged : x \in Held[u]}
<1>1. holding[x] = Cardinality(H) /\ holding[x] \in Nat
  BY DEF Charges, HeldOnce
<1>2. H \in SUBSET Upload
  BY ChargedSet
<1>3. IsFiniteSet(H)
  BY <1>2, UploadsFinite
<1>4. holding[x] = 0 <=> H = {}
  BY <1>1, <1>3, FS_EmptySet
<1> QED
  BY <1>1, <1>2, <1>4

LEMMA ChargesMore ==
  ASSUME Charges, NEW u \in Upload, u \notin Charged, Charged' = Charged \cup {u},
         ChargeUpload(u), ~OverBudget(u)
  PROVE  Charges'
<1> DEFINE fresh == {x \in Held[u] : holding[x] = 0}
           old == UNION {Held[v] : v \in Charged}
<1>1. /\ queued' = queued + 1 /\ queuedBytes' = queuedBytes + TotalBytes(fresh)
      /\ holding' = [x \in Text |-> holding[x] + (IF x \in Held[u] THEN 1 ELSE 0)]
  BY DEF ChargeUpload
<1>2. queued < MaxQueued /\ queued' \in 0..MaxQueued
  <2>1. queued \in 0..MaxQueued /\ MaxQueued \in Nat /\ ~(queued >= MaxQueued)
    BY LimitsAreNat DEF Charges, OverBudget
  <2> QED
    BY <1>1, <2>1
<1>3. queued' = Cardinality(Charged')
  <2>1. queued = Cardinality(Charged) /\ queued \in Nat
    BY LimitsAreNat DEF Charges, HeldOnce
  <2> QED
    BY <1>1, <2>1, ChargedSet, UploadsFinite
<1>4. holding' \in [Text -> Nat]
  BY <1>1 DEF Charges
<1>5. ASSUME NEW x \in Text PROVE holding'[x] = Cardinality({v \in Charged' : x \in Held[v]})
  <2> DEFINE H == {v \in Charged : x \in Held[v]}
  <2>1. holding[x] = Cardinality(H) /\ H \in SUBSET Upload /\ holding[x] \in Nat /\ u \notin H
    BY HoldingCounts
  <2>2. {v \in Charged' : x \in Held[v]} = IF x \in Held[u] THEN H \cup {u} ELSE H
    OBVIOUS
  <2>3. holding'[x] = holding[x] + (IF x \in Held[u] THEN 1 ELSE 0)
    BY <1>1
  <2> HIDE DEF H
  <2>4. Cardinality(H \cup {u}) = Cardinality(H) + 1
    BY <2>1, UploadsFinite
  <2>5. CASE x \in Held[u]
    <3>1. holding'[x] = holding[x] + 1 /\ {v \in Charged' : x \in Held[v]} = H \cup {u}
      BY <2>2, <2>3, <2>5
    <3> QED
      BY <2>1, <2>4, <3>1
  <2>6. CASE x \notin Held[u]
    <3>1. holding'[x] = holding[x] + 0 /\ {v \in Charged' : x \in Held[v]} = H
      BY <2>2, <2>3, <2>6
    <3>2. holding'[x] = holding[x]
      BY <2>1, <3>1
    <3> QED
      BY <2>1, <3>1, <3>2
  <2> QED
    BY <2>5, <2>6
<1>6. /\ fresh \in SUBSET Text /\ old \in SUBSET Text /\ old \cap fresh = {}
      /\ UNION {Held[v] : v \in Charged'} = old \cup fresh
  <2>1. fresh \in SUBSET Text /\ old \in SUBSET Text
    BY HeldTexts, ChargedSet
  <2>2. \A x \in Held[u] : x \in fresh <=> x \notin old
    BY HeldTexts, HoldingCounts
  <2>3. UNION {Held[v] : v \in Charged'} = old \cup Held[u]
    OBVIOUS
  <2> QED
    BY <2>1, <2>2, <2>3
<1>7. queuedBytes = TotalBytes(old) /\ queuedBytes \in Nat
  BY DEF Charges, HeldOnce
<1>8. TotalBytes(fresh) \in Nat /\ TotalBytes(fresh) <= TotalBytes(Held[u]) /\ TotalBytes(Held[u]) \in Nat
  BY <1>6, HeldTexts
<1>9. queuedBytes' = TotalBytes(UNION {Held[v] : v \in Charged'}) /\ queuedBytes' \in Nat
  BY <1>1, <1>6, <1>7, <1>8, HeldTexts
<1>10. queuedBytes' <= MaxHeld \/ \E v \in Upload : queuedBytes' <= TotalBytes(Held[v])
  <2>1. ~(TotalBytes(fresh) > 0 /\ queuedBytes > 0 /\ queuedBytes + TotalBytes(fresh) > MaxHeld)
    BY DEF OverBudget
  <2>2. CASE TotalBytes(fresh) = 0
    <3>1. queuedBytes' = queuedBytes
      BY <1>1, <1>7, <2>2
    <3> QED
      BY <3>1 DEF Charges, HeldOnce
  <2>3. CASE queuedBytes = 0
    <3>1. queuedBytes' <= TotalBytes(Held[u])
      BY <1>1, <1>8, <2>3
    <3> QED
      BY <3>1
  <2>4. CASE TotalBytes(fresh) # 0 /\ queuedBytes # 0
    <3>1. queuedBytes' <= MaxHeld
      BY <1>1, <1>7, <1>8, <2>1, <2>4, LimitsAreNat
    <3> QED
      BY <3>1
  <2> QED
    BY <2>2, <2>3, <2>4
<1> QED
  BY <1>2, <1>3, <1>4, <1>5, <1>9, <1>10 DEF Charges, HeldOnce

LEMMA ChargesLess ==
  ASSUME Charges, NEW u \in Charged, Charged' = Charged \ {u}, ReleaseUpload(u)
  PROVE  Charges'
<1> DEFINE gone == {x \in Held[u] : holding[x] = 1}
           kept == UNION {Held[v] : v \in Charged'}
           old == UNION {Held[v] : v \in Charged}
<1>0. u \in Upload
  BY ChargedSet
<1>1. /\ queued' = queued - 1 /\ queuedBytes' = queuedBytes - TotalBytes(gone)
      /\ holding' = [x \in Text |-> holding[x] - (IF x \in Held[u] THEN 1 ELSE 0)]
  BY DEF ReleaseUpload
<1>2. queued' = Cardinality(Charged') /\ queued' \in 0..MaxQueued
  <2>1. queued = Cardinality(Charged) /\ queued \in 0..MaxQueued
    BY DEF Charges, HeldOnce
  <2>2. Cardinality(Charged \ {u}) = Cardinality(Charged) - 1
    BY <1>0, ChargedSet, UploadsFinite
  <2>3. Cardinality(Charged \ {u}) \in Nat
    BY ChargedSet, UploadsFinite
  <2>4. MaxQueued \in Nat
    BY LimitsAreNat
  <2> QED
    BY <1>1, <2>1, <2>2, <2>3, <2>4
<1>3. ASSUME NEW x \in Text
      PROVE  /\ holding'[x] = Cardinality({v \in Charged' : x \in Held[v]}) /\ holding'[x] \in Nat
             /\ x \in Held[u] => (holding[x] = 1 <=> \A v \in Charged' : x \notin Held[v])
  <2> DEFINE H == {v \in Charged : x \in Held[v]}
  <2>1. holding[x] = Cardinality(H) /\ H \in SUBSET Upload /\ holding[x] \in Nat
        /\ (u \in H <=> x \in Held[u])
    BY HoldingCounts
  <2>2. {v \in Charged' : x \in Held[v]} = IF x \in Held[u] THEN H \ {u} ELSE H
    OBVIOUS
  <2>3. holding'[x] = holding[x] - (IF x \in Held[u] THEN 1 ELSE 0)
    BY <1>1
  <2>4. (\A v \in Charged' : x \notin Held[v]) <=> {v \in Charged' : x \in Held[v]} = {}
    OBVIOUS
  <2> HIDE DEF H
  <2>5. /\ u \in H => Cardinality(H \ {u}) = Cardinality(H) - 1
        /\ Cardinality(H \ {u}) \in Nat /\ IsFiniteSet(H \ {u})
    BY <1>0, <2>1, UploadsFinite
  <2>6. Cardinality(H \ {u}) = 0 <=> H \ {u} = {}
    BY <2>5, FS_EmptySet
  <2>7. holding'[x] = Cardinality({v \in Charged' : x \in Held[v]}) /\ holding'[x] \in Nat
    <3>1. CASE x \in Held[u]
      <4>1. holding'[x] = holding[x] - 1 /\ {v \in Charged' : x \in Held[v]} = H \ {u} /\ u \in H
        BY <2>1, <2>2, <2>3, <3>1
      <4> QED
        BY <2>1, <2>5, <4>1
    <3>2. CASE x \notin Held[u]
      <4>1. holding'[x] = holding[x] - 0 /\ {v \in Charged' : x \in Held[v]} = H
        BY <2>2, <2>3, <3>2
      <4>2. holding'[x] = holding[x]
        BY <2>1, <4>1
      <4> QED
        BY <2>1, <4>1, <4>2
    <3> QED
      BY <3>1, <3>2
  <2>8. ASSUME x \in Held[u] PROVE holding[x] = 1 <=> H \ {u} = {}
    BY <2>1, <2>5, <2>6, <2>8
  <2> QED
    BY <2>2, <2>4, <2>7, <2>8
<1>4. holding' \in [Text -> Nat]
  <2>1. \A x \in Text : holding'[x] \in Nat
    BY <1>3
  <2>2. holding' = [x \in Text |-> holding'[x]]
    BY <1>1
  <2> QED
    BY <2>1, <2>2
<1>5. gone \in SUBSET Text /\ kept \in SUBSET Text /\ kept \cap gone = {} /\ old = kept \cup gone
  <2>1. gone \in SUBSET Text /\ kept \in SUBSET Text
    BY <1>0, HeldTexts, ChargedSet
  <2>2. \A x \in Held[u] : x \in gone <=> x \notin kept
    <3> TAKE x \in Held[u]
    <3>1. x \in Text
      BY <1>0, HeldTexts
    <3>2. x \in kept <=> \E v \in Charged' : x \in Held[v]
      OBVIOUS
    <3> QED
      BY <1>3, <3>1, <3>2
  <2>3. old = kept \cup Held[u]
    OBVIOUS
  <2> QED
    BY <2>1, <2>2, <2>3
<1>6. queuedBytes = TotalBytes(old) /\ queuedBytes \in Nat
  BY DEF Charges, HeldOnce
<1> HIDE DEF gone, kept, old
<1>7. TotalBytes(old) = TotalBytes(kept) + TotalBytes(gone) /\ TotalBytes(kept) \in Nat /\ TotalBytes(gone) \in Nat
  BY <1>5, HeldTexts
<1>8. queuedBytes' = TotalBytes(kept) /\ queuedBytes' <= queuedBytes /\ queuedBytes' \in Nat
  BY <1>1, <1>6, <1>7
<1>9. queuedBytes' <= MaxHeld \/ \E v \in Upload : queuedBytes' <= TotalBytes(Held[v])
  <2>1. queuedBytes <= MaxHeld \/ \E v \in Upload : queuedBytes <= TotalBytes(Held[v])
    BY DEF Charges, HeldOnce
  <2>2. MaxHeld \in Nat /\ \A v \in Upload : TotalBytes(Held[v]) \in Nat
    BY HeldTexts, LimitsAreNat
  <2> QED
    BY <1>6, <1>8, <2>1, <2>2
<1>10. queuedBytes' = TotalBytes(UNION {Held[v] : v \in Charged'})
  BY <1>8 DEF kept
<1> QED
  BY <1>2, <1>3, <1>4, <1>8, <1>9, <1>10 DEF Charges, HeldOnce

-----------------------------------------------------------------------------
(* The outcomes that are remembered: one for the same bytes.               *)

OneEach(s) == \A i, j \in DOMAIN s : Value[s[i]] = Value[s[j]] => i = j

LEMMA OneEachCut ==
  ASSUME NEW s \in Seq(Upload), OneEach(s), NEW k \in 1..Len(s)
  PROVE  LET r == RemoveAt(s, k)
         IN  r \in Seq(Upload) /\ OneEach(r) /\ ToSet(r) = ToSet(s) \ {s[k]} /\ Len(r) = Len(s) - 1
<1> DEFINE r == RemoveAt(s, k)
<1>1. /\ r \in Seq(Upload) /\ Len(r) = Len(s) - 1
      /\ ToSet(r) = {s[i] : i \in (1..Len(s)) \ {k}}
      /\ \A i, j \in DOMAIN r : \E x, y \in DOMAIN s :
            r[i] = s[x] /\ r[j] = s[y] /\ (x = y => i = j)
  BY CutKeeps
<1>2. DOMAIN s = 1..Len(s) /\ ToSet(s) = {s[i] : i \in 1..Len(s)}
  BY SeqSet
<1> HIDE DEF r
<1>3. ToSet(r) = ToSet(s) \ {s[k]}
  BY <1>1, <1>2 DEF OneEach
<1>4. OneEach(r)
  <2> SUFFICES ASSUME NEW i \in DOMAIN r, NEW j \in DOMAIN r, Value[r[i]] = Value[r[j]] PROVE i = j
    BY DEF OneEach
  <2> QED
    BY <1>1 DEF OneEach
<1> QED
  BY <1>1, <1>3, <1>4 DEF r

LEMMA OneEachWithout ==
  ASSUME NEW s \in Seq(Upload), OneEach(s), NEW e
  PROVE  LET r == RemoveFirst(s, e)
         IN  r \in Seq(Upload) /\ OneEach(r) /\ ToSet(r) = ToSet(s) \ {e} /\ Len(r) <= Len(s)
<1>1. Len(s) \in Nat
  BY SeqSet
<1>2. CASE e \notin ToSet(s)
  BY <1>1, <1>2, RemovesFirst
<1>3. CASE e \in ToSet(s)
  <2>1. PICK k \in 1..Len(s) : s[k] = e /\ RemoveFirst(s, e) = RemoveAt(s, k)
    BY <1>3, RemovesFirst
  <2> QED
    BY <1>1, <2>1, OneEachCut
<1> QED
  BY <1>2, <1>3

LEMMA OneEachMore ==
  ASSUME NEW s \in Seq(Upload), OneEach(s), NEW u \in Upload, \A v \in ToSet(s) : Value[v] # Value[u]
  PROVE  OneEach(Append(s, u))
<1> DEFINE a == Append(s, u)
           n == Len(s)
<1>1. /\ DOMAIN a = 1..n + 1 /\ a[n + 1] = u /\ \A i \in 1..n : a[i] = s[i]
  BY AppendOne
<1>2. DOMAIN s = 1..n /\ n \in Nat /\ ToSet(s) = {s[i] : i \in 1..n}
  BY SeqSet
<1> HIDE DEF a, n
<1>3. \A i \in 1..n + 1 : i \in 1..n \/ i = n + 1
  BY <1>2
<1>4. \A i \in 1..n : Value[a[i]] # Value[u]
  BY <1>1, <1>2
<1>5. \A i, j \in 1..n : Value[a[i]] = Value[a[j]] => i = j
  BY <1>1, <1>2 DEF OneEach
<1>6. OneEach(a)
  BY <1>1, <1>3, <1>4, <1>5 DEF OneEach
<1> QED
  BY <1>6 DEF a

(* The oldest settled outcome makes room for another.                      *)
LEMMA MakesRoom ==
  ASSUME NEW s \in Seq(Upload), \E v \in ToSet(s) : pc[v] = "settled"
  PROVE  \E k \in 1..Len(s) :
            /\ pc[s[k]] = "settled"
            /\ RemoveFirstMatch(s, LAMBDA v : pc[v] = "settled") = RemoveAt(s, k)
<1> DEFINE I == {i \in 1..Len(s) : pc[s[i]] = "settled"}
<1>1. Len(s) \in Nat /\ I # {}
  BY SeqSet
<1>2. Min(I) \in I
  BY <1>1, FirstPosition
<1>3. RemoveFirstMatch(s, LAMBDA v : pc[v] = "settled") = RemoveAt(s, Min(I))
  BY <1>1 DEF RemoveFirstMatch, SelectInSeq
<1> QED
  BY <1>2, <1>3

LEMMA SharedNames ==
  Shared = {"queued", "pausing", "returning", "reserving", "putting", "completing", "fresh",
            "resumed", "overdue", "settled"}
BY PlaceNames DEF Shared, Place

LEMMA SharedStays ==
  ASSUME NEW u \in Upload, Moved(u), pc[u] \in {"new", "sharing"} \/ pc'[u] \in Shared,
         NEW v \in Upload, pc[v] \in Shared
  PROVE  pc'[v] \in Shared
<1>1. CASE v = u
  BY <1>1, SharedNames
<1>2. CASE v # u
  BY <1>2, SharedNames DEF Moved, InLine
<1> QED
  BY <1>1, <1>2

LEMMA OutcomesOn ==
  ASSUME PoolTyped, Outcomes, NEW u \in Upload, Moved(u), closed' = closed, pc'[u] # "sharing",
         pc[u] \in {"new", "sharing"} \/ pc'[u] \in Shared,
         \A v \in Upload \ {u} : known'[v] = known[v],
         \/ pc'[u] \in Ended /\ outcomes' \in {outcomes, RemoveFirst(outcomes, u)}
         \/ pc[u] \notin {"new", "sharing"} \cup Ended /\ outcomes' = outcomes
  PROVE  Outcomes'
<1>1. outcomes \in Seq(Upload) /\ Len(outcomes) <= MaxOutcomes /\ OneEach(outcomes)
  BY DEF Outcomes, OneEach
<1>2. /\ outcomes' \in Seq(Upload) /\ Len(outcomes') <= MaxOutcomes /\ OneEach(outcomes)'
      /\ ToSet(outcomes) \ {u} \subseteq ToSet(outcomes') /\ ToSet(outcomes') \subseteq ToSet(outcomes)
      /\ pc'[u] \notin Ended => outcomes' = outcomes
  <2>1. CASE outcomes' = outcomes
    BY <1>1, <2>1 DEF OneEach
  <2>2. CASE outcomes' = RemoveFirst(outcomes, u) /\ pc'[u] \in Ended
    <3>1. /\ outcomes' \in Seq(Upload) /\ OneEach(outcomes') /\ ToSet(outcomes') = ToSet(outcomes) \ {u}
          /\ Len(outcomes') <= Len(outcomes)
      BY <1>1, <2>2, OneEachWithout
    <3>2. Len(outcomes') \in Nat /\ Len(outcomes) \in Nat /\ MaxOutcomes \in Nat
      BY <1>1, <3>1, SeqSet, LimitsAreNat
    <3>3. Len(outcomes') <= MaxOutcomes
      BY <1>1, <3>1, <3>2
    <3>4. OneEach(outcomes)'
      BY <3>1 DEF OneEach
    <3> QED
      BY <2>2, <3>1, <3>3, <3>4
  <2> QED
    BY <2>1, <2>2
<1>3. ASSUME ~closed', NEW v \in Charged', pc'[v] # "sharing" PROVE v \in ToSet(outcomes')
  <2>1. v \in Upload /\ pc'[v] \notin {"new"} \cup Ended
    BY DEF Charged
  <2>2. CASE v = u
    <3>1. pc[u] \notin {"new", "sharing"} \cup Ended /\ outcomes' = outcomes
      BY <2>1, <2>2
    <3> QED
      BY <1>3, <2>2, <3>1 DEF Outcomes, Charged
  <2>3. CASE v # u
    <3>1. pc[v] \notin {"new", "sharing"} \cup Ended
      BY <1>3, <2>1, <2>3, PlaceNames DEF Moved, InLine
    <3>2. v \in ToSet(outcomes)
      BY <1>3, <2>1, <3>1 DEF Outcomes, Charged
    <3> QED
      BY <1>2, <2>3, <3>2
  <2> QED
    BY <2>2, <2>3
<1>4. ASSUME NEW v \in InPlace({"sharing"})'
      PROVE  known'[v] \in Upload /\ Value[known'[v]] = Value[v] /\ pc'[known'[v]] \in Shared
  <2>1. v \in Upload /\ pc'[v] = "sharing" /\ v # u
    BY DEF InPlace
  <2>2. v \in InPlace({"sharing"}) /\ known'[v] = known[v]
    BY <2>1, PlaceNames DEF InPlace, Moved
  <2>3. known[v] \in Upload /\ Value[known[v]] = Value[v] /\ pc[known[v]] \in Shared
    BY <2>2 DEF Outcomes
  <2> QED
    BY <2>2, <2>3, SharedStays
<1>5. ASSUME NEW v \in ToSet(outcomes') PROVE pc'[v] \in Shared
  <2>1. v \in ToSet(outcomes) /\ v \in Upload
    BY <1>1, <1>2, SeqSet
  <2>2. pc[v] \in Shared
    BY <2>1 DEF Outcomes
  <2> QED
    BY <2>1, <2>2, SharedStays
<1> QED
  BY <1>2, <1>3, <1>4, <1>5 DEF Outcomes, OneEach, Shared

(* An upload that is admitted shares an outcome or has its own.            *)
LEMMA JoinKeeps ==
  ASSUME PoolTyped, Places, Outcomes, NEW u \in Upload, pc[u] \in {"new", "sharing"},
         Join(u), ~NoRoom(u), closed' = closed, expired' = expired
  PROVE  /\ Places' /\ Outcomes' /\ Moved(u) /\ pc'[u] \in {"sharing", "fresh", "queued"}
         /\ known' \in [Upload -> Upload \cup {None}]
<1>1. /\ outcomes \in Seq(Upload) /\ Len(outcomes) <= MaxOutcomes /\ OneEach(outcomes)
      /\ known \in [Upload -> Upload \cup {None}] /\ ToSet(outcomes) \in SUBSET Upload
  BY SeqSet DEF Outcomes, OneEach, PoolTyped
<1>2. pc[u] \notin Placed \cup InLine
  BY PlaceNames DEF InLine
<1>3. CASE Sharable(u) # {}
  <2> DEFINE o == CHOOSE v \in Sharable(u) : TRUE
  <2>1. o \in Upload /\ Value[o] = Value[u] /\ o \in ToSet(outcomes)
    BY <1>1, <1>3 DEF Sharable
  <2>2. /\ known' = [known EXCEPT ![u] = o] /\ pc' = [pc EXCEPT ![u] = "sharing"]
        /\ outcomes' = outcomes /\ running' = running /\ waiting' = waiting
    BY <1>3 DEF Join, slots
  <2> HIDE DEF o
  <2>3. "sharing" \in Place /\ "sharing" \notin Placed \cup InLine
    BY PlaceNames DEF InLine
  <2>4. Places'
    BY <1>2, <2>2, <2>3, StaysKeeps
  <2>5. Moved(u) /\ pc'[u] = "sharing"
    BY <2>2, <2>3, MovesAlone
  <2>6. known' \in [Upload -> Upload \cup {None}] /\ known'[u] = o /\ \A v \in Upload \ {u} : known'[v] = known[v]
    BY <1>1, <2>1, <2>2
  <2>7. Outcomes'
    <3>1. ASSUME ~closed', NEW v \in Charged', pc'[v] # "sharing" PROVE v \in ToSet(outcomes')
      <4>1. v \in Upload /\ v # u /\ pc[v] \notin {"new", "sharing"} \cup Ended
        BY <2>5, <3>1, PlaceNames DEF Charged, Moved, InLine
      <4> QED
        BY <2>2, <3>1, <4>1 DEF Outcomes, Charged
    <3>2. ASSUME NEW v \in InPlace({"sharing"})'
          PROVE  known'[v] \in Upload /\ Value[known'[v]] = Value[v] /\ pc'[known'[v]] \in Shared
      <4>1. v \in Upload /\ pc'[v] = "sharing"
        BY DEF InPlace
      <4>2. known'[v] \in Upload /\ Value[known'[v]] = Value[v] /\ pc[known'[v]] \in Shared
        <5>1. CASE v = u
          BY <2>1, <2>6, <5>1 DEF Outcomes
        <5>2. CASE v # u
          <6>1. v \in InPlace({"sharing"}) /\ known'[v] = known[v]
            BY <2>5, <2>6, <4>1, <5>2, PlaceNames DEF InPlace, Moved
          <6> QED
            BY <6>1 DEF Outcomes
        <5> QED
          BY <5>1, <5>2
      <4> QED
        BY <2>5, <4>2, SharedStays
    <3>3. ASSUME NEW v \in ToSet(outcomes') PROVE pc'[v] \in Shared
      <4>1. v \in Upload /\ pc[v] \in Shared
        BY <1>1, <2>2 DEF Outcomes
      <4> QED
        BY <2>5, <4>1, SharedStays
    <3> QED
      BY <2>2, <3>1, <3>2, <3>3 DEF Outcomes, Shared
  <2> QED
    BY <2>4, <2>5, <2>6, <2>7
<1>4. CASE Sharable(u) = {}
  <2> DEFINE s == IF Len(outcomes) < MaxOutcomes THEN outcomes
                  ELSE RemoveFirstMatch(outcomes, LAMBDA v : pc[v] = "settled")
  <2>1. /\ known' = [known EXCEPT ![u] = None] /\ outcomes' = Append(s, u) /\ Take(u, "fresh", "queued")
    BY <1>4 DEF Join
  <2>2. /\ s \in Seq(Upload) /\ OneEach(s) /\ Len(s) < MaxOutcomes
        /\ ToSet(s) \subseteq ToSet(outcomes)
        /\ \A v \in ToSet(outcomes) \ ToSet(s) : pc[v] = "settled"
    <3>1. Len(outcomes) \in Nat /\ MaxOutcomes \in Nat
      BY <1>1, SeqSet, LimitsAreNat
    <3>2. CASE Len(outcomes) < MaxOutcomes
      BY <1>1, <3>2
    <3>3. CASE ~(Len(outcomes) < MaxOutcomes)
      <4>1. \E v \in ToSet(outcomes) : pc[v] = "settled"
        BY <1>4, <3>1, <3>3 DEF NoRoom
      <4>2. PICK k \in 1..Len(outcomes) :
               /\ pc[outcomes[k]] = "settled"
               /\ RemoveFirstMatch(outcomes, LAMBDA v : pc[v] = "settled") = RemoveAt(outcomes, k)
        BY <1>1, <4>1, MakesRoom
      <4>3. s = RemoveAt(outcomes, k)
        BY <3>3, <4>2
      <4> HIDE DEF s
      <4>4. s \in Seq(Upload) /\ OneEach(s) /\ ToSet(s) = ToSet(outcomes) \ {outcomes[k]} /\ Len(s) = Len(outcomes) - 1
        BY <1>1, <4>3, OneEachCut
      <4> QED
        BY <1>1, <3>1, <4>2, <4>4
    <3> QED
      BY <3>2, <3>3
  <2> HIDE DEF s
  <2>3. Places' /\ Moved(u) /\ pc'[u] \in {"fresh", "queued"}
    BY <1>2, <2>1, TakeKeeps DEF InLine
  <2>4. known' \in [Upload -> Upload \cup {None}] /\ \A v \in Upload \ {u} : known'[v] = known[v]
    BY <1>1, <2>1
  <2>5. outcomes' \in Seq(Upload) /\ Len(outcomes') = Len(s) + 1 /\ ToSet(outcomes') = ToSet(s) \cup {u}
    BY <2>1, <2>2, AppendOne
  <2>6. Len(outcomes') <= MaxOutcomes
    <3>1. Len(s) \in Nat /\ MaxOutcomes \in Nat
      BY <2>2, SeqSet, LimitsAreNat
    <3> QED
      BY <2>2, <2>5, <3>1
  <2>7. OneEach(outcomes)'
    <3>1. \A v \in ToSet(s) : Value[v] # Value[u]
      BY <1>4, <2>2 DEF Sharable
    <3>2. OneEach(outcomes')
      BY <2>1, <2>2, <3>1, OneEachMore
    <3> QED
      BY <3>2 DEF OneEach
  <2>8. ASSUME ~closed', NEW v \in Charged', pc'[v] # "sharing" PROVE v \in ToSet(outcomes')
    <3>1. CASE v = u
      BY <2>5, <3>1
    <3>2. CASE v # u
      <4>1. v \in Upload /\ pc[v] \notin {"new", "sharing"} \cup Ended
        BY <2>3, <2>8, <3>2, PlaceNames DEF Charged, Moved, InLine
      <4>2. v \in ToSet(outcomes) /\ pc[v] # "settled"
        BY <2>8, <4>1, PlaceNames DEF Outcomes, Charged
      <4> QED
        BY <2>2, <2>5, <4>2
    <3> QED
      BY <3>1, <3>2
  <2>9. ASSUME NEW v \in InPlace({"sharing"})'
        PROVE  known'[v] \in Upload /\ Value[known'[v]] = Value[v] /\ pc'[known'[v]] \in Shared
    <3>1. v \in Upload /\ pc'[v] = "sharing" /\ v # u
      BY <2>3 DEF InPlace
    <3>2. v \in InPlace({"sharing"}) /\ known'[v] = known[v]
      BY <2>3, <2>4, <3>1, PlaceNames DEF InPlace, Moved
    <3>3. known[v] \in Upload /\ Value[known[v]] = Value[v] /\ pc[known[v]] \in Shared
      BY <3>2 DEF Outcomes
    <3> QED
      BY <2>3, <3>2, <3>3, SharedStays
  <2>10. ASSUME NEW v \in ToSet(outcomes') PROVE pc'[v] \in Shared
    <3>1. CASE v = u
      BY <2>3, <3>1, SharedNames
    <3>2. CASE v # u
      <4>1. v \in ToSet(outcomes) /\ v \in Upload
        BY <1>1, <2>2, <2>5, <3>2
      <4>2. pc[v] \in Shared
        BY <4>1 DEF Outcomes
      <4> QED
        BY <2>3, <4>1, <4>2, SharedStays
    <3> QED
      BY <3>1, <3>2
  <2> QED
    BY <2>3, <2>4, <2>5, <2>6, <2>7, <2>8, <2>9, <2>10 DEF Outcomes, OneEach, Shared
<1> QED
  BY <1>3, <1>4
-----------------------------------------------------------------------------
(* The steps.                                                              *)

(* What a step does beside moving an upload.                               *)
Beside ==
  /\ closed' = closed /\ stored \subseteq stored' /\ stored' \subseteq Values
  /\ unsupported' \in BOOLEAN /\ faults' \in 0..MaxFaults

LEMMA FaultIsBounded ==
  ASSUME PoolTyped, UNCHANGED faults \/ Fault
  PROVE  faults' \in 0..MaxFaults
<1>1. faults \in 0..MaxFaults /\ MaxFaults \in Nat
  BY LimitsAreNat DEF PoolTyped
<1> QED
  BY <1>1 DEF Fault

LEMMA UnansweredIsBounded ==
  ASSUME PoolTyped, NEW u, Unanswered(u)
  PROVE  faults' \in 0..MaxFaults
<1>1. UNCHANGED faults \/ Fault
  BY DEF Unanswered
<1> QED
  BY <1>1, FaultIsBounded

LEMMA ForgetKeeps ==
  ASSUME PoolTyped, NEW u \in Upload, Forget(u)
  PROVE  /\ step' \in [Upload -> {"reserving", "putting"}]
         /\ known' \in [Upload -> Upload \cup {None}]
         /\ tries' \in [Upload -> 0..Attempts - 1]
         /\ puts' \in [Upload -> 0..Attempts - 1]
         /\ presigns' \in [Upload -> 0..2]
         /\ expired' \subseteq Upload /\ expired \ {u} \subseteq expired'
         /\ \A v \in Upload \ {u} : known'[v] = known[v]
<1>1. 0 \in 0..Attempts - 1 /\ 0 \in 0..2
  BY LimitsAreNat
<1> QED
  BY <1>1 DEF Forget, PoolTyped

LEMMA ResultsOn ==
  ASSUME PoolTyped, Results, NEW u \in Upload, Moved(u), stored \subseteq stored',
         pc'[u] = "completing" => Value[u] \in stored',
         NEW outcome \in Result,
         result' \in {result, [result EXCEPT ![u] = outcome]},
         outcome = "ok" => Value[u] \in stored', outcome = "changed" => u \in Altered
  PROVE  Results' /\ result' \in [Upload -> Result]
<1>1. /\ result' \in [Upload -> Result]
      /\ \A v \in Upload : result'[v] = result[v] \/ (v = u /\ result'[v] = outcome)
  <2>1. result \in [Upload -> Result]
    BY DEF PoolTyped
  <2>2. CASE result' = result
    BY <2>1, <2>2
  <2>3. CASE result' = [result EXCEPT ![u] = outcome]
    BY <2>1, <2>3
  <2> QED
    BY <2>2, <2>3
<1>2. \A v \in InPlace({"completing"})' : v = u \/ v \in InPlace({"completing"})
  BY DEF InPlace, Moved
<1>3. \A v \in InPlace({"completing"})' : Value[v] \in stored'
  <2>1. u \in InPlace({"completing"})' => pc'[u] = "completing"
    BY DEF InPlace
  <2> QED
    BY <1>2, <2>1 DEF Results
<1> QED
  BY <1>1, <1>3 DEF Results

LEMMA SettleKeeps ==
  ASSUME PoolInv, NEW u \in Upload, pc[u] \in Placed, Beside,
         NEW outcome \in Result, SettleUpload(u, outcome),
         outcome = "ok" => Value[u] \in stored', outcome = "changed" => u \in Altered
  PROVE  PoolInv'
<1>1. /\ Give(u, "settled") /\ result' = [result EXCEPT ![u] = outcome]
      /\ outcomes' \in {outcomes, RemoveFirst(outcomes, u)}
      /\ ReleaseUpload(u) /\ Forget(u)
  BY DEF SettleUpload
<1>2. PoolTyped /\ Places /\ Charges /\ Outcomes /\ Results
  BY DEF PoolInv
<1>3. /\ step' \in [Upload -> {"reserving", "putting"}]
      /\ known' \in [Upload -> Upload \cup {None}]
      /\ tries' \in [Upload -> 0..Attempts - 1]
      /\ puts' \in [Upload -> 0..Attempts - 1]
      /\ presigns' \in [Upload -> 0..2]
      /\ expired' \subseteq Upload /\ expired \ {u} \subseteq expired'
      /\ \A v \in Upload \ {u} : known'[v] = known[v]
  BY <1>1, <1>2, ForgetKeeps
<1>4. Places' /\ Moved(u) /\ pc'[u] = "settled"
  BY <1>1, <1>2, <1>3, GiveKeeps DEF Beside
<1>5. Charges'
  <2>1. Charged' = Charged \ {u}
    BY <1>4, ChargedMoves, PlaceNames
  <2>2. u \in Charged
    BY PlaceNames DEF Charged
  <2> QED
    BY <1>1, <1>2, <2>1, <2>2, ChargesLess
<1>6. Outcomes'
  BY <1>1, <1>2, <1>3, <1>4, OutcomesOn, SharedNames, PlaceNames DEF Beside
<1>7. Results' /\ result' \in [Upload -> Result]
  BY <1>1, <1>2, <1>4, ResultsOn DEF Beside
<1>8. PoolTyped'
  <2>1. closed' \in BOOLEAN
    BY <1>2 DEF Beside, PoolTyped
  <2> QED
    BY <1>3, <1>4, <1>7, <2>1 DEF PoolTyped, Moved, Beside
<1> QED
  BY <1>4, <1>5, <1>6, <1>7, <1>8 DEF PoolInv

(* The upload goes on in its place.                                        *)
LEMMA UploadGoesOn ==
  ASSUME PoolInv, NEW u \in Upload, pc[u] \in Sized, Beside,
         NEW to \in Requesting, Onward(u, to), to = "completing" => Value[u] \in stored',
         tries' \in [Upload -> 0..Attempts - 1], puts' \in [Upload -> 0..Attempts - 1],
         presigns' \in [Upload -> 0..2]
  PROVE  PoolInv'
<1>1. /\ pc' = [pc EXCEPT ![u] = to] /\ running' = running /\ waiting' = waiting
      /\ outcomes' = outcomes /\ UNCHANGED budget /\ result' = result /\ known' = known
      /\ step' = step /\ expired' = expired
  BY DEF Onward, slots
<1>2. PoolTyped /\ Places /\ Charges /\ Outcomes /\ Results
  BY DEF PoolInv
<1>3. to \in Sized /\ to \in Place /\ to \notin {"new", "sharing"} \cup Ended
  BY PlaceNames DEF Requesting
<1>4. pc[u] \notin {"new", "sharing"} \cup Ended
  BY PlaceNames
<1>5. Places'
  BY <1>1, <1>2, <1>3, StaysKeeps DEF Beside
<1>6. Moved(u) /\ pc'[u] = to
  BY <1>1, <1>2, <1>3, MovesAlone
<1>7. Charges'
  <2>1. Charged' = Charged
    <3>1. u \in Charged
      BY <1>4 DEF Charged
    <3>2. Charged' = Charged \cup {u}
      BY <1>3, <1>6, ChargedMoves
    <3> QED
      BY <3>1, <3>2
  <2> QED
    BY <1>1, <1>2, <2>1, ChargesSame
<1>8. Outcomes'
  <2>1. pc'[u] \in Shared
    BY <1>3, <1>6, PlaceNames, SharedNames
  <2> QED
    BY <1>1, <1>2, <1>3, <1>4, <1>6, <2>1, OutcomesOn DEF Beside
<1>9. Results' /\ result' \in [Upload -> Result]
  <2>1. "none" \in Result
    BY DEF Result
  <2> QED
    BY <1>1, <1>2, <1>6, <2>1, ResultsOn DEF Beside
<1>10. PoolTyped'
  BY <1>1, <1>2, <1>6, <1>9 DEF PoolTyped, Moved, Beside
<1> QED
  BY <1>5, <1>7, <1>8, <1>9, <1>10 DEF PoolInv

(* The place is given up for a pause, or the upload fails.                 *)
LEMMA TryAgainKeeps ==
  ASSUME PoolInv, NEW u \in Upload, pc[u] \in Placed, Beside,
         NEW asked \in {"reserving", "putting"}, TryAgain(u, asked)
  PROVE  PoolInv'
<1> DEFINE made == (IF asked = "reserving" THEN tries[u] ELSE puts[u]) + 1
<1>1. CASE SettleUpload(u, "failed")
  <2>1. "failed" \in Result
    BY DEF Result
  <2> QED
    BY <1>1, <2>1, SettleKeeps
<1>2. CASE /\ made < Attempts /\ Give(u, "pausing")
           /\ step' = [step EXCEPT ![u] = asked]
           /\ tries' = IF asked = "reserving" THEN [tries EXCEPT ![u] = made] ELSE tries
           /\ puts' = IF asked = "putting" THEN [puts EXCEPT ![u] = made] ELSE puts
           /\ UNCHANGED <<presigns, outcomes, budget, result, known, expired>>
  <2>1. PoolTyped /\ Places /\ Charges /\ Outcomes /\ Results
    BY DEF PoolInv
  <2>2. made \in 0..Attempts - 1
    <3>1. tries[u] \in Nat /\ puts[u] \in Nat /\ Attempts \in Nat
      BY <2>1, LimitsAreNat DEF PoolTyped
    <3> QED
      BY <1>2, <3>1
  <2> HIDE DEF made
  <2>3. /\ step' \in [Upload -> {"reserving", "putting"}]
        /\ tries' \in [Upload -> 0..Attempts - 1] /\ puts' \in [Upload -> 0..Attempts - 1]
    BY <1>2, <2>1, <2>2 DEF PoolTyped
  <2>4. Places' /\ Moved(u) /\ pc'[u] = "pausing"
    BY <1>2, <2>1, GiveKeeps DEF Beside
  <2>5. pc[u] \notin {"new", "sharing"} \cup Ended
    BY PlaceNames
  <2>6. Charges'
    <3>1. u \in Charged
      BY <2>5 DEF Charged
    <3>2. Charged' = Charged \cup {u}
      BY <2>4, ChargedMoves, PlaceNames
    <3> QED
      BY <1>2, <2>1, <3>1, <3>2, ChargesSame
  <2>7. Outcomes'
    BY <1>2, <2>1, <2>4, <2>5, OutcomesOn, SharedNames DEF Beside
  <2>8. Results' /\ result' \in [Upload -> Result]
    <3>1. "none" \in Result
      BY DEF Result
    <3> QED
      BY <1>2, <2>1, <2>4, <3>1, ResultsOn DEF Beside
  <2>9. PoolTyped'
    BY <1>2, <2>1, <2>3, <2>4, <2>8 DEF PoolTyped, Moved, Beside
  <2> QED
    BY <2>4, <2>6, <2>7, <2>8, <2>9 DEF PoolInv
<1> QED
  BY <1>1, <1>2 DEF TryAgain

LEMMA ReserveAgainKeeps ==
  ASSUME PoolInv, NEW u \in Upload, pc[u] \in Sized, Beside, ReserveAgain(u)
  PROVE  PoolInv'
<1>1. CASE SettleUpload(u, "failed")
  <2>1. "failed" \in Result /\ pc[u] \in Placed
    BY PlaceNames DEF Result
  <2> QED
    BY <1>1, <2>1, SettleKeeps
<1>2. CASE /\ Onward(u, "reserving") /\ tries' = [tries EXCEPT ![u] = 0]
           /\ presigns' = [presigns EXCEPT ![u] = 2] /\ UNCHANGED puts
  <2>1. 0 \in 0..Attempts - 1 /\ 2 \in 0..2 /\ "reserving" \in Requesting
    BY LimitsAreNat DEF Requesting
  <2>2. /\ tries' \in [Upload -> 0..Attempts - 1] /\ puts' \in [Upload -> 0..Attempts - 1]
        /\ presigns' \in [Upload -> 0..2]
    BY <1>2, <2>1 DEF PoolInv, PoolTyped
  <2> QED
    BY <1>2, <2>1, <2>2, UploadGoesOn
<1> QED
  BY <1>1, <1>2 DEF ReserveAgain

-----------------------------------------------------------------------------
LEMMA EnqueueKeeps ==
  ASSUME PoolInv, NEW u \in Upload, Enqueue(u)
  PROVE  PoolInv'
<1>1. /\ pc[u] = "new"
      /\ UNCHANGED <<step, attempts, expired, unsupported, closed, stored, faults>>
  BY DEF Enqueue
<1>2. PoolTyped /\ Places /\ Charges /\ Outcomes /\ Results
  BY DEF PoolInv
<1>3. u \notin Charged
  BY <1>1 DEF Charged
<1>4. CASE closed \/ unsupported \/ OverBudget(u) \/ NoRoom(u)
  <2> DEFINE o == IF closed THEN "failed" ELSE IF unsupported THEN "unsupported" ELSE "budget"
  <2>1. /\ pc' = [pc EXCEPT ![u] = "refused"] /\ result' = [result EXCEPT ![u] = o]
        /\ UNCHANGED <<budget, known, outcomes, slots>>
    BY <1>4 DEF Enqueue
  <2>2. o \in Result /\ o # "ok" /\ o # "changed"
    BY DEF Result
  <2> HIDE DEF o
  <2>3. "refused" \in Place /\ "refused" \in Ended /\ "refused" \notin Placed \cup InLine /\ "new" \notin Placed \cup InLine
    BY PlaceNames DEF InLine
  <2>4. Places'
    BY <1>1, <1>2, <2>1, <2>3, StaysKeeps DEF slots
  <2>5. Moved(u) /\ pc'[u] = "refused"
    BY <1>2, <2>1, <2>3, MovesAlone
  <2>6. Charges'
    <3>1. Charged' = Charged \ {u}
      BY <2>3, <2>5, ChargedMoves
    <3> QED
      BY <1>2, <1>3, <2>1, <3>1, ChargesSame
  <2>7. Outcomes'
    BY <1>1, <1>2, <2>1, <2>3, <2>5, OutcomesOn, SharedNames
  <2>8. Results' /\ result' \in [Upload -> Result]
    BY <1>1, <1>2, <2>1, <2>2, <2>5, ResultsOn
  <2>9. PoolTyped'
    BY <1>1, <1>2, <2>1, <2>5, <2>8 DEF PoolTyped, Moved, attempts
  <2> QED
    BY <2>4, <2>6, <2>7, <2>8, <2>9 DEF PoolInv
<1>5. CASE ~(closed \/ unsupported \/ OverBudget(u) \/ NoRoom(u))
  <2>1. ChargeUpload(u) /\ Join(u) /\ result' = result
    BY <1>5 DEF Enqueue
  <2>2. /\ Places' /\ Outcomes' /\ Moved(u) /\ pc'[u] \in {"sharing", "fresh", "queued"}
        /\ known' \in [Upload -> Upload \cup {None}]
    BY <1>1, <1>2, <1>5, <2>1, JoinKeeps
  <2>3. pc'[u] \notin {"new", "completing"} \cup Ended
    BY <2>2, PlaceNames
  <2>4. Charges'
    <3>1. Charged' = Charged \cup {u}
      BY <2>2, <2>3, ChargedMoves
    <3> QED
      BY <1>2, <1>3, <1>5, <2>1, <3>1, ChargesMore
  <2>5. Results' /\ result' \in [Upload -> Result]
    <3>1. "none" \in Result
      BY DEF Result
    <3> QED
      BY <1>1, <1>2, <2>1, <2>2, <2>3, <3>1, ResultsOn
  <2>6. PoolTyped'
    BY <1>1, <1>2, <2>1, <2>2, <2>5 DEF PoolTyped, Moved, attempts
  <2> QED
    BY <2>2, <2>4, <2>5, <2>6 DEF PoolInv
<1> QED
  BY <1>4, <1>5

LEMMA ShareKeeps ==
  ASSUME PoolInv, NEW u \in Upload, Share(u)
  PROVE  PoolInv'
<1> DEFINE k == known[u]
           o == result[k]
<1>1. pc[u] = "sharing" /\ pc[k] = "settled" /\ UNCHANGED <<unsupported, closed, stored, faults>>
  BY DEF Share
<1>2. PoolTyped /\ Places /\ Charges /\ Outcomes /\ Results
  BY DEF PoolInv
<1>3. k \in Upload /\ Value[k] = Value[u] /\ o \in Result
  <2>1. u \in InPlace({"sharing"})
    BY <1>1 DEF InPlace
  <2>2. k \in Upload /\ Value[k] = Value[u]
    BY <1>2, <2>1 DEF Outcomes
  <2> QED
    BY <1>2, <2>2 DEF PoolTyped
<1>4. o = "ok" => Value[u] \in stored
  BY <1>2, <1>3 DEF Results
<1>5. u \in Charged
  BY <1>1, PlaceNames DEF Charged
<1>6. CASE o # "changed" \/ NoRoom(u)
  <2> DEFINE r == IF o # "changed" THEN o ELSE "budget"
  <2>1. /\ pc' = [pc EXCEPT ![u] = "settled"] /\ result' = [result EXCEPT ![u] = r]
        /\ ReleaseUpload(u) /\ Forget(u) /\ UNCHANGED <<outcomes, slots>>
    BY <1>6 DEF Share
  <2>2. r \in Result /\ r # "changed" /\ (r = "ok" => Value[u] \in stored)
    BY <1>3, <1>4 DEF Result
  <2> HIDE DEF k, o, r
  <2>3. "settled" \in Place /\ "settled" \in Ended /\ "settled" \notin Placed \cup InLine /\ "sharing" \notin Placed \cup InLine
    BY PlaceNames DEF InLine
  <2>4. /\ step' \in [Upload -> {"reserving", "putting"}]
        /\ known' \in [Upload -> Upload \cup {None}]
        /\ tries' \in [Upload -> 0..Attempts - 1]
        /\ puts' \in [Upload -> 0..Attempts - 1]
        /\ presigns' \in [Upload -> 0..2]
        /\ expired' \subseteq Upload /\ expired \ {u} \subseteq expired'
        /\ \A v \in Upload \ {u} : known'[v] = known[v]
    BY <1>2, <2>1, ForgetKeeps
  <2>5. Places'
    BY <1>1, <1>2, <2>1, <2>3, <2>4, StaysKeeps DEF slots
  <2>6. Moved(u) /\ pc'[u] = "settled"
    BY <1>2, <2>1, <2>3, MovesAlone
  <2>7. Charges'
    <3>1. Charged' = Charged \ {u}
      BY <2>3, <2>6, ChargedMoves
    <3> QED
      BY <1>2, <1>5, <2>1, <3>1, ChargesLess
  <2>8. Outcomes'
    BY <1>1, <1>2, <2>1, <2>3, <2>4, <2>6, OutcomesOn, SharedNames
  <2>9. Results' /\ result' \in [Upload -> Result]
    BY <1>1, <1>2, <2>1, <2>2, <2>6, ResultsOn
  <2>10. PoolTyped'
    BY <1>1, <1>2, <2>4, <2>6, <2>9 DEF PoolTyped, Moved
  <2> QED
    BY <2>5, <2>7, <2>8, <2>9, <2>10 DEF PoolInv
<1>7. CASE ~(o # "changed" \/ NoRoom(u))
  <2>1. Join(u) /\ UNCHANGED <<result, budget, step, attempts, expired>> /\ ~NoRoom(u)
    BY <1>7 DEF Share
  <2>2. /\ Places' /\ Outcomes' /\ Moved(u) /\ pc'[u] \in {"sharing", "fresh", "queued"}
        /\ known' \in [Upload -> Upload \cup {None}]
    BY <1>1, <1>2, <2>1, JoinKeeps
  <2>3. pc'[u] \notin {"new", "completing"} \cup Ended
    BY <2>2, PlaceNames
  <2>4. Charges'
    <3>1. Charged' = Charged \cup {u}
      BY <2>2, <2>3, ChargedMoves
    <3> QED
      BY <1>2, <1>5, <2>1, <3>1, ChargesSame
  <2>5. Results' /\ result' \in [Upload -> Result]
    <3>1. "none" \in Result
      BY DEF Result
    <3> QED
      BY <1>1, <1>2, <2>1, <2>2, <2>3, <3>1, ResultsOn
  <2>6. PoolTyped'
    BY <1>1, <1>2, <2>1, <2>2, <2>5 DEF PoolTyped, Moved, attempts
  <2> QED
    BY <2>2, <2>4, <2>5, <2>6 DEF PoolInv
<1> QED
  BY <1>6, <1>7

LEMMA StoreFreshKeeps ==
  ASSUME PoolInv, NEW u \in Upload, StoreFresh(u)
  PROVE  PoolInv'
<1>1. pc[u] = "fresh" /\ UNCHANGED <<unsupported, closed, stored, faults>>
  BY DEF StoreFresh
<1>2. Beside /\ pc[u] \in Placed /\ pc[u] \in Sized
  BY <1>1, PlaceNames DEF Beside, PoolInv, PoolTyped
<1>3. CASE closed \/ unsupported \/ u \in expired
  <2> DEFINE o == IF ~closed /\ unsupported THEN "unsupported" ELSE "failed"
  <2>1. SettleUpload(u, o)
    BY <1>3 DEF StoreFresh
  <2>2. o \in Result /\ o # "ok" /\ o # "changed"
    BY DEF Result
  <2> HIDE DEF o
  <2> QED
    BY <1>2, <2>1, <2>2, SettleKeeps
<1>4. CASE ~(closed \/ unsupported \/ u \in expired)
  <2>1. Onward(u, "reserving") /\ presigns' = [presigns EXCEPT ![u] = 1] /\ UNCHANGED <<tries, puts>>
    BY <1>4 DEF StoreFresh
  <2>2. /\ tries' \in [Upload -> 0..Attempts - 1] /\ puts' \in [Upload -> 0..Attempts - 1]
        /\ presigns' \in [Upload -> 0..2]
    BY <2>1 DEF PoolInv, PoolTyped
  <2>3. "reserving" \in Requesting
    BY DEF Requesting
  <2> QED
    BY <1>2, <2>1, <2>2, <2>3, UploadGoesOn
<1> QED
  BY <1>3, <1>4

LEMMA ReserveAnswerKeeps ==
  ASSUME PoolInv, NEW u \in Upload, ReserveAnswer(u)
  PROVE  PoolInv'
<1>1. pc[u] = "reserving" /\ UNCHANGED <<closed, stored>>
  BY DEF ReserveAnswer
<1>2. PoolTyped /\ pc[u] \in Placed /\ pc[u] \in Sized
  BY <1>1, PlaceNames DEF PoolInv
<1>3. ASSUME unsupported' \in BOOLEAN, faults' \in 0..MaxFaults PROVE Beside
  BY <1>1, <1>2, <1>3 DEF Beside, PoolTyped
<1>4. CASE Unanswered(u) /\ TryAgain(u, "reserving") /\ UNCHANGED unsupported
  <2>1. Beside
    BY <1>2, <1>3, <1>4, UnansweredIsBounded DEF PoolTyped
  <2> QED
    BY <1>2, <1>4, <2>1, TryAgainKeeps
<1>5. CASE /\ IF Value[u] \in stored THEN SettleUpload(u, "ok")
              ELSE Onward(u, "putting") /\ UNCHANGED attempts
           /\ UNCHANGED <<unsupported, faults>>
  <2>1. Beside
    BY <1>2, <1>3, <1>5 DEF PoolTyped
  <2>2. CASE Value[u] \in stored
    <3>1. "ok" \in Result /\ Value[u] \in stored'
      BY <1>1, <2>2 DEF Result
    <3> QED
      BY <1>2, <1>5, <2>1, <2>2, <3>1, SettleKeeps
  <2>3. CASE Value[u] \notin stored
    <3>1. Onward(u, "putting") /\ UNCHANGED attempts /\ "putting" \in Requesting
      BY <1>5, <2>3 DEF Requesting
    <3>2. /\ tries' \in [Upload -> 0..Attempts - 1] /\ puts' \in [Upload -> 0..Attempts - 1]
          /\ presigns' \in [Upload -> 0..2]
      BY <1>2, <3>1 DEF PoolTyped, attempts
    <3> QED
      BY <1>2, <2>1, <3>1, <3>2, UploadGoesOn
  <2> QED
    BY <2>2, <2>3
<1>6. CASE /\ Fault
           /\ \/ unsupported' = TRUE /\ SettleUpload(u, "unsupported")
              \/ UNCHANGED unsupported /\ SettleUpload(u, "failed")
  <2>1. unsupported' \in BOOLEAN
    BY <1>2, <1>6 DEF PoolTyped
  <2>2. Beside
    BY <1>2, <1>3, <1>6, <2>1, FaultIsBounded
  <2>3. {"failed", "unsupported"} \subseteq Result
    BY DEF Result
  <2>4. \E o \in {"failed", "unsupported"} : SettleUpload(u, o)
    BY <1>6
  <2> QED
    BY <1>2, <2>2, <2>3, <2>4, SettleKeeps
<1> QED
  BY <1>4, <1>5, <1>6 DEF ReserveAnswer

LEMMA PutAnswerKeeps ==
  ASSUME PoolInv, NEW u \in Upload, PutAnswer(u)
  PROVE  PoolInv'
<1>1. pc[u] = "putting" /\ UNCHANGED <<unsupported, closed>>
  BY DEF PutAnswer
<1>2. PoolTyped /\ pc[u] \in Placed /\ pc[u] \in Sized
  BY <1>1, PlaceNames DEF PoolInv
<1>3. ASSUME UNCHANGED stored, faults' \in 0..MaxFaults PROVE Beside
  BY <1>1, <1>2, <1>3 DEF Beside, PoolTyped
<1>4. {"failed", "changed"} \subseteq Result
  BY DEF Result
<1>5. CASE stored' = stored \cup {Value[u]} /\ Onward(u, "completing") /\ UNCHANGED <<attempts, faults>>
  <2>1. Beside
    BY <1>1, <1>2, <1>5 DEF Beside, PoolTyped, Values
  <2>2. /\ tries' \in [Upload -> 0..Attempts - 1] /\ puts' \in [Upload -> 0..Attempts - 1]
        /\ presigns' \in [Upload -> 0..2]
    BY <1>2, <1>5 DEF PoolTyped, attempts
  <2>3. "completing" \in Requesting /\ Value[u] \in stored'
    BY <1>5 DEF Requesting
  <2> QED
    BY <1>2, <1>5, <2>1, <2>2, <2>3, UploadGoesOn
<1>6. CASE u \in Altered /\ SettleUpload(u, "changed") /\ UNCHANGED <<stored, faults>>
  <2>1. Beside
    BY <1>2, <1>3, <1>6 DEF PoolTyped
  <2> QED
    BY <1>2, <1>4, <1>6, <2>1, SettleKeeps
<1>7. CASE Unanswered(u) /\ TryAgain(u, "putting") /\ UNCHANGED stored
  <2>1. Beside
    BY <1>2, <1>3, <1>7, UnansweredIsBounded
  <2> QED
    BY <1>2, <1>7, <2>1, TryAgainKeeps
<1>8. CASE Fault /\ ReserveAgain(u) /\ UNCHANGED stored
  <2>1. Beside
    BY <1>2, <1>3, <1>8, FaultIsBounded
  <2> QED
    BY <1>2, <1>8, <2>1, ReserveAgainKeeps
<1>9. CASE Fault /\ SettleUpload(u, "failed") /\ UNCHANGED stored
  <2>1. Beside
    BY <1>2, <1>3, <1>9, FaultIsBounded
  <2> QED
    BY <1>2, <1>4, <1>9, <2>1, SettleKeeps
<1> QED
  BY <1>5, <1>6, <1>7, <1>8, <1>9 DEF PutAnswer

LEMMA CompleteAnswerKeeps ==
  ASSUME PoolInv, NEW u \in Upload, CompleteAnswer(u)
  PROVE  PoolInv'
<1>1. pc[u] = "completing" /\ SettleUpload(u, "ok") /\ UNCHANGED <<unsupported, closed, stored, faults>>
  BY DEF CompleteAnswer
<1>2. Beside /\ pc[u] \in Placed /\ "ok" \in Result
  BY <1>1, PlaceNames DEF Beside, PoolInv, PoolTyped, Result
<1>3. Value[u] \in stored'
  BY <1>1 DEF PoolInv, Results, InPlace
<1> QED
  BY <1>1, <1>2, <1>3, SettleKeeps
LEMMA WaitEndsKeeps ==
  ASSUME PoolInv, NEW u \in Upload, WaitEnds(u)
  PROVE  PoolInv'
<1>1. /\ pc[u] = "pausing" /\ Take(u, "resumed", "returning")
      /\ UNCHANGED <<locals, result, outcomes, budget, unsupported, closed, stored, faults>>
  BY DEF WaitEnds
<1>2. PoolTyped /\ Places /\ Charges /\ Outcomes /\ Results
  BY DEF PoolInv
<1>3. /\ pc[u] \notin Placed \cup InLine /\ pc[u] \notin {"new", "sharing"} \cup Ended
      /\ UNCHANGED <<known, step, tries, puts, presigns, expired>>
  BY <1>1, PlaceNames DEF InLine, locals, attempts
<1>4. Places' /\ Moved(u) /\ pc'[u] \in {"resumed", "returning"}
  BY <1>1, <1>2, <1>3, TakeKeeps DEF InLine
<1>5. Charges'
  <2>1. u \in Charged
    BY <1>3 DEF Charged
  <2>2. Charged' = Charged \cup {u}
    BY <1>4, ChargedMoves, PlaceNames
  <2> QED
    BY <1>1, <1>2, <2>1, <2>2, ChargesSame
<1>6. Outcomes'
  BY <1>1, <1>2, <1>3, <1>4, OutcomesOn, SharedNames
<1>7. Results' /\ result' \in [Upload -> Result]
  <2>1. "none" \in Result
    BY DEF Result
  <2> QED
    BY <1>1, <1>2, <1>4, <2>1, ResultsOn
<1>8. PoolTyped'
  BY <1>1, <1>2, <1>3, <1>4, <1>7 DEF PoolTyped, Moved
<1> QED
  BY <1>4, <1>5, <1>6, <1>7, <1>8 DEF PoolInv

(* The one past its deadline leaves the line for a place over the size.    *)
LEMMA OverdueKeeps ==
  ASSUME PoolInv, NEW u \in Upload, Overdue(u)
  PROVE  PoolInv'
<1>1. /\ pc[u] = "returning" /\ u \in expired
      /\ waiting' = RemoveFirst(waiting, u) /\ running' = running + 1
      /\ pc' = [pc EXCEPT ![u] = "overdue"]
      /\ UNCHANGED <<locals, result, outcomes, budget, unsupported, closed, stored, faults>>
  BY DEF Overdue
<1>2. PoolTyped /\ Places /\ Charges /\ Outcomes /\ Results
  BY DEF PoolInv
<1>3. /\ pc[u] \notin Placed /\ pc[u] \in InLine /\ pc[u] \notin {"new", "sharing"} \cup Ended
      /\ "overdue" \in Place /\ "overdue" \in Placed /\ "overdue" \notin Sized \cup InLine
      /\ UNCHANGED <<known, step, tries, puts, presigns, expired>>
  BY <1>1, PlaceNames DEF InLine, locals, attempts
<1>4. Moved(u) /\ pc'[u] = "overdue"
  BY <1>1, <1>2, <1>3, MovesAlone
<1>5. /\ InPlace(Placed)' = InPlace(Placed) \cup {u}
      /\ InPlace(Sized)' = InPlace(Sized) \ {u}
      /\ InPlace(InLine)' = InPlace(InLine) \ {u}
      /\ InPlace({"overdue"})' = InPlace({"overdue"}) \cup {u}
  BY <1>1, <1>2, <1>3, MovesOne
<1>6. u \notin InPlace(Placed) /\ u \notin InPlace(Sized)
  BY <1>3, PlaceNames DEF InPlace
<1>7. Places'
  <2>1. waiting \in Seq(Upload) /\ IsInjective(waiting) /\ ToSet(waiting) = InPlace(InLine)
    BY <1>2 DEF Places, InLine
  <2>2. waiting' \in Seq(Upload) /\ IsInjective(waiting') /\ ToSet(waiting') = InPlace(InLine)'
    BY <1>1, <1>5, <2>1, RemovesOne
  <2>3. running = Cardinality(InPlace(Placed)) /\ running \in Nat /\ Size \in Nat
    BY <1>2, InPlaceSet, UploadsFinite, LimitsAreNat DEF Places
  <2>4. running' = Cardinality(InPlace(Placed)')
    BY <1>1, <1>5, <1>6, <2>3, InPlaceSet, UploadsFinite
  <2>5. waiting # <<>>
    <3>1. u \in ToSet(waiting)
      BY <1>3, <2>1 DEF InPlace
    <3> QED
      BY <3>1, <2>1, SeqSet
  <2>6. running' >= Size /\ ~closed'
    BY <1>1, <1>2, <2>3, <2>5 DEF Places
  <2>7. InPlace(Sized)' = InPlace(Sized)
    BY <1>5, <1>6
  <2>8. InPlace({"overdue"})' \subseteq expired'
    BY <1>1, <1>2, <1>3, <1>5 DEF Places
  <2> QED
    BY <1>1, <1>2, <2>2, <2>4, <2>6, <2>7, <2>8 DEF Places, InLine, Sized
<1>8. Charges'
  <2>1. u \in Charged
    BY <1>3 DEF Charged
  <2>2. Charged' = Charged \cup {u}
    BY <1>4, ChargedMoves, PlaceNames
  <2> QED
    BY <1>1, <1>2, <2>1, <2>2, ChargesSame
<1>9. Outcomes'
  BY <1>1, <1>2, <1>3, <1>4, OutcomesOn, SharedNames
<1>10. Results' /\ result' \in [Upload -> Result]
  <2>1. "none" \in Result
    BY DEF Result
  <2> QED
    BY <1>1, <1>2, <1>4, <2>1, ResultsOn
<1>11. PoolTyped'
  BY <1>1, <1>2, <1>3, <1>4, <1>10 DEF PoolTyped, Moved
<1> QED
  BY <1>7, <1>8, <1>9, <1>10, <1>11 DEF PoolInv

(* An upload that goes on has a place within the size.                     *)
LEMMA ResumeKeeps ==
  ASSUME PoolInv, NEW u \in Upload, Resume(u)
  PROVE  PoolInv'
<1>1. pc[u] \in {"resumed", "overdue"} /\ UNCHANGED <<unsupported, closed, stored, faults>>
  BY DEF Resume
<1>2. Beside /\ pc[u] \in Placed /\ "failed" \in Result
  BY <1>1, PlaceNames DEF Beside, PoolInv, PoolTyped, Result
<1>3. u \notin expired => pc[u] \in Sized
  BY <1>1, PlaceNames DEF PoolInv, Places, InPlace
<1>4. CASE SettleUpload(u, "failed")
  BY <1>2, <1>4, SettleKeeps
<1>5. CASE u \notin expired /\ Onward(u, step[u]) /\ UNCHANGED attempts
  <2>1. step[u] \in Requesting /\ step[u] # "completing"
    BY DEF PoolInv, PoolTyped, Requesting
  <2>2. /\ tries' \in [Upload -> 0..Attempts - 1] /\ puts' \in [Upload -> 0..Attempts - 1]
        /\ presigns' \in [Upload -> 0..2]
    BY <1>5 DEF PoolInv, PoolTyped, attempts
  <2> QED
    BY <1>2, <1>3, <1>5, <2>1, <2>2, UploadGoesOn
<1>6. CASE u \notin expired /\ ReserveAgain(u)
  BY <1>2, <1>3, <1>6, ReserveAgainKeeps
<1> QED
  BY <1>4, <1>5, <1>6 DEF Resume

LEMMA ExpireKeeps ==
  ASSUME PoolInv, NEW u \in Upload, Expire(u)
  PROVE  PoolInv'
<1>1. /\ expired' = expired \cup {u} /\ Fault
      /\ UNCHANGED <<pc, known, step, attempts, result, slots, outcomes, budget,
                     unsupported, closed, stored>>
  BY DEF Expire
<1>2. PoolTyped /\ Places /\ Charges /\ Outcomes /\ Results
  BY DEF PoolInv
<1>3. Charged' = Charged
  BY <1>1 DEF Charged
<1>4. PoolTyped'
  BY <1>1, <1>2, FaultIsBounded DEF PoolTyped, attempts
<1>5. Places'
  BY <1>1, <1>2 DEF Places, InPlace, slots
<1>6. Charges'
  BY <1>1, <1>2, <1>3, ChargesSame
<1>7. Outcomes' /\ Results'
  BY <1>1, <1>2, <1>3 DEF Outcomes, Results, InPlace
<1> QED
  BY <1>4, <1>5, <1>6, <1>7 DEF PoolInv

LEMMA ReconsiderKeeps ==
  ASSUME PoolInv, Reconsider \/ UNCHANGED poolVars
  PROVE  PoolInv'
<1>1. /\ unsupported' \in {unsupported, FALSE}
      /\ UNCHANGED <<pc, locals, result, slots, outcomes, budget, closed, stored, faults>>
  BY DEF Reconsider, poolVars
<1>2. PoolTyped /\ Places /\ Charges /\ Outcomes /\ Results
  BY DEF PoolInv
<1>3. Charged' = Charged
  BY <1>1 DEF Charged
<1>4. PoolTyped'
  BY <1>1, <1>2 DEF PoolTyped, locals, attempts
<1>5. Places'
  BY <1>1, <1>2 DEF Places, InPlace, slots, locals
<1>6. Charges'
  BY <1>1, <1>2, <1>3, ChargesSame
<1>7. Outcomes' /\ Results'
  BY <1>1, <1>2, <1>3 DEF Outcomes, Results, InPlace, locals
<1> QED
  BY <1>4, <1>5, <1>6, <1>7 DEF PoolInv

(* All who wait are let in.                                                *)
LEMMA CloseKeeps ==
  ASSUME PoolInv, Close
  PROVE  PoolInv'
<1>1. /\ ~closed /\ closed' = TRUE /\ outcomes' = <<>>
      /\ running' = running + Len(waiting) /\ waiting' = <<>>
      /\ pc' = [u \in Upload |-> IF u \in ToSet(waiting) THEN Woken(u) ELSE pc[u]]
      /\ UNCHANGED <<locals, result, budget, unsupported, stored, faults>>
  BY DEF Close
<1>2. PoolTyped /\ Places /\ Charges /\ Outcomes /\ Results
  BY DEF PoolInv
<1>3. waiting \in Seq(Upload) /\ IsInjective(waiting) /\ ToSet(waiting) = InPlace(InLine)
  BY <1>2 DEF Places, InLine
<1>4. \A u \in Upload :
         /\ pc[u] \in InLine => pc'[u] \in {"fresh", "resumed"}
         /\ pc[u] \notin InLine => pc'[u] = pc[u]
  BY <1>1, <1>3 DEF InPlace, Woken
<1>5. /\ InPlace(Placed)' = InPlace(Placed) \cup InPlace(InLine)
      /\ InPlace(Placed) \cap InPlace(InLine) = {}
      /\ InPlace(InLine)' = {} /\ InPlace({"overdue"})' = InPlace({"overdue"})
      /\ InPlace({"sharing"})' = InPlace({"sharing"}) /\ InPlace({"completing"})' = InPlace({"completing"})
  <2>1. InPlace(Placed)' = InPlace(Placed) \cup InPlace(InLine) /\ InPlace(Placed) \cap InPlace(InLine) = {}
    BY <1>4, PlaceNames DEF InPlace, InLine
  <2>2. InPlace(InLine)' = {}
    BY <1>4 DEF InPlace, InLine
  <2>3. \A P \in {"overdue", "sharing", "completing"} : InPlace({P})' = InPlace({P})
    BY <1>4 DEF InPlace, InLine
  <2> QED
    BY <2>1, <2>2, <2>3
<1>6. Charged' = Charged
  <2>1. \A u \in Upload : pc'[u] \in {"new"} \cup Ended <=> pc[u] \in {"new"} \cup Ended
    BY <1>4, PlaceNames DEF InLine
  <2> QED
    BY <2>1 DEF Charged
<1>7. PoolTyped'
  <2>1. pc' \in [Upload -> Place]
    BY <1>1, <1>2, PlaceNames DEF PoolTyped, Woken
  <2> QED
    BY <1>1, <1>2, <2>1 DEF PoolTyped, locals, attempts
<1>8. Places'
  <2>1. Len(waiting) = Cardinality(InPlace(InLine))
    BY <1>3, InjectiveLength
  <2>2. running' = Cardinality(InPlace(Placed)')
    <3>1. /\ IsFiniteSet(InPlace(Placed)) /\ IsFiniteSet(InPlace(InLine))
          /\ Cardinality(InPlace(Placed)) \in Nat /\ Cardinality(InPlace(InLine)) \in Nat
      BY InPlaceSet, UploadsFinite
    <3>2. Cardinality(InPlace(Placed) \cup InPlace(InLine)) = Cardinality(InPlace(Placed)) + Cardinality(InPlace(InLine))
      BY <1>5, <3>1, ApartCount
    <3> QED
      BY <1>1, <1>2, <1>5, <2>1, <3>2 DEF Places
  <2>3. waiting' \in Seq(Upload) /\ IsInjective(waiting') /\ ToSet(waiting') = InPlace(InLine)'
    BY <1>1, <1>5, EmptyOne
  <2> QED
    BY <1>1, <1>2, <1>5, <2>2, <2>3 DEF Places, InLine, locals
<1>9. Charges'
  BY <1>1, <1>2, <1>6, ChargesSame
<1>10. Outcomes'
  <2>1. outcomes' \in Seq(Upload) /\ DOMAIN outcomes' = {} /\ Len(outcomes') = 0
    BY <1>1, EmptyOne
  <2>2. Len(outcomes') <= MaxOutcomes
    BY <2>1, LimitsAreNat
  <2>3. ASSUME NEW v \in InPlace({"sharing"})'
        PROVE  known'[v] \in Upload /\ Value[known'[v]] = Value[v] /\ pc'[known'[v]] \in Shared
    <3>1. v \in InPlace({"sharing"}) /\ known'[v] = known[v]
      BY <1>1, <1>5 DEF locals
    <3>2. known[v] \in Upload /\ Value[known[v]] = Value[v] /\ pc[known[v]] \in Shared
      BY <1>2, <3>1 DEF Outcomes
    <3> QED
      BY <1>4, <3>1, <3>2, SharedNames
  <2>4. ToSet(outcomes') = {}
    BY <1>1, EmptyOne
  <2> QED
    BY <1>1, <2>1, <2>2, <2>3, <2>4 DEF Outcomes, Shared
<1>11. Results'
  BY <1>1, <1>2, <1>5 DEF Results
<1> QED
  BY <1>7, <1>8, <1>9, <1>10, <1>11 DEF PoolInv

-----------------------------------------------------------------------------
LEMMA PoolStarts == PoolInit => PoolInv
<1> SUFFICES ASSUME PoolInit PROVE PoolInv
  OBVIOUS
<1>1. \A u \in Upload : pc[u] = "new"
  BY DEF PoolInit
<1>2. \A P : "new" \notin P => InPlace(P) = {}
  BY <1>1 DEF InPlace
<1>3. Charged = {}
  BY <1>1 DEF Charged
<1>4. Cardinality({}) = 0
  BY FS_EmptySet
<1>5. /\ InPlace(Placed) = {} /\ InPlace(Placed \ {"overdue"}) = {} /\ InPlace({"queued", "returning"}) = {}
      /\ InPlace({"overdue"}) = {} /\ InPlace({"sharing"}) = {} /\ InPlace({"completing"}) = {}
  BY <1>2, PlaceNames
<1>6. PoolTyped
  <2>1. /\ 0 \in 0..Attempts - 1 /\ 0 \in 0..2 /\ 0 \in 0..MaxFaults
        /\ "new" \in Place /\ "none" \in Result
    BY LimitsAreNat, PlaceNames DEF Result
  <2> QED
    BY <2>1 DEF PoolInit, PoolTyped
<1>7. Places
  <2>1. waiting \in Seq(Upload) /\ IsInjective(waiting) /\ ToSet(waiting) = {}
    BY EmptyOne DEF PoolInit
  <2>2. running = 0 /\ waiting = <<>> /\ closed = FALSE /\ Size \in Nat
    BY LimitsAreNat DEF PoolInit
  <2>3. Cardinality(InPlace(Placed)) = 0 /\ Cardinality(InPlace(Placed \ {"overdue"})) <= Size
    <3>1. Cardinality(InPlace(Placed)) = 0 /\ Cardinality(InPlace(Placed \ {"overdue"})) = 0
      BY <1>4, <1>5, Zenon
    <3>2. 0 <= Size
      BY <2>2
    <3> QED
      BY <3>1, <3>2, Zenon
  <2> QED
    BY <1>5, <2>1, <2>2, <2>3 DEF Places
<1>8. Charges
  <2>1. TotalBytes({}) = 0
    BY HeldTexts, TotalEmpty, {} \in SUBSET Text
  <2>2. UNION {Held[u] : u \in Charged} = {}
    BY <1>3
  <2>3. \A x \in Text : {u \in Charged : x \in Held[u]} = {}
    BY <1>3
  <2>4. /\ queued = 0 /\ queuedBytes = 0 /\ holding = [x \in Text |-> 0]
        /\ MaxQueued \in Nat /\ MaxHeld \in Nat
    BY LimitsAreNat DEF PoolInit
  <2>5. queued = Cardinality(Charged) /\ queuedBytes = TotalBytes(UNION {Held[u] : u \in Charged})
    BY <1>3, <1>4, <2>1, <2>2, <2>4
  <2>6. \A x \in Text : holding[x] = Cardinality({u \in Charged : x \in Held[u]})
    BY <1>4, <2>3, <2>4
  <2>7. queued \in 0..MaxQueued /\ queuedBytes \in Nat /\ holding \in [Text -> Nat] /\ queuedBytes <= MaxHeld
    BY <2>4
  <2> QED
    BY <2>5, <2>6, <2>7 DEF Charges, HeldOnce
<1>9. Outcomes
  <2>1. outcomes \in Seq(Upload) /\ DOMAIN outcomes = {} /\ Len(outcomes) = 0 /\ ToSet(outcomes) = {}
    BY EmptyOne DEF PoolInit
  <2> QED
    BY <1>3, <1>5, <2>1, LimitsAreNat DEF Outcomes
<1>10. Results
  BY <1>5 DEF PoolInit, Results
<1> QED
  BY <1>6, <1>7, <1>8, <1>9, <1>10 DEF PoolInv

LEMMA PoolStepsKeep == PoolInv /\ [PoolNext]_poolVars => PoolInv'
<1> SUFFICES ASSUME PoolInv, [PoolNext]_poolVars PROVE PoolInv'
  OBVIOUS
<1>1. CASE Reconsider \/ UNCHANGED poolVars
  BY <1>1, ReconsiderKeeps
<1>2. CASE Close
  BY <1>2, CloseKeeps
<1>3. ASSUME NEW u \in Upload, Enqueue(u) \/ UploadStep(u) \/ Expire(u) PROVE PoolInv'
  BY <1>3, EnqueueKeeps, ShareKeeps, StoreFreshKeeps, ReserveAnswerKeeps, PutAnswerKeeps,
     CompleteAnswerKeeps, WaitEndsKeeps, OverdueKeeps, ResumeKeeps, ExpireKeeps DEF UploadStep
<1> QED
  BY <1>1, <1>2, <1>3 DEF PoolNext

LEMMA PoolIsKept == PoolSpec => []PoolInv
BY PoolStarts, PoolStepsKeep, PTL DEF PoolSpec

(* Who waits for a place waits for one who has it, and who shares waits    *)
(* for one who does not.                                                   *)
LEMMA PoolInvGoesOn == PoolInv => SomeoneGoesOn
<1> DEFINE goes(u) == \/ pc[u] \in Placed \cup {"pausing"}
                      \/ pc[u] = "sharing" /\ pc[known[u]] = "settled"
<1> SUFFICES ASSUME PoolInv, NEW u \in Charged PROVE \E v \in Upload : goes(v)
  BY DEF SomeoneGoesOn
<1>1. Places /\ Outcomes /\ u \in Upload /\ pc[u] \in Place \ ({"new"} \cup Ended)
  BY DEF PoolInv, PoolTyped, Charged
<1>2. ASSUME NEW v \in Upload, pc[v] \in InLine PROVE \E w \in Upload : pc[w] \in Placed
  <2>1. waiting \in Seq(Upload) /\ v \in ToSet(waiting)
    BY <1>1, <1>2 DEF Places, InPlace, InLine
  <2>2. waiting # <<>>
    BY <2>1, EmptyOne
  <2>3. /\ running = Cardinality(InPlace(Placed)) /\ IsFiniteSet(InPlace(Placed))
        /\ running \in Nat /\ Size \in Nat \ {0} /\ running >= Size
    BY <1>1, <2>2, InPlaceSet, UploadsFinite, LimitsAreNat DEF Places
  <2>4. InPlace(Placed) # {}
    <3>1. running # 0
      BY <2>3
    <3> QED
      BY <2>3, <3>1, FS_EmptySet
  <2> QED
    BY <2>4 DEF InPlace
<1>3. ASSUME NEW v \in Upload, pc[v] \in Shared \ {"settled"} PROVE \E w \in Upload : goes(w)
  <2>1. pc[v] \in Placed \cup {"pausing"} \/ pc[v] \in InLine
    BY <1>3, SharedNames, PlaceNames DEF InLine
  <2> QED
    BY <1>2, <2>1
<1>4. CASE pc[u] = "sharing"
  <2>1. known[u] \in Upload /\ pc[known[u]] \in Shared
    BY <1>1, <1>4 DEF Outcomes, InPlace
  <2> QED
    BY <1>1, <1>3, <1>4, <2>1
<1>5. CASE pc[u] # "sharing"
  <2>1. pc[u] \in Shared \ {"settled"}
    BY <1>1, <1>5, PlaceNames DEF Shared
  <2> QED
    BY <1>1, <1>3, <2>1
<1> QED
  BY <1>4, <1>5

LEMMA PoolInvAddsUp == PoolInv => PoolAddsUp
<1> SUFFICES ASSUME PoolInv PROVE PoolAddsUp
  OBVIOUS
<1>1. PoolTyped /\ Places /\ Charges /\ Outcomes
  BY DEF PoolInv
<1>2. running \in 0..Cardinality(Upload)
  <2>1. /\ running = Cardinality(InPlace(Placed)) /\ InPlace(Placed) \in SUBSET Upload
        /\ Upload \in SUBSET Upload /\ InPlace(Placed) \subseteq Upload
    BY <1>1, InPlaceSet DEF Places
  <2>2. running \in Nat /\ Cardinality(Upload) \in Nat /\ running <= Cardinality(Upload)
    BY <2>1, UploadsFinite
  <2> QED
    BY <2>2
<1>3. PoolTypeOK
  BY <1>1, <1>2 DEF PoolTypeOK, PoolTyped, Places, Charges, Outcomes
<1>4. ~closed => Cardinality({u \in Upload : pc[u] \in Requesting}) <= Size
  <2> SUFFICES ASSUME ~closed PROVE Cardinality(InPlace(Requesting)) <= Size
    BY DEF InPlace
  <2>1. Cardinality(InPlace(Sized)) <= Size /\ Size \in Nat
    BY <1>1, LimitsAreNat DEF Places, Sized
  <2>2. InPlace(Requesting) \in SUBSET Upload /\ InPlace(Sized) \in SUBSET Upload
        /\ InPlace(Requesting) \subseteq InPlace(Sized)
    BY InPlaceSet, PlaceNames
  <2>3. /\ Cardinality(InPlace(Requesting)) <= Cardinality(InPlace(Sized))
        /\ Cardinality(InPlace(Requesting)) \in Nat /\ Cardinality(InPlace(Sized)) \in Nat
    BY <2>2, UploadsFinite
  <2> QED
    BY <2>1, <2>3
<1>5. PlacesAddUp
  BY <1>1, <1>4 DEF PlacesAddUp, Places, InPlace
<1>6. SomeoneGoesOn
  BY PoolInvGoesOn
<1> QED
  BY <1>1, <1>3, <1>5, <1>6 DEF PoolAddsUp, Charges

LEMMA PoolInvShares == PoolInv => OutcomesShared
<1> SUFFICES ASSUME PoolInv PROVE OutcomesShared
  OBVIOUS
<1>1. Results /\ Outcomes
  BY DEF PoolInv
<1>2. ASSUME ~closed, NEW u \in Charged, NEW v \in Charged, Value[u] = Value[v],
             "sharing" \notin {pc[u], pc[v]}
      PROVE  u = v
  <2>1. u \in ToSet(outcomes) /\ v \in ToSet(outcomes)
    BY <1>1, <1>2 DEF Outcomes
  <2>2. PICK i \in DOMAIN outcomes, j \in DOMAIN outcomes : outcomes[i] = u /\ outcomes[j] = v
    <3>1. DOMAIN outcomes = 1..Len(outcomes) /\ ToSet(outcomes) = {outcomes[i] : i \in 1..Len(outcomes)}
      BY <1>1, SeqSet DEF Outcomes
    <3> QED
      BY <2>1, <3>1
  <2>3. i = j
    BY <1>1, <1>2, <2>2 DEF Outcomes
  <2> QED
    BY <2>2, <2>3
<1> QED
  BY <1>1, <1>2 DEF OutcomesShared, Results

(* The pool of value uploads balances, for every number of uploads, places *)
(* and texts: no more requests are under way than there are places, none   *)
(* is free while an upload waits, none is lost by a pause, a deadline or a *)
(* close, the queue charges what unsettled uploads keep alive, each text   *)
(* once, and while one is unsettled some upload can go on (Slots, enqueue  *)
(* and store of blobs.ts).                                                 *)
THEOREM PoolBalances == PoolSpec => []PoolAddsUp
BY PoolIsKept, PoolInvAddsUp, PTL

(* The outcome an upload is given is true of its own bytes: success only   *)
(* if they are stored, a changed file only if it is its own; and the same  *)
(* bytes are never uploaded twice at a time (store of blobs.ts).           *)
THEOREM OutcomesAreTrue == PoolSpec => []OutcomesShared
BY PoolIsKept, PoolInvShares, PTL

=============================================================================
