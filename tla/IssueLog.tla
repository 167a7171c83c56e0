------------------------------ MODULE IssueLog ------------------------------
(***************************************************************************)
(* The issue log of one transport (transport.ts): a sequence number that   *)
(* every issue takes, the number of the latest failure, which survives the *)
(* history, and a bounded history of the latest issues.  An issue names    *)
(* the traces of the records it concerned, or nobody: too many traces in   *)
(* the batch, no readable trace, or a processor that failed to flush.      *)
(***************************************************************************)
EXTENDS Integers, FiniteSets

CONSTANTS
    Trace,      \* the traces in flight
    Other,      \* stands for every trace that is none of these
    History,    \* issues the history keeps (128 in the code)
    MaxNamed    \* traces an issue names at most (MAX_ISSUE_TRACE_IDS)

ASSUME LogAssumption ==
    /\ Other \notin Trace
    /\ History \in Nat \ {0}
    /\ MaxNamed \in Nat \ {0}

VARIABLES
    sequence,           \* issues recorded so far
    failureSequence,    \* the sequence number of the latest failure, 0 if none
    issues              \* the retained issues

logVars == <<sequence, failureSequence, issues>>

Kinds == {"warning", "failure"}
Named == Trace \cup {Other}

(* An issue without traceIds names nobody: the empty set.  The code never  *)
(* records an empty list.                                                  *)
IssueRecord == [seq: Nat, kind: Kinds, names: SUBSET Named]

LogTypeOK ==
    /\ sequence \in Nat
    /\ failureSequence \in 0..sequence
    /\ issues \subseteq IssueRecord
    /\ \A i \in issues : i.seq \in (sequence - History + 1)..sequence

InitLog ==
    /\ sequence = 0
    /\ failureSequence = 0
    /\ issues = {}

(* A slip: one trace of the batch is named for all of them.                *)
OneNamed(traces) == {CHOOSE trace \in traces : TRUE}

(* The traces of a batch, or nobody past the cap. *)
TraceIdsOf(traces) == IF Cardinality(traces) > MaxNamed THEN {} ELSE traces

(* The history shifts its oldest issue out past the cap: the numbers of    *)
(* the retained issues are consecutive, so that is keeping the numbers of  *)
(* the last History ones.                                                  *)
Issue(kind, names) ==
    /\ sequence' = sequence + 1
    /\ failureSequence' = IF kind = "failure" THEN sequence + 1 ELSE failureSequence
    /\ issues' = {i \in issues : i.seq > sequence + 1 - History}
                   \cup {[seq |-> sequence + 1, kind |-> kind, names |-> names]}

NoIssue == UNCHANGED logVars
=============================================================================
