----------------------------- MODULE FlushPromise -----------------------------
(***************************************************************************)
(* What an application may rely on when it flushes Hue's telemetry,        *)
(* without how: a flush that does not throw has settled every record that  *)
(* was pending at its call, and leaves no loss behind that no flush has    *)
(* thrown.  It may throw at any time, also for the loss of a record that   *)
(* is not the caller's.  TelemetryFlush implements this; ManagedTarget is  *)
(* built on it.                                                            *)
(***************************************************************************)
EXTENDS Naturals

CONSTANTS Record, Flush

VARIABLES
    fate,       \* fate[r]: what became of the record
    call,       \* call[f]: how the flush stands
    covered,    \* covered[f]: the records that were pending at its call
    unthrown    \* a loss no flush has thrown yet

promiseVars == <<fate, call, covered, unthrown>>

Pending == {r \in Record : fate[r] = "pending"}

PromiseInit ==
    /\ fate = [r \in Record |-> "new"]
    /\ call = [f \in Flush |-> "idle"]
    /\ covered = [f \in Flush |-> {}]
    /\ unthrown = FALSE

Emitted(r) ==
    /\ fate[r] = "new"
    /\ fate' = [fate EXCEPT ![r] = "pending"]
    /\ UNCHANGED <<call, covered, unthrown>>

Settled(r) ==
    /\ fate[r] = "pending"
    /\ fate' = [fate EXCEPT ![r] = "settled"]
    /\ UNCHANGED <<call, covered, unthrown>>

(* A record is refused when it is emitted, or lost later.                  *)
Lost(r) ==
    /\ fate[r] \in {"new", "pending"}
    /\ fate' = [fate EXCEPT ![r] = "lost"]
    /\ unthrown' = TRUE
    /\ UNCHANGED <<call, covered>>

(* A failure that is none of these records'.                               *)
OtherLoss ==
    /\ unthrown' = TRUE
    /\ UNCHANGED <<fate, call, covered>>

Begins(f) ==
    /\ call[f] = "idle"
    /\ call' = [call EXCEPT ![f] = "open"]
    /\ covered' = [covered EXCEPT ![f] = Pending]
    /\ UNCHANGED <<fate, unthrown>>

Succeeds(f) ==
    /\ call[f] = "open"
    /\ \A r \in covered[f] : fate[r] = "settled"
    /\ ~unthrown
    /\ call' = [call EXCEPT ![f] = "ok"]
    /\ UNCHANGED <<fate, covered, unthrown>>

Throws(f) ==
    /\ call[f] = "open"
    /\ call' = [call EXCEPT ![f] = "threw"]
    /\ covered' = [covered EXCEPT ![f] = {}]
    /\ unthrown' = FALSE
    /\ UNCHANGED fate

PromiseNext ==
    \/ \E r \in Record : Emitted(r) \/ Settled(r) \/ Lost(r)
    \/ OtherLoss
    \/ \E f \in Flush : Begins(f) \/ Succeeds(f) \/ Throws(f)

PromiseSpec == PromiseInit /\ [][PromiseNext]_promiseVars
=============================================================================
