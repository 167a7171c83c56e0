----------------------------- MODULE LocalWorker -----------------------------
(***************************************************************************)
(* The queue worker of a registered local agent (evals/local-worker.ts):   *)
(* it claims one run at a time under a durable identity, runs the          *)
(* experiment, completes the run in Hue's queue, resumes it after a        *)
(* transient failure, and gives it up as "attention" when the failure      *)
(* would recur or the attempts are used up.  An experiment is one step     *)
(* here; ExperimentRun is its detail.  Hue's queue is what the worker      *)
(* relies on: a claim returns the worker's own run first, a decision about *)
(* a run that is no longer the worker's is refused with 409.               *)
(***************************************************************************)
EXTENDS Integers, FiniteSets

CONSTANTS
    Run,                \* queued runs of the agent
    None,               \* no claim
    MaxRuns,            \* runs the worker settles before it returns
    MaxRunAttempts,     \* failures of one run before it is given up
    MaxFaults,          \* bound: failed requests, failed runs, process ends
    MaxMoves            \* bound: releases and requeues by others

ASSUME WorkerAssumption ==
    /\ None \notin Run
    /\ MaxRuns \in Nat \ {0}
    /\ MaxRunAttempts \in Nat \ {0}
    /\ MaxFaults \in Nat
    /\ MaxMoves \in Nat

VARIABLES
    queue,      \* queue[r]: the run in Hue's queue
    finished,   \* the runs whose experiment is finished
    pc,         \* where the worker is
    claim,      \* the run it works on, while it does
    attempts,   \* attempts[r]: failures of the run in this process
    failure,    \* why the run is being given up
    settled,    \* runs this process settled
    stopped,    \* the caller's signal is aborted
    faults, moves

hue == <<queue, finished>>
vars == <<hue, pc, claim, attempts, failure, settled, stopped, faults, moves>>

(* "released" is a run cancelled, or taken back when its lease ended.      *)
QueueState == {"queued", "claimed", "completed", "attention", "released"}
Place == {"down", "poll", "run", "hand_over", "complete", "give_up", "wait", "returned"}

TypeOK ==
    /\ queue \in [Run -> QueueState]
    /\ finished \subseteq Run
    /\ pc \in Place
    /\ claim \in Run \cup {None}
    /\ attempts \in [Run -> 0..2 * MaxRunAttempts]
    /\ failure \in {"transient", "recurs"}
    /\ settled \in 0..MaxRuns
    /\ stopped \in BOOLEAN
    /\ faults \in 0..MaxFaults
    /\ moves \in 0..MaxMoves

Init ==
    /\ queue = [r \in Run |-> "queued"]
    /\ finished = {}
    /\ pc = "down"
    /\ claim = None
    /\ attempts = [r \in Run |-> 0]
    /\ failure = "transient"
    /\ settled = 0
    /\ stopped = FALSE
    /\ faults = 0
    /\ moves = 0

Fault == faults < MaxFaults /\ faults' = faults + 1
NoFault == UNCHANGED faults

Record(state) == queue' = [queue EXCEPT ![claim] = state]

-----------------------------------------------------------------------------
(* A new process: the identity is on disk, the counts are not.  A caller   *)
(* that has completed a run itself (Recover) asks for one run less.        *)
Start(done) ==
    /\ pc \in {"down", "returned"}
    /\ pc' = "poll"
    /\ claim' = None
    /\ attempts' = [r \in Run |-> 0]
    /\ settled' = done
    /\ stopped' = FALSE
    /\ UNCHANGED <<hue, failure, faults, moves>>

(* What Hue hands out: the run this identity already holds, else a queued  *)
(* one.                                                                    *)
Held == {r \in Run : queue[r] = "claimed"}
Offered == IF Held # {} THEN Held ELSE {r \in Run : queue[r] = "queued"}

(* Registration and claim.  A lost answer leaves the run claimed for the   *)
(* next poll; a poll that fails without effect is polled again.            *)
Poll(r) ==
    /\ pc = "poll"
    /\ settled < MaxRuns
    /\ ~stopped
    /\ r \in Offered
    /\ queue' = [queue EXCEPT ![r] = "claimed"]
    /\ \/ claim' = r /\ pc' = "run" /\ NoFault
       \/ Fault /\ UNCHANGED <<claim, pc>>
    /\ UNCHANGED <<finished, attempts, failure, settled, stopped, moves>>

Return ==
    /\ pc = "poll"
    /\ settled >= MaxRuns \/ stopped
    /\ pc' = "returned"
    /\ UNCHANGED <<hue, claim, attempts, failure, settled, stopped, faults, moves>>

-----------------------------------------------------------------------------
(* The run's attempt.                                                      *)

RunFinishes ==
    /\ pc = "run"
    /\ finished' = finished \cup {claim}
    /\ pc' = "hand_over"
    /\ UNCHANGED <<queue, claim, attempts, failure, settled, stopped, faults, moves>>

(* onUploaded; its failure ends the worker with the claim kept (Ends).     *)
HandOver ==
    /\ pc = "hand_over"
    /\ pc' = "complete"
    /\ UNCHANGED <<hue, claim, attempts, failure, settled, stopped, faults, moves>>

(* A failed attempt worth resuming: counted, and given up once the         *)
(* attempts are used up.                                                   *)
Resumable ==
    /\ attempts' = [attempts EXCEPT ![claim] = @ + 1]
    /\ failure' = "transient"
    /\ IF attempts[claim] + 1 >= MaxRunAttempts
       THEN pc' = "give_up" /\ claim' = claim
       ELSE pc' = "wait" /\ claim' = None
    /\ UNCHANGED settled

(* A slip: a failed run is handed over as finished.                        *)
RunFailsQuietly ==
    /\ pc = "run"
    /\ Fault
    /\ pc' = "hand_over"
    /\ UNCHANGED <<hue, claim, attempts, failure, settled, stopped, moves>>

RunFails ==
    /\ pc = "run"
    /\ Fault
    /\ Resumable
    /\ UNCHANGED <<hue, stopped, moves>>

(* A failure that would recur: an outcome unsafe to resume, a refusal Hue  *)
(* decided on.                                                             *)
RunRecurs ==
    /\ pc = "run"
    /\ failure' = "recurs"
    /\ pc' = "give_up"
    /\ UNCHANGED <<hue, claim, attempts, settled, stopped, faults, moves>>

(* The run has an outcome this worker knows of: it is counted, and its     *)
(* failures are forgotten.                                                 *)
Settle ==
    /\ attempts' = [attempts EXCEPT ![claim] = 0]
    /\ settled' = settled + 1
    /\ pc' = "poll"
    /\ claim' = None
    /\ failure' = "transient"
    /\ UNCHANGED faults

(* The completion of a finished experiment: recorded, or refused with 409  *)
(* because the run is no longer this worker's, or failed, with or without  *)
(* having been recorded.                                                   *)
CompleteRecorded ==
    /\ pc = "complete"
    /\ queue[claim] \in {"claimed", "completed"}
    /\ Record("completed")
    /\ Settle
    /\ UNCHANGED <<finished, stopped, moves>>

CompleteRefused ==
    /\ pc = "complete"
    /\ queue[claim] \notin {"claimed", "completed"}
    /\ Settle
    /\ UNCHANGED <<hue, stopped, moves>>

CompleteFails ==
    /\ pc = "complete"
    /\ \/ UNCHANGED queue
       \/ queue[claim] = "claimed" /\ Record("completed")
    /\ Fault
    /\ Resumable
    /\ UNCHANGED <<finished, stopped, moves>>

(* A slip: the worker goes on to other runs without an answer.             *)
GiveUpUnanswered ==
    /\ pc = "give_up"
    /\ Settle
    /\ UNCHANGED <<hue, stopped, moves>>

(* A slip: giving up waits for Hue to record it, also when it refuses.     *)
GiveUpUntilRecorded ==
    /\ pc = "give_up"
    /\ queue[claim] \in {"claimed", "attention"}
    /\ Record("attention")
    /\ Settle
    /\ UNCHANGED <<finished, stopped, moves>>

(* Giving up: recorded, or refused with 409.                               *)
GiveUpSettles ==
    /\ pc = "give_up"
    /\ \/ queue[claim] \in {"claimed", "attention"} /\ Record("attention")
       \/ queue[claim] \notin {"claimed", "attention"} /\ UNCHANGED queue
    /\ Settle
    /\ UNCHANGED <<finished, stopped, moves>>

(* Or not recorded for a transient failure, which keeps the claim and is   *)
(* tried again at the next one.  The worker ends when a recurring failure  *)
(* went unrecorded MaxRunAttempts times, a transient one twice as often.   *)
GiveUpFails ==
    LET counted == attempts[claim] + (IF failure = "recurs" THEN 1 ELSE 0)
        most == IF failure = "recurs" THEN MaxRunAttempts ELSE 2 * MaxRunAttempts
    IN  /\ pc = "give_up"
        /\ \/ UNCHANGED queue
           \/ queue[claim] = "claimed" /\ Record("attention")
        /\ Fault
        /\ attempts' = [attempts EXCEPT ![claim] = counted]
        /\ pc' = IF counted >= most THEN "down" ELSE "wait"
        /\ claim' = None
        /\ failure' = "transient"
        /\ UNCHANGED <<finished, settled, stopped, moves>>

(* A stop ends the wait, and the worker with it.                           *)
WaitEnds ==
    /\ pc = "wait"
    /\ pc' = IF stopped THEN "down" ELSE "poll"
    /\ UNCHANGED <<hue, claim, attempts, failure, settled, stopped, faults, moves>>

(* The process ends without settling anything: it dies, a refusal Hue      *)
(* decided on is thrown, or the caller's callback throws.                  *)
Ends ==
    /\ pc \notin {"down", "returned"}
    /\ Fault
    /\ pc' = "down"
    /\ claim' = None
    /\ failure' = "transient"
    /\ UNCHANGED <<hue, attempts, settled, stopped, moves>>

(* The caller aborts its signal.                                           *)
Stop ==
    /\ pc \notin {"down", "returned"}
    /\ ~stopped
    /\ Fault
    /\ stopped' = TRUE
    /\ UNCHANGED <<hue, pc, claim, attempts, failure, settled, moves>>

-----------------------------------------------------------------------------
(* Before the worker starts, its caller completes under the same identity  *)
(* a finished run an earlier process handed over.                          *)
Recover(r) ==
    /\ pc \in {"down", "returned"}
    /\ r \in finished
    /\ queue[r] \in {"claimed", "completed"}
    /\ queue' = [queue EXCEPT ![r] = "completed"]
    /\ NoFault \/ Fault
    /\ UNCHANGED <<finished, pc, claim, attempts, failure, settled, stopped, moves>>

(* A project member, or the end of a lease, takes a run back; a member     *)
(* queues it again.                                                        *)
Move(r) ==
    /\ moves < MaxMoves
    /\ moves' = moves + 1
    /\ \/ queue[r] = "claimed" /\ queue' = [queue EXCEPT ![r] = "released"]
       \/ queue[r] \in {"attention", "released"} /\ queue' = [queue EXCEPT ![r] = "queued"]
    /\ UNCHANGED <<finished, pc, claim, attempts, failure, settled, stopped, faults>>

Complete == CompleteRecorded \/ CompleteRefused \/ CompleteFails
GiveUp == GiveUpSettles \/ GiveUpFails

Work ==
    \/ Start(0)
    \/ \E r \in Run : Poll(r)
    \/ RunFinishes
    \/ RunFails
    \/ RunRecurs
    \/ HandOver
    \/ Complete
    \/ GiveUp
    \/ WaitEnds

Next ==
    \/ Work
    \/ Start(1)
    \/ Return
    \/ Ends
    \/ Stop
    \/ \E r \in Run : Recover(r) \/ Move(r)

(* The worker keeps running, and is started again when it ended.           *)
Spec == Init /\ [][Next]_vars /\ WF_vars(Work) /\ WF_vars(Return)

-----------------------------------------------------------------------------
(* A run is completed in the queue only for a finished experiment, whatever*)
(* was released, queued again and claimed again in between, and a run is   *)
(* not attempted past its bounds (TypeOK).                                 *)
CompletedIsFinished ==
    /\ TypeOK
    /\ \A r \in Run : queue[r] = "completed" => r \in finished

(* The worker counts a run as settled only when Hue no longer holds it as  *)
(* claimed: it never leaves a run behind that only its identity may claim. *)
SettledIsReleased ==
    [][settled' > settled /\ claim # None => queue'[claim] # "claimed"]_vars

(* The queue is worked off: every run ends completed, given up or taken    *)
(* back, however requests, runs and processes fail, while the worker is    *)
(* started again; no run it cannot decide keeps it from the others.        *)
NoRunIsLeft == \A r \in Run : queue[r] \in {"completed", "attention", "released"}
RunsSettle == <>[]NoRunIsLeft
=============================================================================
