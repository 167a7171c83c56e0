----------------------------- MODULE EvalWorker -----------------------------
(***************************************************************************)
(* `hue eval --worker` (cli/eval.ts): the process around the local worker. *)
(* It runs the agent as a command in a case's world (EnvironmentTarget,    *)
(* AgentCommand), keeps a durable handoff of the hosted judges a completed *)
(* run is owed, recovers it when it is started again, and stops in two     *)
(* interrupts.  A run has one case here, and every step is one of          *)
(* LocalWorker's or leaves its state alone.                                *)
(***************************************************************************)
EXTENDS LocalWorker

CONSTANTS
    Pinned,     \* the runs whose case pins a world; the others are direct
    Grouped,    \* the runs on a platform with process groups
    MaxLost     \* bound: lost or refused requests outside the worker's own

ASSUME EvalAssumption == {Pinned, Grouped} \subseteq SUBSET Run /\ MaxLost \in Nat

VARIABLES
    case,       \* case[r]: the case in the run's checkpoint
    pending,    \* the run of the judge handoff on disk
    judging,    \* the run whose judges are being requested
    judged,     \* the runs Hue has judge jobs of
    acked,      \* the runs whose completion Hue confirmed to the CLI
    world, gap, call, closing, ending, lost,    \* EnvironmentTarget
    members, command                            \* AgentCommand

Target == INSTANCE EnvironmentTarget
Agent == INSTANCE AgentCommand

judges == <<pending, judging, judged, acked>>
callVars == <<world, gap, call, closing, ending>>
targetVars == <<callVars, lost>>
commandVars == <<members, command>>
evalVars == <<vars, case, judges, targetVars, commandVars>>

Up == pc \notin {"down", "returned"}
Saved == {r \in Run : case[r] \notin {"none", "running"}}

EvalTypeOK ==
    /\ Target!TargetTypeOK
    /\ Agent!CommandTypeOK
    /\ case \in [Run -> {"none", "running"} \cup Target!Ending]
    /\ {pending, judging} \subseteq Run \cup {None}
    /\ judged \cup acked \subseteq Run

EvalInit ==
    /\ Init
    /\ Target!TargetInit
    /\ Agent!CommandInit
    /\ case = [r \in Run |-> "none"]
    /\ pending = None
    /\ judging = None
    /\ judged = {}
    /\ acked = {}

-----------------------------------------------------------------------------
(* The start.  A new process first finishes the handoff an earlier one     *)
(* left: the completion again, then the judges, and a run less to do.      *)

Starts ==
    /\ pending = None
    /\ judging = None
    /\ Start(0)
    /\ Agent!Exit
    /\ UNCHANGED <<case, judges, targetVars>>

Recovers ==
    /\ judging = None
    /\ pending # None
    /\ Recover(pending)
    /\ \/ NoFault /\ judging' = pending /\ acked' = acked \cup {pending}
       \/ Fault /\ UNCHANGED <<judging, acked>>
    /\ Agent!Exit
    /\ UNCHANGED <<case, pending, judged, targetVars>>

(* A slip: a refused recovery keeps its handoff.                           *)
RecoveryKept ==
    /\ judging = None
    /\ pending # None
    /\ queue[pending] \notin {"claimed", "completed"}
    /\ UNCHANGED evalVars

(* Released or cancelled work: the handoff is discarded.                   *)
RecoveryRefused ==
    /\ judging = None
    /\ pending # None
    /\ queue[pending] \notin {"claimed", "completed"}
    /\ pending' = None
    /\ Start(1)
    /\ Agent!Exit
    /\ UNCHANGED <<case, judging, judged, acked, targetVars>>

(* A slip: the handoff is cleared before the judges are requested.         *)
JudgesCleared ==
    /\ judging # None
    /\ pending' = None
    /\ judging' = None
    /\ \/ Up /\ UNCHANGED vars
       \/ Start(1)
    /\ \/ judged' = judged \cup {judging} /\ UNCHANGED lost
       \/ Target!Lose /\ UNCHANGED judged
    /\ UNCHANGED <<acked, case, callVars, commandVars>>

(* Every judge job under its own key, then the handoff is cleared; in a    *)
(* worker that is up this is the completion's callback.                    *)
Judges ==
    /\ judging # None
    /\ judged' = judged \cup {judging}
    /\ pending' = None
    /\ judging' = None
    /\ \/ Up /\ ~stopped /\ UNCHANGED vars
       \/ Start(1)
    /\ UNCHANGED <<acked, case, targetVars, commandVars>>

(* Not all of them, or not known: the process ends and keeps the handoff.  *)
JudgesFail ==
    /\ judging # None
    /\ judging' = None
    /\ \/ /\ Ends
          /\ judged' \in {judged, judged \cup {judging}}
          /\ Agent!Cancel(Run)
          /\ UNCHANGED lost
       \/ /\ ~Up /\ UNCHANGED vars
          /\ judged' \in {judged, judged \cup {judging}}
          /\ UNCHANGED commandVars
          /\ Target!Lose
       \/ /\ stopped /\ Return
          /\ Agent!Cancel(Run)
          /\ UNCHANGED <<judged, lost>>
    /\ UNCHANGED <<case, pending, acked, callVars>>

-----------------------------------------------------------------------------
(* The worker and its case.                                                *)

Polls(r) ==
    /\ judging = None
    /\ Poll(r)
    /\ UNCHANGED <<case, judges, targetVars, commandVars>>

(* The worker returns, and what is left of its commands is stopped.        *)
Returns ==
    /\ judging = None
    /\ Return
    /\ Agent!Cancel(Run)
    /\ UNCHANGED <<case, judges, targetVars>>

(* The case is marked as running before its target is called: with a       *)
(* world, or the command alone.                                            *)
BeginCase ==
    /\ pc = "run"
    /\ case[claim] = "none"
    /\ case' = [case EXCEPT ![claim] = "running"]
    /\ IF claim \in Pinned
       THEN Target!Begin /\ UNCHANGED commandVars
       ELSE Agent!Invoke(claim) /\ UNCHANGED targetVars
    /\ UNCHANGED <<vars, judges>>

(* The target has not answered yet.                                        *)
InFlight ==
    \/ call # "none"
    \/ /\ claim \notin Pinned
       /\ case[claim] = "running"
       /\ command[claim] \in {"starting", "running", "sweeping", "stopping"}

CallStep ==
    /\ Target!CallStep(claim)
    /\ IF call' = "target" THEN Agent!Invoke(claim) ELSE UNCHANGED commandVars
    /\ UNCHANGED <<vars, case, judges>>

(* The deadline of the world aborts the case's own signal.                 *)
DeadlinePasses ==
    /\ Target!Deadline
    /\ Agent!Cancel({claim})
    /\ UNCHANGED <<vars, case, judges>>

(* The call's outcome is saved; what is uncertain stays "running".         *)
EndCase ==
    /\ call = "ended"
    /\ case' = [case EXCEPT ![claim] = ending]
    /\ Target!Taken
    /\ UNCHANGED <<vars, judges, commandVars>>

CaseUncertain ==
    /\ call = "uncertain"
    /\ Target!Taken
    /\ UNCHANGED <<vars, case, judges, commandVars>>

(* Hue completes no execution whose world is open.                         *)
Finishes ==
    /\ RunFinishes
    /\ ~InFlight
    /\ claim \in Saved
    /\ world[claim] \notin Target!Open
    /\ UNCHANGED <<case, judges, targetVars, commandVars>>

Fails ==
    /\ RunFails
    /\ ~InFlight
    /\ UNCHANGED <<case, judges, targetVars, commandVars>>

(* A case left running is never run again, an open world refuses the       *)
(* completion, and so may Hue any request.                                 *)
Recurs ==
    /\ RunRecurs
    /\ ~InFlight
    /\ \/ case[claim] = "running" /\ UNCHANGED lost
       \/ claim \in Saved /\ world[claim] \in Target!Open /\ UNCHANGED lost
       \/ Target!Lose
    /\ UNCHANGED <<case, judges, callVars, commandVars>>

-----------------------------------------------------------------------------
(* The handoff: written before the completion, cleared with the judges, or *)
(* when the run it names ended without them.                               *)

(* A slip: the run is completed without it.                                *)
HandsOverNothing ==
    /\ HandOver
    /\ UNCHANGED <<case, judges, targetVars, commandVars>>

HandsOver ==
    /\ HandOver
    /\ pending' = claim
    /\ UNCHANGED <<case, judging, judged, acked, targetVars, commandVars>>

Discard == pending' = IF pending = claim THEN None ELSE pending

Completes ==
    /\ CompleteRecorded
    /\ acked' = acked \cup {claim}
    /\ judging' = claim
    /\ UNCHANGED <<case, pending, judged, targetVars, commandVars>>

CompleteIsRefused ==
    /\ CompleteRefused
    /\ Discard
    /\ UNCHANGED <<case, judging, judged, acked, targetVars, commandVars>>

CompleteIsLost ==
    /\ CompleteFails
    /\ UNCHANGED <<case, judges, targetVars, commandVars>>

GivesUp ==
    /\ GiveUpSettles
    /\ Discard
    /\ UNCHANGED <<case, judging, judged, acked, targetVars, commandVars>>

(* Waiting, after what failed; a worker that ends stops its commands.      *)
WaitsOrEnds ==
    /\ GiveUpFails \/ WaitEnds
    /\ IF pc' = "down" THEN Agent!Cancel(Run) ELSE UNCHANGED commandVars
    /\ UNCHANGED <<case, judges, targetVars>>

-----------------------------------------------------------------------------
(* Ends.                                                                   *)

(* A refusal Hue decided on, or a handoff that cannot be written.          *)
Throws ==
    /\ judging = None
    /\ pc \in {"poll", "hand_over", "give_up"}
    /\ Ends
    /\ Agent!Cancel(Run)
    /\ UNCHANGED <<case, judges, targetVars>>

(* The CLI dies, working or while its commands stop.                       *)
Dies ==
    /\ \/ Ends /\ UNCHANGED lost
       \/ ~Up /\ Agent!Unsettled # {} /\ Target!Lose /\ UNCHANGED vars
    /\ Agent!Abandon
    /\ Target!Drop
    /\ judging' = None
    /\ UNCHANGED <<case, pending, judged, acked, world>>

(* The first interrupt.                                                    *)
Interrupt ==
    /\ Stop
    /\ Agent!Cancel(Run)
    /\ UNCHANGED <<case, judges, targetVars>>

(* The second one.                                                         *)
ForcedExit ==
    /\ stopped
    /\ \/ Ends
       \/ ~Up /\ Agent!Unsettled # {} /\ UNCHANGED vars
    /\ Agent!Abandon
    /\ Target!Drop
    /\ judging' = None
    /\ UNCHANGED <<case, pending, judged, acked, world, lost>>

-----------------------------------------------------------------------------
(* Commands, whose timers run whatever the worker does.                    *)

Spawns(r) ==
    /\ Agent!Spawn(r, stopped \/ (r \in Pinned /\ ~(call = "target" /\ claim = r)))
    /\ UNCHANGED <<vars, case, judges, targetVars>>

(* A command that settles is the target's answer, if the call still waits  *)
(* in the world, and the outcome of a direct case.                         *)
Settles(r) ==
    /\ Agent!CannotStart(r) \/ Agent!Closes(r) \/ Agent!StopEnds(r)
    /\ IF command'[r] # "settled" THEN UNCHANGED <<case, targetVars>>
       ELSE \E outcome \in Agent!Answer(r, stopped) :
           /\ IF call = "target" /\ claim = r THEN Target!Return(outcome) ELSE UNCHANGED targetVars
           /\ case' = IF r \in Pinned \/ ~Up THEN case ELSE [case EXCEPT ![r] = outcome]
    /\ UNCHANGED <<vars, judges>>

(* The timeout of the command, and the end of a stop's grace.              *)
Timers(r) ==
    /\ Agent!Overruns(r) \/ Agent!Kill(r)
    /\ UNCHANGED <<vars, case, judges, targetVars>>

(* What the processes do, and Hue and its other clients.                   *)
ProcessStep(r) ==
    /\ Agent!Exits(r)
    /\ UNCHANGED <<vars, case, judges, targetVars>>

HueStep(r) ==
    /\ \/ Move(r) /\ UNCHANGED targetVars
       \/ Target!WorldStep(r) /\ UNCHANGED vars
       \/ r = claim /\ members[r] # {} /\ Target!Misses(r) /\ UNCHANGED vars
    /\ UNCHANGED <<case, judges, commandVars>>

Worker ==
    \/ Starts
    \/ Recovers
    \/ RecoveryRefused
    \/ Judges
    \/ JudgesFail
    \/ \E r \in Run : Polls(r)
    \/ Returns
    \/ BeginCase
    \/ CallStep
    \/ DeadlinePasses
    \/ EndCase
    \/ CaseUncertain
    \/ Finishes
    \/ Fails
    \/ Recurs
    \/ HandsOver
    \/ Completes
    \/ CompleteIsRefused
    \/ CompleteIsLost
    \/ GivesUp
    \/ WaitsOrEnds

Commands == \E r \in Run : Spawns(r) \/ Settles(r) \/ Timers(r)

EvalNext ==
    \/ Worker
    \/ Commands
    \/ Throws
    \/ Dies
    \/ Interrupt
    \/ ForcedExit
    \/ \E r \in Run : ProcessStep(r) \/ HueStep(r)

(* The command is run again when it ended; timers fire, and Hue answers    *)
(* but for the bounded failures.                                           *)
EvalSpec ==
    EvalInit /\ [][EvalNext]_evalVars /\ WF_evalVars(Worker) /\ WF_evalVars(Commands)

-----------------------------------------------------------------------------
(* An answer is saved only once nothing its command started is left but    *)
(* what a SIGKILL did not end in time, where the platform has process      *)
(* groups to look for it; and a case whose world is known is saved only    *)
(* once the world takes no more writes, so that no process left behind can *)
(* change what was recorded there.                                         *)
SealedFirst ==
    /\ EvalTypeOK
    /\ \A r \in Run :
        /\ case[r] = "output" /\ r \in Grouped => members[r] \subseteq {"survivor"}
        /\ r \in Saved /\ case[r] # "uncreated" => world[r] \notin Target!Open
        /\ r \in finished => r \in Saved /\ world[r] \notin Target!Open

(* A completion the CLI was told of has its judges, or its handoff is on   *)
(* disk; only completed runs are judged.                                   *)
HandoffKept ==
    /\ \A r \in acked \ judged : pending = r
    /\ \A r \in judged : queue[r] = "completed"

(* The queue is worked off whatever fails, and the judges of every         *)
(* completion the CLI was told of are requested.                           *)
WorkEnds == <>[](NoRunIsLeft /\ acked \subseteq judged)
=============================================================================
