-------------------------- MODULE EvalWorkerProofs --------------------------
(***************************************************************************)
(* The eval worker is a local worker, and records nothing a process left   *)
(* behind can still change, for any number of runs, worlds and faults.     *)
(***************************************************************************)
EXTENDS EvalWorker, TLAPS

-----------------------------------------------------------------------------
(* The worker alone: what it tells the queue is so, for any number of runs,*)
(* attempts and faults.                                                    *)

Working == {"run", "hand_over", "complete", "give_up"}

(* The worker has a claim just while it works on a run, and hands over and *)
(* completes only a run whose experiment is finished.                      *)
OnARun == IF pc \in Working THEN claim \in Run ELSE claim = None
HandsOverFinished == pc \in {"hand_over", "complete"} => claim \in finished

(* A run is worked on only while runs are left, and below the bound of its *)
(* attempts, which a failure may reach only on its way to giving it up.    *)
RunsLeft == pc \in Working => settled < MaxRuns
TriesLeft ==
    \A r \in Run : attempts[r] = 2 * MaxRunAttempts =>
        pc \in {"down", "returned"} \/ (pc = "give_up" /\ r = claim /\ failure = "transient")

IInv == OnARun /\ HandsOverFinished /\ RunsLeft /\ TriesLeft /\ CompletedIsFinished

LEMMA InitInv == Init => IInv
<1> SUFFICES ASSUME Init PROVE IInv
  OBVIOUS
<1> USE WorkerAssumption DEF Init
<1>1. TypeOK
  <2>1. 0 \in 0..2 * MaxRunAttempts /\ 0 \in 0..MaxRuns /\ 0 \in 0..MaxFaults /\ 0 \in 0..MaxMoves
    BY SMT
  <2> QED
    BY <2>1 DEF TypeOK, QueueState, Place
<1>2. OnARun /\ HandsOverFinished /\ RunsLeft
  BY DEF OnARun, HandsOverFinished, RunsLeft, Working
<1>3. TriesLeft
  BY DEF TriesLeft
<1>4. CompletedIsFinished
  BY <1>1 DEF CompletedIsFinished
<1> QED
  BY <1>1, <1>2, <1>3, <1>4 DEF IInv

(* An attempt that failed is counted, and given up at the bound.           *)
LEMMA ResumableCounts ==
  ASSUME TypeOK, RunsLeft, TriesLeft, claim \in Run, pc \in {"run", "complete"}, Resumable
  PROVE  /\ attempts' \in [Run -> 0..2 * MaxRunAttempts]
         /\ \/ pc' = "give_up" /\ claim' = claim
            \/ pc' = "wait" /\ claim' = None
         /\ failure' = "transient" /\ settled' = settled
         /\ TriesLeft'
<1> USE WorkerAssumption DEF TypeOK, Resumable
<1>1. attempts[claim] \in 0..2 * MaxRunAttempts - 1
  BY SMT DEF TriesLeft
<1>2. attempts' = [attempts EXCEPT ![claim] = attempts[claim] + 1]
  OBVIOUS
<1>3. attempts[claim] + 1 \in 0..2 * MaxRunAttempts
  BY <1>1, SMT
<1>4. /\ \/ pc' = "give_up" /\ claim' = claim
         \/ pc' = "wait" /\ claim' = None
      /\ failure' = "transient" /\ settled' = settled
  OBVIOUS
<1>5. pc' = "wait" => attempts[claim] + 1 # 2 * MaxRunAttempts
  BY <1>1, SMT
<1>6. TriesLeft'
  <2> SUFFICES ASSUME NEW r \in Run, attempts'[r] = 2 * MaxRunAttempts
               PROVE  pc' = "give_up" /\ r = claim'
    BY <1>4 DEF TriesLeft
  <2>1. CASE r = claim
    BY <1>2, <1>4, <1>5, <2>1
  <2>2. CASE r # claim
    <3>1. attempts[r] = 2 * MaxRunAttempts
      BY <1>2, <2>2
    <3> QED
      BY <3>1 DEF TriesLeft
  <2> QED
    BY <2>1, <2>2
<1> QED
  BY <1>2, <1>3, <1>4, <1>6

(* A run with an outcome is counted, and its failures are forgotten.       *)
LEMMA SettleCounts ==
  ASSUME TypeOK, RunsLeft, TriesLeft, claim \in Run, pc \in {"complete", "give_up"}, Settle
  PROVE  /\ attempts' \in [Run -> 0..2 * MaxRunAttempts]
         /\ settled' \in 0..MaxRuns
         /\ pc' = "poll" /\ claim' = None /\ failure' = "transient"
         /\ TriesLeft'
<1> USE WorkerAssumption DEF TypeOK, Settle
<1>1. settled' \in 0..MaxRuns
  BY SMT DEF RunsLeft, Working
<1>2. attempts' \in [Run -> 0..2 * MaxRunAttempts]
  BY SMT
<1>3. TriesLeft'
  <2> SUFFICES ASSUME NEW r \in Run, attempts'[r] = 2 * MaxRunAttempts PROVE FALSE
    BY DEF TriesLeft
  <2>1. r # claim
    BY SMT
  <2>2. attempts[r] = 2 * MaxRunAttempts
    BY <2>1
  <2> QED
    BY <2>1, <2>2 DEF TriesLeft
<1> QED
  BY <1>1, <1>2, <1>3

(* A run that cannot be given up is tried again below its bound, and ends  *)
(* the worker at it.                                                       *)
LEMMA GiveUpCounts ==
  ASSUME TypeOK, TriesLeft, claim \in Run, GiveUpFails
  PROVE  /\ attempts' \in [Run -> 0..2 * MaxRunAttempts]
         /\ pc' \in {"down", "wait"} /\ claim' = None /\ failure' = "transient"
         /\ TriesLeft'
         /\ faults' \in 0..MaxFaults
<1> USE WorkerAssumption
<1> DEFINE counted == attempts[claim] + (IF failure = "recurs" THEN 1 ELSE 0)
           most == IF failure = "recurs" THEN MaxRunAttempts ELSE 2 * MaxRunAttempts
<1>1. /\ pc = "give_up" /\ claim' = None /\ failure' = "transient"
      /\ attempts' = [attempts EXCEPT ![claim] = counted]
      /\ pc' = IF counted >= most THEN "down" ELSE "wait"
      /\ Fault
  BY DEF GiveUpFails
<1>2. attempts[claim] \in 0..2 * MaxRunAttempts
  BY DEF TypeOK
<1>3. failure = "recurs" => attempts[claim] # 2 * MaxRunAttempts
  BY <1>1 DEF TriesLeft
<1>4. counted \in 0..2 * MaxRunAttempts /\ (pc' = "wait" => counted # 2 * MaxRunAttempts)
  <2> HIDE DEF counted, most
  <2>1. counted \in 0..2 * MaxRunAttempts
    BY <1>2, <1>3, SMT DEF counted
  <2>2. most \in Nat /\ most <= 2 * MaxRunAttempts
    BY SMT DEF most
  <2> QED
    BY <1>1, <2>1, <2>2, SMT
<1> HIDE DEF counted, most
<1>5. attempts' \in [Run -> 0..2 * MaxRunAttempts]
  BY <1>1, <1>4 DEF TypeOK
<1>6. TriesLeft'
  <2> SUFFICES ASSUME NEW r \in Run, attempts'[r] = 2 * MaxRunAttempts
               PROVE  pc' = "down"
    BY DEF TriesLeft
  <2>1. CASE r = claim
    BY <1>1, <1>4, <2>1 DEF TypeOK
  <2>2. CASE r # claim
    <3>1. attempts[r] = 2 * MaxRunAttempts
      BY <1>1, <2>2 DEF TypeOK
    <3> QED
      BY <1>1, <2>2, <3>1 DEF TriesLeft
  <2> QED
    BY <2>1, <2>2
<1>7. faults' \in 0..MaxFaults
  BY <1>1, SMT DEF Fault, TypeOK
<1> QED
  BY <1>1, <1>5, <1>6, <1>7

LEMMA NextInv == IInv /\ [Next]_vars => IInv'
<1> SUFFICES ASSUME IInv, [Next]_vars
             PROVE  IInv'
  OBVIOUS
<1> USE WorkerAssumption
    DEF IInv, TypeOK, OnARun, HandsOverFinished, RunsLeft, CompletedIsFinished, Working, hue
<1>1. ASSUME NEW done \in {0, 1}, Start(done)
      PROVE  IInv'
  <2>1. attempts' \in [Run -> 0..2 * MaxRunAttempts] /\ TriesLeft'
    BY <1>1, SMT DEF Start, TriesLeft
  <2>2. settled' \in 0..MaxRuns
    BY <1>1, SMT DEF Start
  <2> QED
    BY <1>1, <2>1, <2>2 DEF Start, Place
<1>2. ASSUME NEW r \in Run, Poll(r)
      PROVE  IInv'
  <2>1. queue[r] \in {"claimed", "queued"}
    BY <1>2 DEF Poll, Offered, Held
  <2>2. faults' \in 0..MaxFaults
    BY <1>2, SMT DEF Poll, NoFault, Fault
  <2>3. TriesLeft'
    BY <1>2 DEF Poll, TriesLeft
  <2> QED
    BY <1>2, <2>1, <2>2, <2>3 DEF Poll, QueueState, Place
<1>3. CASE Return
  BY <1>3 DEF Return, Place, TriesLeft
<1>4. CASE RunFinishes
  BY <1>4 DEF RunFinishes, Place, TriesLeft
<1>5. CASE RunFails
  <2>1. faults' \in 0..MaxFaults
    BY <1>5, SMT DEF RunFails, Fault
  <2>2. pc = "run" /\ claim \in Run /\ Resumable
    BY <1>5 DEF RunFails
  <2> QED
    BY <1>5, <2>1, <2>2, ResumableCounts DEF RunFails, Place
<1>6. CASE RunRecurs
  <2>1. TriesLeft'
    BY <1>6 DEF RunRecurs, TriesLeft
  <2> QED
    BY <1>6, <2>1 DEF RunRecurs, Place
<1>7. CASE HandOver
  BY <1>7 DEF HandOver, Place, TriesLeft
<1>8. CASE CompleteRecorded \/ CompleteRefused
  <2>1. queue' = queue \/ queue' = [queue EXCEPT ![claim] = "completed"]
    BY <1>8 DEF CompleteRecorded, CompleteRefused, Record, hue
  <2>2. UNCHANGED <<finished, stopped, faults, moves>> /\ pc = "complete" /\ claim \in Run /\ Settle
    BY <1>8 DEF CompleteRecorded, CompleteRefused, Settle
  <2> QED
    BY <2>1, <2>2, SettleCounts DEF QueueState, Place
<1>9. CASE CompleteFails
  <2>1. queue' = queue \/ queue' = [queue EXCEPT ![claim] = "completed"]
    BY <1>9 DEF CompleteFails, Record
  <2>2. UNCHANGED <<finished, stopped, moves>> /\ pc = "complete" /\ claim \in Run /\ Resumable
    BY <1>9 DEF CompleteFails
  <2>3. faults' \in 0..MaxFaults
    BY <1>9, SMT DEF CompleteFails, Fault
  <2> QED
    BY <2>1, <2>2, <2>3, ResumableCounts DEF QueueState, Place
<1>10. CASE GiveUpSettles
  <2>1. queue' = queue \/ queue' = [queue EXCEPT ![claim] = "attention"]
    BY <1>10 DEF GiveUpSettles, Record
  <2>2. UNCHANGED <<finished, stopped, faults, moves>> /\ pc = "give_up" /\ claim \in Run /\ Settle
    BY <1>10 DEF GiveUpSettles, Settle
  <2> QED
    BY <2>1, <2>2, SettleCounts DEF QueueState, Place
<1>11. CASE GiveUpFails
  <2>1. queue' = queue \/ queue' = [queue EXCEPT ![claim] = "attention"]
    BY <1>11 DEF GiveUpFails, Record
  <2>2. UNCHANGED <<finished, settled, stopped, moves>> /\ claim \in Run
    BY <1>11 DEF GiveUpFails
  <2> QED
    BY <1>11, <2>1, <2>2, GiveUpCounts DEF QueueState, Place
<1>12. CASE WaitEnds
  BY <1>12 DEF WaitEnds, Place, TriesLeft
<1>13. CASE Ends
  <2>1. faults' \in 0..MaxFaults
    BY <1>13, SMT DEF Ends, Fault
  <2> QED
    BY <1>13, <2>1 DEF Ends, Place, TriesLeft
<1>14. CASE Stop
  <2>1. faults' \in 0..MaxFaults
    BY <1>14, SMT DEF Stop, Fault
  <2> QED
    BY <1>14, <2>1 DEF Stop, TriesLeft
<1>15. ASSUME NEW r \in Run, Recover(r)
       PROVE  IInv'
  <2>1. faults' \in 0..MaxFaults
    BY <1>15, SMT DEF Recover, NoFault, Fault
  <2> QED
    BY <1>15, <2>1 DEF Recover, QueueState, TriesLeft
<1>16. ASSUME NEW r \in Run, Move(r)
       PROVE  IInv'
  <2>1. moves' \in 0..MaxMoves
    BY <1>16, SMT DEF Move
  <2> QED
    BY <1>16, <2>1 DEF Move, QueueState, TriesLeft
<1>17. CASE UNCHANGED vars
  BY <1>17 DEF vars, TriesLeft
<1> QED
  BY <1>1, <1>2, <1>3, <1>4, <1>5, <1>6, <1>7, <1>8, <1>9, <1>10, <1>11, <1>12, <1>13, <1>14,
     <1>15, <1>16, <1>17
  DEF Next, Work, Complete, GiveUp

(* The queue says completed of finished experiments only (the completion   *)
(* after runExperiment in local-worker.ts).                                *)
THEOREM Completions == Spec => []CompletedIsFinished
<1>1. IInv => CompletedIsFinished
  BY DEF IInv
<1> QED
  BY <1>1, InitInv, NextInv, PTL DEF Spec

(* A step that counts a run as settled leaves it unclaimed.                *)
LEMMA SettledStep ==
  ASSUME IInv, [Next]_vars
  PROVE  [settled' > settled /\ claim # None => queue'[claim] # "claimed"]_vars
<1> SUFFICES ASSUME Next, settled' > settled, claim # None
             PROVE  queue'[claim] # "claimed"
  OBVIOUS
<1>1. settled \in Nat
  BY SMT DEF IInv, CompletedIsFinished, TypeOK
<1>2. settled' # settled
  BY <1>1, SMT
<1>3. pc \in Working /\ claim \in Run /\ queue \in [Run -> QueueState]
  BY DEF IInv, CompletedIsFinished, TypeOK, OnARun
<1>4. CASE CompleteRecorded \/ CompleteRefused \/ GiveUpSettles
  <2>1. \/ \E state \in {"completed", "attention"} : queue' = [queue EXCEPT ![claim] = state]
        \/ queue[claim] # "claimed" /\ queue' = queue
    BY <1>4 DEF CompleteRecorded, CompleteRefused, GiveUpSettles, Record, hue
  <2> QED
    BY <1>3, <2>1
<1>5. CASE \/ \E r \in Run : Poll(r) \/ Move(r) \/ Recover(r)
           \/ Start(0) \/ Start(1)
           \/ RunFinishes \/ RunFails \/ RunRecurs \/ HandOver \/ WaitEnds \/ Return
           \/ CompleteFails \/ GiveUpFails \/ Ends \/ Stop
  BY <1>2, <1>3, <1>5
  DEF Poll, Move, Recover, Start, RunFinishes, RunFails, RunRecurs, HandOver, WaitEnds, Return,
      CompleteFails, GiveUpFails, Ends, Stop, Resumable, Working
<1> QED
  BY <1>4, <1>5 DEF Next, Work, Complete, GiveUp

(* A run the worker counts as settled is not left claimed in the queue     *)
(* (giveUp and the two completions of local-worker.ts).                    *)
THEOREM Settlements == Spec => SettledIsReleased
  BY SettledStep, InitInv, NextInv, PTL DEF Spec, SettledIsReleased

-----------------------------------------------------------------------------
(* The worker with its cases, worlds, commands and judges.                 *)

(* A call belongs to the run's case, which is running and pins a world.    *)
CallIsOfACase ==
    /\ call # "none" => pc = "run" /\ claim \in Pinned /\ case[claim] = "running"
    /\ \A r \in Run \ Pinned : world[r] = "none"

(* A command starts after its case, once, has no processes before, and, as *)
(* far as the CLI sees, none but survivors after.                          *)
CommandOfACase ==
    /\ \A r \in Run : command[r] \in {"none", "starting"} => members[r] = {}
    /\ \A r \in Run : command[r] = "settled" => members[r] \subseteq {"survivor"}
    /\ \A r \in Run : case[r] = "none" => command[r] = "none"
    /\ call \in {"create", "prepare"} => command[claim] = "none"

(* An answer is one of a settled command, and an outcome of the call other *)
(* than an unknown world is one of a sealed world.                         *)
OutcomeIsFinal ==
    /\ call = "inspect" => ending # "output"
    /\ call \in {"seal", "settle", "ended"} /\ ending = "output" => command[claim] = "settled"
    /\ call = "ended" /\ ending # "uncreated" => world[claim] \notin Target!Open
    /\ \A r \in Run : case[r] = "output" => command[r] = "settled"

SealInv ==
    /\ EvalTypeOK
    /\ CallIsOfACase
    /\ CommandOfACase
    /\ OutcomeIsFinal
    /\ \A r \in Saved : case[r] # "uncreated" => world[r] \notin Target!Open
    /\ \A r \in finished : r \in Saved /\ world[r] \notin Target!Open

(* The judges being requested are those of the handoff, of a run completed *)
(* at Hue, and a worker that is up owes no others.                         *)
JudgeInv ==
    /\ judging # None => judging \in acked /\ pending = judging
    /\ Up /\ judging # None => pc = "poll"
    /\ pc = "complete" => pending = claim
    /\ \A r \in acked \ judged : pending = r /\ (Up => judging = r)
    /\ \A r \in acked \cup judged : queue[r] = "completed"

-----------------------------------------------------------------------------
(* The refinement: every step is a step of the local worker, or leaves its *)
(* state alone.                                                            *)
LEMMA StepIsWorkerStep ==
  ASSUME EvalTypeOK, [EvalNext]_evalVars
  PROVE  [Next]_vars
<1> SUFFICES Next \/ UNCHANGED vars
  OBVIOUS
<1>1. CASE Starts \/ RecoveryRefused \/ Judges \/ JudgesFail
  BY <1>1 DEF Starts, RecoveryRefused, Judges, JudgesFail, Next, Work
<1>2. CASE Recovers
  <2>1. pending \in Run /\ Recover(pending)
    BY <1>2 DEF Recovers, EvalTypeOK
  <2> QED
    BY <2>1 DEF Next
<1>3. CASE (\E r \in Run : Polls(r)) \/ Returns \/ Finishes \/ Fails \/ Recurs
  BY <1>3 DEF Polls, Returns, Finishes, Fails, Recurs, Next, Work
<1>4. CASE \/ HandsOver \/ Completes \/ CompleteIsRefused \/ CompleteIsLost
           \/ GivesUp \/ WaitsOrEnds
  BY <1>4
  DEF HandsOver, Completes, CompleteIsRefused, CompleteIsLost, GivesUp, WaitsOrEnds, Next, Work,
      Complete, GiveUp
<1>5. CASE Throws \/ Dies \/ Interrupt \/ ForcedExit
  BY <1>5 DEF Throws, Dies, Interrupt, ForcedExit, Next
<1>6. CASE BeginCase \/ CallStep \/ DeadlinePasses \/ EndCase \/ CaseUncertain
  BY <1>6 DEF BeginCase, CallStep, DeadlinePasses, EndCase, CaseUncertain
<1>7. ASSUME NEW r \in Run, Spawns(r) \/ Settles(r) \/ Timers(r) \/ ProcessStep(r) \/ HueStep(r)
      PROVE  Next \/ UNCHANGED vars
  BY <1>7 DEF Spawns, Settles, Timers, ProcessStep, HueStep, Next
<1>8. CASE UNCHANGED evalVars
  BY <1>8 DEF evalVars
<1> QED
  BY <1>1, <1>2, <1>3, <1>4, <1>5, <1>6, <1>7, <1>8 DEF EvalNext, Worker, Commands

-----------------------------------------------------------------------------
(* Types.                                                                  *)

LEMMA CallTypes ==
  ASSUME TypeOK, EvalTypeOK, NEW r \in Run,
         \/ Target!CallStep(r)
         \/ Target!Begin \/ Target!Deadline \/ Target!Taken
         \/ Target!WorldStep(r) \/ Target!Misses(r)
         \/ \E outcome \in {"output", "error", "cancelled"} : Target!Return(outcome)
  PROVE  Target!TargetTypeOK'
<1> USE EvalAssumption DEF EvalTypeOK, Target!TargetTypeOK, Target!Ending
<1>1. UNCHANGED lost \/ Target!Lose => lost' \in 0..MaxLost
  BY SMT DEF Target!Lose
<1> USE DEF Target!WorldState, Target!Answered, Target!Fail, Target!SealAs, Target!Uncertain, Target!End
<1>2. CASE Target!Create(r)
  BY <1>1, <1>2 DEF Target!Create
<1>3. CASE Target!Prepare(r)
  BY <1>1, <1>3 DEF Target!Prepare
<1>4. CASE Target!Inspect
  BY <1>1, <1>4 DEF Target!Inspect, Target!worlds
<1>5. CASE Target!Seal(r) \/ Target!Settle(r)
  <2>1. world' \in [Run -> Target!WorldState] /\ gap' = gap
    BY <1>5 DEF Target!Seal, Target!Settle, Target!Finished, Target!worlds
  <2>2. UNCHANGED lost \/ Target!Lose
    BY <1>5 DEF Target!Seal, Target!Settle
  <2>3. Target!Recovered(r) \/ Target!Uncertain \/ Target!End
    BY <1>5 DEF Target!Seal, Target!Settle
  <2> QED
    BY <1>1, <2>1, <2>2, <2>3 DEF Target!Recovered
<1>6. CASE Target!Begin \/ Target!Deadline \/ Target!Taken
  BY <1>1, <1>6 DEF Target!Begin, Target!Deadline, Target!Taken, Target!Drop, Target!worlds
<1>7. CASE Target!WorldStep(r) \/ Target!Misses(r)
  BY <1>1, <1>7 DEF Target!WorldStep, Target!Misses, Target!calling
<1>8. CASE \E outcome \in {"output", "error", "cancelled"} : Target!Return(outcome)
  BY <1>1, <1>8 DEF Target!Return, Target!worlds
<1> QED
  BY <1>2, <1>3, <1>4, <1>5, <1>6, <1>7, <1>8 DEF Target!CallStep

(* What commands do but for being called: one that has none or has settled *)
(* stays so, and one that settles leaves no processes but survivors.       *)
CommandsGoOn ==
    \A r \in Run :
        \/ command'[r] = command[r] /\ members'[r] \subseteq members[r]
        \/ /\ command[r] \notin {"none", "settled"}
           /\ \/ command'[r] \in {"running", "sweeping", "stopping", "lost"}
              \/ command'[r] = "settled" /\ members'[r] \subseteq {"survivor"}

LEMMA CommandsStep ==
  ASSUME Agent!CommandTypeOK, CommandOfACase,
         \/ UNCHANGED commandVars
         \/ \E R \in SUBSET Run : Agent!Cancel(R)
         \/ Agent!Exit \/ Agent!Abandon
         \/ \E r \in Run :
              \/ Agent!Spawn(r, TRUE) \/ Agent!Spawn(r, FALSE) \/ Agent!CannotStart(r)
              \/ Agent!Exits(r) \/ Agent!Closes(r)
              \/ Agent!Overruns(r) \/ Agent!Kill(r) \/ Agent!StopEnds(r)
  PROVE  Agent!CommandTypeOK' /\ CommandsGoOn
<1> USE DEF Agent!CommandTypeOK, Agent!CommandState, CommandsGoOn
<1>1. CASE UNCHANGED commandVars
  BY <1>1 DEF commandVars
<1>2. ASSUME NEW R \in SUBSET Run, Agent!Cancel(R)
      PROVE  Agent!CommandTypeOK' /\ CommandsGoOn
  BY <1>2 DEF Agent!Cancel
<1>3. CASE Agent!Exit \/ Agent!Abandon
  BY <1>3 DEF Agent!Exit, Agent!Abandon
<1>4. ASSUME NEW r \in Run,
             \/ Agent!Spawn(r, TRUE) \/ Agent!Spawn(r, FALSE) \/ Agent!Overruns(r)
      PROVE  Agent!CommandTypeOK' /\ CommandsGoOn
  BY <1>4 DEF Agent!Spawn, Agent!Overruns
<1>5. ASSUME NEW r \in Run, Agent!CannotStart(r) \/ Agent!Closes(r) \/ Agent!StopEnds(r)
      PROVE  Agent!CommandTypeOK' /\ CommandsGoOn
  <2>1. /\ UNCHANGED members /\ command[r] \notin {"none", "settled"}
        /\ \/ command' = [command EXCEPT ![r] = "sweeping"]
           \/ command' = [command EXCEPT ![r] = "settled"] /\ members[r] \subseteq {"survivor"}
    BY <1>5 DEF Agent!CannotStart, Agent!Closes, Agent!StopEnds, CommandOfACase
  <2>2. members'[r] = members[r]
    BY <2>1
  <2> QED
    BY <2>1, <2>2
<1>6. CASE \E r \in Run : Agent!Exits(r)
  BY <1>6 DEF Agent!Exits
<1>7. ASSUME NEW r \in Run, Agent!Kill(r)
      PROVE  Agent!CommandTypeOK' /\ CommandsGoOn
  <2>1. PICK survivors \in SUBSET {"survivor"} :
          members' = [members EXCEPT ![r] = survivors]
    BY <1>7 DEF Agent!Kill
  <2>2. UNCHANGED command /\ command[r] \in {"sweeping", "stopping"}
    BY <1>7 DEF Agent!Kill
  <2> QED
    BY <2>1, <2>2
<1> QED
  BY <1>1, <1>2, <1>3, <1>4, <1>5, <1>6, <1>7

(* An outcome of the call is one of Ending, and what Return is given too.  *)
LEMMA StepTypes ==
  ASSUME IInv, EvalTypeOK, CallIsOfACase, CommandOfACase, [EvalNext]_evalVars
  PROVE  case' \in [Run -> {"none", "running"} \cup Target!Ending] /\ Target!TargetTypeOK'
<1> USE DEF EvalTypeOK
<1> DEFINE Types == case' \in [Run -> {"none", "running"} \cup Target!Ending] /\ Target!TargetTypeOK'
<1>0. UNCHANGED <<targetVars, case>> => Types
  BY DEF targetVars, callVars, Target!TargetTypeOK
<1>1. (UNCHANGED <<callVars, case>> /\ Target!Lose) => Types
  BY EvalAssumption, SMT DEF callVars, Target!TargetTypeOK, Target!Lose
<1>2. (UNCHANGED <<world, case>> /\ Target!Drop /\ (Target!Lose \/ UNCHANGED lost)) => Types
  <2> SUFFICES ASSUME UNCHANGED <<world, case>>, Target!Drop, Target!Lose \/ UNCHANGED lost
               PROVE  Types
    OBVIOUS
  <2>1. lost' \in 0..MaxLost
    BY EvalAssumption, SMT DEF Target!Lose, Target!TargetTypeOK
  <2> QED
    BY <2>1 DEF Target!TargetTypeOK, Target!Drop, Target!Ending
<1>3. CASE Starts \/ Recovers \/ RecoveryRefused \/ Judges \/ (\E r \in Run : Polls(r)) \/ Returns
  BY <1>0, <1>3 DEF Starts, Recovers, RecoveryRefused, Judges, Polls, Returns
<1>4. CASE JudgesFail \/ Recurs
  BY <1>0, <1>1, <1>4 DEF JudgesFail, Recurs, targetVars
<1>5. CASE \/ Finishes \/ Fails \/ HandsOver \/ Completes \/ CompleteIsRefused \/ CompleteIsLost
           \/ GivesUp \/ WaitsOrEnds \/ Throws \/ Interrupt
  BY <1>0, <1>5 DEF Finishes, Fails, HandsOver, Completes, CompleteIsRefused, CompleteIsLost,
                    GivesUp, WaitsOrEnds, Throws, Interrupt
<1>6. CASE Dies \/ ForcedExit
  BY <1>2, <1>6 DEF Dies, ForcedExit
<1>7. CASE BeginCase
  <2>1. claim \in Run /\ case' = [case EXCEPT ![claim] = "running"]
    BY <1>7 DEF BeginCase, IInv, OnARun, Working
  <2>2. CASE Target!Begin
    BY <2>1, <2>2, CallTypes DEF IInv, CompletedIsFinished
  <2>3. CASE UNCHANGED targetVars
    BY <2>1, <2>3 DEF targetVars, callVars, Target!TargetTypeOK
  <2> QED
    BY <1>7, <2>2, <2>3 DEF BeginCase
<1>8. CASE CallStep
  <2>1. call # "none"
    BY <1>8 DEF CallStep, Target!CallStep, Target!Create, Target!Prepare, Target!Inspect,
                Target!Seal, Target!Settle
  <2>2. claim \in Run /\ UNCHANGED case
    BY <1>8, <2>1, EvalAssumption DEF CallStep, CallIsOfACase
  <2> QED
    BY <1>8, <2>2, CallTypes DEF CallStep, IInv, CompletedIsFinished
<1>9. CASE DeadlinePasses \/ CaseUncertain
  <2>1. claim \in Run /\ UNCHANGED case
    BY <1>9, EvalAssumption DEF DeadlinePasses, CaseUncertain, Target!Deadline, CallIsOfACase
  <2> QED
    BY <1>9, <2>1, CallTypes DEF DeadlinePasses, CaseUncertain, IInv, CompletedIsFinished
<1>10. CASE EndCase
  <2>1. claim \in Run /\ case' = [case EXCEPT ![claim] = ending] /\ Target!Taken
    BY <1>10, EvalAssumption DEF EndCase, CallIsOfACase
  <2> QED
    BY <2>1, CallTypes DEF IInv, CompletedIsFinished, Target!TargetTypeOK
<1>11. ASSUME NEW r \in Run, Settles(r)
       PROVE  Types
  <2>1. \A aborted \in BOOLEAN : Agent!Answer(r, aborted) \subseteq {"output", "error", "cancelled"}
    BY DEF Agent!Answer
  <2>2. stopped \in BOOLEAN
    BY DEF IInv, CompletedIsFinished, TypeOK
  <2>3. \/ UNCHANGED <<case, targetVars>>
        \/ \E outcome \in {"output", "error", "cancelled"} :
             /\ Target!Return(outcome) \/ UNCHANGED targetVars
             /\ case' = case \/ case' = [case EXCEPT ![r] = outcome]
    BY <1>11, <2>1, <2>2 DEF Settles
  <2>4. ASSUME NEW outcome \in {"output", "error", "cancelled"},
               Target!Return(outcome) \/ UNCHANGED targetVars,
               case' = case \/ case' = [case EXCEPT ![r] = outcome]
        PROVE  Types
    <3>1. case' \in [Run -> {"none", "running"} \cup Target!Ending]
      BY <2>4 DEF Target!Ending
    <3>2. Target!TargetTypeOK'
      <4>1. CASE Target!Return(outcome)
        BY <4>1, CallTypes DEF IInv, CompletedIsFinished
      <4>2. CASE UNCHANGED targetVars
        BY <4>2 DEF targetVars, callVars, Target!TargetTypeOK
      <4> QED
        BY <2>4, <4>1, <4>2
    <3> QED
      BY <3>1, <3>2
  <2> QED
    BY <1>0, <2>3, <2>4
<1>12. ASSUME NEW r \in Run, Spawns(r) \/ Timers(r) \/ ProcessStep(r)
       PROVE  Types
  BY <1>0, <1>12 DEF Spawns, Timers, ProcessStep
<1>13. ASSUME NEW r \in Run, HueStep(r)
       PROVE  Types
  <2>1. case' = case /\ (UNCHANGED targetVars \/ Target!WorldStep(r) \/ Target!Misses(r))
    BY <1>13 DEF HueStep
  <2> QED
    BY <1>0, <2>1, CallTypes DEF IInv, CompletedIsFinished
<1>14. CASE UNCHANGED evalVars
  BY <1>0, <1>14 DEF evalVars
<1> QED
  BY <1>3, <1>4, <1>5, <1>6, <1>7, <1>8, <1>9, <1>10, <1>11, <1>12, <1>13, <1>14
  DEF EvalNext, Worker, Commands

-----------------------------------------------------------------------------
(* What is recorded is final.                                              *)

(* What goes on leaves no more of a command than it may.                   *)
LEMMA GoOnLeaves ==
  ASSUME CommandOfACase, CommandsGoOn, NEW r \in Run
  PROVE  /\ command'[r] \in {"none", "starting"} => members'[r] = {}
         /\ command'[r] = "settled" => members'[r] \subseteq {"survivor"}
  BY DEF CommandsGoOn, CommandOfACase

LEMMA SealKept ==
  ASSUME SealInv, EvalTypeOK', CommandsGoOn, UNCHANGED <<case, world, finished>>,
         call' = "none" \/ UNCHANGED <<call, ending, pc, claim>>
  PROVE  SealInv'
<1> USE DEF SealInv
<1>1. CallIsOfACase'
  BY DEF CallIsOfACase
<1>2. \A r \in Run : /\ command[r] \in {"none", "settled"} => command'[r] = command[r]
                     /\ command'[r] = "none" => command[r] = "none"
  BY DEF CommandsGoOn
<1>3. CommandOfACase'
  <2>1. ASSUME NEW r \in Run
        PROVE  /\ command'[r] \in {"none", "starting"} => members'[r] = {}
               /\ command'[r] = "settled" => members'[r] \subseteq {"survivor"}
    BY <2>1, GoOnLeaves
  <2>2. call' \in {"create", "prepare"} => command'[claim'] = "none"
    BY <1>2, EvalAssumption DEF CommandOfACase, CallIsOfACase
  <2> QED
    BY <1>2, <2>1, <2>2 DEF CommandOfACase
<1>4. OutcomeIsFinal'
  BY <1>2, EvalAssumption DEF OutcomeIsFinal, CallIsOfACase
<1> QED
  BY <1>1, <1>3, <1>4 DEF Saved

(* The call: a world that is left is sealed, or not known.                 *)
LEMMA CallKeeps ==
  ASSUME SealInv, EvalTypeOK', CallStep
  PROVE  SealInv'
<1> USE DEF SealInv
<1>1. /\ UNCHANGED vars /\ UNCHANGED case /\ Target!CallStep(claim)
      /\ IF call' = "target" THEN Agent!Invoke(claim) ELSE UNCHANGED commandVars
  BY DEF CallStep
<1>2. call \in {"create", "prepare", "inspect", "seal", "settle"}
  BY <1>1 DEF Target!CallStep, Target!Create, Target!Prepare, Target!Inspect, Target!Seal, Target!Settle
<1>3. claim \in Run /\ claim \in Pinned /\ pc = "run" /\ case[claim] = "running"
  BY <1>2, EvalAssumption DEF CallIsOfACase
<1>4. UNCHANGED <<pc, claim, finished>>
  BY <1>1 DEF vars, hue
<1>5. \A r \in Run \ {claim} : world'[r] = world[r]
  BY <1>1, <1>3 DEF Target!CallStep, Target!Create, Target!Prepare, Target!Inspect, Target!Seal,
                    Target!Settle, Target!Finished, Target!worlds, EvalTypeOK, Target!TargetTypeOK
<1>6. CallIsOfACase'
  BY <1>1, <1>3, <1>4, <1>5 DEF CallIsOfACase
<1>7. /\ call' = "target" => call = "prepare"
      /\ call' \in {"create", "prepare"} => call = "create"
  BY <1>1
  DEF Target!CallStep, Target!Create, Target!Prepare, Target!Inspect, Target!Seal, Target!Settle,
      Target!Fail, Target!SealAs, Target!Uncertain, Target!End, Target!Recovered
<1>8. /\ \A r \in Run \ {claim} : command'[r] = command[r]
      /\ UNCHANGED members
      /\ IF call' = "target" THEN command'[claim] = "starting" /\ command[claim] = "none"
         ELSE command'[claim] = command[claim]
  <2>1. CASE call' = "target"
    BY <1>1, <1>3, <1>7, <2>1 DEF Agent!Invoke, CommandOfACase, EvalTypeOK, Agent!CommandTypeOK
  <2>2. CASE call' # "target"
    BY <1>1, <2>2 DEF commandVars
  <2> QED
    BY <2>1, <2>2
<1>9. CommandOfACase'
  <2>1. \A r \in Run : /\ command'[r] \in {"none", "starting"} => members'[r] = {}
                       /\ command'[r] = "settled" => members'[r] \subseteq {"survivor"}
    BY <1>3, <1>8 DEF CommandOfACase
  <2>2. \A r \in Run : case'[r] = "none" => command'[r] = "none"
    BY <1>1, <1>3, <1>8 DEF CommandOfACase
  <2>3. call' \in {"create", "prepare"} => command'[claim'] = "none"
    BY <1>4, <1>7, <1>8 DEF CommandOfACase
  <2> QED
    BY <2>1, <2>2, <2>3 DEF CommandOfACase
<1>10. /\ call' = "inspect" => ending' # "output"
       /\ call' \in {"seal", "settle", "ended"} /\ ending' = "output" =>
            call \in {"seal", "settle"} /\ ending = "output"
       /\ call' = "ended" /\ ending' # "uncreated" => world'[claim] \notin Target!Open
  <2> USE DEF Target!Fail, Target!SealAs, Target!Uncertain, Target!End, Target!Open
  <2>1. CASE Target!Create(claim)
    BY <2>1 DEF Target!Create
  <2>2. CASE Target!Prepare(claim)
    BY <2>2 DEF Target!Prepare
  <2>3. CASE Target!Inspect
    BY <2>3 DEF Target!Inspect, OutcomeIsFinal
  <2>4. CASE Target!Seal(claim)
    <3>1. closing \in {"completed", "abandoned"}
      BY DEF EvalTypeOK, Target!TargetTypeOK
    <3> QED
      BY <2>4, <3>1 DEF Target!Seal, Target!Recovered
  <2>5. CASE Target!Settle(claim)
    BY <2>5 DEF Target!Settle, Target!worlds
  <2> QED
    BY <1>1, <2>1, <2>2, <2>3, <2>4, <2>5 DEF Target!CallStep
<1>11. OutcomeIsFinal'
  <2>1. \A r \in Run : case'[r] = "output" => command'[r] = "settled"
    BY <1>1, <1>3, <1>8 DEF OutcomeIsFinal
  <2>2. call' \in {"seal", "settle", "ended"} /\ ending' = "output" => command'[claim'] = "settled"
    BY <1>4, <1>8, <1>10 DEF OutcomeIsFinal
  <2> QED
    BY <1>4, <1>10, <2>1, <2>2 DEF OutcomeIsFinal
<1>12. claim \notin finished
  BY <1>3 DEF Saved
<1> QED
  BY <1>1, <1>3, <1>4, <1>5, <1>6, <1>9, <1>11, <1>12 DEF Saved, EvalTypeOK

LEMMA SealNext ==
  ASSUME IInv, SealInv, JudgeInv, [EvalNext]_evalVars
  PROVE  SealInv'
<1> USE DEF SealInv
<1>1. case' \in [Run -> {"none", "running"} \cup Target!Ending] /\ Target!TargetTypeOK'
  BY StepTypes
<1> DEFINE Types == {pending, judging} \subseteq Run \cup {None} /\ judged \cup acked \subseteq Run
<1>2. Types'
  <2>1. claim \in Run \cup {None}
    BY DEF IInv, CompletedIsFinished, TypeOK
  <2>2. CASE UNCHANGED judges
    BY <2>2 DEF judges, EvalTypeOK
  <2>3. CASE \/ Recovers \/ RecoveryRefused \/ Judges \/ JudgesFail
             \/ CompleteIsRefused \/ GivesUp \/ Dies \/ ForcedExit
    BY <2>1, <2>3 DEF Recovers, RecoveryRefused, Judges, JudgesFail, CompleteIsRefused, GivesUp,
                      Dies, ForcedExit, Discard, EvalTypeOK
  <2>4. CASE HandsOver \/ Completes
    <3>1. claim \in Run
      BY <2>4 DEF HandsOver, Completes, HandOver, CompleteRecorded, IInv, OnARun, Working
    <3> QED
      BY <2>4, <3>1 DEF HandsOver, Completes, EvalTypeOK
  <2>5. CASE \/ Starts \/ (\E r \in Run : Polls(r)) \/ Returns \/ BeginCase \/ CallStep
             \/ DeadlinePasses \/ EndCase \/ CaseUncertain \/ Finishes \/ Fails \/ Recurs
             \/ CompleteIsLost \/ WaitsOrEnds \/ Commands \/ Throws \/ Interrupt
             \/ (\E r \in Run : ProcessStep(r) \/ HueStep(r))
             \/ UNCHANGED evalVars
    BY <2>2, <2>5
    DEF Starts, Polls, Returns, BeginCase, CallStep, DeadlinePasses, EndCase, CaseUncertain,
        Finishes, Fails, Recurs, CompleteIsLost, WaitsOrEnds, Commands, Throws, Interrupt,
        ProcessStep, HueStep, Spawns, Settles, Timers, evalVars
  <2> QED
    BY <2>3, <2>4, <2>5 DEF EvalNext, Worker
<1>3. SUFFICES ASSUME Agent!CommandTypeOK' => EvalTypeOK'
               PROVE  SealInv'
  BY <1>1, <1>2 DEF EvalTypeOK
<1>4. ASSUME \/ UNCHANGED commandVars
             \/ \E R \in SUBSET Run : Agent!Cancel(R)
             \/ Agent!Exit \/ Agent!Abandon
             \/ \E r \in Run :
                  \/ Agent!Spawn(r, TRUE) \/ Agent!Spawn(r, FALSE) \/ Agent!CannotStart(r)
                  \/ Agent!Exits(r) \/ Agent!Closes(r)
                  \/ Agent!Overruns(r) \/ Agent!Kill(r) \/ Agent!StopEnds(r)
      PROVE  CommandsGoOn /\ EvalTypeOK'
  BY <1>3, <1>4, CommandsStep DEF EvalTypeOK
<1>5. ASSUME NEW R \in SUBSET Run, Agent!Cancel(R) \/ UNCHANGED commandVars
      PROVE  CommandsGoOn /\ EvalTypeOK'
  BY <1>4, <1>5
<1>6. pc # "run" => call = "none"
  BY DEF CallIsOfACase
<1>7. UNCHANGED targetVars => UNCHANGED <<world, call, ending>>
  BY DEF targetVars, callVars
<1>8. CASE \/ Starts \/ Recovers \/ RecoveryRefused \/ Judges \/ (\E r \in Run : Polls(r))
           \/ Returns \/ Interrupt
  <2>1. UNCHANGED <<case, targetVars, finished>>
    BY <1>8 DEF Starts, Recovers, RecoveryRefused, Judges, Polls, Returns, Interrupt,
                Start, Recover, Poll, Return, Stop, hue, vars
  <2>2. pc # "run" \/ UNCHANGED <<pc, claim>>
    BY <1>8 DEF Starts, Recovers, RecoveryRefused, Judges, Polls, Returns, Interrupt,
                Start, Recover, Poll, Return, Stop, vars
  <2>3. Agent!Exit \/ Agent!Cancel(Run) \/ UNCHANGED commandVars
    BY <1>8 DEF Starts, Recovers, RecoveryRefused, Judges, Polls, Returns, Interrupt
  <2> QED
    BY <1>4, <1>6, <1>7, <2>1, <2>2, <2>3, SealKept
<1>9. CASE JudgesFail \/ Recurs \/ Fails
  <2>1. UNCHANGED <<case, callVars, finished>> /\ (Agent!Cancel(Run) \/ UNCHANGED commandVars)
    BY <1>9 DEF JudgesFail, Recurs, Fails, Ends, Return, RunRecurs, RunFails, vars, hue, targetVars
  <2>2. call = "none" \/ UNCHANGED <<pc, claim>>
    BY <1>9, <1>6 DEF JudgesFail, Recurs, Fails, Return, InFlight, vars, Ends, JudgeInv, Up
  <2>3. UNCHANGED <<world, call, ending>>
    BY <2>1 DEF callVars
  <2> QED
    BY <1>4, <2>1, <2>2, <2>3, SealKept
<1>10. CASE \/ HandsOver \/ Completes \/ CompleteIsRefused \/ CompleteIsLost
            \/ GivesUp \/ WaitsOrEnds \/ Throws
  <2>1. UNCHANGED <<case, targetVars, finished>> /\ (Agent!Cancel(Run) \/ UNCHANGED commandVars)
    BY <1>10 DEF HandsOver, Completes, CompleteIsRefused, CompleteIsLost, GivesUp, WaitsOrEnds,
      Throws, HandOver, CompleteRecorded, CompleteRefused, CompleteFails, GiveUpSettles, GiveUpFails,
      WaitEnds, Ends, hue
  <2>2. pc # "run"
    BY <1>10 DEF HandsOver, Completes, CompleteIsRefused, CompleteIsLost, GivesUp, WaitsOrEnds,
      Throws, HandOver, CompleteRecorded, CompleteRefused, CompleteFails, GiveUpSettles, GiveUpFails,
      WaitEnds
  <2> QED
    BY <1>4, <1>6, <1>7, <2>1, <2>2, SealKept
<1>11. CASE Dies \/ ForcedExit
  <2>1. UNCHANGED <<case, world, finished>> /\ Agent!Abandon /\ call' = "none"
    BY <1>11 DEF Dies, ForcedExit, Ends, Target!Drop, vars, hue
  <2> QED
    BY <1>4, <2>1, SealKept
<1>12. CASE BeginCase
  <2>1. claim \in Run /\ pc = "run" /\ case[claim] = "none" /\ command[claim] = "none"
    BY <1>12 DEF BeginCase, IInv, OnARun, Working, CommandOfACase
  <2>2. UNCHANGED <<vars, pc, claim, finished>> /\ case' = [case EXCEPT ![claim] = "running"]
    BY <1>12 DEF BeginCase, vars, hue
  <2>3. claim \notin Saved /\ claim \notin finished /\ members[claim] = {}
    BY <2>1 DEF Saved, CommandOfACase
  <2>4. CASE claim \in Pinned
    <3>1. Target!Begin /\ UNCHANGED commandVars
      BY <1>12, <2>4 DEF BeginCase
    <3>2. call' = "create" /\ UNCHANGED <<world, command, members>> /\ EvalTypeOK'
      BY <1>4, <3>1 DEF Target!Begin, commandVars
    <3> QED
      BY <2>1, <2>2, <2>3, <2>4, <3>2
      DEF CallIsOfACase, CommandOfACase, OutcomeIsFinal, Saved, EvalTypeOK
  <2>5. CASE claim \notin Pinned
    <3>1. command' = [command EXCEPT ![claim] = "starting"] /\ UNCHANGED members
          /\ UNCHANGED <<world, call, ending>> /\ call = "none"
      BY <1>7, <1>12, <2>5 DEF BeginCase, Agent!Invoke, CallIsOfACase
    <3>2. EvalTypeOK'
      BY <1>3, <2>1, <3>1 DEF EvalTypeOK, Agent!CommandTypeOK, Agent!CommandState
    <3> QED
      BY <2>1, <2>2, <2>3, <2>5, <3>1, <3>2
      DEF CallIsOfACase, CommandOfACase, OutcomeIsFinal, Saved, EvalTypeOK, Agent!CommandTypeOK
  <2> QED
    BY <2>4, <2>5
<1>13. CASE CallStep
  <2>1. EvalTypeOK'
    <3>1. CASE call' # "target"
      BY <1>4, <1>13, <3>1 DEF CallStep
    <3>2. CASE call' = "target"
      BY <1>3, <1>13, <3>2 DEF CallStep, Agent!Invoke, EvalTypeOK, Agent!CommandTypeOK, Agent!CommandState
    <3> QED
      BY <3>1, <3>2
  <2> QED
    BY <1>13, <2>1, CallKeeps
<1>14. CASE DeadlinePasses
  <2>1. /\ call = "target" /\ call' = "inspect" /\ ending' = "error"
        /\ UNCHANGED <<world, case>> /\ UNCHANGED vars
    BY <1>14 DEF DeadlinePasses, Target!Deadline, Target!Fail, Target!worlds
  <2>2. UNCHANGED <<pc, claim, finished>> /\ claim \in Run
    BY <2>1, EvalAssumption DEF vars, hue, CallIsOfACase
  <2>3. CommandsGoOn /\ EvalTypeOK'
    BY <1>5, <1>14, <2>2 DEF DeadlinePasses
  <2>4. CallIsOfACase'
    BY <2>1, <2>2 DEF CallIsOfACase
  <2>5. CommandOfACase' /\ \A r \in Run : case'[r] = "output" => command'[r] = "settled"
    BY <2>1, <2>3, GoOnLeaves DEF CommandOfACase, OutcomeIsFinal, CommandsGoOn
  <2> QED
    BY <2>1, <2>2, <2>3, <2>4, <2>5 DEF OutcomeIsFinal, Saved
<1>15. CASE EndCase
  <2>1. /\ call = "ended" /\ call' = "none" /\ case' = [case EXCEPT ![claim] = ending]
        /\ UNCHANGED <<world, command, members>> /\ UNCHANGED vars
    BY <1>15 DEF EndCase, Target!Taken, Target!Drop, commandVars
  <2>2. UNCHANGED <<pc, claim, finished>> /\ claim \in Run /\ case[claim] = "running"
        /\ ending \notin {"none", "running"}
    BY <2>1, EvalAssumption DEF vars, hue, CallIsOfACase, EvalTypeOK, Target!TargetTypeOK, Target!Ending
  <2>3. EvalTypeOK'
    BY <1>4, <1>15 DEF EndCase
  <2>4. CallIsOfACase' /\ CommandOfACase'
    BY <2>1, <2>2 DEF CallIsOfACase, CommandOfACase, EvalTypeOK
  <2>5. OutcomeIsFinal'
    BY <2>1, <2>2 DEF OutcomeIsFinal, EvalTypeOK
  <2>6. \A r \in Saved' : case'[r] # "uncreated" => world'[r] \notin Target!Open
    BY <2>1, <2>2 DEF OutcomeIsFinal, Saved, EvalTypeOK
  <2>7. \A r \in finished' : r \in Saved' /\ world'[r] \notin Target!Open
    BY <2>1, <2>2 DEF Saved, EvalTypeOK
  <2> QED
    BY <2>3, <2>4, <2>5, <2>6, <2>7
<1>16. CASE CaseUncertain
  <2>1. UNCHANGED <<case, world, finished>> /\ call' = "none" /\ UNCHANGED commandVars
    BY <1>16 DEF CaseUncertain, Target!Taken, Target!Drop, vars, hue
  <2> QED
    BY <1>4, <2>1, SealKept
<1>17. CASE Finishes
  <2>1. /\ finished' = finished \cup {claim} /\ UNCHANGED <<case, targetVars>> /\ UNCHANGED commandVars
        /\ claim \in Saved /\ world[claim] \notin Target!Open /\ call = "none"
    BY <1>17 DEF Finishes, RunFinishes, InFlight
  <2>2. UNCHANGED <<command, members, world, call, ending>>
    BY <1>7, <2>1 DEF commandVars
  <2>3. EvalTypeOK'
    BY <1>4, <2>1
  <2>4. CallIsOfACase' /\ CommandOfACase' /\ OutcomeIsFinal'
    BY <2>1, <2>2 DEF CallIsOfACase, CommandOfACase, OutcomeIsFinal
  <2> QED
    BY <2>1, <2>2, <2>3, <2>4 DEF Saved
<1>18. ASSUME NEW r \in Run, Spawns(r) \/ Timers(r) \/ ProcessStep(r)
       PROVE  SealInv'
  <2>1. UNCHANGED <<case, world, finished, call, ending, pc, claim>>
    BY <1>18 DEF Spawns, Timers, ProcessStep, vars, hue, targetVars, callVars
  <2>2. stopped \in BOOLEAN
    BY DEF IInv, CompletedIsFinished, TypeOK
  <2>3. \A aborted : aborted \in BOOLEAN => aborted = TRUE \/ aborted = FALSE
    OBVIOUS
  <2>4. Agent!Spawn(r, TRUE) \/ Agent!Spawn(r, FALSE)
        \/ Agent!Overruns(r) \/ Agent!Kill(r) \/ Agent!Exits(r)
    BY <1>18, <2>2 DEF Spawns, Timers, ProcessStep, Agent!Spawn
  <2> QED
    BY <1>4, <2>1, <2>4, SealKept
<1>19. ASSUME NEW r \in Run, HueStep(r)
       PROVE  SealInv'
  <2>1. UNCHANGED <<case, finished, call, ending, pc, claim>> /\ UNCHANGED commandVars
    BY <1>19 DEF HueStep, Move, vars, hue, targetVars, callVars, Target!WorldStep, Target!Misses, Target!calling
  <2>2. CommandsGoOn /\ EvalTypeOK'
    BY <1>4, <2>1
  <2>3. CASE UNCHANGED world
    BY <2>1, <2>2, <2>3, SealKept
  <2>4. CASE Target!WorldStep(r)
    <3>1. /\ \A s \in Run \ {r} : world'[s] = world[s]
          /\ world[r] \in Target!Open /\ world'[r] \notin Target!Open
      BY <2>4 DEF Target!WorldStep, EvalTypeOK, Target!TargetTypeOK, Target!Open
    <3>2. UNCHANGED <<command, members>>
      BY <2>1 DEF commandVars
    <3>3. r \in Pinned
      BY <3>1 DEF CallIsOfACase, Target!Open
    <3>4. CallIsOfACase' /\ CommandOfACase' /\ OutcomeIsFinal'
      BY <2>1, <3>1, <3>2, <3>3, EvalAssumption DEF CallIsOfACase, CommandOfACase, OutcomeIsFinal
    <3> QED
      BY <2>1, <2>2, <3>1, <3>4 DEF Saved
  <2> QED
    BY <1>19, <2>3, <2>4 DEF HueStep, targetVars, callVars, Target!Misses
<1>20. ASSUME NEW r \in Run, Settles(r)
       PROVE  SealInv'
  <2>1. /\ UNCHANGED vars
        /\ Agent!CannotStart(r) \/ Agent!Closes(r) \/ Agent!StopEnds(r)
    BY <1>20 DEF Settles
  <2>2. CommandsGoOn /\ EvalTypeOK'
    BY <1>4, <2>1
  <2>3. UNCHANGED <<finished, pc, claim>>
    BY <2>1 DEF vars, hue
  <2>4. CASE UNCHANGED <<case, targetVars>>
    BY <1>7, <2>2, <2>3, <2>4, SealKept
  <2>5. CASE ~UNCHANGED <<case, targetVars>>
    <3>1. PICK outcome \in Agent!Answer(r, stopped) :
            /\ command'[r] = "settled"
            /\ IF call = "target" /\ claim = r THEN Target!Return(outcome) ELSE UNCHANGED targetVars
            /\ case' = IF r \in Pinned \/ ~Up THEN case ELSE [case EXCEPT ![r] = outcome]
      BY <1>20, <2>5 DEF Settles
    <3>2. outcome \in {"output", "error", "cancelled"} /\ command[r] \notin {"none", "settled"}
      BY <2>1, <3>1 DEF Agent!Answer, Agent!CannotStart, Agent!Closes, Agent!StopEnds
    <3>3. case[r] # "none"
      BY <3>2 DEF CommandOfACase
    <3>4. UNCHANGED world
      BY <3>1 DEF Target!Return, Target!worlds, targetVars, callVars
    <3>5. /\ \A s \in Run \ {r} : case'[s] = case[s]
          /\ r \in Pinned => case' = case
          /\ case'[r] = case[r] \/ (case'[r] = outcome /\ world[r] = "none")
      BY <3>1 DEF EvalTypeOK, CallIsOfACase
    <3>6. \/ UNCHANGED <<call, ending>> 
          \/ /\ call = "target" /\ claim = r
             /\ \/ call' = "seal" /\ ending' = "output"
                \/ call' = "inspect" /\ ending' # "output"
      BY <1>7, <3>1, <3>2 DEF Target!Return, Target!SealAs, Target!Fail
    <3>7. CallIsOfACase'
      BY <2>3, <3>4, <3>5, <3>6, EvalAssumption DEF CallIsOfACase
    <3>8. \A s \in Run : /\ command[s] \in {"none", "settled"} => command'[s] = command[s]
                         /\ command'[s] \in {"none", "starting"} => members'[s] = {}
                         /\ command'[s] = "settled" => members'[s] \subseteq {"survivor"}
      BY <2>2, GoOnLeaves DEF CommandsGoOn
    <3>9. CommandOfACase'
      <4>1. \A s \in Run : case'[s] = "none" => command'[s] = "none"
        BY <3>2, <3>3, <3>5, <3>8 DEF CommandOfACase
      <4>2. call' \in {"create", "prepare"} => command'[claim'] = "none"
        BY <2>3, <3>6, <3>8, EvalAssumption DEF CommandOfACase, CallIsOfACase
      <4> QED
        BY <3>8, <4>1, <4>2 DEF CommandOfACase
    <3>10. OutcomeIsFinal'
      <4>1. \A s \in Run : case'[s] = "output" => command'[s] = "settled"
        BY <3>1, <3>5, <3>8 DEF OutcomeIsFinal
      <4>2. call' \in {"seal", "settle", "ended"} /\ ending' = "output" => command'[claim'] = "settled"
        BY <2>3, <3>1, <3>6, <3>8, EvalAssumption DEF OutcomeIsFinal, CallIsOfACase
      <4>3. /\ call' = "inspect" => ending' # "output"
            /\ call' = "ended" /\ ending' # "uncreated" => world'[claim'] \notin Target!Open
        BY <2>3, <3>4, <3>6 DEF OutcomeIsFinal
      <4> QED
        BY <4>1, <4>2, <4>3 DEF OutcomeIsFinal
    <3>11. \A s \in Saved' : case'[s] # "uncreated" => world'[s] \notin Target!Open
      BY <3>4, <3>5 DEF Saved, Target!Open
    <3>12. \A s \in finished' : s \in Saved' /\ world'[s] \notin Target!Open
      BY <2>3, <3>2, <3>4, <3>5 DEF Saved
    <3> QED
      BY <2>2, <3>7, <3>9, <3>10, <3>11, <3>12
  <2> QED
    BY <2>4, <2>5
<1>21. CASE UNCHANGED evalVars
  <2>1. UNCHANGED <<case, world, finished, call, ending, pc, claim>> /\ UNCHANGED commandVars
    BY <1>21 DEF evalVars, vars, hue, targetVars, callVars
  <2> QED
    BY <1>4, <2>1, SealKept
<1> QED
  BY <1>8, <1>9, <1>10, <1>11, <1>12, <1>13, <1>14, <1>15, <1>16, <1>17, <1>18, <1>19, <1>20, <1>21
  DEF EvalNext, Worker, Commands

-----------------------------------------------------------------------------
(* The handoff.                                                            *)

LEMMA CompletedStays ==
  ASSUME IInv, [Next]_vars, NEW r \in Run, queue[r] = "completed"
  PROVE  queue'[r] = "completed"
<1> USE DEF IInv, CompletedIsFinished, TypeOK, Record, hue
<1>1. pc \in Working => claim \in Run
  BY DEF OnARun
<1>2. ASSUME NEW s \in Run, Poll(s) \/ Recover(s) \/ Move(s)
      PROVE  queue'[r] = "completed"
  BY <1>2 DEF Poll, Offered, Held, Recover, Move
<1>3. CASE CompleteRecorded \/ CompleteRefused \/ CompleteFails
  BY <1>1, <1>3 DEF CompleteRecorded, CompleteRefused, CompleteFails, Working
<1>4. CASE GiveUpSettles \/ GiveUpFails
  <2>1. queue' = queue \/ (queue[claim] # "completed" /\ queue' = [queue EXCEPT ![claim] = "attention"])
    BY <1>4 DEF GiveUpSettles, GiveUpFails
  <2> QED
    BY <2>1
<1>5. CASE \/ Start(0) \/ Start(1) \/ RunFinishes \/ RunFails \/ RunRecurs \/ HandOver
           \/ WaitEnds \/ Return \/ Ends \/ Stop \/ UNCHANGED vars
  BY <1>5 DEF Start, RunFinishes, RunFails, RunRecurs, HandOver, WaitEnds, Return, Ends, Stop, vars
<1> QED
  BY <1>2, <1>3, <1>4, <1>5 DEF Next, Work, Complete, GiveUp

LEMMA JudgeNext ==
  ASSUME IInv, EvalTypeOK, JudgeInv, [EvalNext]_evalVars
  PROVE  JudgeInv'
<1>1. /\ \A r \in Run : queue[r] = "completed" => queue'[r] = "completed"
      /\ acked \subseteq Run /\ judged \subseteq Run /\ None \notin Run
      /\ pc \in Working => claim \in Run
  BY StepIsWorkerStep, CompletedStays, WorkerAssumption DEF EvalTypeOK, IInv, OnARun
<1> USE DEF JudgeInv, Up
<1>2. ASSUME UNCHANGED judges, judging = None \/ UNCHANGED pc,
             pc \in {"down", "returned"} => UNCHANGED pc,
             pc' = "complete" => UNCHANGED <<pc, claim>>
      PROVE  JudgeInv'
  BY <1>1, <1>2 DEF judges
<1>3. UNCHANGED vars => UNCHANGED <<pc, claim, queue>>
  BY DEF vars, hue
<1>4. CASE Starts
  BY <1>1, <1>4 DEF Starts, Start, judges
<1>5. CASE Recovers
  <2>1. /\ pending \in Run /\ pc \in {"down", "returned"} /\ UNCHANGED <<pc, claim>>
        /\ judging = None /\ UNCHANGED <<pending, judged>>
        /\ queue'[pending] = "completed"
    BY <1>5 DEF Recovers, Recover, EvalTypeOK, IInv, CompletedIsFinished, TypeOK
  <2>2. \/ judging' = pending /\ acked' = acked \cup {pending}
        \/ UNCHANGED <<judging, acked>>
    BY <1>5 DEF Recovers
  <2> QED
    BY <1>1, <2>1, <2>2
<1>6. CASE RecoveryRefused
  <2>1. acked \subseteq judged
    BY <1>6 DEF RecoveryRefused
  <2> QED
    BY <1>1, <1>6, <2>1 DEF RecoveryRefused, Start
<1>7. CASE Judges
  <2>1. /\ judged' = judged \cup {judging} /\ pending' = None /\ judging' = None /\ acked' = acked
        /\ judging \in acked /\ pending = judging /\ pc' # "complete"
    BY <1>3, <1>7 DEF Judges, Start
  <2> QED
    BY <1>1, <2>1
<1>8. CASE JudgesFail
  <2>1. pc' \in {"down", "returned"}
    BY <1>3, <1>8 DEF JudgesFail, Ends, Return
  <2>2. /\ judging' = None /\ UNCHANGED <<pending, acked>> /\ judging \in acked
        /\ judged' \in {judged, judged \cup {judging}}
    BY <1>8 DEF JudgesFail
  <2> QED
    BY <1>1, <2>1, <2>2
<1>9. CASE HandsOver
  <2>1. /\ pc = "hand_over" /\ pc' = "complete" /\ judging = None /\ judging' = None
        /\ pending' = claim /\ claim' = claim /\ UNCHANGED <<judged, acked>>
    BY <1>9 DEF HandsOver, HandOver
  <2>2. acked \subseteq judged
    BY <1>1, <2>1
  <2> QED
    BY <1>1, <2>1, <2>2
<1>10. CASE Completes
  <2>1. /\ pc = "complete" /\ pc' = "poll" /\ judging = None /\ judging' = claim
        /\ UNCHANGED <<pending, judged>> /\ acked' = acked \cup {claim} /\ pending = claim
        /\ queue' = [queue EXCEPT ![claim] = "completed"]
    BY <1>10 DEF Completes, CompleteRecorded, Settle, Record
  <2>2. acked \subseteq judged
    BY <1>1, <2>1
  <2>3. claim \in Run /\ queue'[claim] = "completed"
    BY <1>1, <2>1 DEF Working, IInv, CompletedIsFinished, TypeOK
  <2> QED
    BY <1>1, <2>1, <2>2, <2>3
<1>11. CASE CompleteIsRefused \/ GivesUp
  <2>1. /\ pc \in {"complete", "give_up"} /\ pc' = "poll" /\ judging = None /\ UNCHANGED <<judging, judged, acked>>
    BY <1>11 DEF CompleteIsRefused, GivesUp, CompleteRefused, GiveUpSettles, Settle
  <2>2. acked \subseteq judged
    BY <1>1, <2>1
  <2> QED
    BY <1>1, <2>1, <2>2
<1>12. CASE Dies \/ ForcedExit
  <2>1. pc' \in {"down", "returned"} /\ judging' = None /\ UNCHANGED <<pending, judged, acked>>
    BY <1>3, <1>12 DEF Dies, ForcedExit, Ends
  <2> QED
    BY <1>1, <2>1
<1>13. CASE (\E r \in Run : Polls(r)) \/ Returns \/ Throws
  BY <1>2, <1>13 DEF Polls, Returns, Throws, Poll, Return, Ends
<1>14. CASE Finishes \/ Fails \/ Recurs \/ CompleteIsLost \/ WaitsOrEnds
  BY <1>2, <1>14
  DEF Finishes, Fails, Recurs, CompleteIsLost, WaitsOrEnds, RunFinishes, RunFails, RunRecurs,
      CompleteFails, GiveUpFails, WaitEnds, Resumable
<1>15. CASE BeginCase \/ CallStep \/ DeadlinePasses \/ EndCase \/ CaseUncertain
  BY <1>2, <1>3, <1>15 DEF BeginCase, CallStep, DeadlinePasses, EndCase, CaseUncertain
<1>16. CASE Interrupt
  BY <1>2, <1>16 DEF Interrupt, Stop
<1>17. ASSUME NEW r \in Run, Spawns(r) \/ Settles(r) \/ Timers(r) \/ ProcessStep(r) \/ HueStep(r)
       PROVE  JudgeInv'
  BY <1>2, <1>3, <1>17 DEF Spawns, Settles, Timers, ProcessStep, HueStep, Move
<1>18. CASE UNCHANGED evalVars
  BY <1>2, <1>3, <1>18 DEF evalVars
<1> QED
  BY <1>4, <1>5, <1>6, <1>7, <1>8, <1>9, <1>10, <1>11, <1>12, <1>13, <1>14, <1>15, <1>16, <1>17, <1>18
  DEF EvalNext, Worker, Commands

-----------------------------------------------------------------------------
EvalInv == IInv /\ SealInv /\ JudgeInv

LEMMA EvalInitInv == EvalInit => EvalInv
<1> SUFFICES ASSUME EvalInit PROVE EvalInv
  OBVIOUS
<1> USE WorkerAssumption, EvalAssumption
<1>1. IInv
  BY InitInv DEF EvalInit
<1>2. EvalTypeOK
  <2>1. 0 \in 0..MaxLost
    BY SMT
  <2>2. Target!TargetTypeOK
    BY <2>1 DEF EvalInit, Target!TargetInit, Target!TargetTypeOK, Target!WorldState, Target!Ending
  <2>3. Agent!CommandTypeOK
    BY DEF EvalInit, Agent!CommandInit, Agent!CommandTypeOK, Agent!CommandState
  <2> QED
    BY <2>2, <2>3 DEF EvalInit, EvalTypeOK
<1>3. SealInv
  BY <1>2 DEF EvalInit, Init, Target!TargetInit, Agent!CommandInit, SealInv, CallIsOfACase,
              CommandOfACase, OutcomeIsFinal, Saved
<1>4. JudgeInv
  BY DEF EvalInit, Init, JudgeInv, Up
<1> QED
  BY <1>1, <1>3, <1>4 DEF EvalInv

LEMMA EvalNextInv == EvalInv /\ [EvalNext]_evalVars => EvalInv'
<1> SUFFICES ASSUME EvalInv, [EvalNext]_evalVars PROVE EvalInv'
  OBVIOUS
<1>1. [Next]_vars
  BY StepIsWorkerStep DEF EvalInv, SealInv
<1>2. IInv'
  BY <1>1, NextInv DEF EvalInv
<1>3. SealInv' /\ JudgeInv'
  BY SealNext, JudgeNext DEF EvalInv, SealInv
<1> QED
  BY <1>2, <1>3 DEF EvalInv

(* The eval worker is a local worker: it starts as one, and each of its    *)
(* steps is one of the worker's or leaves the worker's state alone         *)
(* (runWorker of cli/eval.ts around runLocalAgent).                        *)
THEOREM ImplementsWorker == EvalSpec => Init /\ [][Next]_vars
<1>1. EvalInit => Init
  BY DEF EvalInit
<1>2. EvalInv /\ [EvalNext]_evalVars => [Next]_vars
  BY StepIsWorkerStep DEF EvalInv, SealInv
<1> QED
  BY <1>1, <1>2, EvalInitInv, EvalNextInv, PTL DEF EvalSpec

(* A run is recorded as completed only for a finished experiment, also     *)
(* when the start recovers its completion (completeJudgeHandoff).          *)
THEOREM EvalCompletions == EvalSpec => []CompletedIsFinished
<1>1. EvalInv => CompletedIsFinished
  BY DEF EvalInv, IInv
<1> QED
  BY <1>1, EvalInitInv, EvalNextInv, PTL DEF EvalSpec

(* An answer is saved with nothing of its command left in its process      *)
(* group but what a SIGKILL did not end, and a case with a world that      *)
(* takes no more writes (spawnAgentCommand, runEnvironmentTarget).         *)
THEOREM Seals == EvalSpec => []SealedFirst
<1>1. EvalInv => SealedFirst
  <2> SUFFICES ASSUME EvalInv PROVE SealedFirst
    OBVIOUS
  <2>1. \A r \in Run : case[r] = "output" /\ r \in Grouped => members[r] \subseteq {"survivor"}
    BY DEF EvalInv, SealInv, OutcomeIsFinal, CommandOfACase
  <2> QED
    BY <2>1 DEF EvalInv, SealInv, SealedFirst
<1> QED
  BY <1>1, EvalInitInv, EvalNextInv, PTL DEF EvalSpec

(* A completion the CLI was told of has its judges, or its handoff on disk *)
(* (checkpointJudges, requestRunJudges, completeJudgeHandoff).             *)
THEOREM Handoffs == EvalSpec => []HandoffKept
<1>1. EvalInv => HandoffKept
  BY DEF EvalInv, JudgeInv, HandoffKept, SealInv, EvalTypeOK
<1> QED
  BY <1>1, EvalInitInv, EvalNextInv, PTL DEF EvalSpec

(* A run counted as settled is not left claimed (runLocalAgent's loop, and *)
(* the run less that a recovered completion is worth).                     *)
THEOREM EvalSettlements == EvalSpec => SettledIsReleased
<1>1. EvalInv /\ [EvalNext]_evalVars =>
        [settled' > settled /\ claim # None => queue'[claim] # "claimed"]_vars
  BY StepIsWorkerStep, SettledStep DEF EvalInv, SealInv
<1> QED
  BY <1>1, EvalInitInv, EvalNextInv, PTL DEF EvalSpec, SettledIsReleased
=============================================================================
