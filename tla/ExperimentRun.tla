---------------------------- MODULE ExperimentRun ----------------------------
(***************************************************************************)
(* runExperiment (evals/runner.ts): the cases of one frozen experiment run *)
(* through a target, each checkpointed on disk before and after every step *)
(* that cannot be repeated, in a process that may crash, be stopped or     *)
(* fail at any await, and be started again on the same directory.          *)
(*                                                                         *)
(* The checkpoint lock is modelled in CheckpointLock: here one process     *)
(* owns the directory at a time.  A checkpoint write is atomic (temporary  *)
(* file, fsync, rename).  Hue is what the runner relies on: a start or a   *)
(* completion replayed with its key has its first effect only.             *)
(***************************************************************************)
EXTENDS Naturals, Sequences, FiniteSets

CONSTANTS Case,          (* the cases, by their places in the list          *)
          Concurrency,   (* how many run at a time                         *)
          Rerun,         (* rerunCrashedCases                              *)
          Setups,        (* what an experiment may be set up as            *)
          MaxFaults      (* bound on crashes, stops and failed awaits      *)

(* What the transport remembers of the spans a case ended: nothing, all,   *)
(* or fewer, as for a span its full queue dropped and for a trace that it  *)
(* forgot meanwhile.                                                       *)
Count == {"unknown", "all", "fewer"}

(* The cases; traceNotAccepted, with evidence required;                    *)
(* persistResultContent; whether a process may be started while another    *)
(* runs; the counts of spans that occur; the faults that strike it.        *)
Setup == [cases : SUBSET Case, policy : {"stop", "fail_case", "pending"},
          persist : BOOLEAN, overlap : BOOLEAN, counts : SUBSET Count,
          faults : 0..MaxFaults]

ASSUME RunAssumption ==
  /\ Case \subseteq Nat
  /\ Concurrency \in Nat \ {0}
  /\ Rerun \in BOOLEAN
  /\ MaxFaults \in Nat
  /\ Setups \subseteq Setup

VARIABLES
  setup,       (* the experiment's, which does not change                  *)
  cp,          (* disk: each case's checkpoint                             *)
  sweep,       (* disk: a crash sweep is due                               *)
  died,        (* disk: the lock of a process that died is at the path     *)
  server,      (* Hue: the executions of each case, the last one current   *)
  trace,       (* Hue: how much of the current attempt's trace it holds    *)
  scored,      (* Hue: the case has its results                            *)
  finished,    (* Hue: the experiment is finished                          *)
  listed,      (* the items the next process has read before it acquires   *)
  items,       (* the items of this process, as it read them               *)
  run,         (* what the process does                                    *)
  aborted,     (* the caller's signal                                      *)
  stop,        (* pool: start no more cases                                *)
  failures,    (* pool: a case failed                                      *)
  recovered,   (* recoveredCompletion                                      *)
  pc,          (* what each case does                                      *)
  at,          (* the variables of each case's run                         *)
  keys,        (* history: idempotency keys made for each case             *)
  runs,        (* history: target invocations of each execution            *)
  answered,    (* history: an outcome of the case was saved                *)
  due,         (* history: the execution a recorded sweep found running    *)
  faults       (* history: faults so far                                   *)

disk == <<cp, sweep, died>>
hue == <<server, trace, scored>>
process == <<items, run, aborted, stop, failures, recovered>>
cases == <<pc, at>>
made == <<keys, runs, answered>>
vars == <<setup, disk, hue, process, cases, made, finished, listed, due, faults>>

(* What the steps of a case share: the pool, and all that they leave alone.*)
pool == <<stop, failures, recovered>>
outer == <<setup, sweep, died, finished, listed, items, run, aborted, due, faults>>

Cases == setup.cases
Policy == setup.policy

Execs == 0..(MaxFaults + 1)

Stage == {"none", "starting", "running", "interrupted", "unserializable",
          "uploading", "prepared"}
Checkpoint ==
  [stage : Stage, exec : Execs, key : Nat, prev : Execs, crashed : BOOLEAN,
   unkept : BOOLEAN, spans : Count,
   export : {"pending", "accepted", "failed", "not_accepted"},
   evidence : {"required", "omit", "pending"}, done : BOOLEAN,
   uploaded : BOOLEAN]
Blank ==
  [stage |-> "none", exec |-> 0, key |-> 0, prev |-> 0, crashed |-> FALSE,
   unkept |-> FALSE, spans |-> "unknown", export |-> "pending",
   evidence |-> "required",
   done |-> FALSE, uploaded |-> FALSE]

(* What Hue holds of a trace: "open" until its root span has ended, then   *)
(* nothing yet, the root alone, or every span; "lost" and "root_lost" when *)
(* a span of it will never arrive.                                         *)
Trace == {"open", "sent", "root", "whole", "lost", "root_lost"}

(* A case that was not picked, and one whose run has ended.                *)
Idle == {"waiting", "done", "failed"}
(* Awaits that a refusal, a lost answer or the disk can make throw.        *)
Awaits == {"read", "interrupt", "replay", "lookup", "resume", "fresh",
           "save_start", "start", "save_running", "target", "interrupted",
           "unserializable", "save_outcome", "publish", "judge", "policy",
           "decide", "complete", "save_completion", "score",
           "save_score"}
Steps == Idle \cup Awaits \cup {"working", "flush"}

Current(c) == Len(server[c])
Completed(c) == server[c] # <<>> /\ server[c][Current(c)].done # 0

Go(c, step) == pc' = [pc EXCEPT ![c] = step]
Save(c, value) == cp' = [cp EXCEPT ![c] = value]
(* A case fails; a systemic failure starts no more cases.                  *)
Fail(c, systemic) ==
  /\ Go(c, "failed")
  /\ failures' = TRUE
  /\ stop' = (stop \/ systemic)

(* retry: the execution replaced; live: the target ran in this process, so *)
(* its root span is this transport's; verdict: what the flush told.        *)
Verdict == {"clean", "named", "anyone's"}
Memory == [retry : Execs, exec : Execs, unkept : BOOLEAN, live : BOOLEAN,
           verdict : Verdict]
Nothing == [retry |-> 0, exec |-> 0, unkept |-> FALSE, live |-> FALSE,
            verdict |-> "clean"]

(* The process is gone, and with it what it held in memory.                *)
Down ==
  /\ run' = "down"
  /\ items' = <<>>
  /\ aborted' = FALSE
  /\ stop' = FALSE
  /\ failures' = FALSE
  /\ recovered' = FALSE
  /\ pc' = [c \in Case |-> "waiting"]
  /\ at' = [c \in Case |-> Nothing]

Init ==
  /\ setup \in Setups
  /\ cp = [c \in Case |-> Blank]
  /\ sweep = FALSE
  /\ died = FALSE
  /\ server = [c \in Case |-> <<>>]
  /\ trace = [c \in Case |-> "open"]
  /\ scored = [c \in Case |-> FALSE]
  /\ finished = FALSE
  /\ listed = <<>>
  /\ items = <<>>
  /\ run = "down"
  /\ aborted = FALSE
  /\ stop = FALSE
  /\ failures = FALSE
  /\ recovered = FALSE
  /\ pc = [c \in Case |-> "waiting"]
  /\ at = [c \in Case |-> Nothing]
  /\ keys = [c \in Case |-> 0]
  /\ runs = [c \in Case |-> [e \in Execs \ {0} |-> 0]]
  /\ answered = [c \in Case |-> FALSE]
  /\ due = [c \in Case |-> 0]
  /\ faults = 0

-----------------------------------------------------------------------------
(* The process.  The items are listed before the directory is acquired, so *)
(* they may be of a time when another process still ran the cases.         *)
List ==
  /\ listed = <<>>
  /\ ~finished
  /\ setup.overlap \/ run = "down"
  /\ listed' = <<[c \in Case |-> [exec |-> Current(c), done |-> Completed(c)]]>>
  /\ UNCHANGED <<setup, due, process, disk, hue, made, cases, faults, finished>>

(* A lock left by a dead process is reclaimed, or was removed by hand.     *)
Acquire ==
  /\ run = "down"
  /\ listed # <<>>
  /\ items' = listed
  /\ listed' = <<>>
  /\ \/ died /\ run' = "record"
     \/ run' = "sweep"
  /\ died' = FALSE
  /\ UNCHANGED <<setup, due, pool, hue, made, cases, cp, sweep, aborted, finished, faults>>

LeftRunning == {c \in Case : cp[c].stage = "running" /\ ~cp[c].crashed}

RecordSweep ==
  /\ run = "record"
  /\ sweep' = TRUE
  /\ due' = [c \in Case |-> IF c \in LeftRunning THEN cp[c].exec ELSE due[c]]
  /\ run' = "sweep"
  /\ UNCHANGED <<setup, pool, hue, made, cases, cp, died, listed, items, aborted,
                 finished, faults>>

MarkCrashed(c) ==
  /\ run = "sweep"
  /\ sweep
  /\ c \in LeftRunning
  /\ Save(c, [cp[c] EXCEPT !.crashed = TRUE])
  /\ UNCHANGED <<outer, pool, hue, made, cases>>

(* A slip: the record goes before the cases are marked.                    *)
EndSweepEarly ==
  /\ run = "sweep"
  /\ sweep' = FALSE
  /\ run' = "cases"
  /\ UNCHANGED <<setup, due, pool, hue, made, cases, cp, died, listed, items, aborted,
                 finished, faults>>

EndSweep ==
  /\ run = "sweep"
  /\ sweep => LeftRunning = {}
  /\ sweep' = FALSE
  /\ run' = "cases"
  /\ UNCHANGED <<setup, due, pool, hue, made, cases, cp, died, listed, items, aborted,
                 finished, faults>>

(* The cases are taken in the order they are listed.                       *)
Pick(c) ==
  /\ run = "cases"
  /\ c \in Cases /\ pc[c] = "waiting"
  /\ \A d \in Cases : d < c => pc[d] # "waiting"
  /\ ~stop
  /\ Cardinality({d \in Case : pc[d] \notin Idle}) < Concurrency
  /\ Go(c, "read")
  /\ UNCHANGED <<outer, pool, hue, made, at, cp>>

(* The pool has drained: a failure or a stop ends the run as it is.        *)
EndsAborted == aborted
EndsOpen == failures \/ aborted
EndPool ==
  /\ run = "cases"
  /\ \A c \in Case : pc[c] \in Idle
  /\ stop \/ \A c \in Cases : pc[c] # "waiting"
  /\ IF EndsOpen
       THEN Down
       ELSE /\ run' = IF recovered THEN "rescore" ELSE "finish"
            /\ UNCHANGED <<pool, cases, items, aborted>>
  /\ UNCHANGED <<setup, due, hue, made, disk, listed, finished, faults>>

(* rescore: every subject of the run without results gets them.            *)
Rescore ==
  /\ run = "rescore"
  /\ scored' = [c \in Case |-> scored[c] \/ Completed(c)]
  /\ run' = "finish"
  /\ UNCHANGED <<setup, due, pool, made, cases, disk, server, trace, finished, listed,
                 items, aborted, faults>>

Finish ==
  /\ run = "finish"
  /\ finished' = TRUE
  /\ Down
  /\ UNCHANGED <<setup, due, hue, made, disk, listed, faults>>

-----------------------------------------------------------------------------
(* runCase: what a checkpoint of an earlier process means, each way after  *)
(* the ones a slip would give.                                             *)
Step(step, retry) == [step |-> step, retry |-> retry]

StepPreparingAgain(saved) ==
  IF saved.stage \in {"uploading", "prepared"} THEN Step("publish", 0)
  ELSE Step("fresh", saved.exec)
StepRunningAgain(saved) ==
  IF saved.stage = "prepared" THEN Step("decide", 0)
  ELSE Step("fresh", saved.exec)
StepLeftOpen(saved) ==
  CASE saved.stage = "none" -> Step("fresh", 0)
    [] saved.stage = "starting" -> Step("replay", 0)
    [] saved.stage \in {"uploading", "prepared"} -> Step("decide", 0)
    [] OTHER -> Step("lookup", 0)
NextStep(saved) ==
  CASE saved.stage = "none" -> Step("fresh", 0)
    [] saved.stage = "interrupted" -> Step("fresh", saved.exec)
    [] saved.stage = "running" /\ saved.crashed /\ Rerun -> Step("interrupt", 0)
    [] saved.stage = "running" /\ ~(saved.crashed /\ Rerun) -> Step("lookup", 0)
    [] saved.stage = "unserializable" -> Step("lookup", 0)
    [] saved.stage = "starting" -> Step("replay", 0)
    [] saved.stage = "uploading" -> Step("resume", 0)
    [] saved.stage = "prepared" -> Step("decide", 0)

Read(c) ==
  LET next == NextStep(cp[c]) IN
  /\ pc[c] = "read"
  /\ Go(c, next.step)
  /\ at' = [at EXCEPT ![c] = [Nothing EXCEPT !.retry = next.retry,
                                 !.exec = cp[c].exec, !.unkept = cp[c].unkept]]
  /\ UNCHANGED <<outer, pool, hue, made, cp>>

(* A case left running by a process that died is as one that was stopped.  *)
Interrupt(c) ==
  /\ pc[c] = "interrupt"
  /\ Save(c, [cp[c] EXCEPT !.stage = "interrupted"])
  /\ at' = [at EXCEPT ![c].retry = cp[c].exec]
  /\ Go(c, "fresh")
  /\ UNCHANGED <<outer, pool, hue, made>>

(* startExecution on Hue: the key's execution, or a new one replacing prev.*)
Known(c, key) == {i \in DOMAIN server[c] : server[c][i].key = key}
Start(c, key, prev, exec) ==
  \/ exec \in Known(c, key) /\ UNCHANGED <<server, trace>>
  \/ /\ Known(c, key) = {}
     /\ prev = Current(c)
     /\ ~Completed(c)
     /\ exec = prev + 1
     /\ server' = [server EXCEPT ![c] = Append(@, [key |-> key, done |-> 0])]
     /\ trace' = [trace EXCEPT ![c] = "open"]

(* An execution completed elsewhere counts; an open one is uncertain.      *)
SettledByRunning(c, exec) ==
  /\ IF server'[c][exec].done # 0 THEN Go(c, "done") ELSE Go(c, "target")
  /\ UNCHANGED pool
Settled(c, exec) ==
  IF server'[c][exec].done # 0
    THEN /\ recovered' = TRUE
         /\ Go(c, "done")
         /\ UNCHANGED <<stop, failures>>
    ELSE /\ Fail(c, FALSE)
         /\ UNCHANGED recovered

Replay(c) ==
  /\ pc[c] = "replay"
  /\ \E exec \in Execs :
       /\ Start(c, cp[c].key, cp[c].prev, exec)
       /\ Settled(c, exec)
  /\ UNCHANGED <<outer, made, scored, at, cp>>

Lookup(c) ==
  /\ pc[c] = "lookup"
  /\ IF cp[c].stage = "unserializable"
       THEN Fail(c, FALSE) /\ UNCHANGED <<server, recovered>>
       ELSE UNCHANGED server /\ Settled(c, cp[c].exec)
  /\ UNCHANGED <<outer, made, trace, scored, at, cp>>

(* An outcome whose files were staged is published without a second run of *)
(* the target, unless the output was not kept.                             *)
Resume(c) ==
  /\ pc[c] = "resume"
  /\ IF cp[c].unkept
       THEN Fail(c, FALSE)
       ELSE Go(c, "publish") /\ UNCHANGED <<failures, stop>>
  /\ UNCHANGED <<outer, hue, made, recovered, at, cp>>

-----------------------------------------------------------------------------
(* runCase: a case to be run.                                              *)
Fresh(c) ==
  LET item == items[1][c] IN
  /\ pc[c] = "fresh"
  /\ \/ /\ aborted
        /\ Fail(c, TRUE)
        /\ UNCHANGED recovered
     \/ /\ ~aborted
        /\ IF item.exec \notin {0, at[c].retry}
             THEN IF item.done
                    THEN /\ recovered' = TRUE
                         /\ Go(c, "done")
                         /\ UNCHANGED <<stop, failures>>
                    ELSE Fail(c, FALSE) /\ UNCHANGED recovered
             ELSE Go(c, "save_start") /\ UNCHANGED pool
  /\ UNCHANGED <<outer, hue, made, at, cp>>

SaveStart(c) ==
  /\ pc[c] = "save_start"
  /\ keys' = [keys EXCEPT ![c] = @ + 1]
  /\ Save(c, [Blank EXCEPT !.stage = "starting", !.key = keys[c] + 1,
                           !.prev = at[c].retry])
  /\ Go(c, "start")
  /\ UNCHANGED <<outer, pool, hue, at, runs, answered>>

StartExecution(c) ==
  /\ pc[c] = "start"
  /\ \E exec \in Execs :
       /\ Start(c, cp[c].key, cp[c].prev, exec)
       /\ at' = [at EXCEPT ![c].exec = exec, ![c].live = TRUE]
  /\ Go(c, "save_running")
  /\ UNCHANGED <<outer, pool, made, scored, cp>>

(* Hue refuses a start: another execution is current, or it is completed.  *)
Refused(c) ==
  /\ pc[c] \in {"start", "replay"}
  /\ Known(c, cp[c].key) = {}
  /\ cp[c].prev # Current(c) \/ Completed(c)
  /\ Fail(c, TRUE)
  /\ UNCHANGED <<outer, hue, made, recovered, at, cp>>

SaveRunning(c) ==
  /\ pc[c] = "save_running"
  /\ Save(c, [Blank EXCEPT !.stage = "running", !.exec = at[c].exec])
  /\ Go(c, "target")
  /\ UNCHANGED <<outer, pool, hue, made, at>>

Invoke(c) ==
  /\ pc[c] = "target"
  /\ runs' = [runs EXCEPT ![c][at[c].exec] = @ + 1]
  /\ Go(c, "working")
  /\ UNCHANGED <<outer, pool, hue, at, keys, answered, cp>>

(* The target answers, with or without an output, or throws, is stopped by *)
(* the caller's signal, or gives an output that is not JSON.               *)
Return(c) ==
  /\ pc[c] = "working"
  /\ \/ \E output \in BOOLEAN :
          /\ at' = [at EXCEPT ![c].unkept = output /\ ~setup.persist]
          /\ Go(c, "save_outcome")
     \/ /\ aborted
        /\ Go(c, "interrupted")
        /\ UNCHANGED at
     \/ /\ Go(c, "unserializable")
        /\ UNCHANGED at
  /\ UNCHANGED <<outer, pool, hue, made, cp>>

(* The world the target ran in could not be sealed or read back.           *)
ReturnUncertain(c) ==
  /\ pc[c] = "working"
  /\ faults < setup.faults
  /\ faults' = faults + 1
  /\ Fail(c, TRUE)
  /\ UNCHANGED <<setup, due, hue, made, disk, listed, items, run, aborted, recovered, at,
                 finished>>

SaveInterrupted(c) ==
  /\ pc[c] = "interrupted"
  /\ Save(c, [cp[c] EXCEPT !.stage = "interrupted"])
  /\ Fail(c, TRUE)
  /\ UNCHANGED <<outer, hue, made, recovered, at>>

SaveUnserializable(c) ==
  /\ pc[c] = "unserializable"
  /\ Save(c, [cp[c] EXCEPT !.stage = "unserializable"])
  /\ Fail(c, FALSE)
  /\ UNCHANGED <<outer, hue, made, recovered, at>>

SaveOutcome(c) ==
  /\ pc[c] = "save_outcome"
  /\ Save(c, [Blank EXCEPT !.stage = "uploading", !.exec = at[c].exec,
                           !.unkept = at[c].unkept])
  /\ answered' = [answered EXCEPT ![c] = TRUE]
  /\ Go(c, "publish")
  /\ UNCHANGED <<outer, pool, hue, at, keys, runs>>

(* prepare: files uploaded, local scores taken, the completion saved with  *)
(* its key.  The root span of a live case then ends and is flushed; a      *)
(* resumed case has no flush to decide on.                                 *)
Publish(c) ==
  /\ pc[c] = "publish"
  /\ keys' = [keys EXCEPT ![c] = @ + 1]
  /\ Save(c, [cp[c] EXCEPT !.stage = "prepared", !.key = keys[c] + 1])
  /\ trace' = IF at[c].live THEN [trace EXCEPT ![c] = "sent"] ELSE trace
  /\ Go(c, IF at[c].live THEN "flush" ELSE "decide")
  /\ UNCHANGED <<outer, pool, server, scored, at, runs, answered>>

-----------------------------------------------------------------------------
(* runCase: whether Hue holds the case's telemetry.                        *)
(* The flush, and the span count saved before anything is decided.  The    *)
(* verdict is what TraceAttribution models: no failure that can be this    *)
(* case's, one that names its trace, or one that may be anyone's.  A named *)
(* failure may be of a request whose acknowledgement alone was lost, or of *)
(* a log record: the spans may still be held.                              *)
Flush(c) ==
  /\ pc[c] = "flush"
  /\ \E verdict \in Verdict, count \in setup.counts :
       /\ verdict = "clean" => trace[c] \notin {"lost", "root_lost"}
       /\ at' = [at EXCEPT ![c].verdict = verdict]
       /\ Save(c, [cp[c] EXCEPT !.spans = count])
       /\ trace' = IF verdict = "clean" THEN [trace EXCEPT ![c] = "whole"] ELSE trace
  /\ Go(c, "judge")
  /\ UNCHANGED <<outer, pool, made, server, scored>>

(* A slip: a root span that landed is taken for the trace.                 *)
LandedByRoot(c) == trace[c] \in {"root", "root_lost", "whole"}
(* traceLanded: the root is there, and as many spans as the saved count.   *)
Landed(c) ==
  \/ cp[c].spans = "all" /\ trace[c] = "whole"
  \/ cp[c].spans = "fewer" /\ trace[c] \in {"root", "root_lost", "whole"}

Judge(c) ==
  /\ pc[c] = "judge"
  /\ \/ /\ \/ at[c].verdict = "clean"
           \/ at[c].verdict = "anyone's" /\ Landed(c)
        /\ Save(c, [cp[c] EXCEPT !.export = "accepted"])
        /\ Go(c, "decide")
     \/ /\ at[c].verdict = "named"
        /\ Save(c, [cp[c] EXCEPT !.export = "failed"])
        /\ Go(c, "policy")
     \/ /\ at[c].verdict = "anyone's" /\ ~Landed(c)
        /\ Go(c, "policy")
        /\ UNCHANGED cp
  /\ UNCHANGED <<outer, pool, hue, made, at>>

(* What a case whose telemetry was not accepted comes to.                  *)
Declared(c) ==
  CASE Policy = "pending" -> [cp[c] EXCEPT !.evidence = "pending"]
    [] Policy = "fail_case" -> [cp[c] EXCEPT !.evidence = "omit",
                                             !.export = "not_accepted"]
    [] OTHER -> cp[c]

ApplyPolicy(c) ==
  /\ pc[c] = "policy"
  /\ Save(c, Declared(c))
  /\ IF Policy = "stop"
       THEN \E systemic \in BOOLEAN : Fail(c, systemic)
       ELSE Go(c, "decide") /\ UNCHANGED <<stop, failures>>
  /\ UNCHANGED <<outer, hue, made, recovered, at>>

(* A saved outcome no flush decided on is asked about through the receipt. *)
Decided(c) ==
  LET saved == cp[c]
      landed == saved.export = "pending" /\ saved.evidence # "omit" /\ Landed(c)
  IN IF landed
       THEN [saved EXCEPT !.export = "accepted", !.evidence = "required"]
     ELSE IF /\ Policy = "pending"
             /\ saved.export \notin {"accepted", "not_accepted"}
             /\ saved.evidence = "required"
       THEN [saved EXCEPT !.evidence = "pending"]
     ELSE saved

Acceptable(saved) == saved.export = "accepted" \/ saved.evidence # "required"

Decide(c) ==
  /\ pc[c] = "decide"
  /\ Save(c, Decided(c))
  /\ IF Acceptable(Decided(c))
       THEN /\ Go(c, IF cp[c].done THEN "score" ELSE "complete")
            /\ UNCHANGED <<stop, failures>>
       ELSE Fail(c, FALSE)
  /\ UNCHANGED <<outer, hue, made, recovered, at>>

-----------------------------------------------------------------------------
(* runCase: the completion and the results, each replayed with its key.    *)
Takes(c) ==
  /\ cp[c].exec = Current(c)
  /\ server[c][Current(c)].done \in {0, cp[c].key}

CompleteExecution(c) ==
  /\ pc[c] = "complete"
  /\ IF Takes(c)
       THEN /\ server' = [server EXCEPT ![c][cp[c].exec].done = cp[c].key]
            /\ Go(c, "save_completion")
            /\ UNCHANGED <<stop, failures>>
       ELSE /\ Fail(c, TRUE)
            /\ UNCHANGED server
  /\ UNCHANGED <<outer, made, trace, scored, recovered, at, cp>>

SaveCompletion(c) ==
  /\ pc[c] = "save_completion"
  /\ Save(c, [cp[c] EXCEPT !.done = TRUE])
  /\ Go(c, "score")
  /\ UNCHANGED <<outer, pool, hue, made, at>>

(* uploadScores: a score with a saved receipt is not submitted again; the  *)
(* scores of a case failed for its telemetry were dropped.                 *)
Dropped(c) == cp[c].export = "not_accepted"
Score(c) ==
  /\ pc[c] = "score"
  /\ IF cp[c].uploaded \/ Dropped(c)
       THEN Go(c, "done") /\ UNCHANGED scored
       ELSE Go(c, "save_score") /\ scored' = [scored EXCEPT ![c] = TRUE]
  /\ UNCHANGED <<outer, pool, made, server, trace, at, cp>>

SaveScore(c) ==
  /\ pc[c] = "save_score"
  /\ Save(c, [cp[c] EXCEPT !.uploaded = TRUE])
  /\ Go(c, "done")
  /\ UNCHANGED <<outer, pool, hue, made, at>>

-----------------------------------------------------------------------------
(* Faults, each counted against MaxFaults.                                 *)
Fault == faults < setup.faults /\ faults' = faults + 1

(* An await throws; what it did on disk or at Hue may have been done.  The *)
(* root span ends with the case, and an outcome saved by then keeps the    *)
(* count of its spans.                                                     *)
Throw(c) ==
  /\ Fault
  /\ pc[c] \in Awaits
  /\ \E systemic \in BOOLEAN : Fail(c, systemic)
  /\ trace' = IF at[c].live /\ trace[c] = "open"
                THEN [trace EXCEPT ![c] = "sent"] ELSE trace
  /\ \/ UNCHANGED cp
     \/ /\ pc[c] = "publish"
        /\ at[c].live
        /\ \E count \in setup.counts \ {"unknown"} : Save(c, [cp[c] EXCEPT !.spans = count])
  /\ UNCHANGED <<setup, due, made, sweep, died, server, scored, finished, listed, items,
                 run, aborted, recovered, at>>

(* The flush itself throws, or a checkpoint write around it: it counts as  *)
(* an export that failed.                                                  *)
FlushThrows(c) ==
  /\ Fault
  /\ pc[c] \in {"flush", "judge"}
  /\ Go(c, "policy")
  /\ UNCHANGED <<setup, due, pool, hue, made, disk, finished, listed, items, run, aborted,
                 at>>

(* A read, a write or a request outside the cases throws: the lock is      *)
(* released.                                                               *)
ThrowOut ==
  /\ Fault
  /\ run \in {"record", "sweep", "rescore", "finish"}
  /\ Down
  /\ UNCHANGED <<setup, due, hue, made, disk, listed, finished>>

Abort ==
  /\ Fault
  /\ run # "down"
  /\ ~aborted
  /\ aborted' = TRUE
  /\ UNCHANGED <<setup, due, pool, hue, made, cases, disk, listed, items, run, finished>>

(* The process dies and its lock stays, or is forced to exit and removes it*)
Crash ==
  /\ Fault
  /\ run # "down"
  /\ Down
  /\ died' \in BOOLEAN
  /\ UNCHANGED <<setup, due, hue, made, cp, sweep, listed, finished>>

(* Hue ingests what arrives, some of it late; some of it never arrives.    *)
Ingest(c) ==
  /\ \/ trace[c] = "sent" /\ trace' \in {[trace EXCEPT ![c] = t] :
                                         t \in {"root", "whole", "lost"}}
     \/ trace[c] = "root" /\ trace' \in {[trace EXCEPT ![c] = t] :
                                         t \in {"whole", "root_lost"}}
  /\ UNCHANGED <<outer, pool, made, cases, server, scored, cp>>

(* An operator resolves, at Hue, an attempt no process works on, with a    *)
(* key no run gets to.                                                     *)
Elsewhere == 3 * MaxFaults + 3
Resolve(c) ==
  /\ Fault
  /\ run = "down"
  /\ cp[c].stage \in {"starting", "running"}
  /\ server[c] # <<>> /\ ~Completed(c)
  /\ server' = [server EXCEPT ![c][Current(c)].done = Elsewhere]
  /\ UNCHANGED <<setup, due, process, disk, made, cases, trace, scored, finished, listed>>

RunCase(c) ==
  \/ Read(c) \/ Interrupt(c) \/ Replay(c) \/ Lookup(c) \/ Resume(c)
  \/ Fresh(c) \/ SaveStart(c) \/ StartExecution(c) \/ Refused(c)
  \/ SaveRunning(c) \/ Invoke(c) \/ Return(c) \/ SaveInterrupted(c)
  \/ SaveUnserializable(c) \/ SaveOutcome(c) \/ Publish(c)
  \/ Flush(c) \/ Judge(c) \/ ApplyPolicy(c) \/ Decide(c)
  \/ CompleteExecution(c) \/ SaveCompletion(c) \/ Score(c) \/ SaveScore(c)

Work ==
  \/ List \/ Acquire \/ RecordSweep \/ EndSweep \/ EndPool \/ Rescore \/ Finish
  \/ \E c \in Case : MarkCrashed(c) \/ Pick(c) \/ RunCase(c)
Faulty ==
  \/ ThrowOut \/ Abort \/ Crash
  \/ \E c \in Case : Throw(c) \/ FlushThrows(c) \/ ReturnUncertain(c)
                      \/ Resolve(c)
Next == Work \/ Faulty \/ \E c \in Case : Ingest(c)

(* The process runs on, and is started again when it ends.                 *)
Spec == Init /\ [][Next]_vars /\ WF_vars(Work)

-----------------------------------------------------------------------------
TypeOK ==
  /\ setup \in Setups
  /\ cp \in [Case -> Checkpoint]
  /\ {sweep, died, finished, aborted, stop, failures, recovered} \subseteq BOOLEAN
  /\ server \in [Case -> Seq([key : Nat, done : Nat])]
  /\ trace \in [Case -> Trace]
  /\ scored \in [Case -> BOOLEAN]
  /\ run \in {"down", "record", "sweep", "cases", "rescore", "finish"}
  /\ pc \in [Case -> Steps]
  /\ at \in [Case -> Memory]
  /\ keys \in [Case -> Nat]
  /\ runs \in [Case -> [Execs \ {0} -> Nat]]
  /\ answered \in [Case -> BOOLEAN]
  /\ due \in [Case -> Execs]
  /\ faults \in 0..MaxFaults

(* An execution is given to the target once, whatever process finds its    *)
(* checkpoint (the doc comment of runExperiment: an interrupted run        *)
(* resumes without invoking the target twice).                             *)
InvokedOnce == \A c \in Case : \A e \in Execs \ {0} : runs[c][e] <= 1

(* What the runner completes is the current execution of the case, and     *)
(* nothing completed it with another key: Hue never refuses it.            *)
CompletionTaken == \A c \in Case : pc[c] = "complete" => Takes(c)

(* A case is completed with its trace as required evidence only when Hue   *)
(* holds every span of it, also when the process that flushed it died.     *)
(* The exception is a case of which fewer spans were counted than ended    *)
(* (onEnd drops a span of a full queue before countEnded; the transport    *)
(* remembers a bounded number of traces): the receipt, asked because the   *)
(* flush did not decide, accepts it once Hue holds its root span and as    *)
(* many spans as were counted, so a span below the root may be missing.    *)
EvidenceHeld ==
  \A c \in Case :
    cp[c].done /\ cp[c].evidence = "required" =>
      \/ trace[c] = "whole"
      \/ cp[c].spans = "fewer" /\ trace[c] \in {"root", "root_lost"}

(* A finished experiment has every case completed, and scored unless its   *)
(* scores were dropped with its evidence.                                  *)
FinishedWhole ==
  finished => \A c \in Cases : Completed(c) /\ (scored[c] \/ Dropped(c))

(* What is written down is so: the state is well typed, required evidence  *)
(* is at Hue as far as its spans were counted, and a finished experiment   *)
(* is whole.                                                               *)
RecordsAreTrue == TypeOK /\ EvidenceHeld /\ FinishedWhole

(* The cases follow the ledger: an outcome that was saved is never taken   *)
(* again, and a case is completed from it or by an operator.               *)
Attempts(c) == Cardinality({e \in Execs \ {0} : runs[c][e] # 0})
Progress(c) ==
  IF Completed(c) THEN "completed"
  ELSE IF answered[c] THEN "answered"
  ELSE IF Attempts(c) > 0 THEN "attempted" ELSE "idle"
Ledger == INSTANCE CaseLedger WITH
  cases <- Cases,
  attempts <- [c \in Case |-> Attempts(c)],
  standing <- [c \in Case |-> Progress(c)]
KeepsLedger == Ledger!Spec

(* A crash sweep was recorded while this attempt was running: however the  *)
(* run that recorded it ended, the sweep is not over before it marked it.  *)
Swept(c) == due[c] = cp[c].exec

(* What leaves a case to an operator: a start or a run without an outcome, *)
(* an output that was not JSON or was not kept, a trace Hue does not hold. *)
Uncertain(c) ==
  \/ cp[c].stage \in {"starting", "unserializable"}
  \/ cp[c].stage = "running" /\ ~(Rerun /\ (cp[c].crashed \/ Swept(c)))
  \/ cp[c].stage = "uploading" /\ cp[c].unkept
  \/ cp[c].stage = "prepared" /\ ~Acceptable(cp[c])

(* A run that is started again until it ends finishes the experiment,      *)
(* unless a case stays uncertain (the recovery in runCase); a case that a  *)
(* recorded sweep found running does not stay so, however often the sweep  *)
(* is cut short.                                                           *)
Resumes == <>finished \/ []<>(run = "down" /\ \E c \in Case : Uncertain(c))

=============================================================================
