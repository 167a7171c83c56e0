# hue-sdk in TLA+

This directory models the parts of the Hue TypeScript SDK
(`src/packages/sdk-typescript/src`, called `ts/` below) whose correctness depends
on the order of things: processes that crash and resume on one directory,
telemetry that is queued, exported, refused and retried while flushes overlap,
workers and commands that share a queue, a world or an installation with others.
Each module is translated from the source and model-checked with TLC on a small
instance; the modules named in section 5 carry theorems that the TLA+ proof
system checks for every value of their constants.

Run a check from this directory:

    tlc -workers 2 -config EvalWorker.cfg MCEvalWorker.tla
    tlapm EvalWorkerProofs.tla

`PROJECT.json` lists the components, the runs, the lines every definition
translates (`map`), the mutants that show each property can be broken, the
hazards and the theorems.

## 1. The system

| component | code | state it keeps | operations | hard behaviour | module |
|---|---|---|---|---|---|
| checkpoint lock | `ts/evals/checkpoint.ts` | `.lock/`, `.lock-dead-*`, an owner record | acquire (mkdir, read, probe, rename, verify), release | every file call interleaves with other processes; crashes; reused pids; other machines | `CheckpointLock` |
| experiment runner | `ts/evals/runner.ts` | case checkpoints, sweep mark, pool | `runExperiment`: list, sweep, pool, a case step by step, finish | crash or stop between any two awaits, lost answers, stale listings | `ExperimentRun`, `CaseLedger` |
| loss attribution | `ts/transport.ts`, `ts/evals/runner.ts`, `ts/receipt.ts` | issue log, counts of ended spans, `exportState` | issue, flush, traceLanded, decide | one bounded log for all cases in flight; the log dies with the process | `IssueLog`, `TraceAttribution` |
| local worker | `ts/evals/local-worker.ts` | identity on disk, attempts in memory | claim, run, hand over, complete, give up | lost answers; runs moved by others while work is under way | `LocalWorker` |
| a case in a world | `ts/evals/environment-target.ts` | the world at Hue, the call's frame | create, prepare, target, inspect, seal | deadline, stop and answer race; finishes without an answer; expiry | `EnvironmentTarget` |
| evaluation command | `ts/cli/eval.ts` | the judge handoff on disk, running commands | agent commands, interrupts, handoff, recovery | process groups that outlive their shell; crash between handoff, completion and judges | `AgentCommand`, `EvalWorker` |
| telemetry queue | `ts/transport.ts` | record and byte budgets, deferred spans, cohorts | enqueue, publish, announce, export, finish, uploads | limits; a record admitted twice; uploads that outlive records | `TelemetryQueue` |
| telemetry flush | `ts/transport.ts`, `ts/client.ts` | chain of client flushes, chain of sends, sequences | flush, flushRecords, sendRecords, flushReport | overlapping flushes, hanging providers, timed exports | `TelemetryFlush` |
| OTLP delivery | `ts/transport.ts`, `ts/limits.ts` | receiver limits, dropped counts by trace, rate-limit holds | measure, pack, deliver, send, attempt | limits move during a request; partial success; silence; retries | `OtlpDelivery` |
| value uploads | `ts/blobs.ts` | places, queued uploads, held bytes, outcomes | enqueue, share, reserve, put, complete, close | a place changes hands during a pause; shared outcomes; deadlines | `ValueUploads` |
| trace import | `ts/cli/traces-import-upload.ts` | progress file, pending writes, workers | values, batches, receipt, completion, report | coalesced writes, crash and resume, stops, late requests | `ImportUpload`, `ImportLedger` |
| event listener | `ts/cli/listen.ts` | remembered answers, tasks, leases | pull, forward, acknowledge, stop | redelivery, leases, two-stage stop | `EventListener` |
| managed target | `ts/managed.ts` | nothing between requests; Hue's claim and outcome of an execution | claim, inputs, target, files, outcome, flush, acknowledgement | duplicate posts, lost and late callbacks, two deadlines, a target or flush that hangs | `ManagedTarget`, `FlushPromise` |
| project setup | `ts/setup/*.ts` | installation record, checkpoint, command lock | provision, credentials, verify, hand over, claim, refuse | kills between record and request; unanswered requests; owner acts meanwhile | `ProjectSetup` |

How they interact. An application's spans enter the *queue*; batch processors
hand them to an exporter, whose *delivery* turns a batch into requests and whose
large values go to the *uploads*; a *flush* waits for all of it and throws what
the issue log recorded since its start. The *experiment runner* runs a target for
every case, flushes, and asks the *attribution* whether the case's own telemetry
arrived; it keeps every decision in a checkpoint directory guarded by the *lock*.
A *managed target* is called by Hue and flushes the same pipeline before it
acknowledges the telemetry of an execution.
The *local worker* claims queued runs from Hue and runs an experiment for each;
in `hue eval --worker` each case is a *call in a world* that starts an *agent
command*. The *listener*, the *importer* and *setup* are commands of their own.
Hue, the operating system and OpenTelemetry's processors are not in this
repository: their definitions are marked `external` in the map and follow what
the code relies on.

What makes each part correct:

- lock: one owner per directory; taken only from a process that exited.
- runner: an execution is given to the target once; a saved outcome is not taken
  again; a finished experiment is whole; evidence is held when it is required,
  as far as it was counted; a restarted run goes on and a sweep is not cut short.
- attribution: a case with a loss of its own is not accepted; a named failure is
  final.
- worker: completed means finished; nothing is left claimed; the queue drains.
- case in a world, agent command: an answer is saved only when nothing is left of
  the process group that gave it, and a case only when its world is sealed or
  expired.
- handoff: a completion the command was told of has its judges or its handoff.
- queue: places and bytes balance; a host's promise is resolved neither early
  nor never.
- flush: success covers what was emitted before the call; a failure is thrown by
  some flush.
- delivery: every span is counted once; success is acknowledgement; a loss is
  shown by the root or still counted; every export ends while the limits are not
  raised for ever.
- uploads: no place is lost, doubled or idle; memory is charged once; an outcome
  is shared only with the same bytes; every upload settles.
- import: the file names only what Hue holds; what it names is not sent again;
  repeated runs deliver the import.
- managed target: the target is called once for an execution; an answer means
  that Hue has the outcome, and the outcome the files; telemetry is acknowledged
  after it was sent; every request is answered.
- listener: a delivery is sent once while it is remembered; what was accepted is
  acknowledged; a stop stops.
- setup: nothing is requested twice that may not be; the anonymous key stays
  known until Hue refuses it; repeated commands end ready.

## 2. The modules and the code

Actions have the names of the functions they translate where TLA+ allows it, and
are whole handlers between two awaits: other processes and callbacks run in
JavaScript only at an await, so a step of the model is the code from one await
to the next. A definition called after a slip in the code (`EmptyIsFree`,
`ConsumeAll`, ...) stands before the definition it would replace; it is used by
no action, and shows that the property it breaks depends on that line.

**CheckpointLock** (`ts/evals/checkpoint.ts`). A directory is its content:
absent, empty, or the process whose owner record it holds. `Mkdir`, `ReadOwner`,
`Probe`, `Rename`, `Verify`, `MoveBack`, `Remake` and `WriteOwner` are the calls
of `acquire`, `createLock` and `reclaimLock`, one file system call each;
`Unlink` and `Rmdir` are the recursive removal of `release`, which works by
path. A process of the model is one incarnation. `Probe` may answer "running"
for a process that exited, since its pid may be in use again. `stale` and
`abandoned` are histories: a rename moved another lock than the one read, and an
owner died while it ran cases.

**ExperimentRun** (`ts/evals/runner.ts`). `cp` is each case's checkpoint file,
`sweep` the recorded crash sweep, `server` Hue's executions of each case, `trace`
what Hue holds of the case's trace. `List`, `Acquire`, `RecordSweep`,
`MarkCrashed` and `EndSweep` start a process; `Pick` and `EndPool` are the pool;
`Read` to `SaveScore` are `runCase`, one action per await. `Throw`,
`FlushThrows`, `ThrowOut`, `Abort`, `ReturnUncertain` and `Crash` are what may
happen at any await: a call that fails, whether or not it had its effect, the
caller's signal, a target that does not say what happened, a death that loses
everything but `disk` and `hue`. An experiment is set up as one of `Setups`:
which cases, the policy for a trace that was not accepted, whether results are
kept, whether the next process may list its items while another still runs, and
how many faults strike it. `spans` is the count saved of the spans the case ended:
unknown, of all, or of fewer, since `onEnd` drops a span of a full queue before
it is counted and the transport forgets the oldest of 10 000 traces; `Landed`
holds the receipt to that count, and so accepts a case of which fewer were
counted once the root is there. `due` is a history: the executions that were
running when a crash sweep was recorded.

**CaseLedger** is the abstract specification of a case: idle, attempted,
answered, completed, with no process or disk. `ExperimentRun!Ledger` maps a case
to it from Hue's executions and the saved outcomes, and `KeepsLedger` says that
every step of the runner is a step of the ledger or a stutter.

**IssueLog** and **TraceAttribution** (`ts/transport.ts` `issue`,
`traceIdsOf`, `countEnded`; `ts/evals/runner.ts` flush, `traceLanded` and the
decision; `ts/receipt.ts`). The log keeps the last `History` issues; an issue
names a set of traces or, past `MaxNamed`, nobody. Each case has a child span, a
root span and a log record that are admitted, dropped, accepted, rejected or
lost, in batches that may mix cases. `Flushed`, `SaveCount`, `Decide` and
`AskReceipt` are the runner's steps; `Crash` empties the log and the counts.

**LocalWorker** (`ts/evals/local-worker.ts`). `queue` is Hue's queue, `claim` the
run the worker works on, `attempts` the failures it remembers. `Poll`,
`RunFinishes`, `RunFails`, `RunRecurs`, `HandOver`, `Complete`, `GiveUp`,
`WaitEnds` and `Return` are the loop; a fault is a request without an answer,
with or without its effect, a failed run, the caller's stop or the end of the
process; `Move` is a member who releases or queues a run again; `Recover` is the
completion a caller makes again before it starts the worker.

**EnvironmentTarget** (`ts/evals/environment-target.ts`). One call of
`runEnvironmentTarget`: `Create`, `Prepare`, then the target, whose `Return`
races with the `Deadline`, then `Inspect` for what failed, `Seal` and, for a
completing gateway world, `Settle`. `world` is Hue's; it expires when it likes.
What cannot be confirmed ends as "uncertain", which saves nothing.

**AgentCommand** (`ts/cli/eval.ts` `spawnAgentCommand`, `settleCommands`). A
shell and the agent it started, in one process group, and the CLI's handle of
them: running, sweeping what a closed command left behind, stopping, settled.
`Exits` is the system's: processes end in any order, the shell possibly first.
`members` is what `running` sees of them: the group, or on a platform without
groups (the runs outside `Grouped`; Windows) the shell alone, so that a command
settles there whether or not its agent is left. `Kill` may leave a "survivor",
for a SIGKILL that was refused or is slow, and `StopEnds` settles the command beside it.

**EvalWorker** (`ts/cli/eval.ts` `runWorker`, `runEvalCommand`) composes the
three. It EXTENDS `LocalWorker` and instantiates `EnvironmentTarget` and
`AgentCommand`, and adds what is its own: the case in the checkpoint (`case`),
the judge handoff (`pending`), the request of the judges (`judging`, `judged`)
and the completions Hue confirmed to it (`acked`). Every action is one of the
worker's, of the call's, of a command's, or of two of them at once: `Interrupt`
is the worker's stop and an abort of every command; `Settles` settles a command
and answers the target that waits for it. A run has one case; those in `Pinned`
pin a world, the others run the command alone.

**TelemetryQueue** (`ts/transport.ts` onEnd, enqueue, publishDeferredHttp,
announceLiveSpans, exporting, holdDelivery, finish, finishDelivery,
reportUploads, forceFlush, shutdown).
`bytes` is what a record was charged, `deliveries` the cohort that waits for it,
`promised` the cohort whose promise its host has. `Sent` is what OpenTelemetry's
batch processor takes for one export.

**TelemetryFlush** (`ts/client.ts` flush, flushProviders; `ts/transport.ts`
flush, flushRecords, sendRecords, flushReport, drainUploads). `sending` and
`sendPromise` are the two promise chains. `since` and `from` are what a flush
remembers at its call and at its start; `owed` is the history of what was
unsettled at its call. A batch is one record, a record may be refused at any
time, and an export may start at any time, since a processor has a timer.

**FlushPromise** is the abstract specification of a flush: a record is new,
pending, settled or lost; a call covers what was pending when it began; one that
succeeds has settled all of that and leaves no loss that no flush threw.
`TelemetryFlush!Promise` maps the detailed module to it (`Fate`, `Call`, `owed`,
`unreported`), and `KeepsPromise` says that every step is one of its steps or a
stutter. Two modules are built on it: the one that implements it and the one
that uses it.

**ManagedTarget** (`ts/managed.ts` createManagedTargetHandler). A request is a
`Handler`: `Receive`, the claim, `CallTarget`, the target's end, the files
(`Reserve`, `Put`, `Complete`, `FileFails`), `Conclude` (the span ends), the
outcome, the flush and the acknowledgement, one action per await. A callback is
posted (`Post`), acted on by Hue at any later time (`HueActs`), and answered or
not, so that an answer may be lost, a repeat may arrive twice, and a post may
arrive after its request has given up. `Tick` is the deadline the request is
held to. The callbacks of one file are a step each, since they concern nobody
else. The flush is `FlushPromise`, instantiated with one record and one flush
per request, shared by all requests: a flush may end after its request, and may
throw for the span of another. A process that dies is a handler that takes no
more steps; nothing is kept, so no restart is modelled.

**OtlpDelivery** (`ts/transport.ts` placeAndSend, fit, deliver, pack, send,
attempt, `OtlpHttpTransport.send`, withDroppedRecords, consumeDroppedRecords,
countUndelivered, holdForRateLimit, releaseRateLimitHolds; `ts/limits.ts`).
`Measure` fits each record, `Pack` takes the next batch, `Deliver` makes a
request or splits or sheds, `Post` reads the limits again, and `Acknowledge`,
`GiveUp`, `Retry` and `RateLimited` are what a receiver may answer, each with
new limits. A record is full or bare; a request's encoded and compressed sizes
are one number, so a batch that compresses worse than expected appears as a
limit that was lowered. A root carries the count of its trace's records that
were never sent; `shown` is what Hue's copy of the root carries.

**ValueUploads** (`ts/blobs.ts` `Slots`, `BlobUploader`). An upload is one
reference of a record to a value. `Enqueue` charges what it keeps alive, `Share`
and `StoreFresh` decide whether it waits for an upload of the same bytes,
`ReserveAnswer`, `PutAnswer` and `CompleteAnswer` are its requests, `WaitEnds`,
`Overdue` and `Resume` its pauses, during which its place goes to another, and
`Close` ends all of them.

**ImportUpload** (`ts/cli/traces-import-upload.ts`). `file` is the progress in
memory, `disk` the progress file, `writing` the writes under way and `timer` the
write that is due. A worker takes the next trace (`Pick`), sends its values, its
batches and asks its receipt, one request at a time (`Begin`, an answer, `Fail`,
`Abort`); the main actor registers, joins, completes and reports. A request whose
answer nobody awaits any more is in `late` and may still arrive. **ImportLedger**
is the abstract specification: a value before the batches of its trace, batches
in order, the import completed only when every trace is whole.

**EventListener** (`ts/cli/listen.ts` `runListenCommand`). The loop pulls
(`BeginPull`, Hue's answer, `ReadAnswer`), starts a task for each delivery
(`Start`, `Forwarded`, `SendAck`, ...) and waits for the batch (`BatchEnds`);
`remembered` holds the answers of forwards already made. `Interrupt` is a signal
at any step; `second` says that the second within which a repeat is ignored has
passed.

**ProjectSetup** (`ts/setup/runner.ts`, `installation.ts`, `backend.ts`,
`application.ts`, `lock.ts`). A command is a sequence of durable writes and
requests over the installation record `rec`; `mem` is its copy in memory. After
each of them it may throw or be killed. `OfferMoves`, `Refuse` and `HourPasses`
are the owner, Hue and time.

## 3. The runs

| run | instance | properties | what it shows |
|---|---|---|---|
| `lock` | 3 processes of one machine and 1 of another | `OneOwnerUnlessStale`, `TakenFromTheDead` | the takeover is exclusive unless a rename moves a lock that changed hands |
| `experiment` | `Pair`: 2 cases at a time, 1 fault, `fail_case`, every span counted; `Single`: 1 case, overlapping processes, 3 faults, `pending`; `Stopping`: the same with 2 faults, `stop` | `InvokedOnce`, `CompletionTaken`, `RecordsAreTrue`, `KeepsLedger`, `Resumes` | the checkpoint protocol implements the ledger, records what is so, and goes on |
| `attribution` | 2 cases, history of 1, 2 issues, 1 crash | `FlushAcceptsWhole`, `DecisionsHold` | attribution under a history that rolls past |
| `eval_worker` | 2 runs of one case, one in a world and with process groups, one without either; 2 faults, 1 move, 1 other lost answer | `CompletedIsFinished`, `SealedFirst`, `HandoffKept`, `SettledIsReleased`, `WorkEnds` | the worker with its cases, worlds, commands and judges |
| `telemetry_queue` | 2 spans, 1 log, 4 cohorts, 1 upload, 2 records and 4 bytes | `QueueAccounts`, `HostPromiseHolds`, `PromisesResolve` | books balance and promises are kept and resolved |
| `telemetry_flush` | 2 records, 2 client flushes, 1 transport flush, 2 issues | `KeepsPromise`, `SendsEnd` | overlapping flushes implement `FlushPromise`; the transport's send ends |
| `otlp_delivery` | 2 exports of one trace, limits 1 and 3, 2 retries, a hold of 1 | `CountsAddUp`, `RootsShowLosses`, `ExportsEnd` | delivery against any receiver |
| `value_uploads` | 5 references to 4 values, 1 place, 2 attempts, 2 faults | `PoolAddsUp`, `OutcomesShared`, `Settles` | places, memory and outcomes |
| `import_upload` | 2 traces (a value and 2 batches; 1 batch), 2 workers, 2 faults | `RecordsAreTrue`, `KeepsLedger`, `NotSentAgain`, `RunsEnd` | the import over stops, deaths and new runs |
| `event_listener` | 2 deliveries, answers of 2 items, 1 remembered answer, 2 runs | `AnsweredOnce`, `StopIsOrderly`, `Stops` | redelivery and stops |
| `managed_target` | 2 requests for 1 or 2 executions, up to 2 files of one of them | `CalledOnce`, `AnswersAreTrue`, `TelemetryIsSent`, `Answers` | one execution's path through lost, late and repeated callbacks |
| `setup` | the five commands, budget 3, 2 a command, 3 handoffs, 3 faults | `NothingRepeated`, `RecordsAreTrue`, `NothingForgotten`, `Reconciles` | any sequence of interrupted commands |

A module's `TypeOK` is a conjunct of one of its run's properties where it is not
one itself; the types of `TelemetryFlush` are `FlushTyped` in its proofs.

Why the bounds are enough, and what each bound is:

- *lock*: the races need an owner, a taker and a newcomer; a fourth process, on
  another machine, is one whose death the others may not judge. Symmetry is over
  the three of one machine.
- *experiment*: `MaxFaults` counts crashes, stops, forced exits, failed awaits
  and an operator's act. Three faults put one before, within and after a resumed
  attempt; a second case is needed only for the pool, and is checked with one
  fault. `Execs` and `Keys` are as many as the faults can cause. A case has a
  root span and one below it, so a count of fewer is met by the root alone; the
  kinds of count (`Setups`) are all there with one case.
- *attribution*: a history of one issue is rolled past by the first issue of
  another case, which takes 128 in the code. The instance has two cases and a cap
  of two names, so the cap is not passed; a batch of spans of both cases that is
  rejected in part names nobody in the same way. No count is forgotten in it. The
  theorem `FlushAcceptance` is of any cap and any number of remembered traces.
- *evaluation worker*: two faults of the worker (`MaxFaults`: a lost answer, a
  failed run, a death or the first interrupt) and one lost answer or refusal
  outside it (`MaxLost`) reach a crash with a handoff on disk whose recovery is
  lost in turn, a stop followed by a forced exit, and a give-up after both
  attempts; one move releases a run under any of them. The second run is needed
  for a handoff that the next run's would overwrite and for a command that is
  still stopping while the next case begins. World expiry, process exits and
  processes that outlive SIGKILL are free.
- *queue*: sizes 1 and 2 of 4 bytes make the byte limits of records and of
  placeholders bite, and one pending span the record limit of placeholders. With
  two places for spans and a limit of two the record limit refuses no record;
  a refusal changes nothing, whichever limit it is for, and `AccountsHold` is of
  every limit. With four cohorts one is current, one is sealed, one waits for an
  upload and one is new.
- *flush*: two client flushes overlap with one of the transport in every order;
  two issues let one fall between them.
- *delivery*: the sheddable span travels as 2 or 1, the other span as 2 only, so
  at limit 1 one is shed and one is lost; the root and a span that ended after
  it share a batch of 3 that splits when the limit falls. One hold is within the
  export's budget and a second one is not. Two retries (5 in the code) are the
  least with which one request can lower the limits and raise them again: with
  one retry, exports that refit each other for ever do not occur.
- *uploads*: with a single place every other upload waits; two references share
  one value and the file of one of them has changed; three texts of 1 and 2
  bytes against a budget of 4 are held once, by two and by three.
- *import*: a trace with a value and two batches has every order to keep, a
  second one runs beside it; two faults are a stop or death with something in
  flight and another one in the run that resumes. `MaxWrites` lets a write queue
  behind one under way.
- *listener*: one remembered answer (1024 in the code) is evicted by the second
  delivery, in a batch of two (10); two runs have a death between them.
- *managed target*: two requests collide over one execution, or share the
  pipeline as two executions; two files are the least of which one fails while
  the other is kept, in either order. Every callback but the claim is tried
  twice, which is the code's number. Nothing is bounded but the number of files.
- *setup*: a budget of 3 requests with 2 a command is exhausted in the second
  command; three faults strike a write, the request after it and the command
  that repairs; three handoffs are the project's, another copy's and a restart's.

Deadlock checking is off in every cfg: a process of the lock ends, an experiment
finishes, exports and bounded counters come to an end, and the terminal states
are the ones that should be.

## 4. Fairness

- `ExperimentRun`: weak fairness of the work. A process runs on while it lives
  and is started again when it ended, which is what a user, a CI job or a
  supervisor does; nothing is assumed of faults, of ingestion or of others.
- `EvalWorker`: weak fairness of `Worker`, which is the same and that Hue
  answers but for the bounded failures, and of `Commands`: the timers of a
  command fire whatever the worker does. Nothing is assumed of processes: one
  that ignores SIGTERM is killed.
- `TelemetryQueue`: a processor's timer fires (`scheduledDelayMillis`), an export
  ends within its budget (the processor's `exportTimeoutMillis`; `OtlpDelivery!ExportsEnd`
  is the reason unless limits are raised for ever), an upload settles within its lifetime (`ValueUploads!Settles`), and a deferred response
  is read or dropped.
- `TelemetryFlush`: exports and deferred responses end and a send whose turn it
  is goes on. Nothing is assumed of a borrowed provider, which may hang, nor of
  uploads.
- `OtlpDelivery`: an export's own next step is taken. A post is answered or
  aborted at its deadline (`attempt`'s timer), and a hold has a timer. A wait is
  positive: a `Retry-After` is held only when it lies past the deadline. Nothing
  is assumed of the limits a receiver advertises, so `ExportsEnd` excepts the
  export that answers to another one send back for ever (section 6).
- `ValueUploads`, `ImportUpload`: while some upload or actor can go on, one
  does. A request ends by its answer or its deadline, a pause by its timer, a
  write by the file system; the import's command is run again as its report asks.
- `EventListener`: the same for the command's progress, and the time a lease
  leaves passes. Nothing is assumed of what is answered.
- `ManagedTarget`: while a request is open its handler goes on or its deadline
  passes. Nothing is assumed of Hue, of the target or of the flush: the deadlines
  alone end a request that waits.
- `ProjectSetup`: a running command goes on; the owner runs commands again and
  removes a lock that was left, as the message asks; Hue refuses a replaced key
  in the end.
- `CheckpointLock`, `TraceAttribution`: no fairness; only safety is stated.

## 5. The proofs

| theorem | module | says |
|---|---|---|
| `DeadOwners`, `OneOwnerPerDirectory` | `ExperimentRunProofs`, of `CheckpointLock` | `[]TakenFromTheDead`, `[]OneOwnerUnlessStale` |
| `FlushAcceptance` | `DeliveryProofs`, of `TraceAttribution` | `[]FlushAcceptsWhole` |
| `Decisions` | `DeliveryProofs`, of `TraceAttribution` | `DecisionsHold`, while no trace's count is forgotten |
| `CountsHold`, `LossesAreShown` | `DeliveryProofs`, of `OtlpDelivery` | `[]CountsAddUp`, `[]RootsShowLosses` |
| `PoolBalances`, `OutcomesAreTrue` | `DeliveryProofs`, of `ValueUploads` | `[]PoolAddsUp`, `[]OutcomesShared` |
| `Completions`, `Settlements` | `EvalWorkerProofs` | `[]CompletedIsFinished`, `SettledIsReleased`, of the worker alone |
| `ImplementsWorker` | `EvalWorkerProofs` | every behaviour of `EvalSpec` is one of `LocalWorker` |
| `EvalCompletions`, `EvalSettlements` | `EvalWorkerProofs` | the worker's two, of the composition |
| `Seals`, `Handoffs` | `EvalWorkerProofs` | `[]SealedFirst`, `[]HandoffKept` |
| `HostPromises`, `AccountsHold` | `TelemetryProofs`, of `TelemetryQueue` | `[]HostPromiseHolds`, `[]QueueAccounts` |
| `FlushKeepsPromise` | `TelemetryProofs`, of `TelemetryFlush` | `KeepsPromise`: the flush implements `FlushPromise` |
| `FlushDelivers`, `FailuresThrown` | `TelemetryProofs`, of `TelemetryFlush` | the same in the flush's own terms: `[]FlushCovers`, `[]FailuresAreThrown` |
| `GivenOnce`, `CompletionsTaken`, `RecordsHold` | `ExperimentRunProofs` | `[]InvokedOnce`, `[]CompletionTaken`, `[]RecordsAreTrue` |
| `LedgerKept` | `ExperimentRunProofs` | `KeepsLedger`: the experiment runner implements `CaseLedger` |
| `TargetCalledOnce`, `RepliesAreTrue`, `AcknowledgedIsSent` | `ManagedTargetProofs` | `[]CalledOnce`, `[]AnswersAreTrue`, `[]TelemetryIsSent` |
| `RecordsHold`, `RecordedIsNotSent` | `ImportUploadProofs` | `[]RecordsAreTrue`, `NotSentAgain` |
| `DeliversInOrder` | `ImportUploadProofs` | `KeepsLedger`: the upload implements `ImportLedger` |
| `ListenerAnswersOnce`, `ListenerStopsInOrder` | `CommandProofs`, of `EventListener` | `[]AnsweredOnce`, `[]StopIsOrderly` |
| `NothingIsRepeated`, `RecordsHold`, `NothingIsForgotten` | `CommandProofs`, of `ProjectSetup` | `[]NothingRepeated`, `[]RecordsAreTrue`, `NothingForgotten` |

They assume only the named assumptions on the constants (finite sets where a
counter counts them, positive limits, a `None` that is no element). The argument
is an inductive invariant in each case:

- *lock*. `OneOwnerUnlessStale` is not inductive: it says nothing of a process
  that is about to write its owner record. The strengthening ties the phases in
  which a process owns the path to the content of the directory while no stale
  rename has happened; the owner seen by a taker stays dead because a process
  that is gone takes no step.
- *attribution*. The invariant keeps, for every case that has lost a record, that
  the loss is *noted* (`LossNoted`): some failure since the case began is either
  past the window of the history or retained by an issue that names the case or
  nobody. A case is accepted on the flush only when nothing is noted. Each issue
  moves the window, so the lemma `IssueKeeps` is where the bounded history is
  dealt with; `Drained` says that a flush leaves nothing queued. `Decisions` needs
  that nobody's count of ended spans is forgotten (`NoneForgotten`: the transport
  remembers 10 000 traces): then the count is the number of the case's spans that
  ended (`CountsTrue`), before and after it is saved and through a crash, and a
  receipt that shows as many shows them all (`LandedWhole`).
- *worker*. `HandsOverFinished`: between the end of the experiment and the
  completion the claim is a finished run, whatever happens to the queue.
- *evaluation worker*. That it implements `LocalWorker` is shown action by
  action: each is an action of the worker with more conjuncts, or leaves `vars`
  alone; the two invariants of the worker then carry over through the lemmas
  about it alone. For `SealedFirst` the invariant follows a case through its
  life (`SealInv`): a call that waits in a world is the call of the claimed,
  pinned run whose case is "running" (`CallIsOfACase`); a command belongs to a
  case that was begun (`CommandOfACase`); and what is saved, or about to be, is
  final (`OutcomeIsFinal`): with the world sealed or expired, and for an output
  with nothing of its command's group left but what outlived SIGKILL. For
  `HandoffKept` it says (`JudgeInv`) whose
  judges are being requested, and that the handoff of a completion the CLI was
  told of names that run until they are.
- *queue*. A cohort is a counter in the code. The invariant says what it counts
  (`Counted`): the records and the uploads that name the cohort. `Placed` keeps a
  place in one processor or one export, so that it is settled once; `Kept` ties
  the host's promise to the cohort that waits for the record; `Settled` makes a
  cohort resolved exactly when it counts nothing. For the books, `Found` says that
  a record that waits is held by somebody, `Charged` that what is pending is the
  sum of all places' charges and a free place has none, `Placeholders` and `Roomy`
  what each budget was measured against. The sums are those of the module (a fold
  over a set whose elements it chooses); what they need to be computed with (an
  element more or less, a union, a part) is shown once, in `SumTheorems`.
- *flush*. `Followed` says of every record a flush owes where it is by the
  flush's phase (not new; exporting or settled; waited for; settled), and that its
  loss shows in the sequence the flush compares with. `Behind` orders the
  sequences. The refinement uses both: a report leaves nothing unthrown because
  every unthrown failure is between the observed and the last sequence, and one
  that does not throw has settled what it owes by `Followed`.
- *OTLP delivery*. `Lined` says where the spans are that have not left the
  exporter: each of them once, among the records to measure, those measured, the
  batches to deliver and the request, whichever way a batch is cut, sent back or
  shed; the lengths of these lists then are their number (`OpenCount`), which is
  what `CountsAddUp` adds up. `Staged` says that nothing is packed before all is
  measured and that whatever Hue did not answer for fails its export. For the
  losses, `Carrying` bounds what a request carries by what its trace lost and says
  that it is a root that carries it; `Kept` says that only a root Hue may have
  stored shows any, so that an acknowledgement forgets what is then shown; and
  `Unfitted` follows the spans an export could not fit, from the count to the
  root's request and to the root, which works because a root's request is made
  after they were counted and only an acknowledgement of this root, the trace's
  only one, takes from the count.
- *value uploads*. `Places` counts the uploads that have a place, those past their
  deadline apart, since only they may exceed the size; that nobody waits while a
  place is free then survives every exchange: `GiveKeeps` and `TakeKeeps` are
  proved once and cited by each step that gives a place up or takes one. `Charges`
  works on sums over the texts: a text is new when nobody holds it and goes when
  one upload does. `Outcomes` gives each value one remembered outcome, which every
  unsettled upload that does not share has (`JoinKeeps`: what makes room is
  settled, so no unsettled one is forgotten), and that is why the same bytes are
  never under way twice. It also says that nobody shares with one that shares;
  with `Places` this makes the pool free of circular waits (`SomeoneGoesOn`),
  which is the part of `Settles` that needs no fairness.
- *import*. `Placed` and `Shared` tie where a worker is to what it has in flight
  and give each trace to one worker; `Needed` says that a worker asks for what the
  file in memory says comes next, hence sends nothing recorded; `SavedIsHeld` is
  kept because an item is recorded only after Hue answered for it. A request whose
  sender stopped or died may still land: `LateIsDue` says that a late batch is due
  when it does, which is what the ledger asks. `Written` orders the writes under
  way behind the file, the last one being the file when nothing changed since, so
  that a run that ends leaves the file on disk.
- *managed target*. `Holds` says that only the request Hue gave the execution to
  goes past the claim, and that its target has ended when it files. What makes
  late callbacks harmless is `Fixed`: once an outcome was posted, nothing it says
  changes any more, so that whatever Hue takes, and whenever, is the same
  (`SavedTrue`). `Files` says which files are stored by the next one's number.
  `Covers` ties the acknowledgement to the flush: the span has ended before the
  flush begins, an open flush covers it while it is pending, and its loss is
  either still to be thrown or was thrown.
- *experiment runner*. The invariant is one of each case (`Local`) and one of the
  process (`Drained`). `Placed` says with which checkpoint each step is taken, so
  that what holds of the disk carries over to the step the next process resumes
  at. `Keyed` makes every key new to Hue until it is sent, hence a live start
  makes a new execution; `Executing` ties the execution a checkpoint or a step is
  about to the current one, the only one that can be completed; `Invoked` then
  has it given to the target once, and `answered` exactly when the outcome is on
  disk. `Held` follows the trace: no completion before it was accepted or waived,
  and an accepted trace is whole, but for spans that were not counted. A step of one case leaves the others alone and
  undoes nothing that ended (`Apart`), so each action is looked at for its own
  case. For the ledger, five steps are entries of it (the call, the saved
  outcome, the completion, an operator's resolution, the end) and the others,
  also a replayed start, change nothing it sees.
- *listener*. `SentAndKnown` says of every request that was sent once where it
  still shows: a task forwards it, its answer is remembered, or nothing is sent
  any more; a batch starts when no task is left, and each delivery once in it
  (`KeptIsKept`, about the fold that reads an answer of any length), so a request
  is sent a second time only when it was forgotten. `Accepted` follows what is
  owed from the answer that is being read to a task that still has its first
  acknowledgement to send; `Whereabouts` says that interrupts go unheard only when
  the loop has ended and a repeat of the stop would count as a new one.
- *setup*. `InMemory`: what a command works with is the record on disk, so that a
  kill between two writes leaves the next command what this one knew. `Course`
  says what each step of a command stands on, `AskedOnce` that the application is
  asked only after the attempt was saved, `Counted` that the saved attempts cover
  the provisioning requests of the hour, the one about to be sent included.
  `KnownOfHue` ties the record to the service (a record that says revoked stands
  for a key Hue refuses), and `AnswerAwaited` says that the one handoff that may
  be unanswered is the request that is recorded, so none other is replaced.

Only model-checked: the temporal properties under fairness (`Resumes`,
`WorkEnds`, `PromisesResolve`, `SendsEnd`, `ExportsEnd`, `Settles`, `RunsEnd`,
`Stops`, `Reconciles`, `Answers`), since liveness is outside the proof system. The
library's induction theorems cannot be instantiated by the installed provers; where a proof
needs one (sums over a finite set) it takes the smallest set for which the claim
fails, which the well-foundedness of inclusion on finite sets gives.

## 6. Observations

Met while modelling, and allowed by the models rather than stated as properties:

- *lost children* (`ts/transport.ts:533`, comment at `ts/evals/runner.ts:1105`):
  the comment says that the receipt is held to the count of the spans the case
  ended, "so a lost child span is not hidden behind a root span that landed". A
  span the full queue refused is not in that count. Once the issue that names it
  has left the history, the receipt accepts the case without the span:
  `TraceAttribution` reaches a state with `export[c] = "accepted"` and a record
  of `c` "dropped" in the instance of the `attribution` run. A process that dies
  between the saved count and the saved failure leads there too. `DecisionsHold`
  speaks of the spans that were counted, and `RecordsAreTrue` of the experiment
  runner names the exception: a completed case whose saved count was of fewer
  spans than ended may miss one below the root.
- *processes left by a command* (`ts/cli/eval.ts:485`, comments at 396 and 569):
  the comments say that a stopped command "settles only when nothing in the group
  is left". When members are left two seconds after SIGKILL (the signal refused
  with EPERM, or a process the system does not end) the command warns and settles
  all the same; if it had closed and was being swept, its exit code of 0 makes
  its output the answer. On Windows (line 571, comment at 404) what a closed
  command left behind is not looked for at all. `SealedFirst` names both.
- *exports that refit each other* (`ts/transport.ts:2279`, 2474): a retryable
  answer may carry limits, and a request that no longer fits them goes back to be
  split or shed and is then a new request with all of its retries
  (`ts/transport.ts:2640`). Two exports under way at once can send each other back
  for ever when the answers to them lower and raise the shared limits in turn.
  `ExportsEnd` names the case; with a receiver that stops raising its limits, or
  with one export at a time, every export ends.
- *decision* (`ts/evals/runner.ts:1147`): checkpoint writes inside the block that
  decides whether the telemetry was accepted are taken for an export failure, so
  a disk that fails after a clean flush completes the case as failed, its
  evidence omitted, under `fail_case`.
- *managed telemetry* (`ts/managed.ts:346`): a flush is told of losses, not of
  whose they are. When the span of one request is lost and the flush of another
  one throws for it first, the first request's flush, if it began later, succeeds
  and Hue is told that its telemetry was flushed. `TelemetryIsSent` names this
  case. The Python handler (`managed.py`) looks only for a flush that returns
  `False`, not for the pending counters.
- *lock* (`ts/evals/checkpoint.ts:106`, comment at 117): the takeover's rename
  moves whatever is at `.lock`. When the lock changed hands since its record was
  read, a live lock is moved away and a newcomer becomes a second owner before it
  is moved back; `OneOwnerUnlessStale` names the exception. Between the rename of
  a dead lock and the second mkdir (line 114, `CHANGELOG.md:662`) the path is
  free: a process that starts there owns it without a reclaimed lock, and no crash
  sweep is recorded; nor is it when the taker dies before it records one.
- *runner* (`ts/evals/runner.ts:751`, comments at 739 and 426): the sweep marks
  every case at stage `running`, also one an earlier, living process had left
  uncertain.
- *judge handoff* (`ts/cli/eval.ts:1505`): there is one pending handoff. When a
  completion was recorded at Hue but its answers were lost, the worker gives the
  run up, Hue refuses with 409 and the handoff is discarded; or the next claim is
  another run whose handoff overwrites it. The run is completed and its judges
  are never requested. `HandoffKept` therefore speaks of the completions the
  command was told of.
- *world cases*: a stop or a transient failure while a world is being created is
  saved as the case's own error (`ts/evals/runner.ts:990`), and a world may stay
  open until it expires, in which time Hue refuses the execution's completion.
  The worker does not pass its signal to `runExperiment`, so a case that was
  stopped is saved as "cancelled" rather than left open. At the deadline the world
  is usually expired already when it is to be sealed "abandoned".
- *delivery* (`ts/transport.ts:1457`): `countUndelivered` says the receiver
  stored none of the records, which is not so when an earlier post of the same
  request was stored and its answer lost; the root then shows a loss too many. A
  root that Hue rejects in a partial success takes its trace's count with it.
- *safe lifecycle* (`ts/client.ts:1428`, comment at `ts/types.ts:184`): `ok` is
  said to mean "no new failures"; the code asks that no failure was ever counted,
  so after one loss every later `flushSafe` of the client answers `ok: false`.
- *setup*: an installation claimed before its request has evidence never becomes
  ready; a record file left empty by a kill between its creation and its first
  write is refused by every later command; `claim --restart` with an unanswered
  request keeps conflicting once another copy's handoff took its place; an
  unanswered restart is completed by a plain `claim`.

## 7. Abstractions, and the plan

Abstractions that the properties depend on: a checkpoint write is atomic
(temporary file and rename in the code); the lock and the runner are separate
modules, so `ExperimentRun` has one owner at a time except for the listing
before it; an experiment is one step of `LocalWorker` and one case of
`EvalWorker`, whose telemetry and scoring are `ExperimentRun`'s;
the processes of a CLI that died are followed no further, since nothing of the
code follows them; `TelemetryFlush` does not count budgets and `TelemetryQueue`
does not read answers; `OtlpDelivery` sends completed spans only, assumes one
root for each trace, and the table of dropped counts (1 024 traces) does not
overflow; Hue stores a request as it was last sent.

Not modelled, with the reasons in `PROJECT.json`: the shedding search, live
spans, HTTP capture, privacy and snapshots, configuration and adapters, tool
definitions, the evaluation API client's retries, scoring, attempts' manifests
and evidence, the conversion of other products' traces, the
one-shot and CI evaluation commands and sign-in, world definitions and exports,
the Python SDK, packaging and examples. Most are pure data handling.

Order of the work that is left, the most valuable first:

1. The safe lifecycle (`flushSafe`, `shutdownSafe`) on top of `TelemetryFlush`.
2. The retries of `ts/evals/client.ts`, and `rescore`.
3. The shedding search against a linear reference, as a pure algorithm; live
   spans; what the Python SDK does differently.
