----------------------------- MODULE ImportUpload -----------------------------
(***************************************************************************)
(* `hue traces import upload` (cli/traces-import-upload.ts): workers       *)
(* deliver the traces of a prepared bundle, each trace's values first and  *)
(* its batches in order, with retries; progress is written to a file at    *)
(* most once per interval, so that a run that stopped or died is resumed.  *)
(*                                                                         *)
(* A process runs one step from one await to the next.  Hue is what the    *)
(* uploader relies on: identical bytes are safe to resend, the same bytes  *)
(* earn the same refusal, and an import is completed once every trace is   *)
(* whole.  A request whose answer nobody waits for may reach Hue at any    *)
(* later time.                                                             *)
(***************************************************************************)
EXTENDS Integers, Sequences, FiniteSets

CONSTANTS
    Traces,         \* how many traces the manifest declares
    Values,         \* Values[t]: the large values of a trace
    Batches,        \* Batches[t]: its batches, in declared order
    Refusable,      \* the sets of items Hue may refuse for good
    Workers,        \* UPLOAD_CONCURRENCY
    None,           \* no trace, no item
    MaxTries,       \* requests made before one is given up
    MaxWrites,      \* bound: progress writes under way at once
    MaxFaults       \* bound: lost answers, refusals, stops, failed writes, deaths

Trace == 1..Traces
Worker == 1..Workers
Main == 0
Actor == 0..Workers
ItemsOf(list) == {list[i] : i \in DOMAIN list}
AllValues == UNION {ItemsOf(Values[t]) : t \in Trace}
AllBatches == UNION {ItemsOf(Batches[t]) : t \in Trace}
Items(t) == ItemsOf(Values[t]) \cup ItemsOf(Batches[t])

ASSUME ImportAssumption ==
    /\ Traces \in Nat
    /\ Workers \in 1..Traces
    /\ \A t \in Trace : /\ Values[t] \in Seq(ItemsOf(Values[t]))
                        /\ Batches[t] \in Seq(ItemsOf(Batches[t]))
    /\ \A t, u \in Trace : \A i \in DOMAIN Batches[t], j \in DOMAIN Batches[u] :
          Batches[t][i] = Batches[u][j] => t = u /\ i = j
    /\ \A t, u \in Trace : t # u => Items(t) \cap Items(u) = {}
    /\ AllValues \cap AllBatches = {}
    /\ None \notin AllValues \cup AllBatches \cup Trace
    /\ Refusable \subseteq SUBSET (AllValues \cup AllBatches)
    /\ MaxTries \in Nat \ {0}
    /\ MaxWrites \in Nat \ {0}
    /\ MaxFaults \in Nat

VARIABLES
    (* Hue and the object store                                            *)
    bad,            \* the items Hue refuses whenever it is asked
    objects,        \* the values whose bytes the store has
    held,           \* the values completed at Hue
    landed,         \* the batches Hue has
    completed,      \* the import is completed
    late,           \* requests on their way whose answer nobody waits for
    (* the progress file and its writer                                    *)
    disk,           \* progress.json
    file,           \* the progress in memory
    dirty,          \* it changed since the last write began
    timer,          \* a write is due at the end of the interval
    writing,        \* the writes under way, oldest first
    writeFailed,    \* a write has failed: none is made after it
    (* the process                                                         *)
    pc,             \* where each actor is
    trace,          \* the trace a worker works on
    flight,         \* the actor's request has been made
    tries,          \* how often it was made before
    again,          \* the worker is at its second reservation or reading
    ahead,          \* the writes a worker waits for
    next,           \* the next trace to work on
    stopping,       \* a stop was requested, or a worker stopped
    forced,         \* a second stop was requested
    report,         \* the report of the run, once it is down
    faults

hue == <<bad, objects, held, landed, completed, late>>
writer == <<disk, file, dirty, timer, writing, writeFailed>>
work == <<pc, trace, flight, tries, again, ahead, next>>
signals == <<stopping, forced>>
vars == <<hue, writer, work, signals, report, faults>>

Blank == [stored |-> {}, landed |-> {}, conflicts |-> {}, verified |-> {}]
Record ==
    [stored : SUBSET AllValues, landed : SUBSET AllBatches,
     conflicts : SUBSET (AllValues \cup AllBatches), verified : SUBSET Trace]

ValueSteps == {"reserve", "put", "complete_value"}
WorkerSteps == ValueSteps \cup {"batch", "receipt"}
MainSteps == {"register", "reconcile", "complete", "list"}
Ended == {"returned", "interrupted", "already", "stopped"}
Place == {"down", "pick", "saving", "join", "closing"}
         \cup WorkerSteps \cup MainSteps \cup Ended
Report == {"none", "completed", "incomplete", "interrupted", "stopped"}
Effect == ({"put", "complete_value"} \X AllValues) \cup ({"batch"} \X AllBatches)
          \cup {<<"complete", None>>}

TypeOK ==
    /\ bad \in Refusable
    /\ objects \subseteq AllValues
    /\ held \subseteq AllValues
    /\ landed \subseteq AllBatches
    /\ completed \in BOOLEAN
    /\ late \subseteq Effect
    /\ disk \in Record
    /\ file \in Record
    /\ dirty \in BOOLEAN
    /\ timer \in BOOLEAN
    /\ writing \in Seq(Record)
    /\ Len(writing) <= MaxWrites
    /\ writeFailed \in BOOLEAN
    /\ pc \in [Actor -> Place]
    /\ trace \in [Worker -> Trace \cup {None}]
    /\ flight \in [Actor -> BOOLEAN]
    /\ tries \in [Actor -> 0..MaxTries]
    /\ again \in [Worker -> BOOLEAN]
    /\ ahead \in [Worker -> 0..MaxWrites]
    /\ next \in 1..Traces + 1
    /\ stopping \in BOOLEAN
    /\ forced \in BOOLEAN
    /\ report \in Report
    /\ faults \in 0..MaxFaults

Fault == faults < MaxFaults /\ faults' = faults + 1
Go(a, place) == pc' = [pc EXCEPT ![a] = place]
Whole(t) == ItemsOf(Values[t]) \subseteq held /\ ItemsOf(Batches[t]) \subseteq landed

(* The first entry of a list that a set leaves out, None when it leaves    *)
(* out none.                                                               *)
FirstOutside(list, done) ==
    IF ItemsOf(list) \subseteq done THEN None
    ELSE CHOOSE x \in ItemsOf(list) \ done :
            \E i \in DOMAIN list : list[i] = x /\ \A j \in DOMAIN list :
               j < i => list[j] \in done

OpenValue(w) == FirstOutside(Values[trace[w]], file.stored \cup file.conflicts)
OpenBatch(w) == FirstOutside(Batches[trace[w]], file.landed)
Item(w) == IF pc[w] \in ValueSteps THEN OpenValue(w) ELSE OpenBatch(w)

(* A slip: the batches of a trace whose value was refused are sent.        *)
PastRefusals(t, known) ==
    LET value == FirstOutside(Values[t], known.stored \cup known.conflicts)
        batch == FirstOutside(Batches[t], known.landed)
    IN CASE t \in known.verified -> "pick"
         [] t \notin known.verified /\ value # None -> "reserve"
         [] OTHER -> IF batch = None THEN "receipt"
                     ELSE IF batch \in known.conflicts THEN "pick" ELSE "batch"

(* What a trace needs next: its values, then its batches in order, then    *)
(* Hue's receipt; a refusal among them ends it (processTrace).             *)
NextStep(t, known) ==
    LET value == FirstOutside(Values[t], known.stored \cup known.conflicts)
        batch == FirstOutside(Batches[t], known.landed)
    IN CASE t \in known.verified -> "pick"
         [] t \notin known.verified /\ value # None -> "reserve"
         [] t \notin known.verified /\ value = None
            /\ ~(ItemsOf(Values[t]) \subseteq known.stored) -> "pick"
         [] t \notin known.verified /\ ItemsOf(Values[t]) \subseteq known.stored ->
               IF batch = None THEN "receipt"
               ELSE IF batch \in known.conflicts THEN "pick" ELSE "batch"

(* What a request changes at Hue when it arrives.                          *)
Request(a) ==
    CASE a # Main /\ pc[a] \in {"put", "complete_value", "batch"} -> {<<pc[a], Item(a)>>}
      [] pc[a] = "complete" -> {<<"complete", None>>}
      [] OTHER -> {}

Arrive(requests) ==
    LET accepted(kind) == {r[2] : r \in {q \in requests : q[1] = kind}} \ bad IN
    /\ objects' = objects \cup {r[2] : r \in {q \in requests : q[1] = "put"}}
    /\ held' = held \cup (accepted("complete_value") \cap objects)
    /\ landed' = landed \cup accepted("batch")
    /\ completed' = (completed \/ (<<"complete", None>> \in requests /\ \A t \in Trace : Whole(t)))

-----------------------------------------------------------------------------
(* Progress.changed and Progress.flush                                     *)

FlushNow(content, changed) ==
    /\ timer' = FALSE
    /\ IF changed /\ ~writeFailed
       THEN /\ Len(writing) < MaxWrites
            /\ dirty' = FALSE
            /\ writing' = Append(writing, content)
       ELSE dirty' = changed /\ UNCHANGED writing

(* A worker records a step: the file is written now, and it waits for      *)
(* that write, or it goes on and the file is written at the end of the     *)
(* interval.                                                               *)
Changed(w, content) ==
    /\ file' = content
    /\ \/ /\ FlushNow(content, TRUE)
          /\ ahead' = [ahead EXCEPT ![w] = Len(writing')]
          /\ Go(w, "saving")
       \/ /\ timer' = TRUE /\ dirty' = TRUE
          /\ Go(w, NextStep(trace[w], content))
          /\ UNCHANGED <<writing, ahead>>
    /\ tries' = [tries EXCEPT ![w] = 0]
    /\ again' = [again EXCEPT ![w] = FALSE]
    /\ UNCHANGED <<disk, writeFailed>>

TimerFires ==
    /\ timer
    /\ FlushNow(file, dirty)
    /\ UNCHANGED <<hue, disk, file, writeFailed, work, signals, report, faults>>

(* A slip: the write that fails never answers those that wait for it.      *)
WriteRejects ==
    /\ writing # <<>>
    /\ writing' = Tail(writing)
    /\ \/ /\ disk' = IF writeFailed THEN disk ELSE Head(writing)
          /\ ahead' = [w \in Worker |-> IF ahead[w] = 0 THEN 0 ELSE ahead[w] - 1]
          /\ UNCHANGED <<writeFailed, stopping, faults>>
       \/ /\ ~writeFailed /\ Fault
          /\ writeFailed' = TRUE
          /\ stopping' = TRUE
          /\ UNCHANGED <<disk, ahead>>
    /\ UNCHANGED <<hue, file, dirty, timer, pc, trace, flight, tries, again, next,
                   forced, report>>

(* The oldest write under way ends; once one has failed the rest are not   *)
(* made.                                                                   *)
WriteEnds ==
    /\ writing # <<>>
    /\ writing' = Tail(writing)
    /\ ahead' = [w \in Worker |-> IF ahead[w] = 0 THEN 0 ELSE ahead[w] - 1]
    /\ \/ /\ disk' = IF writeFailed THEN disk ELSE Head(writing)
          /\ UNCHANGED <<writeFailed, stopping, faults>>
       \/ /\ ~writeFailed /\ Fault
          /\ writeFailed' = TRUE
          /\ stopping' = TRUE
          /\ UNCHANGED disk
    /\ UNCHANGED <<hue, file, dirty, timer, pc, trace, flight, tries, again, next,
                   forced, report>>

Saved(w) ==
    /\ pc[w] = "saving"
    /\ ahead[w] = 0
    /\ Go(w, NextStep(trace[w], file))
    /\ UNCHANGED <<hue, writer, trace, flight, tries, again, ahead, next, signals, report, faults>>

-----------------------------------------------------------------------------
(* The worker loop                                                         *)

Pick(w) ==
    /\ pc[w] = "pick"
    /\ IF stopping \/ next > Traces
       THEN /\ Go(w, "returned")
            /\ trace' = [trace EXCEPT ![w] = None]
            /\ UNCHANGED next
       ELSE /\ Go(w, NextStep(next, file))
            /\ trace' = [trace EXCEPT ![w] = next]
            /\ next' = next + 1
    /\ tries' = [tries EXCEPT ![w] = 0]
    /\ again' = [again EXCEPT ![w] = FALSE]
    /\ UNCHANGED <<hue, writer, flight, ahead, signals, report, faults>>

-----------------------------------------------------------------------------
(* Requests                                                                *)

(* A slip: the run ends without the last write.                            *)
ThrowUnsaved(a, why) ==
    IF a = Main
    THEN /\ Go(Main, "closing")
         /\ report' = IF why = "already" THEN "completed" ELSE why
         /\ UNCHANGED <<writer, stopping>>
    ELSE /\ Go(a, why)
         /\ stopping' = TRUE
         /\ UNCHANGED <<writer, report>>

(* The end of an actor's run: a worker's stop stops the others; the run's  *)
(* own leads to the last write.                                            *)
Throw(a, why) ==
    IF a = Main
    THEN /\ Go(Main, "closing")
         /\ report' = IF why = "already" THEN "completed" ELSE why
         /\ FlushNow(file, dirty)
         /\ UNCHANGED <<disk, file, writeFailed, stopping>>
    ELSE /\ Go(a, why)
         /\ stopping' = TRUE
         /\ UNCHANGED <<writer, report>>

(* Before every attempt, the pause before a retry included, the request    *)
(* asks whether a stop was requested.                                      *)
Begin(a) ==
    /\ pc[a] \in WorkerSteps \cup MainSteps
    /\ ~flight[a]
    /\ IF stopping
       THEN Throw(a, "interrupted") /\ UNCHANGED flight
       ELSE /\ flight' = [flight EXCEPT ![a] = TRUE]
            /\ UNCHANGED <<writer, pc, stopping, report>>
    /\ UNCHANGED <<hue, trace, tries, again, ahead, next, forced, faults>>

(* No answer, a broken one or a transient refusal: the request is made     *)
(* again a bounded number of times.  It may have reached Hue, or may yet.  *)
Fail(a) ==
    /\ flight[a] /\ Fault
    /\ late' \in {late, late \cup Request(a)}
    /\ flight' = [flight EXCEPT ![a] = FALSE]
    /\ IF tries[a] + 1 = MaxTries
       THEN Throw(a, "stopped") /\ UNCHANGED tries
       ELSE /\ tries' = [tries EXCEPT ![a] = tries[a] + 1]
            /\ UNCHANGED <<writer, pc, stopping, report>>
    /\ UNCHANGED <<bad, objects, held, landed, completed, trace, again, ahead, next, forced>>

(* A second stop aborts the requests in flight.                            *)
Abort(a) ==
    /\ flight[a] /\ forced
    /\ late' \in {late, late \cup Request(a)}
    /\ flight' = [flight EXCEPT ![a] = FALSE]
    /\ Throw(a, "interrupted")
    /\ UNCHANGED <<bad, objects, held, landed, completed, trace, tries, again, ahead, next, forced, faults>>

(* A request nobody waits for any more reaches Hue.                        *)
LateArrives ==
    /\ \E r \in late : late' = late \ {r} /\ Arrive({r})
    /\ UNCHANGED <<bad, writer, work, signals, report, faults>>

Answered(a) ==
    /\ flight[a]
    /\ flight' = [flight EXCEPT ![a] = FALSE]
    /\ UNCHANGED <<bad, late, trace, next, forced>>

(* A slip: the answer that the import is completed is one failure more.    *)
CompletedIsFailure(a) ==
    /\ completed /\ pc[a] \notin {"put", "list"}
    /\ Answered(a)
    /\ Throw(a, "stopped")
    /\ UNCHANGED <<objects, held, landed, completed, tries, again, ahead, faults>>

(* Hue's routes, but not the object store, answer 410 once the import is   *)
(* completed.                                                              *)
AlreadyCompleted(a) ==
    /\ completed /\ pc[a] \notin {"put", "list"}
    /\ Answered(a)
    /\ Throw(a, "already")
    /\ UNCHANGED <<objects, held, landed, completed, tries, again, ahead, faults>>

(* The authorization is no longer usable, or the answer cannot be read as  *)
(* one: the upload stops.  A batch whose acknowledgement cannot be read may *)
(* have landed, and stays pending.                                         *)
StopAnswer(a) ==
    /\ pc[a] # "list"
    /\ Answered(a) /\ Fault
    /\ \/ pc[a] = "batch" /\ Arrive(Request(a))
       \/ UNCHANGED <<objects, held, landed, completed>>
    /\ Throw(a, "stopped")
    /\ UNCHANGED <<tries, again, ahead>>

(* The next request of the same item.                                      *)
Onward(w, step) ==
    /\ Go(w, step)
    /\ tries' = [tries EXCEPT ![w] = 0]
    /\ UNCHANGED <<writer, ahead>>

(* The item is refused for good, recorded as the trace's conflict.         *)
Conflict(w) ==
    /\ Item(w) \in bad
    /\ Changed(w, [file EXCEPT !.conflicts = @ \cup {Item(w)}])
    /\ UNCHANGED <<objects, held, landed, completed, faults>>

ReserveAnswer(w) ==
    /\ pc[w] = "reserve" /\ ~completed
    /\ Answered(w)
    /\ \/ Conflict(w)
       \/ /\ Onward(w, IF Item(w) \in objects THEN "complete_value" ELSE "put")
          /\ UNCHANGED <<objects, held, landed, completed, again, faults>>
    /\ UNCHANGED <<stopping, report>>

PutAnswer(w) ==
    /\ pc[w] = "put"
    /\ Answered(w)
    /\ \/ /\ Arrive(Request(w))
          /\ Onward(w, "complete_value")
          /\ UNCHANGED <<again, faults>>
       \/ /\ ~again[w] /\ Fault                     \* the upload URL expired
          /\ Onward(w, "reserve")
          /\ again' = [again EXCEPT ![w] = TRUE]
          /\ UNCHANGED <<objects, held, landed, completed>>
    /\ UNCHANGED <<stopping, report>>

CompleteValueAnswer(w) ==
    /\ pc[w] = "complete_value" /\ ~completed
    /\ Answered(w)
    /\ \/ Conflict(w)
       \/ /\ Item(w) \notin bad
          /\ Arrive(Request(w))
          /\ Changed(w, [file EXCEPT !.stored = @ \cup {Item(w)}])
          /\ UNCHANGED faults
    /\ UNCHANGED <<stopping, report>>

(* A slip: a success that cannot be read is taken for an acknowledgement.  *)
UnreadBatchAnswer(w) ==
    /\ pc[w] = "batch" /\ ~completed
    /\ Answered(w)
    /\ Changed(w, [file EXCEPT !.landed = @ \cup {Item(w)}])
    /\ \/ Arrive(Request(w)) /\ UNCHANGED faults
       \/ Fault /\ UNCHANGED <<objects, held, landed, completed>>
    /\ UNCHANGED <<stopping, report>>

BatchAnswer(w) ==
    /\ pc[w] = "batch" /\ ~completed
    /\ Answered(w)
    /\ \/ Conflict(w)
       \/ /\ Item(w) \notin bad
          /\ Arrive(Request(w))
          /\ Changed(w, [file EXCEPT !.landed = @ \cup {Item(w)}])
          /\ UNCHANGED faults
    /\ UNCHANGED <<stopping, report>>

(* The receipt may be served ahead of the records: it is read once more,   *)
(* and a trace still missing spans is left unverified.                     *)
ReceiptAnswer(w) ==
    /\ pc[w] = "receipt" /\ ~completed
    /\ Answered(w)
    /\ \/ /\ ItemsOf(Batches[trace[w]]) \subseteq landed
          /\ Changed(w, [file EXCEPT !.verified = @ \cup {trace[w]}])
          /\ UNCHANGED faults
       \/ /\ Fault
          /\ Onward(w, IF again[w] THEN "pick" ELSE "receipt")
          /\ again' = [again EXCEPT ![w] = TRUE]
    /\ UNCHANGED <<objects, held, landed, completed, stopping, report>>

-----------------------------------------------------------------------------
(* The run                                                                 *)

(* A slip: the progress file is not read.                                  *)
Unread ==
    /\ file' = Blank
    /\ dirty' = FALSE /\ timer' = FALSE /\ writing' = <<>> /\ writeFailed' = FALSE
    /\ trace' = [w \in Worker |-> None]
    /\ flight' = [a \in Actor |-> FALSE]
    /\ tries' = [a \in Actor |-> 0]
    /\ again' = [w \in Worker |-> FALSE]
    /\ ahead' = [w \in Worker |-> 0]
    /\ next' = 1
    /\ stopping' = FALSE /\ forced' = FALSE
    /\ report' = "none"
    /\ UNCHANGED disk

(* What a process knows when it starts, and what is left of one that died: *)
(* the progress file.                                                      *)
Afresh ==
    /\ file' = disk
    /\ dirty' = FALSE /\ timer' = FALSE /\ writing' = <<>> /\ writeFailed' = FALSE
    /\ trace' = [w \in Worker |-> None]
    /\ flight' = [a \in Actor |-> FALSE]
    /\ tries' = [a \in Actor |-> 0]
    /\ again' = [w \in Worker |-> FALSE]
    /\ ahead' = [w \in Worker |-> 0]
    /\ next' = 1
    /\ stopping' = FALSE /\ forced' = FALSE
    /\ report' = "none"
    /\ UNCHANGED disk

Start ==
    /\ pc[Main] = "down"
    /\ report # "completed"
    /\ Afresh
    /\ pc' = [a \in Actor |-> IF a = Main THEN "register" ELSE "down"]
    /\ UNCHANGED <<hue, faults>>

(* The workers start one after the other, each taking the next trace.      *)
RegisterAnswer ==
    /\ pc[Main] = "register" /\ ~completed
    /\ flight[Main]
    /\ flight' = [flight EXCEPT ![Main] = FALSE]
    /\ IF stopping
       THEN /\ pc' = [a \in Actor |-> IF a = Main THEN "join" ELSE "returned"]
            /\ UNCHANGED <<trace, next>>
       ELSE /\ pc' = [a \in Actor |-> IF a = Main THEN "join" ELSE NextStep(a, file)]
            /\ trace' = [w \in Worker |-> w]
            /\ next' = Workers + 1
    /\ UNCHANGED <<hue, writer, tries, again, ahead, signals, report, faults>>

(* The first worker that did not merely stop because another did decides.  *)
Joined ==
    LET Threw(w) == pc[w] \in {"already", "stopped"}
        first == CHOOSE w \in Worker : Threw(w) /\ \A u \in Worker : Threw(u) => w <= u
    IN IF \E w \in Worker : Threw(w) THEN pc[first]
       ELSE IF writeFailed THEN "stopped" ELSE "interrupted"

Join ==
    /\ pc[Main] = "join"
    /\ \A w \in Worker : pc[w] \in Ended
    /\ IF writeFailed \/ stopping
       THEN Throw(Main, Joined) /\ UNCHANGED tries
       ELSE /\ Go(Main, "reconcile")
            /\ tries' = [tries EXCEPT ![Main] = 0]
            /\ UNCHANGED <<writer, stopping, report>>
    /\ UNCHANGED <<hue, trace, flight, again, ahead, next, forced, faults>>

ReconcileAnswer ==
    /\ pc[Main] = "reconcile" /\ ~completed
    /\ Answered(Main)
    /\ Go(Main, "complete")
    /\ tries' = [tries EXCEPT ![Main] = 0]
    /\ UNCHANGED <<objects, held, landed, completed, writer, again, ahead,
                   stopping, report, faults>>

(* Hue completes an import whose traces are all whole, and says of any     *)
(* other that it is incomplete, whose traces are then listed.              *)
CompleteAnswer ==
    /\ pc[Main] = "complete" /\ ~completed
    /\ Answered(Main)
    /\ Arrive(Request(Main))
    /\ IF completed'
       THEN Throw(Main, "completed") /\ UNCHANGED tries
       ELSE /\ Go(Main, "list")
            /\ tries' = [tries EXCEPT ![Main] = 0]
            /\ UNCHANGED <<writer, stopping, report>>
    /\ UNCHANGED <<again, ahead, faults>>

ListAnswer ==
    /\ pc[Main] = "list"
    /\ Answered(Main)
    /\ Throw(Main, "incomplete")
    /\ UNCHANGED <<objects, held, landed, completed, tries, again, ahead, faults>>

(* The last writes have ended.  A write that failed is what the report     *)
(* names, unless the import is completed and needs no progress file.       *)
Finish ==
    /\ pc[Main] = "closing"
    /\ writing = <<>>
    /\ Go(Main, "down")
    /\ report' = IF writeFailed /\ report # "completed" THEN "stopped" ELSE report
    /\ UNCHANGED <<hue, writer, trace, flight, tries, again, ahead, next, signals, faults>>

Running == pc[Main] \notin {"down", "closing"}

Interrupt ==
    /\ Running /\ Fault /\ ~forced
    /\ IF stopping THEN forced' = TRUE /\ UNCHANGED stopping
                   ELSE stopping' = TRUE /\ UNCHANGED forced
    /\ UNCHANGED <<hue, writer, work, report>>

(* The process dies: what it had in flight may still arrive, and the       *)
(* progress file is what the last whole write left.                        *)
Die ==
    /\ pc[Main] # "down" /\ Fault
    /\ \E sent \in SUBSET {a \in Actor : flight[a]} :
          late' = late \cup UNION {Request(a) : a \in sent}
    /\ Afresh
    /\ pc' = [a \in Actor |-> "down"]
    /\ UNCHANGED <<bad, objects, held, landed, completed>>

-----------------------------------------------------------------------------
WorkerAnswer(w) ==
    \/ ReserveAnswer(w) \/ PutAnswer(w) \/ CompleteValueAnswer(w)
    \/ BatchAnswer(w) \/ ReceiptAnswer(w)
MainAnswer ==
    \/ RegisterAnswer \/ ReconcileAnswer \/ CompleteAnswer \/ ListAnswer
RequestStep(a) == Begin(a) \/ Abort(a) \/ AlreadyCompleted(a)
WorkerStep(w) == RequestStep(w) \/ Pick(w) \/ Saved(w) \/ WorkerAnswer(w)
MainStep == RequestStep(Main) \/ Join \/ Finish \/ MainAnswer

Init ==
    /\ bad \in Refusable
    /\ objects = {} /\ held = {} /\ landed = {} /\ late = {}
    /\ completed = FALSE
    /\ disk = Blank /\ file = Blank
    /\ dirty = FALSE /\ timer = FALSE /\ writing = <<>> /\ writeFailed = FALSE
    /\ pc = [a \in Actor |-> "down"]
    /\ trace = [w \in Worker |-> None]
    /\ flight = [a \in Actor |-> FALSE]
    /\ tries = [a \in Actor |-> 0]
    /\ again = [w \in Worker |-> FALSE]
    /\ ahead = [w \in Worker |-> 0]
    /\ next = 1
    /\ stopping = FALSE /\ forced = FALSE
    /\ report = "none"
    /\ faults = 0

Next ==
    \/ \E w \in Worker : WorkerStep(w)
    \/ MainStep
    \/ \E a \in Actor : Fail(a) \/ StopAnswer(a)
    \/ TimerFires
    \/ WriteEnds
    \/ Start
    \/ Interrupt
    \/ Die
    \/ LateArrives

(* A request ends by its answer or its timeout, a write by the file system, *)
(* and the command is run again as its report asks.  No more is assumed    *)
(* than that while one of these can happen one of them does: a run takes   *)
(* finitely many steps, so none is put off for ever.                       *)
Progress ==
    \/ \E w \in Worker : WorkerStep(w)
    \/ MainStep
    \/ TimerFires
    \/ WriteEnds
    \/ Start

Spec == Init /\ [][Next]_vars
FairSpec == Spec /\ WF_vars(Progress)

-----------------------------------------------------------------------------
(* Properties                                                              *)

(* Nothing is recorded that Hue does not hold, on disk, in memory or in a  *)
(* write under way: a value after its completion, a batch after a readable *)
(* acknowledgement, a trace once whole, a conflict only for what Hue       *)
(* refuses for good (sendBatch, uploadBlob, Progress.flush).  A run that   *)
(* resumes from the file would otherwise skip what never arrived.          *)
RecordedIsTrue(p) ==
    /\ p.stored \subseteq held
    /\ p.landed \subseteq landed
    /\ p.conflicts \subseteq bad
    /\ \A t \in p.verified : Whole(t)
SavedIsHeld == \A p \in {disk, file} \cup ItemsOf(writing) : RecordedIsTrue(p)

(* The report of a run that ended: nothing of it is still under way, the   *)
(* file holds every step taken or the failed write is what it names, and a *)
(* completed import is completed at Hue (the finally block and the state   *)
(* computed after it).                                                     *)
ReportIsTrue ==
    pc[Main] = "down" /\ report # "none" =>
        /\ \A a \in Actor : ~flight[a]
        /\ writing = <<>> /\ ~timer
        /\ IF writeFailed THEN report \in {"completed", "stopped"} ELSE disk = file
        /\ report = "completed" => completed

(* What the progress file records is not sent again, by this run or a      *)
(* later one: no value Hue stored or refused, no batch it acknowledged or  *)
(* refused (the conditions of processTrace, the file read at the start).   *)
NotSentAgain ==
    [][\A w \in Worker :
          flight'[w] /\ ~flight[w] /\ pc[w] # "receipt" =>
              Item(w) \notin disk.stored \cup disk.landed \cup disk.conflicts]_vars

(* The deliveries are those the abstract ledger allows: a value before the *)
(* batches of its trace, each batch after the ones before it, late         *)
(* requests of a stopped or dead run included, and completion only of      *)
(* whole traces.                                                           *)
Ledger == INSTANCE ImportLedger
KeepsLedger == Ledger!Spec

(* Whatever stops and dies before, a trace Hue refuses nothing of is       *)
(* delivered whole, and an import without refusals is reported completed.  *)
Delivers ==
    <>(/\ \A t \in Trace : bad \cap Items(t) = {} => Whole(t)
       /\ bad = {} => report = "completed")

(* A stop, by the user, by a worker or by a failed write, ends in a report: *)
(* no worker waits for an answer, a pause or a write that never comes.     *)
StopEnds == stopping ~> pc[Main] = "down"

(* What is written down is so: the state is well typed, the progress file  *)
(* names only what Hue holds, and a report what came of its run.           *)
RecordsAreTrue == TypeOK /\ SavedIsHeld /\ ReportIsTrue

(* A run ends when it is stopped, and runs that are repeated deliver the   *)
(* import.                                                                 *)
RunsEnd == StopEnds /\ Delivers

=============================================================================
