---------------------------- MODULE EventListener ----------------------------
(***************************************************************************)
(* `hue listen` (cli/listen.ts): it pulls the deliveries Hue leases to it, *)
(* forwards each request to the receiver, acknowledges it with the         *)
(* receiver's answer, and stops when it is interrupted.  The deliveries of *)
(* a pull are forwarded concurrently, each by a task of its own; a stop    *)
(* may arrive between any two steps.                                       *)
(*                                                                         *)
(* Hue is external: it hands a delivery that is due, or leased already,    *)
(* out, ends leases, and may answer, refuse or lose any request.  The      *)
(* process may die at any step and be started again.                       *)
(***************************************************************************)
EXTENDS Integers, FiniteSets, SequencesExt

CONSTANTS
    Delivery, None,
    Answer,         \* what a forward ends with
    Batch,          \* MAX_BATCH
    Memory,         \* REMEMBERED_DELIVERIES
    MaxItems,       \* bound: the items of an answer
    MaxRuns         \* bound: how often the command is started

ASSUME ListenerAssumption ==
    /\ None \notin Delivery /\ None \notin Answer
    /\ Batch \in Nat \ {0} /\ Memory \in Nat
    /\ MaxItems \in Nat /\ MaxRuns \in Nat \ {0}

VARIABLES
    max,            \* --max
    phase,          \* where the command is
    stop,           \* the stop requests it heard
    second,         \* REPEATED_STOP_MS have passed since the first
    listening,      \* interrupts are handled
    fatal,
    items,          \* the answer on its way; None is what cannot be forwarded
    tasks,          \* the deliveries being forwarded and acknowledged
    remembered,     \* the answers that are remembered, oldest first
    hue,            \* Hue's state of each delivery
    record,         \* the answer Hue recorded
    produced,       \* the answers forwards of a delivery ended with
    sent,           \* requests sent since the command last forgot
    owed,           \* the deliveries it has accepted and not acknowledged
    runs

fixed == <<max, runs>>
huevars == <<hue, record>>
counts == <<produced, sent, owed>>
client == <<stop, second, listening, fatal>>
listenerVars == <<fixed, phase, client, items, tasks, remembered, huevars, counts>>

At == {"forwarding", "acking", "sent", "done"}
Task == [d : Delivery, at : At, answer : Answer \cup {None}, first : BOOLEAN, over : BOOLEAN]
Stopped == {"exited", "killed", "dead"}

ListenerTypeOK ==
    /\ max \in 1..Batch
    /\ phase \in {"loop", "pulling", "answering", "reading", "delivering", "waiting", "ended"}
                 \cup Stopped
    /\ stop \in {"no", "first", "forced"}
    /\ second \in BOOLEAN /\ listening \in BOOLEAN /\ fatal \in BOOLEAN
    /\ items \in Seq(Delivery \cup {None}) /\ Len(items) <= MaxItems
    /\ tasks \in Seq(Task) /\ Len(tasks) <= max
    /\ remembered \in Seq([d : Delivery, answer : Answer])
    /\ Len(remembered) <= Memory
    /\ hue \in [Delivery -> {"due", "leased", "recorded", "lapsed"}]
    /\ record \in [Delivery -> Answer \cup {None}]
    /\ produced \in [Delivery -> SUBSET Answer]
    /\ sent \in [Delivery -> Nat]
    /\ owed \subseteq Delivery
    /\ runs \in 1..MaxRuns

ListenerInit ==
    /\ max \in 1..Batch
    /\ phase = "loop"
    /\ stop = "no" /\ second = FALSE /\ listening = TRUE /\ fatal = FALSE
    /\ items = <<>> /\ tasks = <<>> /\ remembered = <<>>
    /\ hue = [d \in Delivery |-> "due"]
    /\ record = [d \in Delivery |-> None]
    /\ produced = [d \in Delivery |-> {}]
    /\ sent = [d \in Delivery |-> 0]
    /\ owed = {}
    /\ runs = 1

-----------------------------------------------------------------------------
(* Pulling                                                                 *)

\* Mutant: the listener is removed as soon as the loop has ended.
EndLoopDeaf ==
    /\ phase' = "ended"
    /\ listening' = FALSE
    /\ UNCHANGED <<stop, second, fatal>>

(* The listener stays until a repeated stop would count as a new one.      *)
EndLoop ==
    /\ phase' = "ended"
    /\ listening' = (stop # "no" /\ ~second)
    /\ UNCHANGED <<stop, second, fatal>>

BeginPull ==
    /\ phase = "loop" /\ stop = "no" /\ ~fatal
    /\ phase' = "pulling"
    /\ UNCHANGED <<fixed, client, items, tasks, remembered, huevars, counts>>

LoopEnds ==
    /\ phase = "loop" /\ (stop # "no" \/ fatal)
    /\ EndLoop
    /\ UNCHANGED <<fixed, items, tasks, remembered, huevars, counts>>

(* Hue leases what it answers with, also when nobody waits any more.       *)
HueAnswers ==
    /\ phase = "pulling"
    /\ phase' = "answering"
    /\ \E n \in 0..MaxItems :
         items' \in [1..n -> {d \in Delivery : hue[d] \in {"due", "leased"}} \cup {None}]
    /\ hue' = [d \in Delivery |-> IF d \in ToSet(items') THEN "leased" ELSE hue[d]]
    /\ UNCHANGED <<fixed, client, tasks, remembered, record, counts>>

\* Mutant: however often an answer has a delivery.
KeepAgain(kept, d) == IF d = None \/ Len(kept) >= max THEN kept ELSE Append(kept, d)

(* Duplicates and what cannot be forwarded are passed over; no more than   *)
(* --max deliveries are kept.                                              *)
Keep(kept, d) ==
    IF d = None \/ Contains(kept, d) \/ Len(kept) >= max THEN kept ELSE Append(kept, d)
Kept == FoldLeft(Keep, <<>>, items)

\* Mutant: until the answer has been read.
AbortableLonger == {"pulling", "answering", "reading"}

(* Where a stop ends the pull: until Hue has answered.                     *)
Abortable == {"pulling", "answering"}

PullAnswered ==
    /\ phase = "answering" /\ stop = "no"
    /\ phase' = "reading"
    /\ owed' = owed \cup ToSet(Kept)
    /\ UNCHANGED <<fixed, client, items, tasks, remembered, huevars, produced, sent>>

PullStopped ==
    /\ phase \in Abortable /\ stop # "no"
    /\ EndLoop
    /\ items' = <<>>
    /\ UNCHANGED <<fixed, tasks, remembered, huevars, counts>>

(* No answer came in time, or one that asks to try again.                  *)
PullFails ==
    /\ phase \in Abortable /\ stop = "no"
    /\ phase' = "waiting"
    /\ items' = <<>>
    /\ UNCHANGED <<fixed, client, tasks, remembered, huevars, counts>>

PullRefused ==
    /\ phase = "pulling" /\ stop = "no"
    /\ fatal' = TRUE
    /\ phase' = "ended"
    /\ listening' = FALSE
    /\ UNCHANGED <<fixed, stop, second, items, tasks, remembered, huevars, counts>>

(* The rest of the answer does not arrive, or a second stop abandons it.   *)
BodyFails ==
    /\ phase = "reading"
    /\ phase' = "waiting"
    /\ items' = <<>> /\ owed' = {}
    /\ UNCHANGED <<fixed, client, tasks, remembered, huevars, produced, sent>>

(* A pause is over, or was ended by a stop.                                *)
Wake ==
    /\ phase = "waiting"
    /\ phase' = "loop"
    /\ UNCHANGED <<fixed, client, items, tasks, remembered, huevars, counts>>

-----------------------------------------------------------------------------
(* Delivering                                                              *)

\* Mutant: whichever delivery it was.
RecalledAny(d) == {r.answer : r \in ToSet(remembered)}

Recalled(d) == {r.answer : r \in {m \in ToSet(remembered) : m.d = d}}

(* A remembered answer is repeated; after a second stop nothing is sent.   *)
Start(d) ==
    LET previous == Recalled(d)
    IN  [d |-> d,
         at |-> IF stop = "forced" THEN "done"
                ELSE IF previous = {} THEN "forwarding" ELSE "acking",
         answer |-> IF previous = {} THEN None ELSE CHOOSE a \in previous : TRUE,
         first |-> TRUE, over |-> FALSE]

ReadAnswer ==
    /\ phase = "reading"
    /\ phase' = "delivering"
    /\ tasks' = [i \in DOMAIN Kept |-> Start(Kept[i])]
    /\ sent' = [d \in Delivery |->
                  sent[d] + Cardinality({i \in DOMAIN tasks' :
                                tasks'[i].d = d /\ tasks'[i].at = "forwarding"})]
    /\ items' = <<>>
    /\ UNCHANGED <<fixed, client, remembered, huevars, produced, owed>>

(* The oldest answer makes room for a new one.                             *)
Remember(d, answer) ==
    LET all == Append(remembered, [d |-> d, answer |-> answer])
        full == Len(all) > Memory
    IN  /\ remembered' = IF full THEN Tail(all) ELSE all
        /\ sent' = IF full THEN [sent EXCEPT ![Head(all).d] = 0] ELSE sent

(* The receiver answers, its window closes, or it cannot be reached.       *)
Forwarded(i) ==
    /\ tasks[i].at = "forwarding"
    /\ \E a \in Answer :
         /\ tasks' = [tasks EXCEPT ![i].at = "acking", ![i].answer = a]
         /\ produced' = [produced EXCEPT ![tasks[i].d] = @ \cup {a}]
         /\ Remember(tasks[i].d, a)
    /\ UNCHANGED <<fixed, phase, client, items, huevars, owed>>

\* Mutant: repeated for as long as Hue does not answer.
MaySendOn(i) == tasks[i].at = "acking"

(* The first acknowledgement is always sent, another within the lease.     *)
MaySend(i) == tasks[i].first \/ ~tasks[i].over

SendAck(i) ==
    /\ tasks[i].at = "acking" /\ stop # "forced" /\ MaySend(i)
    /\ tasks' = [tasks EXCEPT ![i].at = "sent"]
    /\ owed' = owed \ {tasks[i].d}
    /\ UNCHANGED <<fixed, phase, client, items, remembered, huevars, produced, sent>>

GiveUp(i) ==
    /\ tasks[i].at = "acking" /\ (stop = "forced" \/ ~MaySend(i))
    /\ tasks' = [tasks EXCEPT ![i].at = "done"]
    /\ UNCHANGED <<fixed, phase, client, items, remembered, huevars, counts>>

(* What an acknowledgement does that reaches Hue.                          *)
Recorded(t) ==
    IF hue[t.d] = "leased"
    THEN /\ hue' = [hue EXCEPT ![t.d] = "recorded"]
         /\ record' = [record EXCEPT ![t.d] = t.answer]
    ELSE UNCHANGED huevars

(* Hue records the answer, or refuses it: the lease has expired, the       *)
(* subscription is revoked, or it takes no such acknowledgement.           *)
AckAnswered(i) ==
    /\ tasks[i].at = "sent"
    /\ tasks' = [tasks EXCEPT ![i].at = "done"]
    /\ \/ hue[tasks[i].d] # "lapsed" /\ Recorded(tasks[i]) /\ UNCHANGED fatal
       \/ UNCHANGED <<huevars, fatal>>
       \/ fatal' = TRUE /\ UNCHANGED huevars
    /\ UNCHANGED <<fixed, phase, stop, second, listening, items, remembered, counts>>

(* It is limited, fails or is not answered, although Hue may record it.    *)
AckUnanswered(i) ==
    /\ tasks[i].at = "sent"
    /\ tasks' = [tasks EXCEPT ![i].at = "acking", ![i].first = FALSE]
    /\ Recorded(tasks[i]) \/ UNCHANGED huevars
    /\ UNCHANGED <<fixed, phase, client, items, remembered, counts>>

BatchEnds ==
    /\ phase = "delivering"
    /\ \A i \in DOMAIN tasks : tasks[i].at = "done"
    /\ phase' = "waiting"
    /\ tasks' = <<>>
    /\ UNCHANGED <<fixed, client, items, remembered, huevars, counts>>

-----------------------------------------------------------------------------
(* Stopping, time and crashes                                              *)

Handle ==
    \/ /\ stop = "no"
       /\ stop' = "first"
       /\ UNCHANGED <<second, tasks>>
    \/ /\ stop = "first" /\ second
       /\ stop' = "forced"
       /\ tasks' = [i \in DOMAIN tasks |->
                     IF tasks[i].at = "forwarding" THEN [tasks[i] EXCEPT !.at = "done"]
                     ELSE tasks[i]]
       /\ UNCHANGED second

(* SIGINT or SIGTERM: without a listener the process ends by it.           *)
Interrupt ==
    /\ phase \notin Stopped
    /\ \/ /\ listening
          /\ Handle
          /\ UNCHANGED phase
       \/ /\ ~listening
          /\ phase' = "killed"
          /\ UNCHANGED <<stop, second, tasks>>
    /\ UNCHANGED <<fixed, listening, fatal, items, remembered, huevars, counts>>

SecondPasses ==
    /\ phase \notin Stopped /\ stop # "no" /\ ~second
    /\ second' = TRUE
    /\ listening' = (listening /\ phase # "ended")
    /\ UNCHANGED <<fixed, phase, stop, fatal, items, tasks, remembered, huevars, counts>>

(* The lease of a delivery has ended by the command's own reckoning.       *)
DeadlinePasses(i) ==
    /\ tasks[i].at # "done" /\ ~tasks[i].over
    /\ tasks' = [tasks EXCEPT ![i].over = TRUE]
    /\ UNCHANGED <<fixed, phase, client, items, remembered, huevars, counts>>

LeaseLapses(d) ==
    /\ hue[d] = "leased"
    /\ hue' = [hue EXCEPT ![d] = "lapsed"]
    /\ UNCHANGED <<fixed, phase, client, items, tasks, remembered, record, counts>>

Exit ==
    /\ phase = "ended" /\ ~listening
    /\ phase' = "exited"
    /\ UNCHANGED <<fixed, client, items, tasks, remembered, huevars, counts>>

Die ==
    /\ phase \notin Stopped
    /\ phase' = "dead"
    /\ items' = <<>> /\ tasks' = <<>>
    /\ UNCHANGED <<fixed, client, remembered, huevars, counts>>

Restart ==
    /\ phase \in Stopped /\ runs < MaxRuns
    /\ phase' = "loop"
    /\ stop' = "no" /\ second' = FALSE /\ listening' = TRUE /\ fatal' = FALSE
    /\ items' = <<>> /\ tasks' = <<>> /\ remembered' = <<>>
    /\ sent' = [d \in Delivery |-> 0]
    /\ owed' = {}
    /\ max' \in 1..Batch
    /\ runs' = runs + 1
    /\ UNCHANGED <<huevars, produced>>

TaskStep(i) ==
    Forwarded(i) \/ SendAck(i) \/ GiveUp(i) \/ AckAnswered(i) \/ AckUnanswered(i)

Progress ==
    \/ BeginPull \/ LoopEnds
    \/ HueAnswers \/ PullAnswered \/ PullStopped \/ PullFails \/ PullRefused
    \/ BodyFails \/ ReadAnswer \/ Wake
    \/ \E i \in DOMAIN tasks : TaskStep(i)
    \/ BatchEnds
    \/ SecondPasses \/ Exit

ListenerNext ==
    \/ Progress
    \/ Interrupt \/ Die \/ Restart
    \/ \E i \in DOMAIN tasks : DeadlinePasses(i)
    \/ \E d \in Delivery : LeaseLapses(d)

(* Every wait of the command is ended by an answer, a timer or a stop, and *)
(* the time a lease leaves passes.  Nothing says which answer comes.       *)
ListenerSpec == ListenerInit /\ [][ListenerNext]_listenerVars
FairListenerSpec ==
    /\ ListenerSpec
    /\ WF_listenerVars(Progress)
    /\ \A i \in 1..Batch : WF_listenerVars(i \in DOMAIN tasks /\ DeadlinePasses(i))

-----------------------------------------------------------------------------
(* Properties                                                              *)

(* No more deliveries are at work than --max; a request reaches            *)
(* the receiver once for as long as its answer is remembered, although Hue *)
(* hands it out again or twice at once (deliver, readPull); and Hue records*)
(* of a delivery only what a forward of that delivery ended with, whatever *)
(* is stopped, repeated, evicted or restarted (the head comment, deliver). *)
AnsweredOnce ==
    /\ ListenerTypeOK
    /\ \A d \in Delivery :
        /\ sent[d] <= 1
        /\ record[d] # None => record[d] \in produced[d]

(* What Hue has leased and the command accepted is acknowledged before it  *)
(* goes on or ends, also when a stop arrives while it is read, the lease   *)
(* is over or another delivery failed; a second stop alone abandons it     *)
(* (pull, acknowledge).                                                    *)
OwedAreAcknowledged ==
    owed # {} => phase \in {"reading", "delivering", "dead"} \/ stop = "forced"

(* A stop request that repeats the first within the second never ends the  *)
(* process by its signal, also when the loop has ended meanwhile (the      *)
(* `finally` of runListenCommand).                                         *)
RepeatIsHeard == phase = "killed" => stop = "no" \/ second

(* A stop ends the command: every pull, forward and pause ends, and an     *)
(* acknowledgement Hue never answers is repeated no longer than its lease. *)
Stops == stop # "no" ~> (phase \in Stopped \/ stop = "no")

(* A first stop ends the command in order: with what it accepted           *)
(* acknowledged, and never by the signal that repeats it.                  *)
StopIsOrderly == OwedAreAcknowledged /\ RepeatIsHeard

=============================================================================
