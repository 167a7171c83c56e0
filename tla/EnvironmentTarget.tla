-------------------------- MODULE EnvironmentTarget --------------------------
(***************************************************************************)
(* A case in a world (evals/environment-target.ts): create the world,      *)
(* prepare the attempt, start the target, and finalize the world whatever  *)
(* came of it, before the call ends with an outcome to save.  What cannot  *)
(* be confirmed ends it as "uncertain", without an outcome.  Hue's world   *)
(* may expire at any time, and seals a completing one after a grace.       *)
(***************************************************************************)
EXTENDS Integers

CONSTANTS
    Run,        \* the executions, each with one world
    MaxLost     \* bound: requests without an answer

VARIABLES
    world,      \* world[r]: the execution's world at Hue
    gap,        \* the journal of the call's world names a missing behavior
    call,       \* how far the call is
    closing,    \* the status the world is to be sealed with
    ending,     \* what the call ends with once the world is sealed
    stopped,    \* the caller's signal is aborted
    lost

worlds == <<world, gap>>
calling == <<call, closing, ending>>
targetVars == <<worlds, calling, lost>>

WorldState == {"none", "open", "completing", "completed", "abandoned", "expired"}
Open == {"open", "completing"}
(* "uncreated": an error whose world is not known to exist.                *)
Ending == {"output", "incomplete", "error", "cancelled", "uncreated"}

TargetTypeOK ==
    /\ world \in [Run -> WorldState]
    /\ gap \in BOOLEAN
    /\ call \in {"none", "create", "prepare", "target", "inspect", "seal", "settle",
                 "ended", "uncertain"}
    /\ closing \in {"completed", "abandoned"}
    /\ ending \in Ending
    /\ lost \in 0..MaxLost

TargetInit ==
    /\ world = [r \in Run |-> "none"]
    /\ gap = FALSE
    /\ call = "none"
    /\ closing = "completed"
    /\ ending = "error"
    /\ lost = 0

Lose == lost < MaxLost /\ lost' = lost + 1
Answered == UNCHANGED lost

-----------------------------------------------------------------------------
(* Steps of the call.                                                      *)

(* The case's outcome goes through the inspection of the world.            *)
Fail(outcome) ==
    /\ call' = "inspect"
    /\ ending' = outcome
    /\ UNCHANGED closing

SealAs(status, outcome) ==
    /\ call' = "seal"
    /\ closing' = status
    /\ ending' = outcome

Uncertain == call' = "uncertain" /\ UNCHANGED <<closing, ending>>

(* The world is known to be sealed.  A stop turns what failed into a       *)
(* cancellation.                                                           *)
End ==
    /\ call' = "ended"
    /\ ending' = IF closing = "abandoned" /\ stopped THEN "cancelled" ELSE ending
    /\ UNCHANGED closing

Begin ==
    /\ call = "none"
    /\ call' = "create"
    /\ gap' = FALSE
    /\ UNCHANGED <<world, closing, ending, lost>>

(* The create, under the execution's own key; waiting for a world that is  *)
(* prepared ends with the stop.  A failure leaves the world unknown.       *)
Create(r) ==
    /\ call = "create"
    /\ UNCHANGED gap
    /\ \/ /\ world' = [world EXCEPT ![r] = "open"]
          /\ IF stopped THEN Fail("cancelled") ELSE call' = "prepare" /\ UNCHANGED <<closing, ending>>
          /\ Answered
       \/ /\ world' \in {world, [world EXCEPT ![r] = "open"]}
          /\ call' = "ended"
          /\ ending' = "uncreated"
          /\ UNCHANGED closing
          /\ Lose \/ (stopped /\ Answered)

(* The provider attempt or the capability: ready, incomplete, refused, or  *)
(* decided with its answer lost.                                           *)
Prepare(r) ==
    /\ call = "prepare"
    /\ \/ /\ IF stopped THEN Fail("cancelled") ELSE call' = "target" /\ UNCHANGED <<closing, ending>>
          /\ UNCHANGED gap /\ Answered
       \/ gap' = TRUE /\ SealAs("completed", "incomplete") /\ Answered
       \/ Fail("error") /\ UNCHANGED gap /\ Lose
       \/ Uncertain /\ gap' \in BOOLEAN /\ Lose
    /\ UNCHANGED world

(* The target settled first.                                               *)
Return(outcome) ==
    /\ call = "target"
    /\ IF outcome = "output" THEN SealAs("completed", "output") ELSE Fail(outcome)
    /\ UNCHANGED <<worlds, lost>>

(* The world's deadline and its margin passed first; the target is told    *)
(* and left behind.                                                        *)
Deadline ==
    /\ call = "target"
    /\ Fail("error")
    /\ UNCHANGED <<worlds, lost>>

(* A slip: the outcome of a target that failed needs no seal.              *)
InspectLast ==
    /\ call = "inspect"
    /\ call' = "ended"
    /\ UNCHANGED <<closing, ending, worlds, lost>>

(* A failed case is inspected: a recorded gap makes it incomplete.         *)
Inspect ==
    /\ call = "inspect"
    /\ \/ gap /\ SealAs("completed", "incomplete") /\ Answered
       \/ ~gap /\ SealAs("abandoned", ending) /\ Answered
       \/ Uncertain /\ Lose
    /\ UNCHANGED worlds

(* What Hue makes of the finish: a completed gateway world has a grace.    *)
Finished(r) ==
    LET grace == IF closing = "completed" THEN {"completing"} ELSE {}
    IN  world[r] = "open" /\ \E s \in {closing} \cup grace : world' = [world EXCEPT ![r] = s]

(* A refused or lost finish is decided by reading the world: it may have   *)
(* been sealed so, have expired, or be on its way.                         *)
Recovered(r) ==
    IF world'[r] \in {closing, "expired"} THEN End
    ELSE IF world'[r] = "completing" THEN call' = "settle" /\ UNCHANGED <<closing, ending>>
    ELSE Uncertain

(* A slip: an answer that was lost counts as the seal.                     *)
SealUnread(r) ==
    /\ call = "seal"
    /\ \/ Finished(r) /\ Recovered(r) /\ Answered
       \/ UNCHANGED world /\ End /\ Lose
    /\ UNCHANGED gap

Seal(r) ==
    /\ call = "seal"
    /\ \/ Finished(r) /\ Recovered(r) /\ Answered
       \/ world[r] # "open" /\ UNCHANGED world /\ Recovered(r) /\ Answered
       \/ (Finished(r) \/ UNCHANGED world) /\ (Recovered(r) \/ Uncertain) /\ Lose
    /\ UNCHANGED gap

(* awaitSeal: read until the world has left open, or too late.             *)
Settle(r) ==
    /\ call = "settle"
    /\ \/ world[r] \notin Open /\ End
       \/ Uncertain
    /\ UNCHANGED <<worlds, lost>>

(* The call is over, or gone with its process.                             *)
Drop ==
    /\ call' = "none"
    /\ closing' = "completed"
    /\ ending' = "error"
    /\ gap' = FALSE

(* The runner has taken the call's end.                                    *)
Taken ==
    /\ call \in {"ended", "uncertain"}
    /\ Drop
    /\ UNCHANGED <<world, lost>>

CallStep(r) == Create(r) \/ Prepare(r) \/ Inspect \/ Seal(r) \/ Settle(r)

-----------------------------------------------------------------------------
(* Hue: a world's lifetime, and the seal after the grace.                  *)
WorldStep(r) ==
    /\ \/ world[r] = "open" /\ world' = [world EXCEPT ![r] = "expired"]
       \/ world[r] = "completing" /\ world' = [world EXCEPT ![r] = "completed"]
    /\ UNCHANGED <<gap, calling, lost>>

(* A request of the agent meets a behavior the world does not have.        *)
Misses(r) ==
    /\ world[r] = "open"
    /\ call \in {"target", "inspect"}
    /\ ~gap
    /\ gap' = TRUE
    /\ UNCHANGED <<world, calling, lost>>
=============================================================================
