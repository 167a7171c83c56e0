----------------------------- MODULE AgentCommand -----------------------------
(***************************************************************************)
(* The agent command of a case (cli/eval.ts, spawnAgentCommand): a shell   *)
(* in a process group of its own, with the agent it started.  A command    *)
(* settles once its output closed and nothing it started is left; a        *)
(* timeout, too much output or a stop sends SIGTERM to the group, SIGKILL  *)
(* to what is left after a grace, and settles after another, also with     *)
(* survivors.  Windows has no groups: there the agent is out of the CLI's  *)
(* sight, and may be left when the command settles.                        *)
(* The processes are the system's: they end when they like, signalled or   *)
(* not.                                                                    *)
(***************************************************************************)
EXTENDS Integers

CONSTANTS
    Run,            \* the executions, each with one command
    Grouped         \* those on a platform with process groups

VARIABLES
    members,        \* members[r]: what running sees left of the command, its
                    \* group or its shell; a "survivor" outlived SIGKILL
    command         \* command[r]: the CLI's handle of the command

commandVars == <<members, command>>

(* A "starting" command's files are being written, a "sweeping" one closed  *)
(* and left processes behind, a "lost" one is without its CLI.             *)
CommandState == {"none", "starting", "running", "sweeping", "stopping", "settled", "lost"}

CommandTypeOK ==
    /\ members \in [Run -> SUBSET {"shell", "agent", "survivor"}]
    /\ command \in [Run -> CommandState]

CommandInit ==
    /\ members = [r \in Run |-> {}]
    /\ command = [r \in Run |-> "none"]

Unsettled == {r \in Run : command[r] \in {"running", "sweeping", "stopping"}}

(* The command's adapter is called.                                        *)
Invoke(r) ==
    /\ command' = [command EXCEPT ![r] = "starting"]
    /\ UNCHANGED members

(* Spawned with the signal listened to: an abort that came before is seen.  *)
(* The shell starts the agent, which is in sight if they are a group.      *)
Spawn(r, aborted) ==
    /\ command[r] = "starting"
    /\ command' = [command EXCEPT ![r] = IF aborted THEN "stopping" ELSE "running"]
    /\ members' = [members EXCEPT ![r] = IF r \in Grouped THEN {"shell", "agent"} ELSE {"shell"}]

(* Its files cannot be written, or the system refuses the process.         *)
CannotStart(r) ==
    /\ command[r] = "starting"
    /\ command' = [command EXCEPT ![r] = "settled"]
    /\ UNCHANGED members

(* The shell exits, with what it started or before it; what a settled      *)
(* command left behind stays as it is.                                     *)
Exits(r) ==
    /\ command[r] # "settled"
    /\ \E left \in SUBSET (members[r] \ {"shell"}) :
        /\ left # members[r]
        /\ members' = [members EXCEPT ![r] = left]
    /\ UNCHANGED command

(* A slip: the command settles when its output closed.                     *)
CloseSettles(r) ==
    /\ command[r] = "running"
    /\ "shell" \notin members[r]
    /\ command' = [command EXCEPT ![r] = "settled"]
    /\ UNCHANGED members

(* The shell has exited and its output closed: what it left in the group   *)
(* is stopped first.  Without groups it is not looked for.                 *)
Closes(r) ==
    /\ command[r] = "running"
    /\ "shell" \notin members[r]
    /\ command' = [command EXCEPT ![r] = IF members[r] = {} THEN "settled" ELSE "sweeping"]
    /\ UNCHANGED members

(* The timeout, or more output than is taken.                              *)
Overruns(r) ==
    /\ command[r] = "running"
    /\ command' = [command EXCEPT ![r] = "stopping"]
    /\ UNCHANGED members

(* An abort of the signals of R.                                           *)
Cancel(R) ==
    /\ command' = [r \in Run |-> IF r \in R /\ command[r] = "running" THEN "stopping" ELSE command[r]]
    /\ UNCHANGED members

(* The grace is over: SIGKILL, which may be refused, or be slow.           *)
Kill(r) ==
    /\ command[r] \in {"sweeping", "stopping"}
    /\ members[r] \cap {"shell", "agent"} # {}
    /\ \E survivors \in SUBSET {"survivor"} :
        members' = [members EXCEPT ![r] = survivors]
    /\ UNCHANGED command

(* The poll finds nothing left, or has waited long enough for it to end.   *)
StopEnds(r) ==
    /\ command[r] \in {"sweeping", "stopping"}
    /\ members[r] \subseteq {"survivor"}
    /\ command' = [command EXCEPT ![r] = "settled"]
    /\ UNCHANGED members

(* What the settled command is taken for, seen from the step that settles  *)
(* it: the abort counts before the timeout, and that before the exit code. *)
Answer(r, aborted) ==
    IF command[r] = "starting" THEN {"error"}
    ELSE IF aborted THEN {"cancelled"}
    ELSE IF command[r] = "stopping" THEN {"error"}
    ELSE {"output", "error"}

(* The CLI is gone, with every command settled, or killed, or by a second  *)
(* interrupt that signals every group: what is left of its commands is     *)
(* followed no further.                                                    *)
Abandon ==
    /\ command' = [r \in Run |->
          IF command[r] \in {"none", "settled"} THEN command[r] ELSE "lost"]
    /\ members' = [r \in Run |-> {}]

Exit == Unsettled = {} /\ Abandon
=============================================================================
