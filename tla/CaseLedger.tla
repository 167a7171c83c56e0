------------------------------ MODULE CaseLedger ------------------------------
(***************************************************************************)
(* What an experiment run promises about each of its cases, without        *)
(* checkpoints, processes or crashes: the target may be attempted again    *)
(* while no outcome of it is saved, an outcome once saved is never taken   *)
(* again, and the case is completed from that outcome or by someone else.  *)
(***************************************************************************)
EXTENDS Naturals

CONSTANT Case

VARIABLES
  cases,       (* the cases of this experiment                             *)
  standing,    (* how far each case has come                               *)
  attempts,    (* how often its target was called                          *)
  finished     (* the experiment is marked finished                        *)

Standing == {"idle", "attempted", "answered", "completed"}

TypeOK ==
  /\ cases \subseteq Case
  /\ standing \in [Case -> Standing]
  /\ attempts \in [Case -> Nat]
  /\ finished \in BOOLEAN

Init ==
  /\ cases \subseteq Case
  /\ standing = [c \in Case |-> "idle"]
  /\ attempts = [c \in Case |-> 0]
  /\ finished = FALSE

Attempt(c) ==
  /\ standing[c] \in {"idle", "attempted"}
  /\ standing' = [standing EXCEPT ![c] = "attempted"]
  /\ attempts' = [attempts EXCEPT ![c] = @ + 1]
  /\ UNCHANGED <<cases, finished>>

Answer(c) ==
  /\ standing[c] = "attempted"
  /\ standing' = [standing EXCEPT ![c] = "answered"]
  /\ UNCHANGED <<cases, attempts, finished>>

Complete(c) ==
  /\ standing[c] = "answered"
  /\ standing' = [standing EXCEPT ![c] = "completed"]
  /\ UNCHANGED <<cases, attempts, finished>>

(* An operator of Hue resolves an attempt that was left open.              *)
Resolve(c) ==
  /\ standing[c] \in {"idle", "attempted"}
  /\ standing' = [standing EXCEPT ![c] = "completed"]
  /\ UNCHANGED <<cases, attempts, finished>>

Finish ==
  /\ \A c \in cases : standing[c] = "completed"
  /\ finished' = TRUE
  /\ UNCHANGED <<cases, standing, attempts>>

Next ==
  \/ Finish
  \/ \E c \in cases : Attempt(c) \/ Answer(c) \/ Complete(c) \/ Resolve(c)

Spec == Init /\ [][Next]_<<cases, standing, attempts, finished>>
=============================================================================
