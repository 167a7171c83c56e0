---------------------------- MODULE CheckpointLock ----------------------------
(***************************************************************************)
(* The lock of a checkpoint directory (evals/checkpoint.ts): a `.lock`     *)
(* directory made with mkdir, an owner record written into it afterwards,  *)
(* and the takeover of a lock whose owner died on this machine.            *)
(*                                                                         *)
(* Every file system call is one step, since processes interleave between  *)
(* two awaits.  A directory is its contents: Absent, Empty (made, no owner *)
(* record yet) or the process whose record it holds; records carry a fresh *)
(* UUID, so the record of an owner is the owner.  A process of the model   *)
(* is one incarnation that acquires the directory once.                    *)
(***************************************************************************)
EXTENDS FiniteSets

CONSTANTS Process,   (* incarnations of processes that use the directory   *)
          Host,      (* the machine each one runs on                       *)
          Absent,    (* no directory at the path                           *)
          Empty      (* a directory without an owner record                *)

ASSUME LockAssumption ==
  /\ Absent \notin Process
  /\ Empty \notin Process
  /\ Absent # Empty

VARIABLES
  lock,        (* the directory at `.lock`                                 *)
  dead,        (* the directory at `.lock-dead-<digest of o's record>`     *)
  phase,       (* what each process does next                              *)
  seen,        (* the owner record each process read from a lock           *)
  reclaimed,   (* CheckpointStore.reclaimed                                *)
  stale        (* history: a rename moved a lock that was not the one read *)

lockVars == <<lock, dead, phase, seen, reclaimed, stale>>

Phase == {"mkdir", "read", "probe", "rename", "verify", "back", "remake",
          "owner", "held", "running", "unlink", "rmdir", "done", "gone"}

Dir == Process \cup {Absent, Empty}

(* Phases in which a process believes the directory at `.lock` is its own. *)
Owning == {"owner", "held", "running", "unlink", "rmdir"}

(* Phases in which a process works under the store: acquire has returned.  *)
Holding == {"held", "running"}

Enter(p, to) == phase' = [phase EXCEPT ![p] = to]

LockInit ==
  /\ lock = Absent
  /\ dead = [o \in Process |-> Absent]
  /\ phase = [p \in Process |-> "mkdir"]
  /\ seen = [p \in Process |-> p]
  /\ reclaimed = [p \in Process |-> FALSE]
  /\ stale = FALSE

-----------------------------------------------------------------------------
(* What the guards read, each after the form a slip would give it.         *)

EmptyIsFree == lock \in {Absent, Empty}
(* createLock: mkdir makes the directory, or finds one (EEXIST).           *)
Free == lock = Absent

(* The record at the path can be read: it has been written, and not moved. *)
Recorded == lock \in Process

ExitedAnywhere(o, p) == phase[o] = "gone"
(* process.kill(pid, 0) finds no process; only asked for this machine's.   *)
Exited(o, p) == Host[o] = Host[p] /\ phase[o] = "gone"

Unverified(p) == TRUE
(* The directory that was moved holds the record that was read.            *)
Verified(p) == dead[seen[p]] = seen[p]

-----------------------------------------------------------------------------
(* CheckpointStore.acquire: createLock, then reclaimLock when it exists.   *)

Mkdir(p) ==
  /\ phase[p] = "mkdir"
  /\ \/ /\ Free
        /\ lock' = Empty
        /\ Enter(p, "owner")
     \/ /\ ~Free
        /\ Enter(p, "read")
        /\ UNCHANGED lock
  /\ UNCHANGED <<dead, seen, reclaimed, stale>>

(* A lock that is gone, or holds no readable record, is refused.           *)
ReadOwner(p) ==
  /\ phase[p] = "read"
  /\ \/ /\ Recorded
        /\ seen' = [seen EXCEPT ![p] = lock]
        /\ Enter(p, "probe")
     \/ /\ ~Recorded
        /\ Enter(p, "done")
        /\ UNCHANGED seen
  /\ UNCHANGED <<lock, dead, reclaimed, stale>>

(* An exited owner may still seem to run: its pid may be in use again.     *)
Probe(p) ==
  /\ phase[p] = "probe"
  /\ \/ /\ Exited(seen[p], p)
        /\ Enter(p, "rename")
     \/ Enter(p, "done")
  /\ UNCHANGED <<lock, dead, seen, reclaimed, stale>>

(* rename(2) of a directory succeeds onto a free name or an empty          *)
(* directory; it moves whatever `.lock` is by now.                         *)
Rename(p) ==
  /\ phase[p] = "rename"
  /\ \/ /\ lock # Absent
        /\ dead[seen[p]] \in {Absent, Empty}
        /\ dead' = [dead EXCEPT ![seen[p]] = lock]
        /\ lock' = Absent
        /\ stale' = (stale \/ lock # seen[p])
        /\ Enter(p, "verify")
     \/ /\ lock = Absent \/ dead[seen[p]] \notin {Absent, Empty}
        /\ Enter(p, "done")
        /\ UNCHANGED <<lock, dead, stale>>
  /\ UNCHANGED <<seen, reclaimed>>

Verify(p) ==
  /\ phase[p] = "verify"
  /\ Enter(p, IF Verified(p) THEN "remake" ELSE "back")
  /\ UNCHANGED <<lock, dead, seen, reclaimed, stale>>

(* The wrong lock was moved: it is renamed back, best effort.              *)
MoveBack(p) ==
  /\ phase[p] = "back"
  /\ IF dead[seen[p]] # Absent /\ lock \in {Absent, Empty}
       THEN /\ lock' = dead[seen[p]]
            /\ dead' = [dead EXCEPT ![seen[p]] = Absent]
       ELSE UNCHANGED <<lock, dead>>
  /\ Enter(p, "done")
  /\ UNCHANGED <<seen, reclaimed, stale>>

Remake(p) ==
  /\ phase[p] = "remake"
  /\ IF Free
       THEN /\ lock' = Empty
            /\ reclaimed' = [reclaimed EXCEPT ![p] = TRUE]
            /\ Enter(p, "owner")
       ELSE /\ Enter(p, "done")
            /\ UNCHANGED <<lock, reclaimed>>
  /\ UNCHANGED <<dead, seen, stale>>

(* store.write(".lock/owner"): by path, so a lock that was moved away      *)
(* fails it, and acquire then releases what is at the path.                *)
WriteOwner(p) ==
  /\ phase[p] = "owner"
  /\ IF lock = Absent
       THEN /\ Enter(p, "unlink")
            /\ UNCHANGED lock
       ELSE /\ lock' = p
            /\ Enter(p, "held")
  /\ UNCHANGED <<dead, seen, reclaimed, stale>>

-----------------------------------------------------------------------------
(* The run under the store.                                                *)
StartCases(p) ==
  /\ phase[p] = "held"
  /\ Enter(p, "running")
  /\ UNCHANGED <<lock, dead, seen, reclaimed, stale>>

(* release(), the failure path of acquire and a forced exit all remove     *)
(* `.lock` recursively, by path.                                           *)
Release(p) ==
  /\ phase[p] \in {"owner", "held", "running"}
  /\ Enter(p, "unlink")
  /\ UNCHANGED <<lock, dead, seen, reclaimed, stale>>

Unlink(p) ==
  /\ phase[p] = "unlink"
  /\ IF lock = Absent
       THEN /\ Enter(p, "done")
            /\ UNCHANGED lock
       ELSE /\ lock' = Empty
            /\ Enter(p, "rmdir")
  /\ UNCHANGED <<dead, seen, reclaimed, stale>>

Rmdir(p) ==
  /\ phase[p] = "rmdir"
  /\ IF lock \in Process
       THEN /\ Enter(p, "unlink")
            /\ UNCHANGED lock
       ELSE /\ lock' = Absent
            /\ Enter(p, "done")
  /\ UNCHANGED <<dead, seen, reclaimed, stale>>

-----------------------------------------------------------------------------
(* A process exits when it is done, or dies anywhere.                      *)
Exit(p) ==
  /\ phase[p] = "done"
  /\ Enter(p, "gone")
  /\ UNCHANGED <<lock, dead, seen, reclaimed, stale>>

Dies(p) ==
  /\ phase[p] \notin {"done", "gone"}
  /\ Enter(p, "gone")
  /\ UNCHANGED <<lock, dead, seen, reclaimed, stale>>

Acquiring(p) == Mkdir(p) \/ ReadOwner(p) \/ Probe(p) \/ Rename(p) \/ Verify(p)
                  \/ MoveBack(p) \/ Remake(p) \/ WriteOwner(p)

LockNext == \E p \in Process :
              Acquiring(p) \/ StartCases(p) \/ Release(p) \/ Unlink(p) \/ Rmdir(p)
                \/ Exit(p) \/ Dies(p)

LockSpec == LockInit /\ [][LockNext]_lockVars

-----------------------------------------------------------------------------
LockTypeOK ==
  /\ lock \in Dir
  /\ dead \in [Process -> Dir]
  /\ phase \in [Process -> Phase]
  /\ seen \in [Process -> Process]
  /\ reclaimed \in [Process -> BOOLEAN]
  /\ stale \in BOOLEAN

(* One owner per directory: no two processes work under the store at once  *)
(* (the doc comment of CheckpointStore).                                   *)
OneOwner ==
  \A p, q \in Process : phase[p] \in Holding /\ phase[q] \in Holding => p = q

(* The takeover protocol is exclusive as long as no rename moved a lock    *)
(* other than the one whose owner was read: a lost owner record, a crash   *)
(* at any step, two takers of one dead lock or a recursive removal that is *)
(* interrupted never give the directory to two processes.                  *)
OneOwnerUnlessStale == ~stale => OneOwner

(* p has taken a lock over, or is about to make the new one.               *)
Took(p) == phase[p] = "remake" \/ reclaimed[p]

(* A lock is taken over only from a process that is gone, and from this    *)
(* machine, however long ago it was probed; the state is well typed.       *)
TakenFromTheDead ==
  /\ LockTypeOK
  /\ \A p \in Process :
       Took(p) => phase[seen[p]] = "gone" /\ Host[seen[p]] = Host[p]
=============================================================================
