------------------------- MODULE ExperimentRunProofs -------------------------
(***************************************************************************)
(* What an experiment run promises whatever the number of cases and of     *)
(* faults: that each execution is given to the target once, that Hue takes *)
(* every completion, that what is written down is so, and that the run     *)
(* implements CaseLedger.  And what the lock of its checkpoint directory   *)
(* promises, for every set of processes and machines.                      *)
(***************************************************************************)
EXTENDS ExperimentRun, CheckpointLock, FiniteSetTheorems, SequenceTheorems, TLAPS

-----------------------------------------------------------------------------
(* The lock of the checkpoint directory a run works in.                    *)

(* The variables keep their types.                                         *)
LEMMA LockTypingStep == ASSUME LockTypeOK, [LockNext]_lockVars PROVE LockTypeOK'
<1> USE DEF LockTypeOK, Dir, Phase, Enter
<1>1. ASSUME NEW p \in Process, Acquiring(p) PROVE LockTypeOK'
  <2>1. CASE Mkdir(p) BY <2>1 DEF Mkdir
  <2>2. CASE ReadOwner(p) BY <2>2 DEF ReadOwner, Recorded
  <2>3. CASE Probe(p) BY <2>3 DEF Probe
  <2>4. CASE Rename(p)
    <3>1. stale' \in BOOLEAN BY <2>4, Zenon DEF Rename
    <3> QED BY <2>4, <3>1 DEF Rename
  <2>5. CASE Verify(p) BY <2>5 DEF Verify
  <2>6. CASE MoveBack(p) BY <2>6 DEF MoveBack
  <2>7. CASE Remake(p) BY <2>7 DEF Remake
  <2>8. CASE WriteOwner(p) BY <2>8 DEF WriteOwner
  <2> QED BY <1>1, <2>1, <2>2, <2>3, <2>4, <2>5, <2>6, <2>7, <2>8 DEF Acquiring
<1>2. ASSUME NEW p \in Process, StartCases(p) PROVE LockTypeOK'
  BY <1>2 DEF StartCases
<1>3. ASSUME NEW p \in Process, Release(p) PROVE LockTypeOK'
  BY <1>3 DEF Release
<1>4. ASSUME NEW p \in Process, Unlink(p) \/ Rmdir(p) PROVE LockTypeOK'
  BY <1>4 DEF Unlink, Rmdir
<1>5. ASSUME NEW p \in Process, Exit(p) \/ Dies(p) PROVE LockTypeOK'
  BY <1>5 DEF Exit, Dies
<1>6. CASE UNCHANGED lockVars BY <1>6 DEF lockVars
<1> QED BY <1>1, <1>2, <1>3, <1>4, <1>5, <1>6 DEF LockNext

(* Every state of the lock protocol is well typed.                         *)
THEOREM LockTyping == LockSpec => []LockTypeOK
<1>1. LockInit => LockTypeOK BY DEF LockInit, LockTypeOK, Dir, Phase
<1> QED BY <1>1, LockTypingStep, PTL DEF LockSpec

-----------------------------------------------------------------------------
(* What a takeover stands on, whatever was moved: the record it read is of *)
(* a process of this machine that is gone, and gone is for ever.           *)
Judged == {"rename", "verify", "back", "remake"}
After == Owning \cup {"done", "gone"}
DeadInv ==
  \A p \in Process :
    /\ phase[p] \in Judged \/ reclaimed[p] =>
         phase[seen[p]] = "gone" /\ Host[seen[p]] = Host[p]
    /\ reclaimed[p] => phase[p] \in After

LEMMA DeadStep == ASSUME LockTypeOK, DeadInv, [LockNext]_lockVars PROVE DeadInv'
<1> USE DEF LockTypeOK, DeadInv, Judged, After, Owning, Enter, Phase
<1>1. ASSUME NEW p \in Process, Acquiring(p) PROVE DeadInv'
  <2>1. CASE Mkdir(p) BY <1>1, <2>1 DEF Mkdir
  <2>2. CASE ReadOwner(p) BY <1>1, <2>2 DEF ReadOwner, Recorded
  <2>3. CASE Probe(p) BY <1>1, <2>3 DEF Probe, Exited
  <2>4. CASE Rename(p) BY <1>1, <2>4 DEF Rename
  <2>5. CASE Verify(p) BY <1>1, <2>5 DEF Verify
  <2>6. CASE MoveBack(p) BY <1>1, <2>6 DEF MoveBack
  <2>7. CASE Remake(p) BY <1>1, <2>7 DEF Remake
  <2>8. CASE WriteOwner(p) BY <1>1, <2>8 DEF WriteOwner
  <2> QED BY <1>1, <2>1, <2>2, <2>3, <2>4, <2>5, <2>6, <2>7, <2>8 DEF Acquiring
<1>2. ASSUME NEW p \in Process, StartCases(p) PROVE DeadInv'
  BY <1>2 DEF StartCases
<1>3. ASSUME NEW p \in Process, Release(p) PROVE DeadInv'
  BY <1>3 DEF Release
<1>4. ASSUME NEW p \in Process, Unlink(p) \/ Rmdir(p) PROVE DeadInv'
  BY <1>4 DEF Unlink, Rmdir
<1>5. ASSUME NEW p \in Process, Exit(p) \/ Dies(p) PROVE DeadInv'
  BY <1>5 DEF Exit, Dies
<1>6. CASE UNCHANGED lockVars BY <1>6 DEF lockVars
<1> QED BY <1>1, <1>2, <1>3, <1>4, <1>5, <1>6 DEF LockNext

(* reclaimLock takes a lock over only from a process of this machine that  *)
(* is gone, whatever happens between its probe and its mkdir.              *)
THEOREM DeadOwners == LockSpec => []TakenFromTheDead
<1>1. LockInit => LockTypeOK /\ DeadInv
  BY DEF LockInit, LockTypeOK, Dir, Phase, DeadInv, Judged
<1>2. LockTypeOK /\ DeadInv => TakenFromTheDead
  BY DEF DeadInv, TakenFromTheDead, Took, Judged
<1> QED BY <1>1, <1>2, LockTypingStep, DeadStep, PTL DEF LockSpec

-----------------------------------------------------------------------------
(* While no rename moved a lock other than the one that was read, the path *)
(* shows who owns the directory: an owner is the only one, the directory   *)
(* is at the path and holds its record or none, and every record that was  *)
(* moved away is the one its name was derived from.                        *)
SoleOwner ==
  \A p, q \in Process : phase[p] \in Owning /\ phase[q] \in Owning => p = q
PathShows ==
  \A p \in Process :
    /\ phase[p] \in {"owner", "rmdir"} => lock = Empty
    /\ phase[p] \in {"held", "running"} => lock = p
    /\ phase[p] = "unlink" => lock \in {p, Empty}
MovedRight ==
  \A p \in Process :
    /\ phase[p] = "verify" => dead[seen[p]] = seen[p]
    /\ phase[p] # "back"
OwnerInv == ~stale => SoleOwner /\ PathShows /\ MovedRight

LEMMA OwnerStep ==
  ASSUME LockTypeOK, DeadInv, OwnerInv, [LockNext]_lockVars PROVE OwnerInv'
<1> SUFFICES ASSUME ~stale' PROVE (SoleOwner /\ PathShows /\ MovedRight)'
  BY DEF OwnerInv
<1> USE LockAssumption DEF LockTypeOK, Enter, Phase, Dir
<1>0. ~stale => SoleOwner /\ PathShows /\ MovedRight BY DEF OwnerInv
<1> USE DEF SoleOwner, PathShows, MovedRight, Owning
<1>1. ASSUME NEW p \in Process, Acquiring(p)
      PROVE (SoleOwner /\ PathShows /\ MovedRight)'
  <2>1. CASE Mkdir(p) BY <1>0, <1>1, <2>1 DEF Mkdir, Free
  <2>2. CASE ReadOwner(p) BY <1>0, <1>1, <2>2 DEF ReadOwner, Recorded
  <2>3. CASE Probe(p) BY <1>0, <1>1, <2>3 DEF Probe
  <2>4. CASE Rename(p)
    <3>1. phase[seen[p]] = "gone" BY <1>1, <2>4 DEF Rename, DeadInv, Judged
    <3>2. CASE lock = seen[p]
      <4>1. \A q \in Process : phase[q] \notin Owning
        BY <1>0, <2>4, <3>1, <3>2 DEF Rename
      <4>2. seen' = seen /\ ~stale
        BY <2>4, <3>2, Zenon DEF Rename
      <4>3. \/ /\ phase' = [phase EXCEPT ![p] = "verify"]
               /\ dead' = [dead EXCEPT ![seen[p]] = lock]
            \/ phase' = [phase EXCEPT ![p] = "done"] /\ dead' = dead
        BY <2>4, Zenon DEF Rename
      <4>4. \A q \in Process : phase'[q] \notin Owning /\ phase'[q] # "back"
        BY <1>0, <1>1, <4>1, <4>2, <4>3
      <4>5. \A q \in Process : phase'[q] = "verify" => dead'[seen'[q]] = seen'[q]
        BY <1>0, <1>1, <3>2, <4>2, <4>3
      <4>6. SoleOwner' /\ PathShows'
        BY <4>4
      <4>7. MovedRight'
        BY <4>4, <4>5
      <4> HIDE DEF SoleOwner, PathShows, MovedRight
      <4> QED BY <4>6, <4>7
    <3>3. CASE lock # seen[p]
      <4>1. phase' = [phase EXCEPT ![p] = "done"] /\ UNCHANGED <<lock, dead, seen, stale>>
        BY <2>4, <3>3, Zenon DEF Rename
      <4> QED BY <1>0, <4>1
    <3> QED BY <3>2, <3>3
  <2>5. CASE Verify(p) BY <1>0, <1>1, <2>5 DEF Verify, Verified
  <2>6. CASE MoveBack(p) BY <1>0, <1>1, <2>6 DEF MoveBack
  <2>7. CASE Remake(p) BY <1>0, <1>1, <2>7 DEF Remake, Free
  <2>8. CASE WriteOwner(p) BY <1>0, <1>1, <2>8 DEF WriteOwner
  <2> QED BY <1>1, <2>1, <2>2, <2>3, <2>4, <2>5, <2>6, <2>7, <2>8 DEF Acquiring
<1>2. ASSUME NEW p \in Process, StartCases(p)
      PROVE (SoleOwner /\ PathShows /\ MovedRight)'
  BY <1>0, <1>2 DEF StartCases
<1>3. ASSUME NEW p \in Process, Release(p)
      PROVE (SoleOwner /\ PathShows /\ MovedRight)'
  BY <1>0, <1>3 DEF Release
<1>4. ASSUME NEW p \in Process, Unlink(p)
      PROVE (SoleOwner /\ PathShows /\ MovedRight)'
  BY <1>0, <1>4 DEF Unlink
<1>5. ASSUME NEW p \in Process, Rmdir(p)
      PROVE (SoleOwner /\ PathShows /\ MovedRight)'
  BY <1>0, <1>5 DEF Rmdir
<1>6. ASSUME NEW p \in Process, Exit(p) \/ Dies(p)
      PROVE (SoleOwner /\ PathShows /\ MovedRight)'
  BY <1>0, <1>6 DEF Exit, Dies
<1>7. CASE UNCHANGED lockVars BY <1>0, <1>7 DEF lockVars
<1> QED BY <1>1, <1>2, <1>3, <1>4, <1>5, <1>6, <1>7 DEF LockNext

(* One owner per directory, for as long as every rename moved the lock     *)
(* whose owner was read: crashes at any step, lost records and competing   *)
(* takers never give the directory to two processes.                       *)
THEOREM OneOwnerPerDirectory == LockSpec => []OneOwnerUnlessStale
<1>1. LockInit => LockTypeOK /\ DeadInv /\ OwnerInv
  BY DEF LockInit, LockTypeOK, Dir, Phase, DeadInv, Judged, OwnerInv, SoleOwner,
         PathShows, MovedRight, Owning
<1>2. OwnerInv => OneOwnerUnlessStale
  BY DEF OwnerInv, SoleOwner, Owning, OneOwnerUnlessStale, OneOwner, Holding
<1> QED BY <1>1, <1>2, LockTypingStep, DeadStep, OwnerStep, PTL DEF LockSpec

-----------------------------------------------------------------------------
(* The run.                                                                *)

(* A key is new to Hue until it is sent.                                   *)
Keyed(c) ==
  /\ \A i \in DOMAIN server[c] : server[c][i].key <= keys[c]
  /\ cp[c].key <= keys[c]
  /\ pc[c] = "start" => Known(c, cp[c].key) = {}

(* The checkpoint each step is taken with, and whose cases there are.      *)
Placed(c) ==
  /\ pc[c] \in {"fresh", "save_start"} => cp[c].stage \in {"none", "interrupted"}
  /\ pc[c] \in {"start", "replay", "save_running"} => cp[c].stage = "starting"
  /\ pc[c] \in {"target", "working", "save_outcome", "interrupted", "unserializable",
                "interrupt"} => cp[c].stage = "running"
  /\ pc[c] = "lookup" => cp[c].stage \in {"running", "unserializable"}
  /\ pc[c] \in {"publish", "resume"} => cp[c].stage = "uploading"
  /\ pc[c] \in {"flush", "judge", "policy", "decide", "complete", "save_completion",
                "score", "save_score"} => cp[c].stage = "prepared"
  /\ pc[c] # "waiting" \/ cp[c].stage # "none" => c \in Cases

(* The execution a step or a checkpoint is about is the current one, and   *)
(* only that one can be completed.                                         *)
Executing(c) ==
  /\ \A i \in DOMAIN server[c] : server[c][i].done # 0 => i = Current(c)
  /\ cp[c].stage = "running" => cp[c].exec \in DOMAIN server[c]
  /\ pc[c] \in {"save_running", "target", "working", "save_outcome"} =>
       /\ server[c] # <<>> /\ at[c].exec = Current(c)
       /\ server[c][Current(c)].done = 0
  /\ cp[c].stage \in {"uploading", "prepared"} =>
       server[c] # <<>> /\ cp[c].exec = Current(c)
  /\ cp[c].stage = "uploading" => server[c][Current(c)].done = 0
  /\ cp[c].stage = "prepared" =>
       cp[c].key # 0 /\ server[c][Current(c)].done \in {0, cp[c].key}

Invoked(c) ==
  /\ \A e \in Execs \ {0} :
       runs[c][e] <= 1 /\ (runs[c][e] # 0 => e <= Current(c))
  /\ pc[c] \in {"save_running", "target"} => runs[c][at[c].exec] = 0
  /\ pc[c] \in {"working", "save_outcome"} => runs[c][at[c].exec] = 1
  /\ answered[c] <=> cp[c].stage \in {"uploading", "prepared"}

(* A trace that was accepted is whole, but for spans that were not         *)
(* counted, and stays so.                                                  *)
Held(c) ==
  /\ cp[c].stage # "prepared" \/ pc[c] \in {"flush", "judge"} =>
       cp[c].export = "pending" /\ ~cp[c].done
  /\ cp[c].export = "accepted" =>
       \/ trace[c] = "whole"
       \/ cp[c].spans = "fewer" /\ trace[c] \in {"root", "root_lost"}
  /\ pc[c] = "judge" /\ at[c].verdict = "clean" => trace[c] = "whole"
  /\ cp[c].done \/ pc[c] \in {"complete", "save_completion"} => Acceptable(cp[c])

Ended(c) ==
  /\ cp[c].uploaded \/ pc[c] = "save_score" => scored[c]
  /\ cp[c].done \/ pc[c] \in {"save_completion", "score", "save_score", "done"}
       => Completed(c)
  /\ pc[c] = "done" => scored[c] \/ Dropped(c) \/ recovered
  /\ pc[c] = "failed" => failures

Local(c) ==
  Keyed(c) /\ Placed(c) /\ Executing(c) /\ Invoked(c) /\ Held(c) /\ Ended(c)

(* What was listed as completed is, and a pool that ended without a        *)
(* failure has every case.                                                 *)
Drained ==
  /\ run = "down" => \A c \in Case : pc[c] = "waiting"
  /\ run # "down" => items # <<>>
  /\ items # <<>> => \A c \in Case : items[1][c].done => Completed(c)
  /\ listed # <<>> => \A c \in Case : listed[1][c].done => Completed(c)
  /\ stop => failures
  /\ run \in {"rescore", "finish"} => \A c \in Cases : Completed(c)
  /\ run = "finish" => \A c \in Cases : scored[c] \/ Dropped(c)
  /\ FinishedWhole

IInv == TypeOK /\ Drained /\ \A c \in Case : Local(c)

USE RunAssumption DEF Setup, Execs, Stage, Trace, Steps, Awaits, Idle, Verdict, Cases,
                     Policy, disk, hue, process, cases, made, pool, outer

-----------------------------------------------------------------------------
(* A step of one case leaves the others as they are, and undoes nothing    *)
(* the process relies on.                                                  *)
Same(d) ==
  UNCHANGED <<cp[d], server[d], trace[d], scored[d], pc[d], at[d], keys[d], runs[d],
              answered[d]>>

Apart(c) ==
  /\ \A d \in Case : d # c => Same(d)
  /\ UNCHANGED <<setup, run, items, listed, finished>>
  /\ failures => failures'
  /\ recovered => recovered'
  /\ stop' => failures'
  /\ Completed(c) => Completed(c)'
  /\ scored[c] => scored'[c]
  /\ Dropped(c) => Dropped(c)'
  /\ run = "down" => pc'[c] = "waiting"

LEMMA SameLocal ==
  ASSUME NEW d \in Case, Local(d), Same(d), UNCHANGED setup,
         failures => failures', recovered => recovered'
  PROVE  Local(d)'
<1>1. Known(d, cp[d].key)' = Known(d, cp[d].key)
  BY DEF Same, Known
<1>2. /\ Current(d)' = Current(d) /\ (Completed(d)' <=> Completed(d))
      /\ (Dropped(d)' <=> Dropped(d)) /\ (Acceptable(cp[d])' <=> Acceptable(cp[d]))
  BY DEF Same, Current, Completed, Dropped, Acceptable
<1>3. Keyed(d)' /\ Placed(d)'
  BY <1>1 DEF Local, Same, Keyed, Placed
<1>4. Executing(d)' /\ Invoked(d)'
  BY <1>2 DEF Local, Same, Executing, Invoked
<1>5. Held(d)' /\ Ended(d)'
  BY <1>2 DEF Local, Same, Held, Ended
<1> QED
  BY <1>3, <1>4, <1>5 DEF Local

LEMMA ApartInv ==
  ASSUME IInv, NEW c \in Case, TypeOK', Local(c)', Apart(c)
  PROVE  IInv'
<1>1. ASSUME NEW d \in Case PROVE Local(d)'
  BY SameLocal DEF IInv, Apart
<1>2. ASSUME NEW d \in Case
      PROVE  /\ Completed(d) => Completed(d)'
             /\ scored[d] \/ Dropped(d) => scored'[d] \/ Dropped(d)'
             /\ run = "down" => pc'[d] = "waiting"
  <2>1. CASE d = c
    BY <2>1 DEF Apart
  <2>2. CASE d # c
    BY <2>2 DEF IInv, Drained, Apart, Same, Completed, Current, Dropped
  <2> QED
    BY <2>1, <2>2
<1>3. Cases \subseteq Case /\ UNCHANGED Cases
  BY DEF IInv, TypeOK, Apart
<1>4. Drained'
  BY <1>2, <1>3 DEF IInv, Drained, Apart, FinishedWhole
<1> QED
  BY <1>1, <1>4 DEF IInv

-----------------------------------------------------------------------------
LEMMA ReadStep ==
  ASSUME IInv, NEW c \in Case, Read(c)
  PROVE  IInv'
<1> DEFINE next == NextStep(cp[c])
<1>1. cp[c] \in Checkpoint /\ cp[c].stage \in Stage
  BY DEF IInv, TypeOK, Checkpoint
<1>2. /\ next.step \in {"fresh", "interrupt", "lookup", "replay", "resume", "decide"}
      /\ next.retry \in {0, cp[c].exec}
      /\ next.step = "fresh" => cp[c].stage \in {"none", "interrupted"}
      /\ next.step = "interrupt" => cp[c].stage = "running"
      /\ next.step = "lookup" => cp[c].stage \in {"running", "unserializable"}
      /\ next.step = "replay" => cp[c].stage = "starting"
      /\ next.step = "resume" => cp[c].stage = "uploading"
      /\ next.step = "decide" => cp[c].stage = "prepared"
  BY <1>1 DEF NextStep, Step
<1> HIDE DEF next
<1>3. /\ pc[c] = "read" /\ pc' = [pc EXCEPT ![c] = next.step]
      /\ at' = [at EXCEPT ![c] = [Nothing EXCEPT !.retry = next.retry,
                                 !.exec = cp[c].exec, !.unkept = cp[c].unkept]]
      /\ UNCHANGED <<outer, pool, hue, made, cp>>
  BY DEF Read, Go, next
<1>4. TypeOK'
  <2>1. [Nothing EXCEPT !.retry = next.retry, !.exec = cp[c].exec, !.unkept = cp[c].unkept]
          \in Memory
    <3>1. Nothing \in Memory
      BY DEF Nothing, Memory
    <3>2. next.retry \in Execs /\ cp[c].exec \in Execs /\ cp[c].unkept \in BOOLEAN
      BY <1>1, <1>2 DEF Checkpoint
    <3> QED
      BY <3>1, <3>2 DEF Memory
  <2> QED
    BY <1>2, <1>3, <2>1 DEF IInv, TypeOK
<1>5. Local(c)'
  <2>1. (Keyed(c) /\ Placed(c))'
    BY <1>2, <1>3 DEF IInv, TypeOK, Local, Keyed, Known, Placed, Acceptable
  <2>2. (Executing(c) /\ Invoked(c))'
    BY <1>2, <1>3 DEF IInv, TypeOK, Local, Executing, Current, Invoked, Completed
  <2>3. (Held(c) /\ Ended(c))'
    BY <1>2, <1>3 DEF IInv, TypeOK, Local, Current, Held, Ended, Completed, Dropped, Acceptable
  <2> QED
    BY <2>1, <2>2, <2>3 DEF Local
<1>6. Apart(c)
  BY <1>2, <1>3 DEF IInv, TypeOK, Drained, Apart, Same, Completed, Current, Dropped
<1> QED
  BY <1>4, <1>5, <1>6, ApartInv

(* A checkpoint is saved whole, and a step moves one case.                 *)
LEMMA Saved ==
  ASSUME TypeOK, NEW c \in Case, NEW value \in Checkpoint, Save(c, value)
  PROVE  /\ cp' \in [Case -> Checkpoint]
         /\ cp'[c] = value
         /\ \A d \in Case : d # c => cp'[d] = cp[d]
BY DEF TypeOK, Save

LEMMA Gone ==
  ASSUME TypeOK, NEW c \in Case, NEW step \in Steps, Go(c, step)
  PROVE  /\ pc' \in [Case -> Steps]
         /\ pc'[c] = step
         /\ \A d \in Case : d # c => pc'[d] = pc[d]
BY DEF TypeOK, Go

LEMMA Counted ==
  ASSUME TypeOK, faults < setup.faults, faults' = faults + 1
  PROVE  faults' \in 0..MaxFaults
BY DEF TypeOK

LEMMA Fields ==
  ASSUME TypeOK, NEW c \in Case
  PROVE  /\ Blank \in Checkpoint
         /\ cp[c] \in Checkpoint
         /\ at[c] \in Memory
         /\ server[c] \in Seq([key : Nat, done : Nat])
         /\ \A i \in DOMAIN server[c] :
              server[c][i].key \in Nat /\ server[c][i].done \in Nat
         /\ Current(c) \in Nat
         /\ keys[c] \in Nat
<1>1. Blank \in Checkpoint
  BY DEF Checkpoint, Blank, Count
<1>2. cp[c] \in Checkpoint /\ at[c] \in Memory /\ keys[c] \in Nat
  BY DEF TypeOK
<1>3. server[c] \in Seq([key : Nat, done : Nat])
  BY DEF TypeOK
<1>4. Current(c) \in Nat
  BY <1>3 DEF Current
<1>5. ASSUME NEW i \in 1..Len(server[c])
      PROVE  server[c][i].key \in Nat /\ server[c][i].done \in Nat
  <2>1. server[c][i] \in [key : Nat, done : Nat]
    BY <1>3, <1>5, ElementOfSeq
  <2> QED
    BY <2>1
<1>6. DOMAIN server[c] = 1..Len(server[c])
  BY <1>3
<1> QED
  BY <1>1, <1>2, <1>3, <1>4, <1>5, <1>6, Zenon

(* A checkpoint with one field set is one.                                 *)
LEMMA Refilled ==
  ASSUME NEW k \in Checkpoint
  PROVE  /\ \A stage \in Stage : [k EXCEPT !.stage = stage] \in Checkpoint
         /\ \A count \in Count : [k EXCEPT !.spans = count] \in Checkpoint
         /\ \A export \in {"accepted", "failed"} : [k EXCEPT !.export = export] \in Checkpoint
<1> USE DEF Checkpoint
<1>1. ASSUME NEW stage \in Stage PROVE [k EXCEPT !.stage = stage] \in Checkpoint
  OBVIOUS
<1>2. ASSUME NEW count \in Count PROVE [k EXCEPT !.spans = count] \in Checkpoint
  OBVIOUS
<1>3. ASSUME NEW export \in {"accepted", "failed"}
      PROVE  [k EXCEPT !.export = export] \in Checkpoint
  OBVIOUS
<1> HIDE DEF Checkpoint
<1> QED
  BY <1>1, <1>2, <1>3

LEMMA Staged ==
  ASSUME TypeOK, NEW c \in Case, NEW stage \in Stage
  PROVE  [cp[c] EXCEPT !.stage = stage] \in Checkpoint
BY Fields, Refilled

(* What most steps of a case leave alone.                                  *)
Kept(c) == UNCHANGED <<setup, server[c], trace[c], scored[c], runs[c]>>

LEMMA InterruptStep ==
  ASSUME IInv, NEW c \in Case, Interrupt(c)
  PROVE  IInv'
<1>1. TypeOK /\ Local(c)
  BY DEF IInv
<1>2. [at[c] EXCEPT !.retry = cp[c].exec] \in Memory
  <2>1. at[c] \in Memory /\ cp[c].exec \in Execs
    BY <1>1, Fields DEF Checkpoint
  <2> QED
    BY <2>1 DEF Memory
<1>3. [cp[c] EXCEPT !.stage = "interrupted"] \in Checkpoint
  <2>1. "interrupted" \in Stage
    BY DEF Stage
  <2> QED
    BY <1>1, <2>1, Staged
<1>4. /\ cp' \in [Case -> Checkpoint]
      /\ cp'[c] = [cp[c] EXCEPT !.stage = "interrupted"]
      /\ \A d \in Case : d # c => cp'[d] = cp[d]
  BY <1>1, <1>3, Saved DEF Interrupt
<1>5. /\ cp'[c].stage = "interrupted" /\ cp'[c].exec = cp[c].exec
      /\ cp'[c].key = cp[c].key /\ cp'[c].export = cp[c].export
      /\ cp'[c].evidence = cp[c].evidence /\ cp'[c].done = cp[c].done
      /\ cp'[c].uploaded = cp[c].uploaded
  BY <1>1, <1>4, Fields DEF Checkpoint, Blank
<1>6. /\ pc[c] = "interrupt" /\ pc'[c] = "fresh"
      /\ UNCHANGED <<keys[c], answered[c]>>
      /\ UNCHANGED <<failures, recovered>>
      /\ Kept(c)
  BY <1>1, <1>4 DEF TypeOK, Go, Kept, Interrupt
<1>7. TypeOK'
  BY <1>1, <1>4, <1>2 DEF TypeOK, Go, Interrupt
<1>8. Local(c)'
  BY <1>1, <1>5, <1>6
  DEF Local, Keyed, Known, Placed, Executing, Invoked, Held, Acceptable, Ended,
      Completed, Current, Dropped, Kept
<1>9. Apart(c)
  BY <1>1, <1>4 DEF IInv, TypeOK, Drained, Apart, Same, Completed, Current,
     Dropped, Go, Interrupt
<1> QED
  BY <1>7, <1>8, <1>9, ApartInv

LEMMA LookupStep ==
  ASSUME IInv, NEW c \in Case, Lookup(c)
  PROVE  IInv'
<1>1. TypeOK /\ Local(c)
  BY DEF IInv
<1>2. /\ cp[c].stage \in {"running", "unserializable"}
      /\ cp[c].stage = "running" /\ server[c][cp[c].exec].done # 0 => Completed(c)
  BY <1>1 DEF Local, Placed, Executing, Completed, Lookup
<1>3. /\ UNCHANGED cp[c]
      /\ pc[c] = "lookup"
      /\ \/ pc'[c] = "failed" /\ failures' /\ UNCHANGED recovered
         \/ Completed(c) /\ pc'[c] = "done" /\ recovered' /\ UNCHANGED failures
      /\ UNCHANGED <<keys[c], answered[c]>>
      /\ UNCHANGED at[c]
      /\ Kept(c)
  BY <1>1, <1>2 DEF TypeOK, Go, Kept, Lookup, Settled, Fail
<1>4. TypeOK'
  BY <1>1, <1>2 DEF TypeOK, Go, Lookup, Settled, Fail
<1>5. Local(c)'
  BY <1>1, <1>2, <1>3
  DEF Local, Keyed, Known, Placed, Executing, Invoked, Held, Acceptable, Ended,
      Completed, Current, Dropped, Kept
<1>6. Apart(c)
  BY <1>1, <1>2 DEF IInv, TypeOK, Drained, Apart, Same, Completed, Current,
     Dropped, Go, Lookup, Settled, Fail
<1> QED
  BY <1>4, <1>5, <1>6, ApartInv

LEMMA FreshStep ==
  ASSUME IInv, NEW c \in Case, Fresh(c)
  PROVE  IInv'
<1>1. TypeOK /\ Local(c)
  BY DEF IInv
<1>2. items[1][c].done => Completed(c)
  BY <1>1 DEF IInv, Drained, Fresh
<1>3. /\ UNCHANGED cp[c]
      /\ pc[c] = "fresh"
      /\ \/ pc'[c] = "failed" /\ failures' /\ UNCHANGED recovered
         \/ Completed(c) /\ pc'[c] = "done" /\ recovered' /\ UNCHANGED failures
         \/ pc'[c] = "save_start" /\ UNCHANGED <<failures, recovered>>
      /\ UNCHANGED <<keys[c], answered[c]>>
      /\ UNCHANGED at[c]
      /\ Kept(c)
  BY <1>1, <1>2 DEF TypeOK, Go, Kept, Fresh, Fail
<1>4. TypeOK'
  BY <1>1, <1>2 DEF TypeOK, Go, Fresh, Fail
<1>5. Local(c)'
  BY <1>1, <1>2, <1>3
  DEF Local, Keyed, Known, Placed, Executing, Invoked, Held, Acceptable, Ended,
      Completed, Current, Dropped, Kept
<1>6. Apart(c)
  BY <1>1, <1>2 DEF IInv, TypeOK, Drained, Apart, Same, Completed, Current,
     Dropped, Go, Fresh, Fail
<1> QED
  BY <1>4, <1>5, <1>6, ApartInv

LEMMA SaveStartStep ==
  ASSUME IInv, NEW c \in Case, SaveStart(c)
  PROVE  IInv'
<1>1. TypeOK /\ Local(c)
  BY DEF IInv
<1>2. keys[c] \in Nat /\ keys[c] + 1 \in Nat
  BY <1>1, Fields
<1>3. at[c].retry \in Execs
  BY <1>1, Fields DEF Memory
<1>4. \A i \in DOMAIN server[c] : server[c][i].key \in Nat
  BY <1>1, Fields
<1>5. ~Dropped(c)
  BY <1>1 DEF Local, Placed, Held, Dropped, SaveStart
<1>6. [Blank EXCEPT !.stage = "starting", !.key = keys[c] + 1,
                     !.prev = at[c].retry] \in Checkpoint
  BY <1>1, Fields, <1>2, <1>3, <1>4, <1>5 DEF Checkpoint, Memory
<1>7. /\ cp' \in [Case -> Checkpoint]
      /\ cp'[c] = [Blank EXCEPT !.stage = "starting", !.key = keys[c] + 1,
                     !.prev = at[c].retry]
      /\ \A d \in Case : d # c => cp'[d] = cp[d]
  BY <1>1, <1>6, Saved DEF SaveStart
<1>8. /\ cp'[c].stage = "starting" /\ cp'[c].exec = 0
      /\ cp'[c].key = keys[c] + 1 /\ cp'[c].export = "pending"
      /\ cp'[c].evidence = "required" /\ cp'[c].done = FALSE
      /\ cp'[c].uploaded = FALSE
  BY <1>1, <1>7, Fields DEF Checkpoint, Blank
<1>9. /\ pc[c] = "save_start" /\ pc'[c] = "start"
      /\ keys'[c] = keys[c] + 1
      /\ UNCHANGED <<answered[c], at[c]>>
      /\ UNCHANGED <<failures, recovered>>
      /\ Kept(c)
  BY <1>1, <1>2, <1>3, <1>4, <1>5, <1>7 DEF TypeOK, Go, Kept, SaveStart
<1>10. TypeOK'
  BY <1>1, <1>2, <1>3, <1>4, <1>5, <1>7 DEF TypeOK, Go, SaveStart
<1>11. Local(c)'
  BY <1>1, <1>2, <1>3, <1>4, <1>5, <1>8, <1>9
  DEF Local, Keyed, Known, Placed, Executing, Invoked, Held, Acceptable, Ended,
      Completed, Current, Dropped, Kept
<1>12. Apart(c)
  BY <1>1, <1>2, <1>3, <1>4, <1>5, <1>7 DEF IInv, TypeOK, Drained, Apart, Same,
     Completed, Current, Dropped, Go, SaveStart
<1> QED
  BY <1>10, <1>11, <1>12, ApartInv

LEMMA RefusedStep ==
  ASSUME IInv, NEW c \in Case, Refused(c)
  PROVE  IInv'
<1>1. TypeOK /\ Local(c)
  BY DEF IInv
<1>2. /\ UNCHANGED cp[c]
      /\ pc[c] \in {"start", "replay"}
      /\ pc'[c] = "failed" /\ failures' /\ UNCHANGED recovered
      /\ UNCHANGED <<keys[c], answered[c]>>
      /\ UNCHANGED at[c]
      /\ Kept(c)
  BY <1>1 DEF TypeOK, Go, Kept, Refused, Fail
<1>3. TypeOK'
  BY <1>1 DEF TypeOK, Go, Refused, Fail
<1>4. Local(c)'
  BY <1>1, <1>2
  DEF Local, Keyed, Known, Placed, Executing, Invoked, Held, Acceptable, Ended,
      Completed, Current, Dropped, Kept
<1>5. Apart(c)
  BY <1>1 DEF IInv, TypeOK, Drained, Apart, Same, Completed, Current, Dropped,
     Go, Refused, Fail
<1> QED
  BY <1>3, <1>4, <1>5, ApartInv

LEMMA SaveRunningStep ==
  ASSUME IInv, NEW c \in Case, SaveRunning(c)
  PROVE  IInv'
<1>1. TypeOK /\ Local(c)
  BY DEF IInv
<1>2. keys[c] \in Nat /\ ~Dropped(c)
  BY <1>1, Fields DEF Local, Placed, Held, Dropped, SaveRunning
<1>3. [Blank EXCEPT !.stage = "running", !.exec = at[c].exec] \in Checkpoint
  BY <1>1, Fields, <1>2 DEF Checkpoint, Memory
<1>4. /\ cp' \in [Case -> Checkpoint]
      /\ cp'[c] = [Blank EXCEPT !.stage = "running", !.exec = at[c].exec]
      /\ \A d \in Case : d # c => cp'[d] = cp[d]
  BY <1>1, <1>3, Saved DEF SaveRunning
<1>5. /\ cp'[c].stage = "running" /\ cp'[c].exec = at[c].exec
      /\ cp'[c].key = 0 /\ cp'[c].export = "pending"
      /\ cp'[c].evidence = "required" /\ cp'[c].done = FALSE
      /\ cp'[c].uploaded = FALSE
  BY <1>1, <1>4, Fields DEF Checkpoint, Blank
<1>6. /\ pc[c] = "save_running" /\ pc'[c] = "target"
      /\ UNCHANGED <<keys[c], answered[c]>>
      /\ UNCHANGED at[c]
      /\ UNCHANGED <<failures, recovered>>
      /\ Kept(c)
  BY <1>1, <1>2, <1>4 DEF TypeOK, Go, Kept, SaveRunning
<1>7. TypeOK'
  BY <1>1, <1>2, <1>4 DEF TypeOK, Go, SaveRunning
<1>8. Local(c)'
  BY <1>1, <1>2, <1>5, <1>6
  DEF Local, Keyed, Known, Placed, Executing, Invoked, Held, Acceptable, Ended,
      Completed, Current, Dropped, Kept
<1>9. Apart(c)
  BY <1>1, <1>2, <1>4 DEF IInv, TypeOK, Drained, Apart, Same, Completed, Current,
     Dropped, Go, SaveRunning
<1> QED
  BY <1>7, <1>8, <1>9, ApartInv

LEMMA SaveInterruptedStep ==
  ASSUME IInv, NEW c \in Case, SaveInterrupted(c)
  PROVE  IInv'
<1>1. TypeOK /\ Local(c)
  BY DEF IInv
<1>2. [cp[c] EXCEPT !.stage = "interrupted"] \in Checkpoint
  <2>1. "interrupted" \in Stage
    BY DEF Stage
  <2> QED
    BY <1>1, <2>1, Staged
<1>3. /\ cp' \in [Case -> Checkpoint]
      /\ cp'[c] = [cp[c] EXCEPT !.stage = "interrupted"]
      /\ \A d \in Case : d # c => cp'[d] = cp[d]
  BY <1>1, <1>2, Saved DEF SaveInterrupted
<1>4. /\ cp'[c].stage = "interrupted" /\ cp'[c].exec = cp[c].exec
      /\ cp'[c].key = cp[c].key /\ cp'[c].export = cp[c].export
      /\ cp'[c].evidence = cp[c].evidence /\ cp'[c].done = cp[c].done
      /\ cp'[c].uploaded = cp[c].uploaded
  BY <1>1, <1>3, Fields DEF Checkpoint, Blank
<1>5. /\ pc[c] = "interrupted"
      /\ pc'[c] = "failed" /\ failures' /\ UNCHANGED recovered
      /\ UNCHANGED <<keys[c], answered[c]>>
      /\ UNCHANGED at[c]
      /\ Kept(c)
  BY <1>1, <1>3 DEF TypeOK, Go, Kept, SaveInterrupted, Fail
<1>6. TypeOK'
  BY <1>1, <1>3 DEF TypeOK, Go, SaveInterrupted, Fail
<1>7. Local(c)'
  BY <1>1, <1>4, <1>5
  DEF Local, Keyed, Known, Placed, Executing, Invoked, Held, Acceptable, Ended,
      Completed, Current, Dropped, Kept
<1>8. Apart(c)
  BY <1>1, <1>3 DEF IInv, TypeOK, Drained, Apart, Same, Completed, Current,
     Dropped, Go, SaveInterrupted, Fail
<1> QED
  BY <1>6, <1>7, <1>8, ApartInv

LEMMA SaveUnserializableStep ==
  ASSUME IInv, NEW c \in Case, SaveUnserializable(c)
  PROVE  IInv'
<1>1. TypeOK /\ Local(c)
  BY DEF IInv
<1>2. [cp[c] EXCEPT !.stage = "unserializable"] \in Checkpoint
  <2>1. "unserializable" \in Stage
    BY DEF Stage
  <2> QED
    BY <1>1, <2>1, Staged
<1>3. /\ cp' \in [Case -> Checkpoint]
      /\ cp'[c] = [cp[c] EXCEPT !.stage = "unserializable"]
      /\ \A d \in Case : d # c => cp'[d] = cp[d]
  BY <1>1, <1>2, Saved DEF SaveUnserializable
<1>4. /\ cp'[c].stage = "unserializable" /\ cp'[c].exec = cp[c].exec
      /\ cp'[c].key = cp[c].key /\ cp'[c].export = cp[c].export
      /\ cp'[c].evidence = cp[c].evidence /\ cp'[c].done = cp[c].done
      /\ cp'[c].uploaded = cp[c].uploaded
  BY <1>1, <1>3, Fields DEF Checkpoint, Blank
<1>5. /\ pc[c] = "unserializable"
      /\ pc'[c] = "failed" /\ failures' /\ UNCHANGED recovered
      /\ UNCHANGED <<keys[c], answered[c]>>
      /\ UNCHANGED at[c]
      /\ Kept(c)
  BY <1>1, <1>3 DEF TypeOK, Go, Kept, SaveUnserializable, Fail
<1>6. TypeOK'
  BY <1>1, <1>3 DEF TypeOK, Go, SaveUnserializable, Fail
<1>7. Local(c)'
  BY <1>1, <1>4, <1>5
  DEF Local, Keyed, Known, Placed, Executing, Invoked, Held, Acceptable, Ended,
      Completed, Current, Dropped, Kept
<1>8. Apart(c)
  BY <1>1, <1>3 DEF IInv, TypeOK, Drained, Apart, Same, Completed, Current,
     Dropped, Go, SaveUnserializable, Fail
<1> QED
  BY <1>6, <1>7, <1>8, ApartInv

LEMMA SaveOutcomeStep ==
  ASSUME IInv, NEW c \in Case, SaveOutcome(c)
  PROVE  IInv'
<1>1. TypeOK /\ Local(c)
  BY DEF IInv
<1>2. keys[c] \in Nat /\ ~Dropped(c)
  BY <1>1, Fields DEF Local, Placed, Held, Dropped, SaveOutcome
<1>3. [Blank EXCEPT !.stage = "uploading", !.exec = at[c].exec,
                     !.unkept = at[c].unkept] \in Checkpoint
  BY <1>1, Fields, <1>2 DEF Checkpoint, Memory
<1>4. /\ cp' \in [Case -> Checkpoint]
      /\ cp'[c] = [Blank EXCEPT !.stage = "uploading", !.exec = at[c].exec,
                     !.unkept = at[c].unkept]
      /\ \A d \in Case : d # c => cp'[d] = cp[d]
  BY <1>1, <1>3, Saved DEF SaveOutcome
<1>5. /\ cp'[c].stage = "uploading" /\ cp'[c].exec = at[c].exec
      /\ cp'[c].key = 0 /\ cp'[c].export = "pending"
      /\ cp'[c].evidence = "required" /\ cp'[c].done = FALSE
      /\ cp'[c].uploaded = FALSE
  BY <1>1, <1>4, Fields DEF Checkpoint, Blank
<1>6. /\ pc[c] = "save_outcome" /\ pc'[c] = "publish"
      /\ answered'[c] = TRUE
      /\ UNCHANGED <<keys[c], at[c]>>
      /\ UNCHANGED <<failures, recovered>>
      /\ Kept(c)
  BY <1>1, <1>2, <1>4 DEF TypeOK, Go, Kept, SaveOutcome
<1>7. TypeOK'
  BY <1>1, <1>2, <1>4 DEF TypeOK, Go, SaveOutcome
<1>8. Local(c)'
  BY <1>1, <1>2, <1>5, <1>6
  DEF Local, Keyed, Known, Placed, Executing, Invoked, Held, Acceptable, Ended,
      Completed, Current, Dropped, Kept
<1>9. Apart(c)
  BY <1>1, <1>2, <1>4 DEF IInv, TypeOK, Drained, Apart, Same, Completed, Current,
     Dropped, Go, SaveOutcome
<1> QED
  BY <1>7, <1>8, <1>9, ApartInv

LEMMA SaveCompletionStep ==
  ASSUME IInv, NEW c \in Case, SaveCompletion(c)
  PROVE  IInv'
<1>1. TypeOK /\ Local(c)
  BY DEF IInv
<1>2. [cp[c] EXCEPT !.done = TRUE] \in Checkpoint
  <2>1. cp[c] \in Checkpoint
    BY <1>1, Fields
  <2> QED
    BY <2>1 DEF Checkpoint
<1>3. /\ cp' \in [Case -> Checkpoint]
      /\ cp'[c] = [cp[c] EXCEPT !.done = TRUE]
      /\ \A d \in Case : d # c => cp'[d] = cp[d]
  BY <1>1, <1>2, Saved DEF SaveCompletion
<1>4. /\ cp'[c].stage = cp[c].stage /\ cp'[c].exec = cp[c].exec
      /\ cp'[c].key = cp[c].key /\ cp'[c].export = cp[c].export
      /\ cp'[c].evidence = cp[c].evidence /\ cp'[c].done = TRUE
      /\ cp'[c].uploaded = cp[c].uploaded
      /\ cp'[c].spans = cp[c].spans
  BY <1>1, <1>3, Fields DEF Checkpoint, Blank
<1>5. /\ pc[c] = "save_completion" /\ pc'[c] = "score"
      /\ UNCHANGED <<keys[c], answered[c]>>
      /\ UNCHANGED at[c]
      /\ UNCHANGED <<failures, recovered>>
      /\ Kept(c)
  BY <1>1, <1>3 DEF TypeOK, Go, Kept, SaveCompletion
<1>6. TypeOK'
  BY <1>1, <1>3 DEF TypeOK, Go, SaveCompletion
<1>7. Local(c)'
  BY <1>1, <1>4, <1>5
  DEF Local, Keyed, Known, Placed, Executing, Invoked, Held, Acceptable, Ended,
      Completed, Current, Dropped, Kept
<1>8. Apart(c)
  BY <1>1, <1>3 DEF IInv, TypeOK, Drained, Apart, Same, Completed, Current,
     Dropped, Go, SaveCompletion
<1> QED
  BY <1>6, <1>7, <1>8, ApartInv

LEMMA SaveScoreStep ==
  ASSUME IInv, NEW c \in Case, SaveScore(c)
  PROVE  IInv'
<1>1. TypeOK /\ Local(c)
  BY DEF IInv
<1>2. [cp[c] EXCEPT !.uploaded = TRUE] \in Checkpoint
  <2>1. cp[c] \in Checkpoint
    BY <1>1, Fields
  <2> QED
    BY <2>1 DEF Checkpoint
<1>3. /\ cp' \in [Case -> Checkpoint]
      /\ cp'[c] = [cp[c] EXCEPT !.uploaded = TRUE]
      /\ \A d \in Case : d # c => cp'[d] = cp[d]
  BY <1>1, <1>2, Saved DEF SaveScore
<1>4. /\ cp'[c].stage = cp[c].stage /\ cp'[c].exec = cp[c].exec
      /\ cp'[c].key = cp[c].key /\ cp'[c].export = cp[c].export
      /\ cp'[c].evidence = cp[c].evidence /\ cp'[c].done = cp[c].done
      /\ cp'[c].uploaded = TRUE
      /\ cp'[c].spans = cp[c].spans
  BY <1>1, <1>3, Fields DEF Checkpoint, Blank
<1>5. /\ pc[c] = "save_score" /\ pc'[c] = "done"
      /\ UNCHANGED <<keys[c], answered[c]>>
      /\ UNCHANGED at[c]
      /\ UNCHANGED <<failures, recovered>>
      /\ Kept(c)
  BY <1>1, <1>3 DEF TypeOK, Go, Kept, SaveScore
<1>6. TypeOK'
  BY <1>1, <1>3 DEF TypeOK, Go, SaveScore
<1>7. Local(c)'
  BY <1>1, <1>4, <1>5
  DEF Local, Keyed, Known, Placed, Executing, Invoked, Held, Acceptable, Ended,
      Completed, Current, Dropped, Kept
<1>8. Apart(c)
  BY <1>1, <1>3 DEF IInv, TypeOK, Drained, Apart, Same, Completed, Current,
     Dropped, Go, SaveScore
<1> QED
  BY <1>6, <1>7, <1>8, ApartInv

LEMMA FlushThrowsStep ==
  ASSUME IInv, NEW c \in Case, FlushThrows(c)
  PROVE  IInv'
<1>1. TypeOK /\ Local(c)
  BY DEF IInv
<1>2. /\ UNCHANGED cp[c]
      /\ pc[c] \in {"flush", "judge"} /\ pc'[c] = "policy"
      /\ UNCHANGED <<keys[c], answered[c]>>
      /\ UNCHANGED at[c]
      /\ UNCHANGED <<failures, recovered>>
      /\ Kept(c)
  BY <1>1 DEF TypeOK, Go, Kept, FlushThrows, Fault
<1>3. TypeOK'
  BY <1>1, Counted DEF TypeOK, Go, FlushThrows, Fault
<1>4. Local(c)'
  BY <1>1, <1>2
  DEF Local, Keyed, Known, Placed, Executing, Invoked, Held, Acceptable, Ended,
      Completed, Current, Dropped, Kept
<1>5. Apart(c)
  BY <1>1 DEF IInv, TypeOK, Drained, Apart, Same, Completed, Current, Dropped,
     Go, FlushThrows, Fault
<1> QED
  BY <1>3, <1>4, <1>5, ApartInv

LEMMA PickStep ==
  ASSUME IInv, NEW c \in Case, Pick(c)
  PROVE  IInv'
<1>1. TypeOK /\ Local(c)
  BY DEF IInv
<1>2. /\ UNCHANGED cp[c]
      /\ pc[c] = "waiting" /\ pc'[c] = "read"
      /\ UNCHANGED <<keys[c], answered[c]>>
      /\ UNCHANGED at[c]
      /\ UNCHANGED <<failures, recovered>>
      /\ c \in Cases
      /\ Kept(c)
  BY <1>1 DEF TypeOK, Go, Kept, Pick
<1>3. TypeOK'
  BY <1>1 DEF TypeOK, Go, Pick
<1>4. Local(c)'
  BY <1>1, <1>2
  DEF Local, Keyed, Known, Placed, Executing, Invoked, Held, Acceptable, Ended,
      Completed, Current, Dropped, Kept
<1>5. Apart(c)
  BY <1>1 DEF IInv, TypeOK, Drained, Apart, Same, Completed, Current, Dropped,
     Go, Pick
<1> QED
  BY <1>3, <1>4, <1>5, ApartInv

LEMMA ReturnUncertainStep ==
  ASSUME IInv, NEW c \in Case, ReturnUncertain(c)
  PROVE  IInv'
<1>1. TypeOK /\ Local(c)
  BY DEF IInv
<1>2. /\ UNCHANGED cp[c]
      /\ pc[c] = "working"
      /\ pc'[c] = "failed" /\ failures' /\ UNCHANGED recovered
      /\ UNCHANGED <<keys[c], answered[c]>>
      /\ UNCHANGED at[c]
      /\ Kept(c)
  BY <1>1 DEF TypeOK, Go, Kept, ReturnUncertain, Fail
<1>3. TypeOK'
  BY <1>1, Counted DEF TypeOK, Go, ReturnUncertain, Fail
<1>4. Local(c)'
  BY <1>1, <1>2
  DEF Local, Keyed, Known, Placed, Executing, Invoked, Held, Acceptable, Ended,
      Completed, Current, Dropped, Kept
<1>5. Apart(c)
  BY <1>1 DEF IInv, TypeOK, Drained, Apart, Same, Completed, Current, Dropped,
     Go, ReturnUncertain, Fail
<1> QED
  BY <1>3, <1>4, <1>5, ApartInv

LEMMA ResumeStep ==
  ASSUME IInv, NEW c \in Case, Resume(c)
  PROVE  IInv'
<1>1. TypeOK /\ Local(c)
  BY DEF IInv
<1>2. /\ UNCHANGED cp[c]
      /\ pc[c] = "resume"
      /\ \/ pc'[c] = "failed" /\ failures' /\ UNCHANGED recovered
         \/ pc'[c] = "publish" /\ UNCHANGED <<failures, recovered>>
      /\ UNCHANGED <<keys[c], answered[c]>>
      /\ UNCHANGED at[c]
      /\ Kept(c)
  BY <1>1 DEF TypeOK, Go, Kept, Resume, Fail
<1>3. TypeOK'
  BY <1>1 DEF TypeOK, Go, Resume, Fail
<1>4. Local(c)'
  BY <1>1, <1>2
  DEF Local, Keyed, Known, Placed, Executing, Invoked, Held, Acceptable, Ended,
      Completed, Current, Dropped, Kept
<1>5. Apart(c)
  BY <1>1 DEF IInv, TypeOK, Drained, Apart, Same, Completed, Current, Dropped,
     Go, Resume, Fail
<1> QED
  BY <1>3, <1>4, <1>5, ApartInv

LEMMA PublishStep ==
  ASSUME IInv, NEW c \in Case, Publish(c)
  PROVE  IInv'
<1>1. TypeOK /\ Local(c)
  BY DEF IInv
<1>2. /\ keys[c] \in Nat /\ keys[c] + 1 \in Nat
      /\ \A i \in DOMAIN server[c] : server[c][i].key \in Nat
  BY <1>1, Fields
<1>3. cp[c].stage = "uploading" /\ ~Dropped(c)
  BY <1>1 DEF Local, Placed, Held, Dropped, Publish
<1>4. [cp[c] EXCEPT !.stage = "prepared", !.key = keys[c] + 1] \in Checkpoint
  <2>1. cp[c] \in Checkpoint
    BY <1>1, Fields
  <2>2. "prepared" \in Stage
    BY DEF Stage
  <2> QED
    BY <1>2, <2>1, <2>2 DEF Checkpoint
<1>5. /\ cp' \in [Case -> Checkpoint]
      /\ cp'[c] = [cp[c] EXCEPT !.stage = "prepared", !.key = keys[c] + 1]
      /\ \A d \in Case : d # c => cp'[d] = cp[d]
  BY <1>1, <1>4, Saved DEF Publish
<1>6. /\ cp'[c].stage = "prepared" /\ cp'[c].exec = cp[c].exec
      /\ cp'[c].key = keys[c] + 1 /\ cp'[c].export = cp[c].export
      /\ cp'[c].evidence = cp[c].evidence /\ cp'[c].done = cp[c].done
      /\ cp'[c].uploaded = cp[c].uploaded
  BY <1>1, <1>5, Fields DEF Checkpoint, Blank
<1>7. /\ pc[c] = "publish" /\ pc'[c] \in {"flush", "decide"}
      /\ keys'[c] = keys[c] + 1
      /\ UNCHANGED <<answered[c], at[c]>>
      /\ UNCHANGED <<failures, recovered>>
      /\ trace'[c] \in {"sent", trace[c]}
      /\ UNCHANGED <<setup, server[c], scored[c], runs[c]>>
  BY <1>1, <1>2, <1>3, <1>5 DEF TypeOK, Go, Kept, Publish
<1>8. TypeOK'
  BY <1>1, <1>2, <1>3, <1>5 DEF TypeOK, Go, Publish
<1>9. Local(c)'
  BY <1>1, <1>2, <1>3, <1>6, <1>7
  DEF Local, Keyed, Known, Placed, Executing, Invoked, Held, Acceptable, Ended,
      Completed, Current, Dropped, Kept
<1>10. Apart(c)
  BY <1>1, <1>2, <1>3, <1>5 DEF IInv, TypeOK, Drained, Apart, Same, Completed,
     Current, Dropped, Go, Publish
<1> QED
  BY <1>8, <1>9, <1>10, ApartInv

LEMMA ScoreStep ==
  ASSUME IInv, NEW c \in Case, Score(c)
  PROVE  IInv'
<1>1. TypeOK /\ Local(c)
  BY DEF IInv
<1>2. /\ UNCHANGED cp[c]
      /\ pc[c] = "score"
      /\ \/ pc'[c] = "done" /\ scored'[c] = scored[c] /\ (cp[c].uploaded \/ Dropped(c))
         \/ pc'[c] = "save_score" /\ scored'[c] = TRUE
      /\ UNCHANGED <<keys[c], answered[c]>>
      /\ UNCHANGED at[c]
      /\ UNCHANGED <<failures, recovered>>
      /\ UNCHANGED <<setup, server[c], trace[c], runs[c]>>
  BY <1>1 DEF TypeOK, Go, Kept, Score
<1>3. TypeOK'
  BY <1>1 DEF TypeOK, Go, Score
<1>4. Local(c)'
  BY <1>1, <1>2
  DEF Local, Keyed, Known, Placed, Executing, Invoked, Held, Acceptable, Ended,
      Completed, Current, Dropped, Kept
<1>5. Apart(c)
  BY <1>1 DEF IInv, TypeOK, Drained, Apart, Same, Completed, Current, Dropped,
     Go, Score
<1> QED
  BY <1>3, <1>4, <1>5, ApartInv

LEMMA IngestStep ==
  ASSUME IInv, NEW c \in Case, Ingest(c)
  PROVE  IInv'
<1>1. TypeOK /\ Local(c)
  BY DEF IInv
<1>2. /\ UNCHANGED cp[c]
      /\ UNCHANGED pc[c]
      /\ \/ trace[c] = "sent" /\ trace'[c] \in {"root", "whole", "lost"}
         \/ trace[c] = "root" /\ trace'[c] \in {"whole", "root_lost"}
      /\ UNCHANGED <<keys[c], answered[c]>>
      /\ UNCHANGED at[c]
      /\ UNCHANGED <<failures, recovered>>
      /\ UNCHANGED <<setup, server[c], scored[c], runs[c]>>
  BY <1>1 DEF TypeOK, Go, Kept, Ingest
<1>3. TypeOK'
  BY <1>1 DEF TypeOK, Go, Ingest
<1>4. Local(c)'
  BY <1>1, <1>2
  DEF Local, Keyed, Known, Placed, Executing, Invoked, Held, Acceptable, Ended,
      Completed, Current, Dropped, Kept
<1>5. Apart(c)
  <2>1. \A d \in Case : d # c => Same(d)
    BY <1>1 DEF TypeOK, Same, Ingest, outer, pool, made, cases
  <2>2. run = "down" => pc'[c] = "waiting"
    BY <1>1, <1>2 DEF IInv, Drained
  <2>3. /\ UNCHANGED <<setup, run, items, listed, finished>>
        /\ stop' => failures'
    BY <1>1 DEF IInv, Drained, Ingest
  <2> QED
    BY <1>2, <2>1, <2>2, <2>3 DEF Apart, Completed, Current, Dropped
<1> QED
  BY <1>3, <1>4, <1>5, ApartInv

LEMMA MarkCrashedStep ==
  ASSUME IInv, NEW c \in Case, MarkCrashed(c)
  PROVE  IInv'
<1>1. TypeOK /\ Local(c)
  BY DEF IInv
<1>2. [cp[c] EXCEPT !.crashed = TRUE] \in Checkpoint
  <2>1. cp[c] \in Checkpoint
    BY <1>1, Fields
  <2> QED
    BY <2>1 DEF Checkpoint
<1>3. /\ cp' \in [Case -> Checkpoint]
      /\ cp'[c] = [cp[c] EXCEPT !.crashed = TRUE]
      /\ \A d \in Case : d # c => cp'[d] = cp[d]
  BY <1>1, <1>2, Saved DEF MarkCrashed
<1>4. /\ cp'[c].stage = cp[c].stage /\ cp'[c].exec = cp[c].exec
      /\ cp'[c].key = cp[c].key /\ cp'[c].export = cp[c].export
      /\ cp'[c].evidence = cp[c].evidence /\ cp'[c].done = cp[c].done
      /\ cp'[c].uploaded = cp[c].uploaded
      /\ cp'[c].spans = cp[c].spans
  BY <1>1, <1>3, Fields DEF Checkpoint, Blank
<1>5. /\ UNCHANGED pc[c]
      /\ UNCHANGED <<keys[c], answered[c]>>
      /\ UNCHANGED at[c]
      /\ UNCHANGED <<failures, recovered>>
      /\ Kept(c)
  BY <1>1, <1>3 DEF TypeOK, Go, Kept, MarkCrashed, LeftRunning
<1>6. TypeOK'
  BY <1>1, <1>3 DEF TypeOK, Go, MarkCrashed, LeftRunning
<1>7. Local(c)'
  BY <1>1, <1>4, <1>5
  DEF Local, Keyed, Known, Placed, Executing, Invoked, Held, Acceptable, Ended,
      Completed, Current, Dropped, Kept
<1>8. Apart(c)
  BY <1>1, <1>3 DEF IInv, TypeOK, Drained, Apart, Same, Completed, Current,
     Dropped, Go, MarkCrashed, LeftRunning
<1> QED
  BY <1>6, <1>7, <1>8, ApartInv

LEMMA ApplyPolicyStep ==
  ASSUME IInv, NEW c \in Case, ApplyPolicy(c)
  PROVE  IInv'
<1>1. TypeOK /\ Local(c)
  BY DEF IInv
<1>2. /\ Declared(c).stage = cp[c].stage /\ Declared(c).exec = cp[c].exec
      /\ Declared(c).key = cp[c].key /\ Declared(c).done = cp[c].done
      /\ Declared(c).uploaded = cp[c].uploaded /\ Declared(c).spans = cp[c].spans
      /\ Declared(c).export \in {cp[c].export, "not_accepted"}
      /\ cp[c].export = "not_accepted" => Declared(c).export = "not_accepted"
      /\ Acceptable(cp[c]) => Acceptable(Declared(c))
  BY <1>1, Fields DEF Declared, Acceptable, Checkpoint
<1>3. cp[c] \in Checkpoint
  BY <1>1, Fields
<1>4. Declared(c) \in Checkpoint
  BY <1>3 DEF Declared, Checkpoint
<1>5. /\ cp' \in [Case -> Checkpoint]
      /\ cp'[c] = Declared(c)
      /\ \A d \in Case : d # c => cp'[d] = cp[d]
  BY <1>1, <1>4, Saved DEF ApplyPolicy
<1>6. /\ pc[c] = "policy"
      /\ \/ pc'[c] = "failed" /\ failures' /\ UNCHANGED recovered
         \/ pc'[c] = "decide" /\ UNCHANGED <<failures, recovered>>
      /\ UNCHANGED <<keys[c], answered[c]>>
      /\ UNCHANGED at[c]
      /\ Kept(c)
  BY <1>1, <1>2, <1>3, <1>5 DEF TypeOK, Go, Kept, ApplyPolicy, Fail
<1>7. TypeOK'
  BY <1>1, <1>2, <1>3, <1>5 DEF TypeOK, Go, ApplyPolicy, Fail
<1>8. Local(c)'
  BY <1>1, <1>2, <1>3, <1>5, <1>6
  DEF Local, Keyed, Known, Placed, Executing, Invoked, Held, Acceptable, Ended,
      Completed, Current, Dropped, Kept
<1>9. Apart(c)
  BY <1>1, <1>2, <1>3, <1>5 DEF IInv, TypeOK, Drained, Apart, Same, Completed,
     Current, Dropped, Go, ApplyPolicy, Fail
<1> QED
  BY <1>7, <1>8, <1>9, ApartInv

LEMMA InvokeStep ==
  ASSUME IInv, NEW c \in Case, Invoke(c)
  PROVE  IInv'
<1>1. TypeOK /\ Local(c)
  BY DEF IInv
<1>2. /\ at[c].exec \in Execs \ {0} /\ at[c].exec = Current(c)
      /\ runs[c] \in [Execs \ {0} -> Nat] /\ runs[c][at[c].exec] = 0
  <2>1. at[c].exec = Current(c) /\ server[c] # <<>> /\ runs[c][at[c].exec] = 0
    BY <1>1 DEF Local, Executing, Invoked, Invoke
  <2>2. Current(c) # 0
    BY <1>1, <2>1, Fields DEF Current
  <2>3. at[c].exec \in Execs
    BY <1>1, Fields DEF Memory
  <2> QED
    BY <1>1, <2>1, <2>2, <2>3 DEF TypeOK
<1>3. /\ pc[c] = "target" /\ pc'[c] = "working"
      /\ runs'[c] = [runs[c] EXCEPT ![at[c].exec] = 1]
      /\ runs'[c] \in [Execs \ {0} -> Nat]
      /\ UNCHANGED <<setup, cp[c], server[c], trace[c], scored[c], at[c], keys[c],
                     answered[c], failures, recovered>>
  BY <1>1, <1>2 DEF TypeOK, Invoke, Go
<1>4. /\ runs'[c][at[c].exec] = 1
      /\ \A e \in Execs \ {0} : e # at[c].exec => runs'[c][e] = runs[c][e]
  BY <1>2, <1>3
<1>5. TypeOK'
  BY <1>1, <1>3 DEF TypeOK, Go, Invoke
<1>6. Local(c)'
  <2>1. Keyed(c)'
    BY <1>1, <1>3 DEF Local, Keyed, Known
  <2>2. Placed(c)'
    BY <1>1, <1>3 DEF Local, Placed
  <2>3. Executing(c)'
    BY <1>1, <1>3 DEF Local, Executing, Current
  <2>4. Invoked(c)'
    BY <1>1, <1>2, <1>3, <1>4 DEF Local, Invoked, Current
  <2>5. Held(c)'
    BY <1>1, <1>3 DEF Local, Held, Acceptable
  <2>6. Ended(c)'
    BY <1>1, <1>3 DEF Local, Ended, Completed, Current, Dropped
  <2> QED
    BY <2>1, <2>2, <2>3, <2>4, <2>5, <2>6 DEF Local
<1>7. Apart(c)
  BY <1>1 DEF IInv, TypeOK, Drained, Apart, Same, Completed, Current, Dropped,
     Go, Invoke
<1> QED
  BY <1>5, <1>6, <1>7, ApartInv

LEMMA ReturnStep ==
  ASSUME IInv, NEW c \in Case, Return(c)
  PROVE  IInv'
<1>1. TypeOK /\ Local(c)
  BY DEF IInv
<1>2. at' \in [Case -> Memory] /\ at'[c].exec = at[c].exec
  <2>1. CASE UNCHANGED at
    BY <1>1, <2>1 DEF TypeOK
  <2>2. ASSUME NEW output \in BOOLEAN,
               at' = [at EXCEPT ![c].unkept = output /\ ~setup.persist]
        PROVE  at' \in [Case -> Memory] /\ at'[c].exec = at[c].exec
    <3>1. (output /\ ~setup.persist) \in BOOLEAN
      OBVIOUS
    <3>2. /\ [at[c] EXCEPT !.unkept = output /\ ~setup.persist] \in Memory
          /\ [at[c] EXCEPT !.unkept = output /\ ~setup.persist].exec = at[c].exec
      BY <1>1, <3>1, Fields DEF Memory
    <3> QED
      BY <1>1, <2>2, <3>2 DEF TypeOK
  <2> QED
    BY <2>1, <2>2 DEF Return
<1>3. /\ UNCHANGED cp[c]
      /\ pc[c] = "working" /\ pc'[c] \in {"save_outcome", "interrupted", "unserializable"}
      /\ at'[c].exec = at[c].exec
      /\ UNCHANGED <<keys[c], answered[c]>>
      /\ UNCHANGED <<failures, recovered>>
      /\ Kept(c)
  BY <1>1, <1>2 DEF TypeOK, Go, Kept, Return
<1>4. TypeOK'
  <2>1. \E to \in Steps : pc' = [pc EXCEPT ![c] = to]
    BY <1>1 DEF Steps, Go, Return
  <2>2. pc' \in [Case -> Steps]
    BY <1>1, <2>1 DEF TypeOK
  <2> QED
    BY <1>1, <1>2, <2>2 DEF TypeOK, Return
<1>5. Local(c)'
  BY <1>1, <1>2, <1>3
  DEF Local, Keyed, Known, Placed, Executing, Invoked, Held, Acceptable, Ended,
      Completed, Current, Dropped, Kept
<1>6. Apart(c)
  BY <1>1, <1>2 DEF IInv, TypeOK, Drained, Apart, Same, Completed, Current,
     Dropped, Go, Return
<1> QED
  BY <1>4, <1>5, <1>6, ApartInv

(* What a start leaves at Hue: the key's execution, which is the current   *)
(* one if it is new or was completed.                                      *)
LEMMA Started ==
  ASSUME TypeOK, NEW c \in Case, Local(c), cp[c].stage = "starting", NEW exec \in Execs,
         Start(c, cp[c].key, cp[c].prev, exec)
  PROVE  /\ server' \in [Case -> Seq([key : Nat, done : Nat])]
         /\ trace' \in [Case -> Trace]
         /\ \A d \in Case : d # c => server'[d] = server[d] /\ trace'[d] = trace[d]
         /\ exec \in DOMAIN server'[c]
         /\ \A i \in DOMAIN server'[c] :
              /\ server'[c][i].key <= keys[c]
              /\ server'[c][i].done # 0 => i = Len(server'[c])
         /\ Len(server'[c]) \in Nat /\ Len(server'[c]) >= Current(c)
         /\ server'[c] # <<>>
         /\ Completed(c) => Completed(c)'
         /\ Known(c, cp[c].key) = {} =>
              /\ exec = Len(server'[c]) /\ exec = Current(c) + 1
              /\ server'[c][exec].done = 0
<1>1. /\ server[c] \in Seq([key : Nat, done : Nat]) /\ Current(c) = Len(server[c])
      /\ cp[c].key \in Nat /\ cp[c].key <= keys[c]
      /\ \A i \in DOMAIN server[c] :
           /\ server[c][i].key <= keys[c]
           /\ server[c][i].done # 0 => i = Current(c)
  BY Fields DEF Current, Checkpoint, Local, Keyed, Executing
<1>2. CASE exec \in Known(c, cp[c].key) /\ UNCHANGED <<server, trace>>
  BY <1>1, <1>2 DEF TypeOK, Known, Completed, Current
<1>3. ASSUME /\ ~Completed(c)
             /\ exec = Current(c) + 1
             /\ server' = [server EXCEPT ![c] = Append(@, [key |-> cp[c].key, done |-> 0])]
             /\ trace' = [trace EXCEPT ![c] = "open"]
      PROVE  /\ server' \in [Case -> Seq([key : Nat, done : Nat])]
             /\ trace' \in [Case -> Trace]
             /\ \A d \in Case : d # c => server'[d] = server[d] /\ trace'[d] = trace[d]
             /\ exec \in DOMAIN server'[c]
             /\ \A i \in DOMAIN server'[c] :
                  /\ server'[c][i].key <= keys[c]
                  /\ server'[c][i].done # 0 => i = Len(server'[c])
             /\ Len(server'[c]) = exec
             /\ server'[c][exec].done = 0
  <2> DEFINE new == [key |-> cp[c].key, done |-> 0]
  <2>1. new \in [key : Nat, done : Nat] /\ new.key = cp[c].key /\ new.done = 0
    BY <1>1
  <2> HIDE DEF new
  <2>2. server'[c] = Append(server[c], new)
    BY <1>3 DEF TypeOK, new
  <2>3. /\ Append(server[c], new) \in Seq([key : Nat, done : Nat])
        /\ Len(Append(server[c], new)) = Len(server[c]) + 1
        /\ \A i \in 1..Len(server[c]) : Append(server[c], new)[i] = server[c][i]
        /\ Append(server[c], new)[Len(server[c]) + 1] = new
    BY <1>1, <2>1
  <2>4. server' \in [Case -> Seq([key : Nat, done : Nat])]
    BY <1>3, <2>1, <2>3 DEF TypeOK, new
  <2>5. ASSUME NEW i \in DOMAIN server'[c]
        PROVE  server'[c][i].key <= keys[c] /\ server'[c][i].done = 0
    <3>1. CASE i = Len(server[c]) + 1
      BY <1>1, <2>1, <2>2, <2>3, <3>1
    <3>2. CASE i \in 1..Len(server[c])
      <4>1. server[c][i].done = 0
        BY <1>1, <1>3, <3>2 DEF Completed, Current
      <4> QED
        BY <1>1, <2>2, <2>3, <3>2, <4>1
    <3> QED
      BY <1>1, <2>2, <2>3, <3>1, <3>2
  <2>6. trace' \in [Case -> Trace] /\ \A d \in Case : d # c => trace'[d] = trace[d]
    BY <1>3 DEF TypeOK, Trace
  <2>7. \A d \in Case : d # c => server'[d] = server[d]
    BY <1>3 DEF TypeOK
  <2>8. /\ exec \in DOMAIN server'[c] /\ Len(server'[c]) = exec
        /\ server'[c][exec].done = 0
    BY <1>1, <1>3, <2>1, <2>2, <2>3
  <2> QED
    BY <2>4, <2>5, <2>6, <2>7, <2>8, Zenon
<1>4. CASE ~Completed(c)
  BY <1>1, <1>2, <1>3, <1>4 DEF Start, Known
<1>5. CASE Completed(c)
  BY <1>1, <1>2, <1>5 DEF Start, Known, Current
<1> QED
  BY <1>4, <1>5

LEMMA StartExecutionStep ==
  ASSUME IInv, NEW c \in Case, StartExecution(c)
  PROVE  IInv'
<1>1. TypeOK /\ Local(c)
  BY DEF IInv
<1>2. cp[c].stage = "starting" /\ Known(c, cp[c].key) = {}
  BY <1>1 DEF Local, Keyed, Placed, StartExecution
<1>3. PICK exec \in Execs : /\ Start(c, cp[c].key, cp[c].prev, exec)
                            /\ at' = [at EXCEPT ![c].exec = exec, ![c].live = TRUE]
  BY DEF StartExecution
<1>4. /\ server' \in [Case -> Seq([key : Nat, done : Nat])]
      /\ trace' \in [Case -> Trace]
      /\ \A d \in Case : d # c => server'[d] = server[d] /\ trace'[d] = trace[d]
      /\ \A i \in DOMAIN server'[c] :
           /\ server'[c][i].key <= keys[c]
           /\ server'[c][i].done # 0 => i = Len(server'[c])
      /\ server'[c] # <<>>
      /\ exec = Len(server'[c]) /\ exec = Current(c) + 1 /\ exec \in Nat
      /\ server'[c][exec].done = 0
      /\ Completed(c) => Completed(c)'
  BY <1>1, <1>2, <1>3, Started
<1>5. at' \in [Case -> Memory] /\ at'[c].exec = exec
  <2>1. [at[c] EXCEPT !.exec = exec, !.live = TRUE] \in Memory
    BY <1>1, Fields DEF Memory
  <2>2. at' = [at EXCEPT ![c] = [at[c] EXCEPT !.exec = exec, !.live = TRUE]]
    BY <1>1, <1>3 DEF TypeOK
  <2> QED
    BY <1>1, <2>1, <2>2 DEF TypeOK, Memory
<1>6. /\ pc[c] = "start" /\ pc'[c] = "save_running"
      /\ UNCHANGED <<setup, cp[c], scored[c], keys[c], runs[c], answered[c], failures,
                     recovered>>
  BY <1>1 DEF TypeOK, StartExecution, Go
<1>7. runs'[c][exec] = 0
  <2>1. runs[c] \in [Execs \ {0} -> Nat] /\ exec \in Execs \ {0} /\ Current(c) \in Nat
    <3>1. Current(c) \in Nat
      BY <1>1, Fields
    <3>2. exec \in Execs /\ exec # 0
      BY <1>3, <1>4, <3>1
    <3> QED
      BY <1>1, <3>1, <3>2 DEF TypeOK
  <2> QED
    BY <1>1, <1>4, <1>6, <2>1 DEF Local, Invoked
<1>8. Current(c) \in Nat
  BY <1>1, Fields
<1>9. TypeOK'
  BY <1>1, <1>4, <1>5 DEF TypeOK, StartExecution, Go
<1>10. Local(c)'
  BY <1>1, <1>2, <1>4, <1>5, <1>6, <1>7, <1>8
  DEF Local, Keyed, Known, Placed, Executing, Invoked, Held, Acceptable, Ended,
      Completed, Current, Dropped, Kept
<1>11. Apart(c)
  <2>1. \A d \in Case : d # c => Same(d)
    BY <1>1, <1>3, <1>4 DEF TypeOK, StartExecution, Go, Same
  <2>2. run # "down" /\ (stop => failures) /\ (Completed(c) => Completed(c)')
    BY <1>4, <1>6 DEF IInv, Drained
  <2>3. /\ UNCHANGED <<setup, run, items, listed, finished, stop, failures, recovered,
                       scored, cp>>
        /\ (Dropped(c) => Dropped(c)')
    BY DEF StartExecution, Dropped
  <2> QED
    BY <2>1, <2>2, <2>3 DEF Apart
<1> QED
  BY <1>9, <1>10, <1>11, ApartInv

LEMMA ReplayStep ==
  ASSUME IInv, NEW c \in Case, Replay(c)
  PROVE  IInv'
<1>1. TypeOK /\ Local(c)
  BY DEF IInv
<1>2. cp[c].stage = "starting"
  BY <1>1 DEF Local, Placed, Replay
<1>3. PICK exec \in Execs : Start(c, cp[c].key, cp[c].prev, exec) /\ Settled(c, exec)
  BY DEF Replay
<1>4. /\ server' \in [Case -> Seq([key : Nat, done : Nat])]
      /\ trace' \in [Case -> Trace]
      /\ \A d \in Case : d # c => server'[d] = server[d] /\ trace'[d] = trace[d]
      /\ \A i \in DOMAIN server'[c] :
           /\ server'[c][i].key <= keys[c]
           /\ server'[c][i].done # 0 => i = Len(server'[c])
      /\ server'[c] # <<>>
      /\ exec \in DOMAIN server'[c]
      /\ Len(server'[c]) \in Nat /\ Len(server'[c]) >= Current(c)
      /\ Completed(c) => Completed(c)'
  BY <1>1, <1>2, <1>3, Started
<1>5. /\ pc[c] = "replay"
      /\ UNCHANGED <<setup, cp[c], at[c], scored[c], keys[c], runs[c], answered[c]>>
      /\ \/ pc'[c] = "failed" /\ failures' /\ UNCHANGED recovered
         \/ /\ server'[c][exec].done # 0
            /\ pc'[c] = "done" /\ recovered' /\ UNCHANGED failures
  BY <1>1, <1>3 DEF TypeOK, Replay, Go, Settled, Fail
<1>6. /\ Current(c) \in Nat
      /\ server'[c][exec].done # 0 => Completed(c)'
      /\ \A e \in Execs \ {0} : runs[c][e] # 0 => e <= Len(server'[c])
  <2>1. Current(c) \in Nat
    BY <1>1, Fields
  <2>2. server'[c][exec].done # 0 => Completed(c)'
    BY <1>4 DEF Completed, Current
  <2>3. \A e \in Execs \ {0} : runs[c][e] # 0 => e <= Current(c)
    BY <1>1 DEF Local, Invoked
  <2>4. \A e \in Execs \ {0} : runs[c][e] # 0 => e <= Len(server'[c])
    BY <1>4, <2>1, <2>3, RunAssumption
  <2> QED
    BY <2>1, <2>2, <2>4
<1>7. TypeOK'
  BY <1>1, <1>3, <1>4 DEF TypeOK, Replay, Go, Settled, Fail
<1>8. Local(c)'
  BY <1>1, <1>2, <1>4, <1>5, <1>6
  DEF Local, Keyed, Known, Placed, Executing, Invoked, Held, Acceptable, Ended,
      Completed, Current, Dropped, Kept
<1>9. Apart(c)
  <2>1. \A d \in Case : d # c => pc'[d] = pc[d]
    BY <1>1, <1>3 DEF TypeOK, Settled, Fail, Go
  <2>2. \A d \in Case : d # c => Same(d)
    BY <1>4, <2>1 DEF Replay, Same
  <2>3. stop' => failures'
    BY <1>3 DEF IInv, Drained, Settled, Fail
  <2>4. run # "down" /\ (Completed(c) => Completed(c)') /\ (Dropped(c) => Dropped(c)')
    BY <1>4, <1>5 DEF IInv, Drained, Dropped
  <2>5. UNCHANGED <<setup, run, items, listed, finished>>
    BY DEF Replay
  <2> QED
    BY <1>5, <2>2, <2>3, <2>4, <2>5 DEF Apart
<1> QED
  BY <1>7, <1>8, <1>9, ApartInv

(* Completing the current execution of a case.                             *)
LEMMA Marked ==
  ASSUME TypeOK, NEW c \in Case, NEW key \in Nat, server[c] # <<>>,
         server' = [server EXCEPT ![c][Current(c)].done = key]
  PROVE  /\ server' \in [Case -> Seq([key : Nat, done : Nat])]
         /\ \A d \in Case : d # c => server'[d] = server[d]
         /\ Len(server'[c]) = Len(server[c]) /\ server'[c] # <<>>
         /\ server'[c][Current(c)].done = key
         /\ \A i \in DOMAIN server'[c] :
              /\ server'[c][i].key = server[c][i].key
              /\ i # Current(c) => server'[c][i] = server[c][i]
<1> DEFINE marked == [server[c][Current(c)] EXCEPT !.done = key]
<1>1. /\ server[c] \in Seq([key : Nat, done : Nat])
      /\ Current(c) \in 1..Len(server[c])
      /\ server[c][Current(c)] \in [key : Nat, done : Nat]
  <2>1. server[c] \in Seq([key : Nat, done : Nat])
    BY Fields
  <2>2. Current(c) \in 1..Len(server[c])
    BY <2>1 DEF Current
  <2> QED
    BY <2>1, <2>2, ElementOfSeq
<1>2. /\ marked \in [key : Nat, done : Nat]
      /\ marked.key = server[c][Current(c)].key /\ marked.done = key
  BY <1>1
<1>3. server' = [server EXCEPT ![c] = [server[c] EXCEPT ![Current(c)] = marked]]
  BY DEF TypeOK
<1> HIDE DEF marked
<1>4. /\ [server[c] EXCEPT ![Current(c)] = marked] \in Seq([key : Nat, done : Nat])
      /\ Len([server[c] EXCEPT ![Current(c)] = marked]) = Len(server[c])
      /\ \A i \in 1..Len(server[c]) : [server[c] EXCEPT ![Current(c)] = marked][i]
                                     = IF i = Current(c) THEN marked ELSE server[c][i]
  <2> DEFINE element == [key : Nat, done : Nat]
  <2>1. /\ server[c] \in Seq(element) /\ Current(c) \in 1..Len(server[c])
        /\ marked \in element
    BY <1>1, <1>2
  <2> HIDE DEF element
  <2>2. /\ [server[c] EXCEPT ![Current(c)] = marked] \in Seq(element)
        /\ Len([server[c] EXCEPT ![Current(c)] = marked]) = Len(server[c])
        /\ \A i \in 1..Len(server[c]) : [server[c] EXCEPT ![Current(c)] = marked][i]
                                       = IF i = Current(c) THEN marked ELSE server[c][i]
    BY <2>1, ExceptSeq
  <2> QED
    BY <2>2 DEF element
<1>5. server'[c] = [server[c] EXCEPT ![Current(c)] = marked]
  BY <1>3 DEF TypeOK
<1>6. server' \in [Case -> Seq([key : Nat, done : Nat])]
  BY <1>3, <1>4 DEF TypeOK
<1>7. \A d \in Case : d # c => server'[d] = server[d]
  BY <1>3 DEF TypeOK
<1>8. /\ Len(server'[c]) = Len(server[c])
      /\ server'[c] \in Seq([key : Nat, done : Nat])
      /\ \A i \in 1..Len(server[c]) :
           server'[c][i] = IF i = Current(c) THEN marked ELSE server[c][i]
  BY <1>4, <1>5
<1>9. server'[c] # <<>> /\ DOMAIN server'[c] = 1..Len(server[c])
  BY <1>1, <1>8
<1>10. server'[c][Current(c)].done = key
  BY <1>1, <1>2, <1>8
<1>11. \A i \in DOMAIN server'[c] :
         /\ server'[c][i].key = server[c][i].key
         /\ i # Current(c) => server'[c][i] = server[c][i]
  BY <1>2, <1>8, <1>9
<1> QED
  BY <1>6, <1>7, <1>8, <1>9, <1>10, <1>11

LEMMA ResolveStep ==
  ASSUME IInv, NEW c \in Case, Resolve(c)
  PROVE  IInv'
<1>1. TypeOK /\ Local(c)
  BY DEF IInv
<1>2. /\ run = "down" /\ pc[c] = "waiting" /\ cp[c].stage \in {"starting", "running"}
      /\ server[c] # <<>> /\ ~Completed(c)
      /\ server' = [server EXCEPT ![c][Current(c)].done = Elsewhere]
      /\ UNCHANGED <<setup, process, disk, made, cases, trace, scored, finished, listed>>
  BY DEF IInv, Drained, Resolve
<1>3. /\ server' \in [Case -> Seq([key : Nat, done : Nat])]
      /\ \A d \in Case : d # c => server'[d] = server[d]
      /\ Len(server'[c]) = Len(server[c]) /\ server'[c] # <<>>
      /\ \A i \in DOMAIN server'[c] :
           /\ server'[c][i].key = server[c][i].key
           /\ i # Current(c) => server'[c][i] = server[c][i]
  <2>1. Elsewhere \in Nat
    BY DEF Elsewhere
  <2> QED
    BY <1>1, <1>2, <2>1, Marked
<1>4. TypeOK'
  BY <1>1, <1>2, <1>3, Counted DEF TypeOK, Resolve, Fault
<1>5. Local(c)'
  BY <1>1, <1>2, <1>3
  DEF Local, Keyed, Known, Placed, Executing, Invoked, Held, Acceptable, Ended,
      Completed, Current, Dropped, Kept
<1>6. Apart(c)
  BY <1>2, <1>3 DEF IInv, TypeOK, Drained, Apart, Same, Completed, Current, Dropped
<1> QED
  BY <1>4, <1>5, <1>6, ApartInv

LEMMA CompleteExecutionStep ==
  ASSUME IInv, NEW c \in Case, CompleteExecution(c)
  PROVE  IInv'
<1>1. TypeOK /\ Local(c)
  BY DEF IInv
<1>2. cp[c].stage = "prepared" /\ Takes(c) /\ server[c] # <<>> /\ cp[c].exec = Current(c)
      /\ cp[c].key \in Nat /\ cp[c].key # 0
  BY <1>1, Fields DEF Local, Placed, Executing, CompleteExecution, Takes, Checkpoint
<1>3. /\ server' = [server EXCEPT ![c][Current(c)].done = cp[c].key]
      /\ pc[c] = "complete" /\ pc'[c] = "save_completion"
      /\ UNCHANGED <<setup, cp[c], at[c], trace[c], scored[c], keys[c], runs[c],
                     answered[c], failures, recovered>>
  BY <1>1, <1>2 DEF TypeOK, CompleteExecution, Go
<1>4. /\ server' \in [Case -> Seq([key : Nat, done : Nat])]
      /\ \A d \in Case : d # c => server'[d] = server[d]
      /\ Len(server'[c]) = Len(server[c]) /\ server'[c] # <<>>
      /\ server'[c][Current(c)].done = cp[c].key
      /\ \A i \in DOMAIN server'[c] :
           /\ server'[c][i].key = server[c][i].key
           /\ i # Current(c) => server'[c][i] = server[c][i]
  BY <1>1, <1>2, <1>3, Marked
<1>5. DOMAIN server'[c] = DOMAIN server[c] /\ Completed(c)'
  BY <1>1, <1>2, <1>4, Fields DEF TypeOK, Completed, Current
<1>6. TypeOK'
  BY <1>1, <1>2, <1>4 DEF TypeOK, CompleteExecution, Go
<1>7. Local(c)'
  BY <1>1, <1>2, <1>3, <1>4, <1>5
  DEF Local, Keyed, Known, Placed, Executing, Invoked, Held, Acceptable, Ended,
      Completed, Current, Dropped, Kept
<1>8. Apart(c)
  <2>1. \A d \in Case : d # c => Same(d)
    BY <1>1, <1>2, <1>4 DEF CompleteExecution, Go, TypeOK, Same
  <2>2. run # "down" /\ (stop => failures)
    BY DEF CompleteExecution, IInv, Drained
  <2>3. /\ UNCHANGED <<setup, run, items, listed, finished, stop, failures, recovered,
                       scored, cp>>
        /\ (Dropped(c) => Dropped(c)')
    BY <1>2 DEF CompleteExecution, Dropped
  <2> QED
    BY <1>5, <2>1, <2>2, <2>3 DEF Apart
<1> QED
  BY <1>6, <1>7, <1>8, ApartInv

LEMMA FlushStep ==
  ASSUME IInv, NEW c \in Case, Flush(c)
  PROVE  IInv'
<1>1. TypeOK /\ Local(c)
  BY DEF IInv
<1>2. PICK verdict \in Verdict, count \in Count :
        /\ at' = [at EXCEPT ![c].verdict = verdict]
        /\ Save(c, [cp[c] EXCEPT !.spans = count])
        /\ trace' = IF verdict = "clean" THEN [trace EXCEPT ![c] = "whole"] ELSE trace
  BY <1>1 DEF Flush, TypeOK
<1>3. /\ cp' \in [Case -> Checkpoint]
      /\ \A d \in Case : d # c => cp'[d] = cp[d]
      /\ cp'[c].stage = cp[c].stage /\ cp'[c].exec = cp[c].exec
      /\ cp'[c].key = cp[c].key /\ cp'[c].done = cp[c].done
      /\ cp'[c].uploaded = cp[c].uploaded
      /\ cp'[c].export = cp[c].export /\ cp'[c].evidence = cp[c].evidence
  <2>1. [cp[c] EXCEPT !.spans = count] \in Checkpoint
    BY <1>1, <1>2, Fields, Refilled
  <2>2. /\ cp' \in [Case -> Checkpoint]
        /\ cp'[c] = [cp[c] EXCEPT !.spans = count]
        /\ \A d \in Case : d # c => cp'[d] = cp[d]
    BY <1>1, <1>2, <2>1, Saved
  <2> QED
    BY <1>1, <2>2, Fields DEF Checkpoint
<1>4. /\ at' \in [Case -> Memory] /\ at'[c].exec = at[c].exec /\ at'[c].verdict = verdict
      /\ \A d \in Case : d # c => at'[d] = at[d]
  <2>1. /\ [at[c] EXCEPT !.verdict = verdict] \in Memory
        /\ [at[c] EXCEPT !.verdict = verdict].exec = at[c].exec
        /\ [at[c] EXCEPT !.verdict = verdict].verdict = verdict
    BY <1>1, <1>2, Fields DEF Memory
  <2> QED
    BY <1>1, <1>2, <2>1 DEF TypeOK
<1>5. /\ trace' \in [Case -> Trace]
      /\ \A d \in Case : d # c => trace'[d] = trace[d]
      /\ verdict = "clean" => trace'[c] = "whole"
  BY <1>1, <1>2 DEF TypeOK
<1>6. /\ pc[c] = "flush" /\ pc'[c] = "judge"
      /\ UNCHANGED <<setup, server[c], scored[c], keys[c], runs[c], answered[c], failures,
                     recovered>>
  BY <1>1 DEF TypeOK, Flush, Go
<1>7. cp[c].export = "pending" /\ ~cp[c].done
  BY <1>1, <1>6 DEF Local, Held
<1>8. TypeOK'
  BY <1>1, <1>3, <1>4, <1>5 DEF TypeOK, Flush, Go
<1>9. Local(c)'
  BY <1>1, <1>3, <1>4, <1>5, <1>6, <1>7
  DEF Local, Keyed, Known, Placed, Executing, Invoked, Held, Acceptable, Ended,
      Completed, Current, Dropped, Kept
<1>10. Apart(c)
  BY <1>1, <1>3, <1>4, <1>5, <1>6, <1>7 DEF Flush, Go,
     IInv, TypeOK, Drained, Apart, Same, Completed, Current, Dropped
<1> QED
  BY <1>8, <1>9, <1>10, ApartInv

LEMMA JudgeStep ==
  ASSUME IInv, NEW c \in Case, Judge(c)
  PROVE  IInv'
<1>1. TypeOK /\ Local(c)
  BY DEF IInv
<1>2. cp[c].stage = "prepared" /\ cp[c].export = "pending" /\ ~cp[c].done /\ pc[c] = "judge"
  BY <1>1 DEF Local, Placed, Held, Judge
<1>3. /\ cp' \in [Case -> Checkpoint]
      /\ \A d \in Case : d # c => cp'[d] = cp[d]
      /\ cp'[c].stage = cp[c].stage /\ cp'[c].exec = cp[c].exec
      /\ cp'[c].key = cp[c].key /\ cp'[c].done = cp[c].done
      /\ cp'[c].uploaded = cp[c].uploaded
      /\ cp'[c].evidence = cp[c].evidence
      /\ pc' \in [Case -> Steps] /\ \A d \in Case : d # c => pc'[d] = pc[d]
      /\ cp'[c].spans = cp[c].spans
      /\ \/ /\ cp'[c].export = "accepted" /\ pc'[c] = "decide"
            /\ \/ trace[c] = "whole"
               \/ cp[c].spans = "fewer" /\ trace[c] \in {"root", "root_lost"}
         \/ cp'[c].export \in {"pending", "failed"} /\ pc'[c] = "policy"
  <2>1. ASSUME NEW export \in {"accepted", "failed"},
               Save(c, [cp[c] EXCEPT !.export = export])
        PROVE  /\ cp' \in [Case -> Checkpoint]
               /\ \A d \in Case : d # c => cp'[d] = cp[d]
               /\ cp'[c].stage = cp[c].stage /\ cp'[c].exec = cp[c].exec
               /\ cp'[c].key = cp[c].key /\ cp'[c].done = cp[c].done
               /\ cp'[c].uploaded = cp[c].uploaded
               /\ cp'[c].evidence = cp[c].evidence /\ cp'[c].export = export
               /\ cp'[c].spans = cp[c].spans
    <3>1. [cp[c] EXCEPT !.export = export] \in Checkpoint
      BY <1>1, Fields, Refilled
    <3>2. /\ cp' \in [Case -> Checkpoint]
          /\ cp'[c] = [cp[c] EXCEPT !.export = export]
          /\ \A d \in Case : d # c => cp'[d] = cp[d]
      BY <1>1, <2>1, <3>1, Saved
    <3> QED
      BY <1>1, <3>2, Fields DEF Checkpoint
  <2>2. CASE /\ at[c].verdict = "clean" \/ Landed(c)
             /\ Save(c, [cp[c] EXCEPT !.export = "accepted"])
             /\ Go(c, "decide")
    <3>1. \/ trace[c] = "whole"
          \/ cp[c].spans = "fewer" /\ trace[c] \in {"root", "root_lost"}
      BY <1>1, <1>2, <2>2 DEF Local, Held, Landed
    <3> QED
      BY <1>1, <2>1, <2>2, <3>1, Gone
  <2>3. CASE Save(c, [cp[c] EXCEPT !.export = "failed"]) /\ Go(c, "policy")
    BY <1>1, <2>1, <2>3, Gone
  <2>4. CASE UNCHANGED cp /\ Go(c, "policy")
    BY <1>1, <1>2, <2>4, Gone DEF TypeOK
  <2> QED
    BY <2>2, <2>3, <2>4 DEF Judge
<1>4. UNCHANGED <<setup, at[c], server[c], trace[c], scored[c], keys[c], runs[c],
                  answered[c], failures, recovered>>
  BY DEF Judge
<1>5. TypeOK'
  BY <1>1, <1>3 DEF TypeOK, Judge
<1>6. Local(c)'
  BY <1>1, <1>2, <1>3, <1>4
  DEF Local, Keyed, Known, Placed, Executing, Invoked, Held, Acceptable, Ended,
      Completed, Current, Dropped, Kept
<1>7. Apart(c)
  BY <1>1, <1>2, <1>3, <1>4 DEF Judge,
     IInv, TypeOK, Drained, Apart, Same, Completed, Current, Dropped
<1> QED
  BY <1>5, <1>6, <1>7, ApartInv

LEMMA DecideStep ==
  ASSUME IInv, NEW c \in Case, Decide(c)
  PROVE  IInv'
<1>1. TypeOK /\ Local(c)
  BY DEF IInv
<1>2. /\ Decided(c) \in Checkpoint
      /\ Decided(c).stage = cp[c].stage /\ Decided(c).exec = cp[c].exec
      /\ Decided(c).key = cp[c].key /\ Decided(c).done = cp[c].done
      /\ Decided(c).uploaded = cp[c].uploaded
      /\ Decided(c).spans = cp[c].spans
      /\ Decided(c).export = "accepted" =>
           \/ cp[c].export = "accepted"
           \/ trace[c] = "whole"
           \/ cp[c].spans = "fewer" /\ trace[c] \in {"root", "root_lost"}
      /\ cp[c].export = "not_accepted" => Decided(c).export = "not_accepted"
      /\ Acceptable(cp[c]) => Acceptable(Decided(c))
  <2>1. cp[c] \in Checkpoint
    BY <1>1, Fields
  <2>2. CASE Decided(c) = cp[c]
    BY <2>1, <2>2
  <2>3. CASE /\ Landed(c) /\ cp[c].export = "pending"
             /\ Decided(c) = [cp[c] EXCEPT !.export = "accepted", !.evidence = "required"]
    <3>1. /\ Decided(c) \in Checkpoint
          /\ Decided(c).export = "accepted" /\ Decided(c).evidence = "required"
      BY <2>1, <2>3 DEF Checkpoint
    <3> QED
      BY <2>1, <2>3, <3>1 DEF Landed, Acceptable, Checkpoint
  <2>4. CASE Decided(c) = [cp[c] EXCEPT !.evidence = "pending"]
    BY <2>1, <2>4 DEF Acceptable, Checkpoint
  <2> QED
    BY <2>2, <2>3, <2>4 DEF Decided
<1>3. /\ cp' \in [Case -> Checkpoint]
      /\ cp'[c] = Decided(c)
      /\ \A d \in Case : d # c => cp'[d] = cp[d]
  BY <1>1, <1>2, Saved DEF Decide
<1>4. /\ pc[c] = "decide" /\ cp[c].stage = "prepared"
      /\ \/ pc'[c] = "failed" /\ failures'
         \/ Acceptable(Decided(c)) /\ pc'[c] = "score" /\ cp[c].done /\ UNCHANGED failures
         \/ Acceptable(Decided(c)) /\ pc'[c] = "complete" /\ UNCHANGED failures
      /\ UNCHANGED <<setup, at[c], server[c], trace[c], scored[c], keys[c], runs[c],
                     answered[c], recovered>>
  BY <1>1 DEF TypeOK, Decide, Go, Fail, Local, Placed
<1>5. TypeOK'
  BY <1>1, <1>3 DEF TypeOK, Decide, Go, Fail
<1>6. Local(c)'
  BY <1>1, <1>2, <1>3, <1>4
  DEF Local, Keyed, Known, Placed, Executing, Invoked, Held, Acceptable, Ended,
      Completed, Current, Dropped, Kept
<1>7. Apart(c)
  <2>1. \A d \in Case : d # c => Same(d)
    BY <1>1, <1>3 DEF TypeOK, Decide, Go, Fail, Same
  <2>2. run # "down" /\ (stop' => failures') /\ (failures => failures')
    BY <1>4 DEF IInv, Drained, Decide, Fail
  <2>3. (Completed(c) => Completed(c)') /\ (Dropped(c) => Dropped(c)')
    BY <1>2, <1>3, <1>4 DEF Completed, Current, Dropped
  <2>4. UNCHANGED <<setup, run, items, listed, finished, recovered, scored>>
    BY DEF Decide
  <2> QED
    BY <2>1, <2>2, <2>3, <2>4 DEF Apart
<1> QED
  BY <1>5, <1>6, <1>7, ApartInv

LEMMA ThrowStep ==
  ASSUME IInv, NEW c \in Case, Throw(c)
  PROVE  IInv'
<1>1. TypeOK /\ Local(c)
  BY DEF IInv
<1>2. /\ cp' \in [Case -> Checkpoint]
      /\ \A d \in Case : d # c => cp'[d] = cp[d]
      /\ cp'[c].stage = cp[c].stage /\ cp'[c].exec = cp[c].exec
      /\ cp'[c].key = cp[c].key /\ cp'[c].done = cp[c].done
      /\ cp'[c].uploaded = cp[c].uploaded
      /\ cp'[c].export = cp[c].export /\ cp'[c].evidence = cp[c].evidence
      /\ cp'[c].spans = cp[c].spans \/ cp[c].export = "pending"
  <2>1. CASE UNCHANGED cp
    BY <1>1, <2>1 DEF TypeOK
  <2>2. ASSUME NEW count \in Count, pc[c] = "publish",
               Save(c, [cp[c] EXCEPT !.spans = count])
        PROVE  /\ cp' \in [Case -> Checkpoint]
               /\ \A d \in Case : d # c => cp'[d] = cp[d]
               /\ cp'[c].stage = cp[c].stage /\ cp'[c].exec = cp[c].exec
               /\ cp'[c].key = cp[c].key /\ cp'[c].done = cp[c].done
               /\ cp'[c].uploaded = cp[c].uploaded
               /\ cp'[c].export = cp[c].export /\ cp'[c].evidence = cp[c].evidence
               /\ cp[c].export = "pending"
    <3>1. [cp[c] EXCEPT !.spans = count] \in Checkpoint
      BY <1>1, Fields, Refilled
    <3>2. /\ cp' \in [Case -> Checkpoint]
          /\ cp'[c] = [cp[c] EXCEPT !.spans = count]
          /\ \A d \in Case : d # c => cp'[d] = cp[d]
      BY <1>1, <2>2, <3>1, Saved
    <3>3. cp[c].export = "pending"
      BY <1>1, <2>2 DEF Local, Placed, Held
    <3> QED
      BY <1>1, <3>2, <3>3, Fields DEF Checkpoint
  <2>3. \/ UNCHANGED cp
        \/ pc[c] = "publish"
           /\ \E count \in Count : Save(c, [cp[c] EXCEPT !.spans = count])
    BY <1>1 DEF Throw, TypeOK
  <2> QED
    BY <2>1, <2>2, <2>3
<1>3. /\ trace' \in [Case -> Trace]
      /\ \A d \in Case : d # c => trace'[d] = trace[d]
      /\ trace[c] # "open" => trace'[c] = trace[c]
  BY <1>1 DEF TypeOK, Throw
<1>4. /\ pc[c] \in Awaits /\ pc'[c] = "failed" /\ failures'
      /\ UNCHANGED <<setup, at[c], server[c], scored[c], keys[c], runs[c], answered[c],
                     recovered>>
  BY <1>1 DEF TypeOK, Throw, Fail, Go
<1>5. pc' \in [Case -> Steps] /\ {failures', stop'} \subseteq BOOLEAN /\ faults' \in 0..MaxFaults
  BY <1>1, Gone, Counted DEF TypeOK, Throw, Fail, Fault
<1>6. TypeOK'
  BY <1>1, <1>2, <1>3, <1>5 DEF TypeOK, Throw
<1>7. Local(c)'
  BY <1>1, <1>2, <1>3, <1>4
  DEF Local, Keyed, Known, Placed, Executing, Invoked, Held, Acceptable, Ended,
      Completed, Current, Dropped, Kept
<1>8. Apart(c)
  BY <1>1, <1>2, <1>3, <1>4 DEF Throw, Go, Fail,
     IInv, TypeOK, Drained, Apart, Same, Completed, Current, Dropped
<1> QED
  BY <1>6, <1>7, <1>8, ApartInv

-----------------------------------------------------------------------------
LEMMA DownTypes ==
  ASSUME Down
  PROVE  /\ at' \in [Case -> Memory]
         /\ pc' \in [Case -> Steps]
<1>1. Nothing \in Memory
  BY DEF Nothing, Memory
<1> QED
  BY <1>1 DEF Down

(* Steps of the process, which leave the cases to themselves.              *)
LEMMA Outside ==
  ASSUME IInv, TypeOK', Drained', UNCHANGED <<setup, failures, recovered, hue, made, cases>>,
         UNCHANGED cp
  PROVE  IInv'
<1>1. ASSUME NEW d \in Case PROVE Local(d)'
  BY SameLocal DEF IInv, Same
<1> QED
  BY <1>1 DEF IInv

(* A process that is gone has let go of every case.                        *)
LEMMA DownInv ==
  ASSUME IInv, TypeOK', Down, UNCHANGED <<setup, hue, made, cp, listed>>,
         finished' = finished \/ (finished' = TRUE /\ run = "finish")
  PROVE  IInv'
<1>1. ASSUME NEW d \in Case PROVE Local(d)'
  <2>1. Local(d) /\ pc'[d] = "waiting"
    BY DEF IInv, Down
  <2>2. Keyed(d)' /\ Placed(d)' /\ Executing(d)'
    BY <2>1 DEF Local, Keyed, Known, Placed, Executing, Current
  <2>3. Invoked(d)' /\ Held(d)' /\ Ended(d)'
    BY <2>1 DEF Local, Invoked, Held, Acceptable, Ended, Completed, Current, Dropped
  <2> QED
    BY <2>2, <2>3 DEF Local
<1>2. Cases \subseteq Case
  BY DEF IInv, TypeOK
<1>3. Drained'
  BY <1>2 DEF IInv, Drained, Down, Completed, Current, Dropped, FinishedWhole
<1> QED
  BY <1>1, <1>3 DEF IInv

LEMMA ListStep == IInv /\ List => IInv'
<1> SUFFICES ASSUME IInv, List PROVE IInv'
  OBVIOUS
<1>1. TypeOK'
  BY DEF IInv, TypeOK, List
<1>2. \A c \in Case : listed'[1][c].done => Completed(c)
  BY DEF List
<1>3. Drained'
  BY <1>2 DEF IInv, Drained, List, Completed, Current, Dropped, FinishedWhole
<1> QED
  BY <1>1, <1>3, Outside DEF List

LEMMA AcquireStep == IInv /\ Acquire => IInv'
<1> SUFFICES ASSUME IInv, Acquire PROVE IInv'
  OBVIOUS
<1>1. TypeOK'
  BY DEF IInv, TypeOK, Acquire
<1>2. Drained'
  BY DEF IInv, Drained, Acquire, Completed, Current, Dropped, FinishedWhole
<1> QED
  BY <1>1, <1>2, Outside DEF Acquire

LEMMA SweepStep == IInv /\ (RecordSweep \/ EndSweep) => IInv'
<1> SUFFICES ASSUME IInv, RecordSweep \/ EndSweep PROVE IInv'
  OBVIOUS
<1>1. TypeOK'
  <2>1. CASE RecordSweep
    <3>1. \A c \in Case : cp[c].exec \in Execs /\ due[c] \in Execs
      BY Fields DEF IInv, TypeOK, Checkpoint
    <3>2. due' \in [Case -> Execs]
      BY <2>1, <3>1 DEF RecordSweep
    <3> QED
      BY <2>1, <3>2 DEF IInv, TypeOK, RecordSweep
  <2>2. CASE EndSweep
    BY <2>2 DEF IInv, TypeOK, EndSweep
  <2> QED
    BY <2>1, <2>2
<1>2. Drained'
  BY DEF IInv, Drained, RecordSweep, EndSweep, Completed, Current, Dropped,
     FinishedWhole
<1> QED
  BY <1>1, <1>2, Outside DEF RecordSweep, EndSweep

LEMMA EndPoolStep == IInv /\ EndPool => IInv'
<1> SUFFICES ASSUME IInv, EndPool PROVE IInv'
  OBVIOUS
<1>1. CASE EndsOpen
  <2>1. TypeOK'
    BY <1>1, DownTypes DEF IInv, TypeOK, EndPool, Down
  <2> QED
    BY <1>1, <2>1, DownInv DEF EndPool
<1>2. CASE ~EndsOpen
  <2>1. TypeOK'
    BY <1>2 DEF IInv, TypeOK, EndPool
  <2>2. ~failures /\ ~stop
    BY <1>2 DEF IInv, Drained, EndsOpen
  <2>3. ASSUME NEW c \in Cases
        PROVE  Completed(c) /\ (scored[c] \/ Dropped(c) \/ recovered)
    <3>1. c \in Case /\ Local(c) /\ pc[c] \in {"done", "failed"}
      BY <2>2 DEF IInv, TypeOK, EndPool
    <3> QED
      BY <2>2, <3>1 DEF Local, Ended
  <2>4. Drained'
    BY <1>2, <2>3 DEF IInv, Drained, EndPool, Completed, Current, Dropped,
       FinishedWhole
  <2> QED
    BY <1>2, <2>1, <2>4, Outside DEF EndPool
<1> QED
  BY <1>1, <1>2

LEMMA RescoreStep == IInv /\ Rescore => IInv'
<1> SUFFICES ASSUME IInv, Rescore PROVE IInv'
  OBVIOUS
<1>1. TypeOK'
  BY DEF IInv, TypeOK, Rescore
<1>2. Cases \subseteq Case
  BY DEF IInv, TypeOK
<1>3. ASSUME NEW d \in Case
      PROVE  /\ scored'[d] = (scored[d] \/ Completed(d))
             /\ Completed(d)' = Completed(d) /\ Dropped(d)' = Dropped(d)
  BY DEF Rescore, Completed, Current, Dropped
<1>4. ASSUME NEW d \in Case PROVE Local(d)'
  <2>1. Local(d)
    BY DEF IInv
  <2>2. Keyed(d)' /\ Placed(d)' /\ Executing(d)'
    BY <2>1 DEF Rescore, Local, Keyed, Known, Placed, Executing, Current
  <2>3. Invoked(d)' /\ Held(d)'
    BY <2>1 DEF Rescore, Local, Invoked, Current, Held, Acceptable
  <2>4. Ended(d)'
    BY <1>3, <2>1 DEF Rescore, Local, Ended
  <2> QED
    BY <2>2, <2>3, <2>4 DEF Local
<1>5. Drained'
  BY <1>2, <1>3 DEF IInv, Drained, Rescore, FinishedWhole
<1> QED
  BY <1>1, <1>4, <1>5 DEF IInv

LEMMA FinishStep == IInv /\ Finish => IInv'
<1> SUFFICES ASSUME IInv, Finish PROVE IInv'
  OBVIOUS
<1>1. TypeOK'
  BY DownTypes DEF IInv, TypeOK, Finish, Down
<1> QED
  BY <1>1, DownInv DEF Finish

LEMMA FaultStep == IInv /\ (ThrowOut \/ Crash \/ Abort) => IInv'
<1> SUFFICES ASSUME IInv, ThrowOut \/ Crash \/ Abort PROVE IInv'
  OBVIOUS
<1>1. TypeOK
  BY DEF IInv
<1>2. CASE ThrowOut \/ Crash
  <2>1. TypeOK'
    <3>1. at' \in [Case -> Memory] /\ pc' \in [Case -> Steps] /\ faults' \in 0..MaxFaults
      BY <1>1, <1>2, Counted, DownTypes DEF ThrowOut, Crash, Fault
    <3> QED
      BY <1>1, <1>2, <3>1 DEF TypeOK, ThrowOut, Crash, Down
  <2> QED
    BY <1>2, <2>1, DownInv DEF ThrowOut, Crash
<1>3. CASE Abort
  <2>1. TypeOK'
    BY <1>1, <1>3, Counted DEF TypeOK, Abort, Fault
  <2>2. Drained'
    BY <1>3 DEF IInv, Drained, Abort, Completed, Current, Dropped, FinishedWhole
  <2> QED
    BY <1>3, <2>1, <2>2, Outside DEF Abort
<1> QED
  BY <1>2, <1>3

-----------------------------------------------------------------------------
LEMMA InitInv == Init => IInv
<1> SUFFICES ASSUME Init PROVE IInv
  OBVIOUS
<1>1. TypeOK
  <2>1. cp \in [Case -> Checkpoint]
    BY DEF Init, Checkpoint, Blank, Count
  <2>2. at \in [Case -> Memory]
    BY DEF Init, Memory, Nothing
  <2>3. server \in [Case -> Seq([key : Nat, done : Nat])]
    BY DEF Init
  <2>4. runs \in [Case -> [Execs \ {0} -> Nat]]
    BY DEF Init
  <2>5. faults \in 0..MaxFaults
    BY DEF Init
  <2>6. due \in [Case -> Execs]
    BY DEF Init
  <2> QED
    BY <2>1, <2>2, <2>3, <2>4, <2>5, <2>6 DEF Init, TypeOK
<1>2. ASSUME NEW c \in Case PROVE Local(c)
  BY DEF Init, Blank, Local, Keyed, Known, Placed, Executing, Current, Invoked,
     Held,
         Acceptable, Ended, Completed, Dropped
<1>3. Drained
  BY DEF Init, Drained, FinishedWhole
<1> QED
  BY <1>1, <1>2, <1>3 DEF IInv

LEMMA CaseInv ==
  ASSUME IInv, NEW c \in Case, RunCase(c)
  PROVE  IInv'
BY ReadStep, InterruptStep, ReplayStep, LookupStep, ResumeStep, FreshStep,
   SaveStartStep,
   StartExecutionStep, RefusedStep, SaveRunningStep, InvokeStep, ReturnStep,
   SaveInterruptedStep, SaveUnserializableStep, SaveOutcomeStep, PublishStep, FlushStep,
   JudgeStep, ApplyPolicyStep, DecideStep, CompleteExecutionStep, SaveCompletionStep,
   ScoreStep, SaveScoreStep DEF RunCase

LEMMA StepInv == IInv /\ [Next]_vars => IInv'
<1> SUFFICES ASSUME IInv, [Next]_vars PROVE IInv'
  OBVIOUS
<1>1. CASE UNCHANGED vars
  <2>1. TypeOK' /\ Drained'
    BY <1>1 DEF IInv, vars, TypeOK, Drained, Completed, Current, Dropped,
       FinishedWhole
  <2> QED
    BY <1>1, <2>1, Outside DEF vars
<1>2. CASE Work
  BY <1>2, ListStep, AcquireStep, SweepStep, EndPoolStep, RescoreStep, FinishStep,
     MarkCrashedStep, PickStep, CaseInv DEF Work
<1>3. CASE Faulty
  BY <1>3, FaultStep, ThrowStep, FlushThrowsStep, ReturnUncertainStep, ResolveStep
     DEF Faulty
<1>4. CASE \E c \in Case : Ingest(c)
  BY <1>4, IngestStep
<1> QED
  BY <1>1, <1>2, <1>3, <1>4 DEF Next

(* No execution is given to the target twice.                              *)
THEOREM GivenOnce == Spec => []InvokedOnce
<1>1. IInv => InvokedOnce
  BY DEF IInv, Local, Invoked, InvokedOnce
<1> QED
  BY InitInv, StepInv, <1>1, PTL DEF Spec

(* Hue takes every completion.                                             *)
THEOREM CompletionsTaken == Spec => []CompletionTaken
<1>1. ASSUME IInv, NEW c \in Case, pc[c] = "complete" PROVE Takes(c)
  BY <1>1 DEF IInv, Local, Placed, Executing, Takes
<1>2. IInv => CompletionTaken
  BY <1>1 DEF CompletionTaken
<1> QED
  BY InitInv, StepInv, <1>2, PTL DEF Spec

(* What is written down is so.                                             *)
THEOREM RecordsHold == Spec => []RecordsAreTrue
<1>1. ASSUME IInv, NEW c \in Case, cp[c].done, cp[c].evidence = "required"
      PROVE  \/ trace[c] = "whole"
             \/ cp[c].spans = "fewer" /\ trace[c] \in {"root", "root_lost"}
  BY <1>1 DEF IInv, Local, Held, Acceptable
<1>2. IInv => RecordsAreTrue
  BY <1>1 DEF IInv, Drained, EvidenceHeld, RecordsAreTrue
<1> QED
  BY InitInv, StepInv, <1>2, PTL DEF Spec

-----------------------------------------------------------------------------
(* The run implements the ledger of its cases.                             *)
Tried(c) == {e \in Execs \ {0} : runs[c][e] # 0}

LEMMA AttemptsCount ==
  ASSUME NEW c \in Case
  PROVE  /\ IsFiniteSet(Tried(c)) /\ Attempts(c) = Cardinality(Tried(c))
         /\ Attempts(c) \in Nat
         /\ Attempts(c) = 0 <=> Tried(c) = {}
<1>1. IsFiniteSet(Tried(c))
  <2>1. IsFiniteSet(0..MaxFaults + 1)
    BY FS_Interval
  <2> QED
    BY <2>1, FS_Subset DEF Tried
<1>2. Attempts(c) = Cardinality(Tried(c))
  BY DEF Attempts, Tried
<1> QED
  BY <1>1, <1>2, FS_CardinalityType, FS_EmptySet

LEMMA LedgerInit == Init => Ledger!Init
<1> SUFFICES ASSUME Init PROVE Ledger!Init
  OBVIOUS
<1>1. ASSUME NEW c \in Case PROVE Attempts(c) = 0 /\ Progress(c) = "idle"
  <2>1. Tried(c) = {}
    BY DEF Init, Tried
  <2> QED
    BY <2>1, AttemptsCount DEF Init, Progress, Completed
<1> QED
  BY <1>1 DEF Init, Ledger!Init

(* Only its place in the ledger that a step changes is to be looked at.    *)
LEMMA Entry ==
  ASSUME NEW d \in Case, UNCHANGED <<runs[d], answered[d]>>, Completed(d)' <=> Completed(d)
  PROVE  UNCHANGED Attempts(d) /\ UNCHANGED Progress(d)
<1>1. UNCHANGED Attempts(d)
  BY DEF Attempts
<1> QED
  BY <1>1 DEF Progress

ledger == <<Cases, [c \in Case |-> Progress(c)], [c \in Case |-> Attempts(c)], finished>>

LEMMA NotEntered ==
  ASSUME UNCHANGED <<setup, finished, runs, answered>>,
         \A d \in Case : Completed(d)' <=> Completed(d)
  PROVE  UNCHANGED ledger
<1>1. ASSUME NEW d \in Case PROVE UNCHANGED Attempts(d) /\ UNCHANGED Progress(d)
  BY Entry
<1> QED
  BY <1>1 DEF ledger

LEMMA InvokeEnters ==
  ASSUME IInv, IInv', NEW c \in Case, Invoke(c)
  PROVE  Ledger!Attempt(c) /\ c \in Cases
<1>1. /\ TypeOK /\ Local(c) /\ pc[c] = "target" /\ cp[c].stage = "running" /\ c \in Cases
      /\ UNCHANGED <<setup, finished, server, answered>>
      /\ runs' = [runs EXCEPT ![c][at[c].exec] = @ + 1]
  BY DEF IInv, Local, Placed, Invoke
<1>2. at[c].exec \in Execs \ {0} /\ runs[c][at[c].exec] = 0
  <2>1. at[c].exec = Current(c) /\ server[c] # <<>> /\ runs[c][at[c].exec] = 0
    BY <1>1 DEF Local, Executing, Invoked
  <2>2. Current(c) # 0
    BY <1>1, <2>1, Fields DEF Current
  <2>3. at[c].exec \in Execs
    BY <1>1, Fields DEF Memory
  <2> QED
    BY <2>1, <2>2, <2>3
<1>3. /\ runs[c] \in [Execs \ {0} -> Nat]
      /\ runs'[c] = [runs[c] EXCEPT ![at[c].exec] = 1]
      /\ \A d \in Case : d # c => runs'[d] = runs[d]
  <2>1. runs \in [Case -> [Execs \ {0} -> Nat]]
    BY <1>1 DEF TypeOK
  <2>2. runs' = [runs EXCEPT ![c] = [runs[c] EXCEPT ![at[c].exec] = 1]]
    BY <1>1, <1>2, <2>1
  <2> QED
    BY <2>1, <2>2
<1>4. Tried(c)' = Tried(c) \cup {at[c].exec} /\ at[c].exec \notin Tried(c)
  BY <1>2, <1>3 DEF Tried
<1>5. Attempts(c)' = Attempts(c) + 1 /\ Attempts(c) \in Nat
  <2>1. Attempts(c)' = Cardinality(Tried(c)')
    BY DEF Attempts, Tried
  <2>2. IsFiniteSet(Tried(c)) /\ Attempts(c) = Cardinality(Tried(c)) /\ Attempts(c) \in Nat
    BY AttemptsCount, FS_CardinalityType DEF Attempts, Tried
  <2>3. Cardinality(Tried(c) \cup {at[c].exec}) = Cardinality(Tried(c)) + 1
    BY <1>4, <2>2, FS_AddElement
  <2> QED
    BY <1>4, <2>1, <2>2, <2>3
<1>6. ~Completed(c) /\ ~answered[c]
  BY <1>1 DEF Local, Executing, Invoked, Completed
<1>7. Progress(c) \in {"idle", "attempted"} /\ Progress(c)' = "attempted"
  BY <1>1, <1>5, <1>6 DEF Progress, Completed, Current
<1>8. ASSUME NEW d \in Case, d # c PROVE UNCHANGED Attempts(d) /\ UNCHANGED Progress(d)
  BY <1>1, <1>3, <1>8, Entry DEF Completed, Current
<1> QED
  BY <1>1, <1>5, <1>7, <1>8 DEF Ledger!Attempt

LEMMA OutcomeEnters ==
  ASSUME IInv, NEW c \in Case, SaveOutcome(c)
  PROVE  Ledger!Answer(c) /\ c \in Cases
<1>1. /\ TypeOK /\ Local(c) /\ pc[c] = "save_outcome" /\ cp[c].stage = "running"
      /\ c \in Cases
      /\ UNCHANGED <<setup, finished, server, runs>>
      /\ answered' = [answered EXCEPT ![c] = TRUE]
  BY DEF IInv, Local, Placed, SaveOutcome
<1>2. at[c].exec \in Tried(c)
  <2>1. at[c].exec = Current(c) /\ server[c] # <<>> /\ runs[c][at[c].exec] = 1
    BY <1>1 DEF Local, Executing, Invoked
  <2>2. Current(c) # 0
    BY <1>1, <2>1, Fields DEF Current
  <2>3. at[c].exec \in Execs
    BY <1>1, Fields DEF Memory
  <2> QED
    BY <2>1, <2>2, <2>3 DEF Tried
<1>3. Attempts(c) > 0
  BY <1>2, AttemptsCount
<1>4. ~Completed(c) /\ ~answered[c]
  BY <1>1 DEF Local, Executing, Invoked, Completed
<1>5. UNCHANGED Attempts(c) /\ Progress(c) = "attempted" /\ Progress(c)' = "answered"
  BY <1>1, <1>3, <1>4 DEF TypeOK, Progress, Completed, Current, Attempts
<1>6. ASSUME NEW d \in Case, d # c PROVE UNCHANGED Attempts(d) /\ UNCHANGED Progress(d)
  BY <1>1, <1>6, Entry DEF TypeOK, Completed, Current
<1> QED
  BY <1>1, <1>5, <1>6 DEF Ledger!Answer

LEMMA CompletionEnters ==
  ASSUME IInv, NEW c \in Case, CompleteExecution(c)
  PROVE  (Ledger!Complete(c) /\ c \in Cases) \/ UNCHANGED ledger
<1>1. /\ TypeOK /\ Local(c) /\ pc[c] = "complete" /\ cp[c].stage = "prepared" /\ c \in Cases
      /\ server[c] # <<>> /\ cp[c].exec = Current(c) /\ cp[c].key \in Nat /\ cp[c].key # 0
      /\ answered[c] /\ Takes(c)
  BY Fields DEF IInv, Local, Placed, Executing, Invoked, CompleteExecution, Takes,
                Checkpoint
<1>2. /\ UNCHANGED <<setup, finished, answered, runs>>
      /\ server' = [server EXCEPT ![c][Current(c)].done = cp[c].key]
  BY <1>1 DEF CompleteExecution
<1>3. Completed(c)' /\ \A d \in Case : d # c => server'[d] = server[d]
  <2>1. /\ \A d \in Case : d # c => server'[d] = server[d]
        /\ Len(server'[c]) = Len(server[c]) /\ server'[c] # <<>>
        /\ server'[c][Current(c)].done = cp[c].key
    BY <1>1, <1>2, Marked
  <2> QED
    BY <1>1, <1>2, <2>1 DEF Completed, Current
<1>4. ASSUME NEW d \in Case, d # c PROVE UNCHANGED Attempts(d) /\ UNCHANGED Progress(d)
  BY <1>2, <1>3, <1>4, Entry DEF Completed, Current
<1>5. UNCHANGED Attempts(c)
  BY <1>2 DEF Attempts
<1>6. CASE Completed(c)
  <2>1. UNCHANGED Progress(c)
    BY <1>3, <1>6 DEF Progress
  <2> QED
    BY <1>2, <1>4, <1>5, <2>1 DEF ledger
<1>7. CASE ~Completed(c)
  <2>1. Progress(c) = "answered" /\ Progress(c)' = "completed"
    BY <1>1, <1>3, <1>7 DEF Progress
  <2> QED
    BY <1>1, <1>2, <1>4, <1>5, <2>1 DEF Ledger!Complete
<1> QED
  BY <1>6, <1>7

LEMMA ResolveEnters ==
  ASSUME IInv, NEW c \in Case, Resolve(c)
  PROVE  Ledger!Resolve(c) /\ c \in Cases
<1>1. /\ TypeOK /\ Local(c) /\ cp[c].stage \in {"starting", "running"} /\ c \in Cases
      /\ server[c] # <<>> /\ ~Completed(c) /\ ~answered[c]
      /\ UNCHANGED <<setup, finished, answered, runs>>
      /\ server' = [server EXCEPT ![c][Current(c)].done = Elsewhere]
  BY DEF IInv, Local, Placed, Invoked, Resolve
<1>2. Elsewhere \in Nat /\ Elsewhere # 0
  BY DEF Elsewhere
<1>3. Completed(c)' /\ \A d \in Case : d # c => server'[d] = server[d]
  <2>1. /\ \A d \in Case : d # c => server'[d] = server[d]
        /\ Len(server'[c]) = Len(server[c]) /\ server'[c] # <<>>
        /\ server'[c][Current(c)].done = Elsewhere
    BY <1>1, <1>2, Marked
  <2> QED
    BY <1>1, <1>2, <2>1 DEF Completed, Current
<1>4. ASSUME NEW d \in Case, d # c PROVE UNCHANGED Attempts(d) /\ UNCHANGED Progress(d)
  BY <1>1, <1>3, <1>4, Entry DEF Completed, Current
<1>5. /\ UNCHANGED Attempts(c)
      /\ Progress(c) \in {"idle", "attempted"} /\ Progress(c)' = "completed"
  BY <1>1, <1>3 DEF Attempts, Progress
<1> QED
  BY <1>1, <1>4, <1>5 DEF Ledger!Resolve

(* A start leaves an execution that is open, or the one that was known.    *)
LEMMA StartNotEntered ==
  ASSUME IInv, NEW c \in Case, Replay(c) \/ StartExecution(c)
  PROVE  UNCHANGED ledger
<1>1. TypeOK /\ Local(c) /\ cp[c].stage = "starting"
  BY DEF IInv, Local, Placed, Replay, StartExecution
<1>2. PICK exec \in Execs : Start(c, cp[c].key, cp[c].prev, exec)
  BY DEF Replay, StartExecution
<1>3. \A d \in Case : d # c => server'[d] = server[d]
  BY <1>1, <1>2, Started
<1>4. Completed(c)' <=> Completed(c)
  <2>1. CASE UNCHANGED server
    BY <2>1 DEF Completed, Current
  <2>2. CASE ~Completed(c) /\ Known(c, cp[c].key) = {}
    BY <1>1, <1>2, <2>2, Started DEF Completed, Current
  <2> QED
    BY <1>2, <2>1, <2>2 DEF Start
<1>5. UNCHANGED <<setup, finished, answered, runs>>
  BY DEF Replay, StartExecution
<1> QED
  BY <1>3, <1>4, <1>5, NotEntered DEF Completed, Current

LEMMA FinishEnters == IInv /\ Finish => Ledger!Finish
<1> SUFFICES ASSUME IInv, Finish PROVE Ledger!Finish
  OBVIOUS
<1>1. /\ UNCHANGED <<setup, server, runs, answered>> /\ finished' = TRUE
      /\ Cases \subseteq Case
      /\ \A c \in Cases : Completed(c)
  BY DEF IInv, TypeOK, Drained, Finish
<1>2. ASSUME NEW d \in Case PROVE UNCHANGED Attempts(d) /\ UNCHANGED Progress(d)
  BY <1>1, Entry DEF Completed, Current
<1>3. \A c \in Cases : Progress(c) = "completed"
  BY <1>1 DEF Progress
<1> QED
  BY <1>1, <1>2, <1>3 DEF Ledger!Finish

LEMMA OthersNotEntered ==
  ASSUME UNCHANGED <<setup, finished, server, runs, answered>>
  PROVE  UNCHANGED ledger
BY NotEntered DEF Completed, Current

LEMMA LedgerStep == IInv /\ IInv' /\ [Next]_vars => [Ledger!Next]_ledger
<1> SUFFICES ASSUME IInv, IInv', [Next]_vars PROVE [Ledger!Next]_ledger
  OBVIOUS
<1>1. CASE UNCHANGED vars
  BY <1>1, OthersNotEntered DEF vars
<1>2. ASSUME NEW c \in Case, RunCase(c) PROVE [Ledger!Next]_ledger
  <2>1. CASE Invoke(c)
    BY <2>1, InvokeEnters DEF Ledger!Next
  <2>2. CASE SaveOutcome(c)
    BY <2>2, OutcomeEnters DEF Ledger!Next
  <2>3. CASE CompleteExecution(c)
    BY <2>3, CompletionEnters DEF Ledger!Next
  <2>4. CASE Replay(c) \/ StartExecution(c)
    BY <2>4, StartNotEntered
  <2>5. CASE Read(c) \/ Interrupt(c) \/ Lookup(c) \/ Resume(c) \/ Fresh(c) \/ SaveStart(c)
    <3>1. UNCHANGED <<setup, finished, server, runs, answered>>
      BY <2>5 DEF Read, Interrupt, Lookup, Resume, Fresh, SaveStart
    <3> QED
      BY <3>1, OthersNotEntered
  <2>6. CASE Refused(c) \/ SaveRunning(c) \/ Return(c) \/ SaveInterrupted(c)
             \/ SaveUnserializable(c) \/ Publish(c)
    <3>1. UNCHANGED <<setup, finished, server, runs, answered>>
      BY <2>6 DEF Refused, SaveRunning, Return, SaveInterrupted,
         SaveUnserializable, Publish
    <3> QED
      BY <3>1, OthersNotEntered
  <2>7. CASE Flush(c) \/ Judge(c) \/ ApplyPolicy(c) \/ Decide(c) \/ SaveCompletion(c)
             \/ Score(c) \/ SaveScore(c)
    <3>1. UNCHANGED <<setup, finished, server, runs, answered>>
      BY <2>7 DEF Flush, Judge, ApplyPolicy, Decide, SaveCompletion, Score,
         SaveScore
    <3> QED
      BY <3>1, OthersNotEntered
  <2> QED
    BY <1>2, <2>1, <2>2, <2>3, <2>4, <2>5, <2>6, <2>7 DEF RunCase
<1>3. CASE Finish
  BY <1>3, FinishEnters DEF Ledger!Next
<1>4. CASE List \/ Acquire \/ RecordSweep \/ EndSweep \/ EndPool \/ Rescore
  <2>1. UNCHANGED <<setup, finished, server, runs, answered>>
    BY <1>4 DEF List, Acquire, RecordSweep, EndSweep, EndPool, Rescore
  <2> QED
    BY <2>1, OthersNotEntered
<1>5. ASSUME NEW c \in Case, MarkCrashed(c) \/ Pick(c) \/ Ingest(c) \/ Throw(c)
                             \/ FlushThrows(c) \/ ReturnUncertain(c)
      PROVE  [Ledger!Next]_ledger
  <2>1. UNCHANGED <<setup, finished, server, runs, answered>>
    BY <1>5 DEF MarkCrashed, Pick, Ingest, Throw, FlushThrows, ReturnUncertain
  <2> QED
    BY <2>1, OthersNotEntered
<1>6. ASSUME NEW c \in Case, Resolve(c) PROVE [Ledger!Next]_ledger
  BY <1>6, ResolveEnters DEF Ledger!Next
<1>7. CASE ThrowOut \/ Abort \/ Crash
  <2>1. UNCHANGED <<setup, finished, server, runs, answered>>
    BY <1>7 DEF ThrowOut, Abort, Crash
  <2> QED
    BY <2>1, OthersNotEntered
<1> QED
  BY <1>1, <1>2, <1>3, <1>4, <1>5, <1>6, <1>7 DEF Next, Work, Faulty

(* The run implements the ledger: an outcome that was saved is never taken *)
(* again, whatever crashes.                                                *)
THEOREM LedgerKept == Spec => KeepsLedger
<1>1. IInv /\ IInv' /\ [Next]_vars => [Ledger!Next]_ledger
  BY LedgerStep
<1> QED
  BY InitInv, StepInv, LedgerInit, <1>1, PTL DEF Spec, KeepsLedger, Ledger!Spec,
     ledger
=============================================================================
