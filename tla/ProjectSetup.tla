----------------------------- MODULE ProjectSetup -----------------------------
(***************************************************************************)
(* `hue setup`, `resume`, `status` and `claim` (setup/runner.ts) over the  *)
(* installation record of a project (setup/installation.ts), its command   *)
(* lock and the setup service (setup/backend.ts), with the one request to  *)
(* the project's own application (setup/application.ts).                   *)
(*                                                                         *)
(* A command runs from one durable write or request to the next; any of    *)
(* them may throw, which ends the command and releases the lock, and the   *)
(* process may be killed, which leaves the lock.  The service and the      *)
(* owner in the browser are external.  `resume` is `setup` over a          *)
(* checkpoint.                                                             *)
(***************************************************************************)
EXTENDS Integers

CONSTANTS
    Command,
    Budget,         \* provisioning requests within an hour (5)
    PerCommand,     \* of one command (2)
    MaxIds,         \* bound: handoffs
    MaxFaults       \* bound: failures, lost answers, kills

ASSUME SetupAssumption ==
    /\ Command \subseteq {"setup", "setup_agent", "status", "claim", "claim_restart"}
    /\ Budget \in Nat \ {0} /\ PerCommand \in Nat \ {0}
    /\ MaxIds \in Nat /\ MaxFaults \in Nat

VARIABLES
    pc, command,
    locked,         \* the command lock's directory exists
    checkpointed,   \* a checkpoint exists
    rec,            \* the installation record on disk
    mem,            \* the record in the command's memory
    seen,           \* the status the command goes by
    refreshed,      \* it was read again after SETUP_CHANGED
    old,            \* the command knows an anonymous key to be refused
    tries,          \* provisioning requests it may still make
    outcome,        \* how the last command ended
    trial,          \* the installation at Hue
    offer,          \* the handoff at Hue
    refused,        \* Hue refuses the anonymous key
    stored,         \* Hue has the application's trace
    aged,           \* recorded attempts older than an hour
    posts,          \* provisioning requests sent within the hour
    requests,       \* requests the application received
    unanswered,     \* handoffs made at Hue of which no answer came
    ids,            \* handoff identifiers in use
    faults

record_vars == <<rec, mem>>
status_vars == <<seen, refreshed, old>>
command_vars == <<pc, command, locked, outcome, status_vars, tries>>
hue_vars == <<trial, offer, refused, stored>>
history == <<aged, posts, requests, unanswered>>
vars == <<command_vars, checkpointed, record_vars, hue_vars, history, ids, faults>>

NoHandoff == [id |-> 0, previous |-> 0, answered |-> FALSE]
NoRecord == [file |-> "absent", key |-> "none", old |-> FALSE, revoked |-> FALSE,
             attempted |-> FALSE, evidence |-> "none", attempts |-> 0, handoff |-> NoHandoff]
NoStatus == [state |-> "none", offer |-> [id |-> 0, state |-> "none"]]

Handoffs == [id : 0..MaxIds, previous : 0..MaxIds, answered : BOOLEAN]
Records == [file : {"absent", "empty", "written"}, key : {"none", "anonymous", "managed"}, old : BOOLEAN,
            revoked : BOOLEAN, attempted : BOOLEAN,
            evidence : {"none", "unverified", "verified"},
            attempts : 0..Budget, handoff : Handoffs]
Offers == [id : 0..MaxIds, state : {"none", "pending", "consumed", "expired"}]
Trials == {"absent", "active", "claimed", "expired"}

TypeOK ==
    /\ pc \in {"idle", "loading", "local", "preflight", "prepare", "provisioning", "posting",
               "status", "credentials", "claimed", "evidence", "exercising", "requested",
               "verifying", "handoff", "restart", "offering", "revoking", "concluding"}
    /\ command \in Command
    /\ locked \in BOOLEAN /\ checkpointed \in BOOLEAN
    /\ rec \in Records /\ mem \in Records
    /\ seen \in [state : Trials \cup {"none"}, offer : Offers]
    /\ refreshed \in BOOLEAN /\ old \in BOOLEAN
    /\ tries \in 0..PerCommand
    /\ outcome \in {"none", "failed", "unchanged", "action_required", "ready"}
    /\ trial \in Trials /\ offer \in Offers
    /\ refused \in BOOLEAN /\ stored \in BOOLEAN
    /\ aged \in 0..Budget /\ posts \in Nat /\ requests \in Nat
    /\ unanswered \subseteq 1..MaxIds
    /\ ids \in 0..MaxIds /\ faults \in 0..MaxFaults

Init ==
    /\ pc = "idle" /\ command \in Command
    /\ locked = FALSE /\ checkpointed = FALSE
    /\ rec = NoRecord /\ mem = NoRecord
    /\ seen = NoStatus /\ refreshed = FALSE /\ old = FALSE /\ tries = 0
    /\ outcome = "none"
    /\ trial = "absent" /\ offer = NoStatus.offer
    /\ refused = FALSE /\ stored = FALSE
    /\ aged = 0 /\ posts = 0 /\ requests = 0 /\ unanswered = {}
    /\ ids = 0 /\ faults = 0

Installs == command \in {"setup", "setup_agent"}
Claims == command \in {"claim", "claim_restart"}
Fault == faults < MaxFaults /\ faults' = faults + 1

(* The command is over: what it had in memory is gone.                     *)
Leave(o, record) ==
    /\ pc' = "idle"
    /\ outcome' = o
    /\ mem' = NoRecord /\ rec' = record
    /\ seen' = NoStatus /\ refreshed' = FALSE /\ old' = FALSE /\ tries' = 0
    /\ UNCHANGED command

(* It ends with its last event and releases the lock.                      *)
EndWith(o, record) == Leave(o, record) /\ locked' = FALSE
End(o) == EndWith(o, rec)

Go(place) ==
    /\ pc' = place
    /\ UNCHANGED <<command, locked, outcome>>

(* A record is replaced on disk before the command goes on.                *)
Save(record) == mem' = record /\ rec' = record

-----------------------------------------------------------------------------
(* Starting a command                                                      *)

Begin ==
    /\ pc = "idle" /\ ~locked
    /\ command' \in Command
    /\ locked' = TRUE
    /\ pc' = "loading"
    /\ outcome' = "none"
    /\ UNCHANGED <<status_vars, tries, checkpointed, record_vars, hue_vars, history, ids, faults>>

(* The checkpoint is read, and written anew when the project is detected.  *)
Load ==
    /\ pc = "loading"
    /\ \/ /\ ~checkpointed /\ Claims
          /\ End("failed") /\ UNCHANGED checkpointed
       \/ /\ ~checkpointed /\ command = "status" /\ rec.file # "written"
          /\ End(IF rec.file = "absent" THEN "unchanged" ELSE "failed")
          /\ UNCHANGED checkpointed
       \/ /\ checkpointed \/ Installs \/ (command = "status" /\ rec.file = "written")
          /\ checkpointed' = TRUE
          /\ Go("local") /\ UNCHANGED <<status_vars, tries, record_vars>>
    /\ UNCHANGED <<hue_vars, history, ids, faults>>

(* Without a record there is nothing to report or to claim; an empty one   *)
(* cannot be read.                                                         *)
Local ==
    /\ pc = "local"
    /\ \/ /\ rec.file = "empty" \/ (rec.file = "absent" /\ ~Installs)
          /\ End(IF rec.file = "absent" /\ command = "status" THEN "unchanged" ELSE "failed")
       \/ /\ rec.file = "written" \/ (rec.file = "absent" /\ Installs)
          /\ mem' = rec
          /\ Go("preflight")
          /\ UNCHANGED <<status_vars, tries, rec>>
    /\ UNCHANGED <<checkpointed, hue_vars, history, ids, faults>>

(* The project is one setup can wire, and Hue admits installations.        *)
Preflight ==
    /\ pc = "preflight"
    /\ Go(IF Installs THEN "prepare" ELSE "status")
    /\ UNCHANGED <<status_vars, tries, checkpointed, record_vars, hue_vars, history, ids, faults>>

(* The command ends before anything of the project is changed.             *)
NotNow ==
    /\ pc = "preflight" /\ Fault
    /\ End("action_required")
    /\ UNCHANGED <<checkpointed, hue_vars, history, ids>>

(* The file of a new record is made, and its identity and proof written,   *)
(* before anything is sent; a record with a key spends no provisioning     *)
(* request.                                                                *)
Create ==
    /\ pc = "prepare" /\ mem.file = "absent"
    /\ Save([mem EXCEPT !.file = "empty"])
    /\ Go("prepare")
    /\ UNCHANGED <<status_vars, tries, checkpointed, hue_vars, history, ids, faults>>

Prepare ==
    /\ pc = "prepare" /\ mem.file # "absent"
    /\ Save([mem EXCEPT !.file = "written"])
    /\ Go(IF mem.key = "none" THEN "provisioning" ELSE "status")
    /\ tries' = PerCommand
    /\ UNCHANGED <<status_vars, checkpointed, hue_vars, history, ids, faults>>

-----------------------------------------------------------------------------
(* Provisioning and status                                                 *)

MayTryTwice == tries > 0 /\ (tries < PerCommand \/ mem.attempts - aged < Budget)
MayTry == tries > 0 /\ mem.attempts - aged < Budget

(* An attempt is counted on disk before it is made.                        *)
RecordAttempt ==
    /\ pc = "provisioning" /\ MayTry
    /\ Save([mem EXCEPT !.attempts = @ - aged + 1])
    /\ aged' = 0
    /\ tries' = tries - 1
    /\ Go("posting")
    /\ UNCHANGED <<status_vars, checkpointed, hue_vars, posts, requests, unanswered, ids, faults>>

RateLimited ==
    /\ pc = "provisioning" /\ ~MayTry
    /\ End("failed")
    /\ UNCHANGED <<checkpointed, hue_vars, history, ids, faults>>

(* What a known status leads to: `status` reports, a claim with a verified *)
(* receipt hands over, and everything else fetches the key.                *)
Terminal(s) == s.state \in {"absent", "expired"}
HandsOver(s) == s.state = "active" /\ Claims /\ mem.evidence = "verified"

(* The key whose refusal is to be seen once the installation is claimed.   *)
OldKeyInUse(s) == old \/ (s.state = "claimed" /\ mem.key = "anonymous")
OldKey(s) == old \/ (s.state = "claimed" /\ (mem.key = "anonymous" \/ mem.old))

Proceed(s) ==
    \/ /\ Terminal(s)
       /\ End("failed")
    \/ /\ s.state = "active" /\ command = "status"
       /\ End("unchanged")
    \/ /\ HandsOver(s)
       /\ seen' = s
       /\ Go(IF command = "claim_restart" THEN "restart" ELSE "handoff")
       /\ UNCHANGED <<refreshed, old, tries, record_vars>>
    \/ /\ s.state = "claimed" \/ (s.state = "active" /\ command # "status" /\ ~HandsOver(s))
       /\ seen' = s /\ old' = OldKey(s)
       /\ Go("credentials")
       /\ UNCHANGED <<refreshed, tries, record_vars>>

(* Hue creates the installation, or has it; its answer may be lost.        *)
Provision ==
    /\ pc = "posting"
    /\ posts' = posts + 1
    /\ trial' = IF trial = "absent" THEN "active" ELSE trial
    /\ \/ Fault /\ Go("provisioning") /\ UNCHANGED <<status_vars, tries, record_vars>>
       \/ Proceed([state |-> trial', offer |-> offer]) /\ UNCHANGED faults
    /\ UNCHANGED <<checkpointed, offer, refused, stored, aged, requests, unanswered, ids>>

Status ==
    /\ pc = "status"
    /\ Proceed([state |-> trial, offer |-> offer])
    /\ UNCHANGED <<checkpointed, hue_vars, history, ids, faults>>

-----------------------------------------------------------------------------
(* The key                                                                 *)

Generation == IF seen.state = "claimed" THEN "managed" ELSE "anonymous"
Current == IF trial = "claimed" THEN "managed" ELSE "anonymous"

(* The superseded key is kept for as long as its refusal was not seen.     *)
WithKeyAndOld(key) == [mem EXCEPT !.key = key, !.old = mem.key = "anonymous" \/ mem.old]
WithKeyForgotten(key) ==
    [mem EXCEPT !.key = key, !.old = key = "managed" /\ mem.key = "anonymous"]
WithKey(key) ==
    [mem EXCEPT !.key = key,
                !.old = key = "managed" /\ (mem.key = "anonymous" \/ mem.old)]

Credentials ==
    /\ pc = "credentials"
    /\ trial \in {"active", "claimed"} /\ Generation = Current
    /\ Save(WithKey(Generation))
    /\ Go(IF Generation = "managed" THEN "claimed" ELSE "evidence")
    /\ UNCHANGED <<status_vars, tries, checkpointed, hue_vars, history, ids, faults>>

(* SETUP_CHANGED: the status is read again, once.                          *)
Changed ==
    /\ pc = "credentials"
    /\ trial = "expired" \/ Generation # Current
    /\ IF refreshed \/ trial = "expired"
       THEN End("failed")
       ELSE /\ seen' = [state |-> trial, offer |-> offer]
            /\ refreshed' = TRUE
            /\ old' = OldKey(seen')
            /\ Go("credentials")
            /\ UNCHANGED <<tries, record_vars>>
    /\ UNCHANGED <<checkpointed, hue_vars, history, ids, faults>>

(* SETUP_REVOKED: the owner revoked the managed key.                       *)
Revoked ==
    /\ pc = "credentials" /\ Fault
    /\ End("action_required")
    /\ UNCHANGED <<checkpointed, hue_vars, history, ids>>

DropHandoff ==
    /\ pc = "claimed"
    /\ Save([mem EXCEPT !.handoff = NoHandoff])
    /\ unanswered' = {}
    /\ Go("evidence")
    /\ UNCHANGED <<status_vars, tries, checkpointed, hue_vars, aged, posts, requests, ids, faults>>

-----------------------------------------------------------------------------
(* The application's evidence                                              *)

(* The request is made once: an attempt is saved before it, and nothing is *)
(* asked of the application after one, nor after a claim.                  *)
MayExerciseAgain == mem.evidence = "none" /\ seen.state = "active"
MayExercise == mem.evidence = "none" /\ seen.state = "active" /\ ~mem.attempted

Evidence ==
    /\ pc = "evidence"
    /\ \/ /\ MayExercise
          /\ Save([mem EXCEPT !.attempted = TRUE])
          /\ Go("exercising") /\ UNCHANGED <<status_vars, tries>>
       \/ /\ mem.evidence = "none" /\ ~MayExercise
          /\ End("action_required")
       \/ /\ mem.evidence # "none"
          /\ Go("verifying") /\ UNCHANGED <<status_vars, tries, record_vars>>
    /\ UNCHANGED <<checkpointed, hue_vars, history, ids, faults>>

(* The application answers, and may get its span stored.                   *)
Request ==
    /\ pc = "exercising"
    /\ requests' = requests + 1
    /\ stored' \in {stored, stored \/ ~refused}
    /\ Go("requested")
    /\ UNCHANGED <<status_vars, tries, record_vars, checkpointed, trial, offer, refused,
                   aged, posts, unanswered, ids, faults>>

(* It hands its evidence over once its span is stored, or never does.      *)
Collect ==
    /\ pc = "requested"
    /\ \/ /\ stored
          /\ Save([mem EXCEPT !.evidence = "unverified"])
          /\ Go("verifying") /\ UNCHANGED <<status_vars, tries>>
       \/ /\ ~stored
          /\ End("failed")
    /\ UNCHANGED <<checkpointed, hue_vars, history, ids, faults>>

(* The receipt is read with the present key; it may not be there yet.      *)
Verify ==
    /\ pc = "verifying"
    /\ \/ /\ mem.key = "anonymous" /\ refused
          /\ End("failed") /\ UNCHANGED faults
       \/ /\ Fault /\ End("action_required")
       \/ /\ ~(mem.key = "anonymous" /\ refused)
          /\ Save([mem EXCEPT !.evidence = "verified"])
          /\ Go(IF seen.state = "claimed" THEN "revoking" ELSE "handoff")
          /\ UNCHANGED <<status_vars, tries, faults>>
    /\ UNCHANGED <<checkpointed, hue_vars, history, ids>>

-----------------------------------------------------------------------------
(* Handing over                                                            *)

(* The request for a handoff is saved before it is sent.                   *)
Ask(handoff) ==
    /\ Save([mem EXCEPT !.handoff = handoff])
    /\ Go("offering")
    /\ UNCHANGED <<status_vars, tries>>

AskNew(previous) ==
    IF ids < MaxIds
    THEN ids' = ids + 1 /\ Ask([id |-> ids', previous |-> previous, answered |-> FALSE])
    ELSE End("failed") /\ UNCHANGED ids

AlwaysAnswered == FALSE
Unanswered == mem.handoff.id # 0 /\ ~mem.handoff.answered
Conflict ==
    /\ seen.offer.id \notin {0, mem.handoff.id}
    /\ ~(Unanswered /\ mem.handoff.previous = seen.offer.id)

(* A consumed handoff is left alone, an unanswered request is repeated as  *)
(* it was, also by `claim --restart`, which alone replaces a handoff.      *)
HandOver ==
    /\ pc \in {"handoff", "restart"}
    /\ \/ /\ pc = "handoff"
          /\ command = "setup_agent" \/ seen.offer.state = "consumed"
          /\ End("action_required") /\ UNCHANGED ids
       \/ /\ pc = "restart" /\ ~Unanswered
          /\ AskNew(seen.offer.id)
       \/ /\ pc = "handoff" => command # "setup_agent" /\ seen.offer.state # "consumed"
          /\ pc = "restart" => Unanswered
          /\ \/ /\ mem.handoff.id # 0 /\ Conflict
                /\ End("failed") /\ UNCHANGED ids
             \/ /\ mem.handoff.id # 0 /\ ~Conflict
                /\ Go("offering") /\ UNCHANGED <<status_vars, tries, record_vars, ids>>
             \/ /\ mem.handoff.id = 0 /\ seen.offer.state = "expired"
                /\ End("action_required") /\ UNCHANGED ids
             \/ /\ mem.handoff.id = 0 /\ seen.offer.state = "pending"
                /\ Ask([id |-> seen.offer.id, previous |-> 0, answered |-> FALSE])
                /\ UNCHANGED ids
             \/ /\ mem.handoff.id = 0 /\ seen.offer.id = 0
                /\ AskNew(0)
    /\ UNCHANGED <<checkpointed, hue_vars, history, faults>>

(* Hue has the handoff, or replaces the one it is said to follow; a lost   *)
(* answer leaves the request unanswered.                                   *)
Offer ==
    /\ pc = "offering"
    /\ LET h == mem.handoff
       IN  \/ /\ trial # "active" \/ offer.id \notin {h.id, h.previous}
              /\ End("failed")
              /\ UNCHANGED <<offer, unanswered, faults>>
           \/ /\ trial = "active" /\ offer.id \in {h.id, h.previous}
              /\ offer' = IF offer.id = h.id THEN offer ELSE [id |-> h.id, state |-> "pending"]
              /\ \/ /\ Fault /\ End("failed")
                    /\ unanswered' = IF h.answered THEN unanswered ELSE unanswered \cup {h.id}
                 \/ /\ EndWith("action_required", [mem EXCEPT !.handoff.answered = TRUE])
                    /\ unanswered' = unanswered \ {h.id}
                    /\ UNCHANGED faults
    /\ UNCHANGED <<checkpointed, trial, refused, stored, aged, posts, requests, ids>>

-----------------------------------------------------------------------------
(* Reconciling a claim                                                     *)

AnyAnswer == TRUE
Confirmed == refused

(* The anonymous key must be refused where the replacement was accepted.   *)
CheckRefusal ==
    /\ pc = "revoking"
    /\ \/ /\ old /\ ~Confirmed
          /\ End("failed")
       \/ /\ old /\ Confirmed
          /\ IF mem.old THEN Save([mem EXCEPT !.old = FALSE, !.revoked = TRUE])
                        ELSE UNCHANGED record_vars
          /\ Go("concluding") /\ UNCHANGED <<status_vars, tries>>
       \/ /\ ~old
          /\ Go("concluding") /\ UNCHANGED <<status_vars, tries, record_vars>>
    /\ UNCHANGED <<checkpointed, hue_vars, history, ids, faults>>

Conclude ==
    /\ pc = "concluding"
    /\ End(IF mem.revoked THEN "ready" ELSE "failed")
    /\ UNCHANGED <<checkpointed, hue_vars, history, ids, faults>>

-----------------------------------------------------------------------------
(* Failures, and what happens outside the command                          *)

(* A file operation, a request or an interrupt ends the command.           *)
Throws ==
    /\ pc # "idle" /\ Fault
    /\ End("failed")
    /\ UNCHANGED <<checkpointed, hue_vars, history, ids>>

(* A killed command leaves its lock, which the owner has to remove.        *)
Kill ==
    /\ pc # "idle" /\ Fault
    /\ Leave("none", rec)
    /\ UNCHANGED <<locked, checkpointed, hue_vars, history, ids>>

RemoveLock ==
    /\ pc = "idle" /\ locked
    /\ locked' = FALSE
    /\ UNCHANGED <<pc, command, outcome, status_vars, tries, checkpointed, record_vars,
                   hue_vars, history, ids, faults>>

HourPasses ==
    /\ pc = "idle" /\ posts > 0
    /\ aged' = rec.attempts /\ posts' = 0
    /\ UNCHANGED <<command_vars, checkpointed, record_vars, hue_vars, requests, unanswered,
                   ids, faults>>

(* The handoff is used or expires, another copy of the project replaces    *)
(* it, the owner claims the installation, or it expires.                   *)
OfferMoves ==
    /\ trial = "active"
    /\ \/ /\ offer.state = "pending"
          /\ offer' \in {[offer EXCEPT !.state = "consumed"], [offer EXCEPT !.state = "expired"]}
          /\ UNCHANGED <<trial, ids>>
       \/ /\ ids < MaxIds /\ ids' = ids + 1
          /\ offer' = [id |-> ids', state |-> "pending"]
          /\ UNCHANGED trial
       \/ /\ trial' \in {"claimed", "expired"}
          /\ UNCHANGED <<offer, ids>>
    /\ UNCHANGED <<command_vars, checkpointed, record_vars, refused, stored, history, faults>>

Refuse ==
    /\ trial = "claimed" /\ ~refused
    /\ refused' = TRUE
    /\ UNCHANGED <<command_vars, checkpointed, record_vars, trial, offer, stored, history,
                   ids, faults>>

Step ==
    \/ Load \/ Local \/ Preflight \/ Create \/ Prepare
    \/ RecordAttempt \/ RateLimited \/ Provision \/ Status
    \/ Credentials \/ Changed \/ DropHandoff
    \/ Evidence \/ Request \/ Collect \/ Verify
    \/ HandOver \/ Offer
    \/ CheckRefusal \/ Conclude

Next ==
    \/ Begin \/ Step
    \/ NotNow \/ Revoked \/ Throws \/ Kill \/ RemoveLock
    \/ HourPasses \/ OfferMoves \/ Refuse

(* A command that runs goes on; the owner removes a lock that was left,    *)
(* runs another command, and Hue refuses the anonymous key in the end.     *)
Spec == Init /\ [][Next]_vars
FairSpec ==
    /\ Spec
    /\ WF_vars(Step) /\ WF_vars(Begin) /\ WF_vars(RemoveLock) /\ WF_vars(Refuse)

-----------------------------------------------------------------------------
(* Properties                                                              *)

(* The application receives at most one request over all commands, however *)
(* they are interrupted and repeated: business work is never replayed      *)
(* (exerciseSetupApplication, runSetup).                                   *)
RequestedOnce == requests <= 1

(* No hour sees more provisioning requests than the budget, also when      *)
(* commands are killed around them or their answers are lost (provision).  *)
PostsBounded == posts <= Budget

(* Every record that was written is one a later command reads: a save that *)
(* its own check refuses would leave setup stuck (parseRecord).            *)
RecordIsValid ==
    /\ rec.file # "written" => rec = [NoRecord EXCEPT !.file = rec.file]
    /\ rec.revoked => rec.key = "managed" /\ ~rec.old
    /\ rec.old => rec.key = "managed"
    /\ rec.evidence # "none" => rec.attempted

(* The anonymous key stays known, through every interruption, until Hue    *)
(* was seen to refuse it (credentials, verifyRevokedCredential).           *)
Knows(record) == record.key = "anonymous" \/ record.old
OldKeyKept == [][Knows(rec) /\ ~Knows(rec') => refused /\ rec'.revoked]_rec

(* "ready" is reported of a claimed installation whose managed key is      *)
(* stored, whose request Hue has and whose anonymous key Hue refuses.      *)
ReadyIsTrue ==
    outcome = "ready" => /\ trial = "claimed" /\ refused /\ stored
                         /\ rec.key = "managed" /\ rec.revoked /\ rec.evidence = "verified"

(* No command replaces a handoff the project asked for and has no answer   *)
(* of: that request is repeated, also by `claim --restart`                 *)
(* (prepareClaimHandoff).                                                  *)
HandoffKept ==
    [][pc' # pc /\ offer'.id # offer.id => offer.id \notin unanswered]_offer

(* Once an installation with a stored request is claimed, commands that    *)
(* are run again and again report it ready, wherever earlier ones ended    *)
(* (runSetup, verifyRevokedCredential).  A managed key that the owner has  *)
(* revoked counts as a fault that passes, as if the owner undid it: the    *)
(* code stops at it and has no step that replaces it.                      *)
Reconciles == trial = "claimed" /\ rec.evidence # "none" ~> outcome = "ready"

(* Nothing is asked twice that may not be: the application its request, and *)
(* Hue more provisioning than an hour allows.                              *)
NothingRepeated == RequestedOnce /\ PostsBounded

(* What is written down is so: the state is well typed, a saved record can *)
(* be read again, and ready is reported of what is ready.                  *)
RecordsAreTrue == TypeOK /\ RecordIsValid /\ ReadyIsTrue

(* No step gives up what only Hue could tell again: the anonymous key      *)
(* before its refusal, a handoff before its answer.                        *)
NothingForgotten == OldKeyKept /\ HandoffKept

=============================================================================
