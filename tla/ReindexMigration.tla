--------------------------- MODULE ReindexMigration ---------------------------
(***************************************************************************)
(* The driver of a reindex migration: stage, cutover and rollback requests *)
(* of the API keep three durable records in step without a transaction -   *)
(* the publication run with its active pointer (StagedPublication models   *)
(* it step by step; here a commit is one step that may fail half way, and  *)
(* a rollback three, between which others come), the migration ledger, and *)
(* the compensation intents a request leaves when its actor loses          *)
(* authorization after the publication has moved.  A store write of the    *)
(* driver itself that fails ends its request, before or after its effect:  *)
(* that is Die.                                                            *)
(*                                                                         *)
(* One migration: the run id is the migration id.  Ledger entries without  *)
(* a publication run (written by older versions) are not modelled.         *)
(***************************************************************************)
EXTENDS Naturals

CONSTANTS
    Requests,   \* call slots; a slot may call again after it ended
    Kind,       \* Requests -> {"stage", "cutover", "rollback"}
    Trusted,    \* requests whose actor never loses authorization
    Repeated,   \* requests a client repeats for as long as it takes
    MaxFaults,  \* bound on failing coordinator operations and writes
    MaxCrashes  \* bound on API processes that die in a request

Actions == {"cutover", "rollback"}

ASSUME MigrationAssumption ==
    /\ Kind \in [Requests -> {"stage"} \cup Actions]
    /\ Trusted \subseteq Requests
    /\ Repeated \subseteq Requests
    /\ MaxFaults \in Nat /\ MaxCrashes \in Nat

VARIABLES
    run,           \* status of the staged publication run
    activePointer, \* what the active pointer names
    sourceActive,  \* is the source document's manifest still "active"?
    ledger,        \* status of the migration in the ledger
    repair,        \* status of the compensation intent of each action
    revoked,       \* requests whose actor has lost authorization
    faults, crashes,
    req            \* the local state of every request

migrationVars == <<run, activePointer, sourceActive, ledger, repair, revoked, faults, crashes, req>>

(* A run is "rolling_back" with the record of the copy it has prepared and *)
(* "unprepared" without it: that of a new lease, whose holder stopped.     *)
PublicationStatus == {"none", "validated", "committing", "committed",
                      "rolling_back", "unprepared", "rolled_back"}
LedgerStatus == {"absent", "staged", "cutover", "rolled_back"}
RepairStatus == {"absent", "pending", "compensated", "completed"}

(* Of the answers only one is told apart: refused although published. *)
RequestRecord ==
    [pc     : {"idle", "load", "check", "stage", "coordinate", "recheck", "prepare",
               "takeback", "reconcile", "repoint", "finish", "mark", "save", "complete"},
     intent : RepairStatus,      \* the intent as this request read it
     resumes : BOOLEAN,          \* does it finish an intent left by an earlier one?
     write  : LedgerStatus,      \* the status this request is going to save
     result : {"none", "denied_after_publication"}]

Idle == [pc |-> "idle", intent |-> "absent", resumes |-> FALSE, write |-> "absent", result |-> "none"]

MigrationInit ==
    /\ run = "none" /\ activePointer = "source" /\ sourceActive = TRUE
    /\ ledger = "absent"
    /\ repair = [a \in Actions |-> "absent"]
    /\ revoked = {} /\ faults = 0 /\ crashes = 0
    /\ req = [r \in Requests |-> Idle]

Proceed(r, pc) == req' = [req EXCEPT ![r].pc = pc]
End(r, result) == req' = [req EXCEPT ![r] = [Idle EXCEPT !.result = result]]
Authorized(r) == r \notin revoked
CanFail == faults < MaxFaults

publication == <<run, activePointer, sourceActive>>
env == <<revoked, crashes>>

-----------------------------------------------------------------------------
(* A client calls the endpoint of the slot (again). *)
Start(r) ==
    /\ req[r].pc = "idle"
    /\ req' = [req EXCEPT ![r] = [Idle EXCEPT !.pc = IF Kind[r] = "stage" THEN "check" ELSE "load"]]
    /\ UNCHANGED <<publication, ledger, repair, faults, env>>

(* Reads the ledger entry, then the compensation intent of the action. *)
Startable(r) ==
    \/ ledger = (IF Kind[r] = "cutover" THEN "staged" ELSE "cutover")
    \/ ledger = "rolled_back" /\ repair[Kind[r]] # "absent"

Load(r) ==
    /\ req[r].pc = "load"
    /\ IF Startable(r)
         THEN req' = [req EXCEPT ![r].pc = "check", ![r].intent = repair[Kind[r]]]
         ELSE End(r, "none")
    /\ UNCHANGED <<publication, ledger, repair, faults, env>>


AuthorizationManifestActive(r) ==
    \/ Kind[r] = "rollback"
    \/ Kind[r] = "cutover" /\ req[r].intent # "absent"
    \/ sourceActive

ResumeAtLedger(r) == "save"
ResumePoint(r) == IF req[r].intent = "pending" THEN "takeback" ELSE "save"

Check(r) ==
    /\ req[r].pc = "check"
    /\ IF ~(Authorized(r) /\ AuthorizationManifestActive(r)) THEN End(r, "none")
       ELSE IF Kind[r] = "stage" THEN Proceed(r, "stage")
       ELSE IF req[r].intent = "absent" THEN Proceed(r, "coordinate")
       ELSE req' = [req EXCEPT ![r].pc = ResumePoint(r), ![r].resumes = TRUE,
                                ![r].write = "rolled_back"]
    /\ UNCHANGED <<publication, ledger, repair, faults, env>>

(* begin, the isolated build and recordStaged.  A run that is staged       *)
(* already is not built again: its migration is returned when the ledger   *)
(* has it, else recovered from the run as begin read it.                   *)
RecoveredStatus == IF run = "committed" THEN "cutover" ELSE "staged"

Stage(r) ==
    /\ req[r].pc = "stage"
    /\ \/ /\ run \in {"none", "validated", "committed"}
          /\ run' = IF run = "none" THEN "validated" ELSE run
          /\ IF run # "none" /\ ledger # "absent" THEN End(r, "none")
             ELSE req' = [req EXCEPT ![r].pc = "save", ![r].write = RecoveredStatus]
          /\ UNCHANGED faults
       \/ /\ run \notin {"none", "validated", "committed"} \/ CanFail
          /\ End(r, "none")
          /\ faults' = IF run \in {"none", "validated", "committed"} THEN faults + 1 ELSE faults
          /\ UNCHANGED run
    /\ UNCHANGED <<activePointer, sourceActive, ledger, repair, env>>

-----------------------------------------------------------------------------
(* The coordinator's commit: idempotent for a committed run, reconciling   *)
(* for one whose pointer moved.  Superseding the previous artifact is best *)
(* effort.                                                                 *)
CommitOk ==
    /\ \/ run = "validated" /\ activePointer = "source"
       \/ run = "committing"
       \/ run = "committed" /\ activePointer = "staged"
    /\ run' = "committed" /\ activePointer' = "staged"
    /\ \/ sourceActive' = (sourceActive /\ run = "committed") /\ UNCHANGED faults
       \/ sourceActive /\ run # "committed" /\ CanFail /\ UNCHANGED sourceActive /\ faults' = faults + 1

(* It throws for a run in another status and for a committed one that the  *)
(* pointer has left; a fault may strike before or after the pointer moved. *)
CommitThrows ==
    \/ /\ run \notin {"validated", "committing"}
       /\ run = "committed" => activePointer # "staged"
       /\ UNCHANGED <<publication, faults>>
    \/ /\ CanFail /\ faults' = faults + 1
       /\ \/ UNCHANGED <<run, activePointer>>
          \/ /\ run \in {"validated", "committing"}
             /\ run' = "committing" /\ activePointer' \in {activePointer, "staged"}
       /\ UNCHANGED sourceActive

(* The publication operation of a fresh request, and the new status of its *)
(* own copy of the migration.                                              *)
PublicationMoved(r) ==
    req' = [req EXCEPT ![r].pc = "recheck",
                       ![r].write = IF Kind[r] = "cutover" THEN "cutover" ELSE "rolled_back"]

Coordinate(r) ==
    /\ req[r].pc = "coordinate" /\ Kind[r] = "cutover"
    /\ \/ CommitOk /\ PublicationMoved(r)
       \/ CommitThrows /\ End(r, "none")
    /\ UNCHANGED <<ledger, repair, env>>

(* The coordinator's rollback: of a rollback request, or the compensation  *)
(* of either action, all of whose callers share one lease.                 *)
Compensates(r) == Kind[r] = "cutover" \/ req[r].resumes

RollbackReturns(r) == IF Compensates(r) THEN Proceed(r, "mark") ELSE PublicationMoved(r)

RollbackFailureIgnored(r) == IF Compensates(r) THEN Proceed(r, "mark") ELSE End(r, "none")

(* The failure of a compensation is recorded on the intent, which stays    *)
(* pending.                                                                *)
RollbackFails(r) ==
    End(r, IF Compensates(r) /\ ~req[r].resumes THEN "denied_after_publication" ELSE "none")

(* What it finds before it takes its lease.  A run that is rolled back     *)
(* answers at once, one whose pointer is at its prepared copy is           *)
(* reconciled, and one that the pointer has left otherwise is refused.     *)
RollbackLook(r) ==
    /\ req[r].pc = (IF Compensates(r) THEN "takeback" ELSE "coordinate")
    /\ \/ run = "rolled_back" /\ RollbackReturns(r) /\ UNCHANGED faults
       \/ run = "rolling_back" /\ Proceed(r, "reconcile") /\ UNCHANGED faults
       \/ /\ run \in {"committed", "unprepared"} /\ activePointer = "staged"
          /\ Proceed(r, "repoint") /\ UNCHANGED faults
       \/ /\ run \notin {"rolled_back", "rolling_back"}
          /\ run \in {"committed", "unprepared"} => activePointer # "staged"
          /\ RollbackFails(r) /\ UNCHANGED faults
       \/ CanFail /\ faults' = faults + 1 /\ RollbackFails(r)
    /\ UNCHANGED <<publication, ledger, repair, env>>

(* reconcile returns the run as it finds it when another call was faster.  *)
RollbackReconcile(r) ==
    /\ req[r].pc = "reconcile"
    /\ \/ run' = (IF run = "rolling_back" THEN "rolled_back" ELSE run)
          /\ RollbackReturns(r) /\ UNCHANGED faults
       \/ /\ CanFail /\ faults' = faults + 1 /\ RollbackFails(r)
          /\ run' \in {run, IF run = "rolling_back" THEN "rolled_back" ELSE run}
    /\ UNCHANGED <<activePointer, sourceActive, ledger, repair, env>>

(* Lease, prepared copy and the pointer's conditional put.  A call that is *)
(* overtaken by another one's put gives the run up for a retry, as         *)
(* "committed", when it comes with the lease in force or a new one; else   *)
(* it leaves the run alone.  Who has a lease may also stop before the put. *)
RollbackRepoint(r) ==
    /\ req[r].pc = "repoint"
    /\ \/ /\ activePointer = "staged" /\ activePointer' = "restored" /\ run' = "rolling_back"
          /\ Proceed(r, "finish") /\ UNCHANGED faults
       \/ /\ activePointer # "staged" /\ UNCHANGED <<activePointer, faults>>
          /\ run' \in (IF run = "rolled_back" THEN {run} ELSE {run, "committed"})
          /\ RollbackFails(r)
       \/ /\ CanFail /\ faults' = faults + 1 /\ RollbackFails(r)
          /\ \/ /\ run' \in (IF run = "rolled_back" THEN {run} ELSE {run, "unprepared", "committed"})
                /\ UNCHANGED activePointer
             \/ activePointer = "staged" /\ activePointer' = "restored" /\ run' = "rolling_back"
    /\ UNCHANGED <<sourceActive, ledger, repair, env>>

(* The run is closed only under the fence of the lease it was opened with. *)
RollbackFinish(r) ==
    /\ req[r].pc = "finish"
    /\ \/ run = "rolling_back" /\ run' = "rolled_back" /\ RollbackReturns(r) /\ UNCHANGED faults
       \/ run # "rolling_back" /\ UNCHANGED <<run, faults>> /\ RollbackFails(r)
       \/ /\ CanFail /\ faults' = faults + 1 /\ RollbackFails(r)
          /\ run' \in {run, IF run = "rolling_back" THEN "rolled_back" ELSE run}
    /\ UNCHANGED <<activePointer, sourceActive, ledger, repair, env>>

(* The pointer serves the restored generation, but the run, given up by an *)
(* overtaken rollback, does not say so: every later rollback is refused.   *)
Stranded == activePointer = "restored" /\ run \in {"committed", "unprepared"}

(* The actor is authorized once more before the ledger is written. *)
RecheckOnlyRefuses(r) ==
    /\ req[r].pc = "recheck"
    /\ IF Authorized(r) THEN Proceed(r, "save") ELSE End(r, "denied_after_publication")
    /\ UNCHANGED <<publication, ledger, repair, faults, env>>

Recheck(r) ==
    /\ req[r].pc = "recheck"
    /\ Proceed(r, IF Authorized(r) THEN "save" ELSE "prepare")
    /\ UNCHANGED <<publication, ledger, repair, faults, env>>

(* prepare is put-if-absent: an intent that exists, even completed, is     *)
(* returned as it is.                                                      *)
PrepareIntent(r) ==
    /\ req[r].pc = "prepare"
    /\ repair' = [repair EXCEPT ![Kind[r]] = IF @ = "absent" THEN "pending" ELSE @]
    /\ req' = [req EXCEPT ![r].pc = IF Kind[r] = "cutover" THEN "takeback" ELSE "mark",
                          ![r].intent = repair'[Kind[r]]]
    /\ UNCHANGED <<publication, ledger, faults, env>>

(* markCompensated keeps an intent that another request settled first,     *)
(* with the same result: a stranded run may have answered another one.  A  *)
(* resumed compensation goes on to the ledger, a refused request throws.   *)
Mark(r) ==
    /\ req[r].pc = "mark"
    /\ \/ /\ repair' = [repair EXCEPT ![Kind[r]] = IF @ = "pending" THEN "compensated" ELSE @]
          /\ IF req[r].resumes
               THEN req' = [req EXCEPT ![r].pc = "save", ![r].intent = repair'[Kind[r]]]
               ELSE End(r, "denied_after_publication")
       \/ /\ repair[Kind[r]] = "compensated" /\ Stranded
          /\ RollbackFails(r) /\ UNCHANGED repair
    /\ UNCHANGED <<publication, ledger, faults, env>>

(* The migration as this request knows it replaces the ledger's entry; the *)
(* conditional write protects the other migrations of the file.            *)
Save(r) ==
    /\ req[r].pc = "save"
    /\ ledger' = req[r].write
    /\ IF req[r].resumes /\ req[r].intent # "completed" THEN Proceed(r, "complete") ELSE End(r, "none")
    /\ UNCHANGED <<publication, repair, faults, env>>

Complete(r) ==
    /\ req[r].pc = "complete"
    /\ repair' = [repair EXCEPT ![Kind[r]] = "completed"]
    /\ End(r, "none")
    /\ UNCHANGED <<publication, ledger, faults, env>>

TakeBack(r) == RollbackLook(r) \/ RollbackReconcile(r) \/ RollbackRepoint(r) \/ RollbackFinish(r)

Step(r) == \/ Load(r) \/ Check(r) \/ Stage(r) \/ Coordinate(r) \/ TakeBack(r) \/ Recheck(r)
           \/ PrepareIntent(r) \/ Mark(r) \/ Save(r) \/ Complete(r)

(* The process of a request dies; what it stored stays. *)
Die(r) ==
    /\ req[r].pc # "idle" /\ crashes < MaxCrashes
    /\ crashes' = crashes + 1
    /\ End(r, "none")
    /\ UNCHANGED <<publication, ledger, repair, revoked, faults>>

(* An administrator takes an actor's permission away, or gives it back. *)
Revoke(r) ==
    /\ r \notin Trusted
    /\ revoked' = IF r \in revoked THEN revoked \ {r} ELSE revoked \cup {r}
    /\ UNCHANGED <<publication, ledger, repair, faults, crashes, req>>

MigrationNext == \E r \in Requests : Start(r) \/ Step(r) \/ Die(r) \/ Revoke(r)

MigrationSpec == MigrationInit /\ [][MigrationNext]_migrationVars

(* A request that was accepted runs until it ends or its process dies, and *)
(* the clients of Repeated call again when they got no success.            *)
Fairness == /\ \A r \in Requests : WF_migrationVars(Step(r))
            /\ \A r \in Repeated : WF_migrationVars(Start(r))

FairSpec == MigrationSpec /\ Fairness

-----------------------------------------------------------------------------
MigrationTypeOK ==
    /\ run \in PublicationStatus
    /\ activePointer \in {"source", "staged", "restored"}
    /\ sourceActive \in BOOLEAN
    /\ ledger \in LedgerStatus
    /\ repair \in [Actions -> RepairStatus]
    /\ revoked \subseteq Requests \ Trusted
    /\ faults \in 0..MaxFaults /\ crashes \in 0..MaxCrashes
    /\ req \in [Requests -> RequestRecord]

(* The ledger reports a rollback only when the pointer serves the restored *)
(* generation for good: whichever of the rollback, the compensations and   *)
(* the requests resuming them wrote the entry, whoever overtook it in the  *)
(* coordinator, and whatever failed on the way.                            *)
LedgerRollbackIsTrue == ledger = "rolled_back" => activePointer = "restored"

(* An intent is settled only after the publication is taken back: a        *)
(* coordinator failure between the two leaves it pending.                  *)
SettledIntentIsTakenBack ==
    \A a \in Actions : repair[a] \in {"compensated", "completed"} => activePointer = "restored"

(* A request refused after the publication moved has not simply left: its  *)
(* actor's cutover or rollback is on record for an authorized retry.       *)
RefusedRequestIsHandedOver ==
    \A r \in Requests : req[r].result = "denied_after_publication" => repair[Kind[r]] # "absent"


(* A cutover whose publication was committed reaches the ledger when its   *)
(* client repeats the request.  It does not: the committed publication     *)
(* supersedes the source document the repeated request is authorized       *)
(* against.                                                                *)
CommittedCutoverIsRecorded == run = "committed" ~> ledger # "staged"
=============================================================================
