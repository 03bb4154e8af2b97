---------------------------- MODULE RoleMutation ----------------------------
(***************************************************************************)
(* Replacing a user's application roles.  A request prepares an audit      *)
(* intent, takes the tenant-wide lock, changes the groups of the identity  *)
(* provider one call at a time, hands removed roles to the revocation      *)
(* cleanup, commits the admin ledger and records the outcome.  A request   *)
(* that finds the lock of an expired mutation first recovers it.           *)
(*                                                                         *)
(* The lock's fencing token is a random UUID; a counter stands for it.     *)
(* The operation, the audit intent and the repair record of a request      *)
(* share its identity, and what the lock record says of the mutation       *)
(* (target, expected and desired roles) is fixed by the request.           *)
(***************************************************************************)
EXTENDS Naturals, FiniteSets

CONSTANTS
    Users,
    Roles,
    SystemAdmin,   \* the role that counts as a recovery principal
    Assigners,     \* roles whose permissions hold access:role:assign
    Requests,      \* concurrent POST /admin/users/{id}/roles calls
    NoRequest,
    Actor, Target, \* Requests -> Users
    Desired,       \* Requests -> the requested roles
    InitialRoles,  \* Users -> roles before any request
    StallInCall,   \* may a lease expire between a fence check and the write it guards?
    MaxToken,      \* bound on the leases ever granted
    MaxFaults,     \* bound on failing identity-provider and ledger calls
    MaxLedger,     \* bound on the admin ledger's version
    MaxCalls       \* bound on the requests that are made at all

ASSUME ConstantAssumption ==
    /\ SystemAdmin \in Roles
    /\ Assigners \subseteq Roles
    /\ NoRequest \notin Requests
    /\ Actor \in [Requests -> Users]
    /\ Target \in [Requests -> Users]
    /\ \A r \in Requests : Actor[r] # Target[r]
    /\ Desired \in [Requests -> (SUBSET Roles) \ {{}}]
    /\ InitialRoles \in [Users -> SUBSET Roles]
    /\ StallInCall \in BOOLEAN
    /\ MaxToken \in Nat /\ MaxFaults \in Nat
    /\ MaxLedger \in Nat /\ MaxCalls \in Nat

VARIABLES
    lock,     \* security/application-role-mutation-locks/<tenant>.json
    live,     \* is leaseExpiresAt in the future?
    roles,    \* the identity provider's groups of every user
    audit,    \* the security mutation audit intents
    repair,   \* the revocation cleanup repair intents
    manifests,\* requests whose cleanup manifest is registered
    ledger,   \* the admin ledger: its version and the requests it holds
    faults,   \* failing calls so far
    req       \* the local state of every request

vars == <<lock, live, roles, audit, repair, manifests, ledger, faults, req>>

Phase == {"held", "identity_mutation", "managed_commit", "managed_committed",
          "recovering", "released"}
RecoveryAction == {"none", "rollback_identity", "reconcile_managed", "complete_managed"}

LockRecord == [op     : Requests \cup {NoRequest},
               token  : 0..MaxToken,
               phase  : Phase,
               action : RecoveryAction]

NoLock == [op |-> NoRequest, token |-> 0, phase |-> "released", action |-> "none"]

AuditRecord == [status : {"absent", "pending", "finalization_pending", "completed"},
                result : {"none", "success", "denied", "conflict", "failed"},
                after  : SUBSET Roles]

NoAudit == [status |-> "absent", result |-> "none", after |-> {}]

RepairStatus == {"absent", "prepared", "deny_committed", "cleanup_registered",
                 "cleanup_completed", "abandoned"}
OpenRepair == {"prepared", "deny_committed", "cleanup_registered"}

PcLabel == {"load", "prepare", "acquire", "locked", "guard", "begin",
            "replace", "fence", "write", "deny", "register", "registered",
            "managed", "commit", "committed", "recover", "reconcile", "closing",
            "refused", "rb_read", "rb_restored", "rb_failed",
            "audit", "audit_commit", "release", "done"}

RequestRecord ==
    [pc     : PcLabel,
     mode   : {"mutate", "rollback", "recover"},
     version: 0..MaxLedger,               \* the ledger version loaded at the start
     before : SUBSET Roles,               \* beforeRoles
     lease  : LockRecord,                 \* the lock record as last read back
     unread : BOOLEAN,                    \* a put is done, its read-back is not
     base   : SUBSET Roles,               \* expectedRoles of the running replacement
     goal   : SUBSET Roles,               \* desiredRoles of the running replacement
     left   : SUBSET Roles,               \* groups it has still to remove or to add
     rep    : RepairStatus,               \* cleanupRepair.status as last returned
     due    : [result : {"none", "success", "denied", "conflict", "failed"},
               after  : SUBSET Roles],    \* the completion being recorded
     keep   : BOOLEAN]                    \* the lock is not released afterwards

TypeOK ==
    /\ lock \in LockRecord
    /\ live \in BOOLEAN
    /\ roles \in [Users -> SUBSET Roles]
    /\ audit \in [Requests -> AuditRecord]
    /\ repair \in [Requests -> RepairStatus]
    /\ manifests \subseteq Requests
    /\ ledger \in [version : 0..MaxLedger, saved : SUBSET Requests]
    /\ faults \in 0..MaxFaults
    /\ req \in [Requests -> RequestRecord]

NewRequest == [pc |-> "load", mode |-> "mutate", version |-> 0, before |-> {},
               lease |-> NoLock, unread |-> FALSE, base |-> {}, goal |-> {}, left |-> {},
               rep |-> "absent", due |-> [result |-> "none", after |-> {}], keep |-> FALSE]

Init ==
    /\ lock = NoLock
    /\ live = FALSE
    /\ roles = InitialRoles
    /\ audit = [r \in Requests |-> NoAudit]
    /\ repair = [r \in Requests |-> "absent"]
    /\ manifests = {}
    /\ ledger = [version |-> 0, saved |-> {}]
    /\ faults = 0
    /\ req = [r \in Requests |-> NewRequest]

-----------------------------------------------------------------------------
(* Shared vocabulary of the steps.                                         *)

At(r, label) == req[r].pc = label /\ ~req[r].unread
Goto(r, label) == req' = [req EXCEPT ![r].pc = label]

(* The call returns or throws: only what its lock record says is left.     *)
Finished(r) == [NewRequest EXCEPT !.pc = "done", !.before = req[r].before]
Finish(r) == req' = [req EXCEPT ![r] = Finished(r)]

(* The mutation r works on: its own, or the expired one it recovers.       *)
Op(r) == IF req[r].mode = "recover" THEN req[r].lease.op ELSE r
Subject(r) == Target[Op(r)]

SameLease(r) == lock.op = req[r].lease.op /\ lock.token = req[r].lease.token

(* Mutant: a lease is recognised by the operation alone.                   *)
RenewableByOperation(r) == lock.op = req[r].lease.op /\ lock.phase # "released"

Renewable(r) == SameLease(r) /\ lock.phase # "released"

(* write(): the conditional put, and the read-back that becomes the lease. *)
PutLock(r, rec, next) ==
    /\ lock' = rec
    /\ live' = (rec.phase # "released")
    /\ req' = [req EXCEPT ![r] = [next EXCEPT !.lease = rec, !.unread = TRUE]]

Reread(r) ==
    /\ req[r].unread
    /\ req' = [req EXCEPT ![r].lease = lock, ![r].unread = FALSE]
    /\ UNCHANGED <<lock, live, roles, audit, repair, manifests, ledger, faults>>

(* An exception: a mutation starts its rollback, a rollback has failed, a  *)
(* recovery gives the lock up to a later one.                              *)
Thrown(r) ==
    CASE req[r].mode = "mutate"   -> [req[r] EXCEPT !.mode = "rollback", !.pc = "rb_read"]
      [] req[r].mode = "rollback" -> [req[r] EXCEPT !.pc = "rb_failed"]
      [] req[r].mode = "recover"  -> [req[r] EXCEPT !.pc = "refused"]
Throw(r) == req' = [req EXCEPT ![r] = Thrown(r)]

Completion(r, result, after, keep) ==
    [req[r] EXCEPT !.pc = "audit", !.keep = keep,
                   !.due = [result |-> result, after |-> after]]
Complete(r, result, after, keep) ==
    req' = [req EXCEPT ![r] = Completion(r, result, after, keep)]

TransitionAllowed(current, next) ==
    \/ next = "abandoned" /\ current \in {"prepared", "deny_committed"}
    \/ next = "deny_committed" /\ current = "prepared"
    \/ next = "cleanup_registered" /\ current = "deny_committed"
    \/ next = "cleanup_completed" /\ current \in {"cleanup_registered", "deny_committed"}

Settled(current, next) == current \in {next, "cleanup_completed", "abandoned"}

(* transition() of the repair intent o: what is stored, and returned.      *)
Transitioned(o, next) == IF Settled(repair[o], next) THEN repair[o] ELSE next
Transition(o, next) ==
    /\ Settled(repair[o], next) \/ TransitionAllowed(repair[o], next)
    /\ repair' = [repair EXCEPT ![o] = Transitioned(o, next)]

Removed(r) == req[r].before \ Desired[r]
Added(r) == Desired[r] \ req[r].before

-----------------------------------------------------------------------------
(* The request up to the lock.                                             *)

LoadLedger(r) ==
    /\ At(r, "load")
    /\ Cardinality({q \in Requests : req[q].pc # "load"}) < MaxCalls
    /\ req' = [req EXCEPT ![r].pc = "prepare", ![r].version = ledger.version]
    /\ UNCHANGED <<lock, live, roles, audit, repair, manifests, ledger, faults>>

(* validate() without, and with, the recovery-principal check.             *)
Authorized(r) ==
    /\ roles[Actor[r]] \cap Assigners # {}
    /\ SystemAdmin \in Desired[r] => SystemAdmin \in roles[Actor[r]]

(* Mutant: the target still counts as a recovery principal.                *)
RecoveryPrincipalToday(r) ==
    SystemAdmin \in Removed(r) => \E u \in Users : SystemAdmin \in roles[u]

RecoveryPrincipalRemains(r) ==
    SystemAdmin \in Removed(r) =>
        \E u \in Users \ {Target[r]} : SystemAdmin \in roles[u]

Prepare(r) ==
    /\ At(r, "prepare")
    /\ \/ /\ roles[Target[r]] = {}
          /\ Finish(r)
          /\ UNCHANGED audit
       \/ /\ roles[Target[r]] # {}
          /\ audit' = [audit EXCEPT ![r].status = "pending"]
          /\ LET prepared == [req[r] EXCEPT !.before = roles[Target[r]], !.pc = "acquire"]
                 denied == [prepared EXCEPT !.pc = "audit", !.keep = TRUE,
                                !.due = [result |-> "denied", after |-> roles[Target[r]]]]
             IN req' = [req EXCEPT ![r] = IF Authorized(r) THEN prepared ELSE denied]
    /\ UNCHANGED <<lock, live, roles, repair, manifests, ledger, faults>>

AcquireFree(r) ==
    /\ At(r, "acquire")
    /\ lock.phase = "released" \/ (lock.phase = "held" /\ ~live)
    /\ lock.token < MaxToken
    /\ PutLock(r, [op |-> r, token |-> lock.token + 1, phase |-> "held", action |-> "none"],
               [req[r] EXCEPT !.pc = "locked"])
    /\ UNCHANGED <<roles, audit, repair, manifests, ledger, faults>>

AcquireBusy(r) ==
    /\ At(r, "acquire")
    /\ lock.phase # "released" /\ live
    /\ Complete(r, "conflict", req[r].before, TRUE)
    /\ UNCHANGED <<lock, live, roles, audit, repair, manifests, ledger, faults>>

AcquireStale(r) ==
    /\ At(r, "acquire")
    /\ lock.phase \notin {"released", "held"} /\ ~live
    /\ req' = [req EXCEPT ![r].pc = "recover", ![r].lease = lock]
    /\ UNCHANGED <<lock, live, roles, audit, repair, manifests, ledger, faults>>

-----------------------------------------------------------------------------
(* Under the lock.                                                         *)

CheckLocked(r) ==
    /\ At(r, "locked")
    /\ \/ /\ roles[Target[r]] # req[r].before
          /\ Complete(r, "conflict", req[r].before, FALSE)
       \/ /\ roles[Target[r]] = req[r].before
          /\ ~Authorized(r) \/ ~RecoveryPrincipalRemains(r)
          /\ Complete(r, "denied", req[r].before, FALSE)
       \/ /\ roles[Target[r]] = req[r].before
          /\ Authorized(r) /\ RecoveryPrincipalRemains(r)
          /\ Goto(r, "guard")
    /\ UNCHANGED <<lock, live, roles, audit, repair, manifests, ledger, faults>>

(* Mutant: an addition ignores the cleanup that is still owed.             *)
FenceAlwaysReleased(u) == u \in Users

(* assertResourceFenceReleased: no cleanup of this account is under way.   *)
FenceReleased(u) == \A o \in Requests : Target[o] = u => repair[o] \notin OpenRepair

Guard(r) ==
    /\ At(r, "guard")
    /\ \/ /\ Added(r) # {} /\ ~FenceReleased(Target[r])
          /\ Complete(r, "conflict", req[r].before, FALSE)
          /\ UNCHANGED repair
       \/ /\ Added(r) = {} \/ FenceReleased(Target[r])
          /\ LET status == IF Removed(r) # {} THEN "prepared" ELSE "absent"
             IN /\ repair' = [repair EXCEPT ![r] = status]
                /\ req' = [req EXCEPT ![r].pc = "begin", ![r].rep = status]
    /\ UNCHANGED <<lock, live, roles, audit, manifests, ledger, faults>>

BeginIdentityMutation(r) ==
    /\ At(r, "begin")
    /\ \/ /\ SameLease(r) /\ lock.phase = "held"
          /\ PutLock(r, [lock EXCEPT !.phase = "identity_mutation"],
                     [req[r] EXCEPT !.pc = "replace", !.base = req[r].before,
                                    !.goal = Desired[r]])
       \/ /\ ~(SameLease(r) /\ lock.phase = "held")
          /\ Throw(r)
          /\ UNCHANGED <<lock, live>>
    /\ UNCHANGED <<roles, audit, repair, manifests, ledger, faults>>

-----------------------------------------------------------------------------
(* revokeSessions and replaceApplicationRoles, shared by the mutation, its *)
(* rollback and a recovery.  Every group call is preceded by a renewal.    *)

ReplaceStart(r) ==
    /\ At(r, "replace")
    /\ \/ /\ Renewable(r) /\ roles[Subject(r)] = req[r].base
          /\ PutLock(r, lock, [req[r] EXCEPT !.pc = "fence",
                !.left = (req[r].base \ req[r].goal) \cup (req[r].goal \ req[r].base)])
          /\ UNCHANGED faults
       \/ /\ ~Renewable(r) \/ roles[Subject(r)] # req[r].base
          /\ Throw(r)
          /\ UNCHANGED <<lock, live, faults>>
       \/ /\ faults < MaxFaults                  \* revokeSessions fails
          /\ faults' = faults + 1
          /\ Throw(r)
          /\ UNCHANGED <<lock, live>>
    /\ UNCHANGED <<roles, audit, repair, manifests, ledger>>

AfterReplace(r) ==
    CASE req[r].mode = "mutate" ->
            IF req[r].rep = "absent" THEN "managed" ELSE "deny"
      [] req[r].mode = "rollback" -> "rb_restored"
      [] req[r].mode = "recover" -> "closing"

(* The fence before the next group call, and before the verification.      *)
Fence(r) ==
    /\ At(r, "fence")
    /\ \/ /\ Renewable(r) /\ req[r].left # {}
          /\ PutLock(r, lock, [req[r] EXCEPT !.pc = "write"])
       \/ /\ Renewable(r) /\ req[r].left = {}
          /\ roles[Subject(r)] = req[r].goal
          /\ PutLock(r, lock, [req[r] EXCEPT !.pc = AfterReplace(r),
                                             !.base = {}, !.goal = {}])
       \/ /\ ~Renewable(r) \/ (req[r].left = {} /\ roles[Subject(r)] # req[r].goal)
          /\ Throw(r)
          /\ UNCHANGED <<lock, live>>
    /\ UNCHANGED <<roles, audit, repair, manifests, ledger, faults>>

(* The groups removed first: a partial failure leaves fewer roles.         *)
NextGroups(r) ==
    LET removals == req[r].left \ req[r].goal
    IN IF removals # {} THEN removals ELSE req[r].left

GroupApplied(r, g) ==
    [roles EXCEPT ![Subject(r)] = IF g \in req[r].goal THEN @ \cup {g} ELSE @ \ {g}]

Write(r) ==
    /\ At(r, "write")
    /\ \E g \in NextGroups(r) :
        \/ /\ roles' = GroupApplied(r, g)
           /\ req' = [req EXCEPT ![r].pc = "fence", ![r].left = @ \ {g}]
           /\ UNCHANGED faults
        \/ /\ faults < MaxFaults                 \* the call fails, applied or not
           /\ faults' = faults + 1
           /\ roles' \in {roles, GroupApplied(r, g)}
           /\ Throw(r)
    /\ UNCHANGED <<lock, live, audit, repair, manifests, ledger>>

-----------------------------------------------------------------------------
(* The cleanup hand-over and the managed state.                            *)

MarkDenyCommitted(r) ==
    /\ At(r, "deny")
    /\ Transition(r, "deny_committed")
    /\ req' = [req EXCEPT ![r].pc = "register", ![r].rep = Transitioned(r, "deny_committed")]
    /\ UNCHANGED <<lock, live, roles, audit, manifests, ledger, faults>>

RegisterCleanup(r) ==
    /\ At(r, "register")
    /\ manifests' = manifests \cup {r}
    /\ Goto(r, "registered")
    /\ UNCHANGED <<lock, live, roles, audit, repair, ledger, faults>>

MarkCleanupRegistered(r) ==
    /\ At(r, "registered")
    /\ Transition(r, "cleanup_registered")
    /\ req' = [req EXCEPT ![r].pc = "managed",
                          ![r].rep = Transitioned(r, "cleanup_registered")]
    /\ UNCHANGED <<lock, live, roles, audit, manifests, ledger, faults>>

BeginManagedCommit(r) ==
    /\ At(r, "managed")
    /\ \/ /\ SameLease(r) /\ lock.phase = "identity_mutation"
          /\ PutLock(r, [lock EXCEPT !.phase = "managed_commit"],
                     [req[r] EXCEPT !.pc = "commit"])
       \/ /\ ~(SameLease(r) /\ lock.phase = "identity_mutation")
          /\ Throw(r)
          /\ UNCHANGED <<lock, live>>
    /\ UNCHANGED <<roles, audit, repair, manifests, ledger, faults>>

(* saveAdminLedger puts at the version loaded before the request started.  *)
LedgerSaved(r) == [version |-> ledger.version + 1, saved |-> ledger.saved \cup {r}]

CommitManagedState(r) ==
    /\ At(r, "commit")
    /\ \/ /\ ledger.version = req[r].version /\ ledger.version < MaxLedger
          /\ ledger' = LedgerSaved(r)
          /\ \/ Goto(r, "committed") /\ UNCHANGED faults
             \/ /\ faults < MaxFaults            \* saved, and the call still throws
                /\ faults' = faults + 1
                /\ Finish(r)
       \/ /\ ledger.version # req[r].version     \* concurrent write conflict
          /\ Finish(r)
          /\ UNCHANGED <<ledger, faults>>
    /\ UNCHANGED <<lock, live, roles, audit, repair, manifests>>

MarkManagedCommitted(r) ==
    /\ At(r, "committed")
    /\ \/ /\ SameLease(r) /\ lock.phase = "managed_commit"
          /\ PutLock(r, [lock EXCEPT !.phase = "managed_committed"],
                     Completion(r, "success", Desired[r], FALSE))
       \/ /\ ~(SameLease(r) /\ lock.phase = "managed_commit")
          /\ Finish(r)
          /\ UNCHANGED <<lock, live>>
    /\ UNCHANGED <<roles, audit, repair, manifests, ledger, faults>>

-----------------------------------------------------------------------------
(* Rolling back under the own fence.                                       *)

RollbackRead(r) ==
    /\ At(r, "rb_read")
    /\ LET current == roles[Target[r]]
       IN req' = [req EXCEPT ![r] = [@ EXCEPT
             !.pc = IF current = req[r].before THEN "fence" ELSE "replace",
             !.base = current, !.goal = req[r].before, !.left = {}]]
    /\ UNCHANGED <<lock, live, roles, audit, repair, manifests, ledger, faults>>

RollbackRestored(r) ==
    /\ At(r, "rb_restored")
    /\ LET close == IF req[r].rep = "cleanup_registered" THEN "cleanup_completed"
                                                         ELSE "abandoned"
       IN IF req[r].rep = "absent" THEN UNCHANGED repair ELSE Transition(r, close)
    /\ Complete(r, "failed", roles[Target[r]], FALSE)
    /\ UNCHANGED <<lock, live, roles, audit, manifests, ledger, faults>>

(* Not restored: the outcome is recorded and the lock is left to expire.   *)
RollbackFailed(r) ==
    /\ At(r, "rb_failed")
    /\ Complete(r, "failed", roles[Target[r]], TRUE)
    /\ UNCHANGED <<lock, live, roles, audit, repair, manifests, ledger, faults>>

-----------------------------------------------------------------------------
(* Recovering the expired mutation of another request.                     *)

(* Mutant: a started managed commit counts as done.                        *)
RecoveryCompletesCommit(phase, action) ==
    CASE action # "none" -> action
      [] phase \in {"managed_committed", "managed_commit"} -> "complete_managed"
      [] OTHER -> "rollback_identity"

RecoveryOf(phase, action) ==
    CASE action # "none" -> action
      [] action = "none" /\ phase = "managed_committed" -> "complete_managed"
      [] action = "none" /\ phase = "managed_commit" -> "reconcile_managed"
      [] OTHER -> "rollback_identity"

BeginExpiredRecovery(r) ==
    /\ At(r, "recover")
    /\ \/ /\ SameLease(r) /\ lock.phase \notin {"released", "held"} /\ ~live
          /\ lock.token < MaxToken
          /\ PutLock(r, [lock EXCEPT !.phase = "recovering", !.token = @ + 1,
                                     !.action = RecoveryOf(lock.phase, lock.action)],
                     [req[r] EXCEPT !.pc = "reconcile", !.mode = "recover"])
       \/ /\ ~SameLease(r) \/ lock.phase \in {"released", "held"}
          /\ Goto(r, "refused")
          /\ UNCHANGED <<lock, live>>
       \/ /\ SameLease(r) /\ lock.phase \notin {"released", "held"} /\ live
          /\ Complete(r, "conflict", req[r].before, TRUE)
          /\ UNCHANGED <<lock, live>>
    /\ UNCHANGED <<roles, audit, repair, manifests, ledger, faults>>

Reconcile(r) ==
    /\ At(r, "reconcile")
    /\ LET current == roles[Subject(r)]
           expected == req[Op(r)].before
       IN \/ /\ req[r].lease.action = "reconcile_managed"
             /\ Goto(r, "refused")
          \/ /\ req[r].lease.action = "complete_managed"
             /\ IF current = Desired[Op(r)]
                THEN Complete(r, "success", current, FALSE)
                ELSE Goto(r, "refused")
          \/ /\ req[r].lease.action = "rollback_identity"
             /\ req' = [req EXCEPT ![r] = [@ EXCEPT
                   !.pc = IF current = expected THEN "closing" ELSE "replace",
                   !.base = current, !.goal = expected, !.left = {}]]
    /\ UNCHANGED <<lock, live, roles, audit, repair, manifests, ledger, faults>>

(* closeCleanupRepairAfterRollback, once the expected roles are verified.  *)
CloseRecovery(r) ==
    /\ At(r, "closing")
    /\ LET o == Op(r)
           close == IF repair[o] = "cleanup_registered" THEN "cleanup_completed"
                                                        ELSE "abandoned"
       IN \/ /\ roles[Subject(r)] = req[o].before
             /\ IF repair[o] \in OpenRepair THEN Transition(o, close) ELSE UNCHANGED repair
             /\ Complete(r, "failed", req[o].before, FALSE)
          \/ /\ roles[Subject(r)] # req[o].before
             /\ Goto(r, "refused")
             /\ UNCHANGED repair
    /\ UNCHANGED <<lock, live, roles, audit, manifests, ledger, faults>>

(* acquireWithExpiredRecovery fails, and with it the request.              *)
RecoveryRefused(r) ==
    /\ At(r, "refused")
    /\ req' = [req EXCEPT ![r] = [Completion(r, "failed", req[r].before, TRUE)
                                    EXCEPT !.mode = "mutate"]]
    /\ UNCHANGED <<lock, live, roles, audit, repair, manifests, ledger, faults>>

-----------------------------------------------------------------------------
(* Recording the outcome, in two puts, and releasing the lock.             *)

Requested(o, due) ==
    audit[o].status # "pending" /\ audit[o].result = due.result /\ audit[o].after = due.after

Settle(r) == IF req[r].keep THEN Finish(r) ELSE Goto(r, "release")
Refuse(r) == IF req[r].mode = "recover" THEN Goto(r, "refused") ELSE Finish(r)

AuditRequest(r) ==
    /\ At(r, "audit")
    /\ LET o == Op(r)
           due == req[r].due
       IN \/ /\ audit[o].status = "pending"
             /\ audit' = [audit EXCEPT ![o] = [status |-> "finalization_pending",
                             result |-> due.result, after |-> due.after]]
             /\ Goto(r, "audit_commit")
          \/ /\ Requested(o, due)
             /\ Goto(r, "audit_commit")
             /\ UNCHANGED audit
          \/ /\ audit[o].status # "pending" /\ ~Requested(o, due)
             /\ Refuse(r)
             /\ UNCHANGED audit
    /\ UNCHANGED <<lock, live, roles, repair, manifests, ledger, faults>>

AuditCommit(r) ==
    /\ At(r, "audit_commit")
    /\ audit' = [audit EXCEPT ![Op(r)].status = "completed"]
    /\ Settle(r)
    /\ UNCHANGED <<lock, live, roles, repair, manifests, ledger, faults>>

Release(r) ==
    /\ At(r, "release")
    /\ \/ /\ SameLease(r)
          /\ lock' = [lock EXCEPT !.phase = "released"]
          /\ live' = FALSE
          /\ IF req[r].mode = "recover"
             THEN req' = [req EXCEPT ![r] = [NewRequest EXCEPT !.pc = "acquire",
                             !.version = req[r].version, !.before = req[r].before]]
             ELSE Finish(r)
       \/ /\ ~SameLease(r)
          /\ Refuse(r)
          /\ UNCHANGED <<lock, live>>
    /\ UNCHANGED <<roles, audit, repair, manifests, ledger, faults>>

-----------------------------------------------------------------------------
(* The environment: time passes, other endpoints save the admin ledger.    *)

(* Without StallInCall a lease outlives its put and the call it guards.    *)
Expire ==
    /\ live
    /\ StallInCall \/ \A r \in Requests : 
          (req[r].pc = "write" \/ req[r].unread) => ~SameLease(r)
    /\ live' = FALSE
    /\ UNCHANGED <<lock, roles, audit, repair, manifests, ledger, faults, req>>

OtherLedgerWrite ==
    /\ ledger.version < MaxLedger
    /\ ledger' = [ledger EXCEPT !.version = @ + 1]
    /\ UNCHANGED <<lock, live, roles, audit, repair, manifests, faults, req>>

Step(r) ==
    \/ LoadLedger(r) \/ Prepare(r)
    \/ AcquireFree(r) \/ AcquireBusy(r) \/ AcquireStale(r) \/ Reread(r)
    \/ CheckLocked(r) \/ Guard(r) \/ BeginIdentityMutation(r)
    \/ ReplaceStart(r) \/ Fence(r) \/ Write(r)
    \/ MarkDenyCommitted(r) \/ RegisterCleanup(r) \/ MarkCleanupRegistered(r)
    \/ BeginManagedCommit(r) \/ CommitManagedState(r) \/ MarkManagedCommitted(r)
    \/ RollbackRead(r) \/ RollbackRestored(r) \/ RollbackFailed(r)
    \/ BeginExpiredRecovery(r) \/ Reconcile(r) \/ CloseRecovery(r) \/ RecoveryRefused(r)
    \/ AuditRequest(r) \/ AuditCommit(r) \/ Release(r)

Next == (\E r \in Requests : Step(r)) \/ Expire \/ OtherLedgerWrite

Spec == Init /\ [][Next]_vars

-----------------------------------------------------------------------------
(* Properties.                                                             *)

(* The tenant never loses its last recovery principal, however requests    *)
(* that demote each other's actors interleave with expiries and recoveries *)
(* (validate: "the last administrative recovery principal cannot be        *)
(* removed").                                                              *)
AlwaysARecoveryPrincipal == \E u \in Users : SystemAdmin \in roles[u]

(* A lock that a success or a failure released leaves the provider with    *)
(* exactly the roles the audit outcome of that mutation names: no partial  *)
(* group set and no unrecorded change survives the release.                *)
ReleasedAsRecorded ==
    (lock.phase = "released" /\ lock.op # NoRequest) =>
        LET outcome == audit[lock.op]
        IN /\ outcome.status = "completed"
           /\ outcome.result \in {"success", "failed"} =>
                  roles[Target[lock.op]] = outcome.after

(* A mutation recorded as a success is in the admin ledger, and the roles  *)
(* it removed were handed to the revocation cleanup, even when another     *)
(* request recorded the outcome on its behalf.                             *)
SuccessIsComplete ==
    \A r \in Requests : audit[r].result = "success" =>
        /\ r \in ledger.saved
        /\ Removed(r) # {} => r \in manifests

(* No step grants a mutation's new role to an account whose revocation     *)
(* cleanup is still owed: the repair fence is checked once, under the      *)
(* lock, several calls before the group is added.                          *)
NoGrantUnderCleanup ==
    [][\A r \in Requests :
        (req[r].pc = "write" /\ req[r].mode = "mutate" /\ req'[r] # req[r]) =>
            \A o \in Requests \ {r} :
                (Target[o] = Target[r] /\ repair[o] \in {"deny_committed", "cleanup_registered"}) =>
                    roles'[Target[r]] \subseteq roles[Target[r]]]_vars

(* "Leave the managed-commit fence for deterministic reconciliation": with *)
(* no failing call and no stalled one, a recovery is never refused.  The   *)
(* recovery of a lock in managed_commit is.                                *)
RecoveryConverges == faults = 0 => \A r \in Requests : req[r].pc # "refused"
=============================================================================
