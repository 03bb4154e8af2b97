-------------------------- MODULE SourceGovernance --------------------------
(***************************************************************************)
(* Approving a quarantined source for retrieval, and restricting it again. *)
(*                                                                         *)
(* One source and its governance record, which every request changes under *)
(* the version it read.  A request leaves an audit intent before it        *)
(* changes anything and completes it at the end.  An approval opens the    *)
(* record, stages a candidate, switches the publication pointer to it and  *)
(* publishes; a restriction leaves a repair intent, writes the deny and    *)
(* registers the cleanup of what was derived.  An audit that could not be  *)
(* completed leaves a marker in the record, and the audit reconciler       *)
(* completes the intents that were left pending and lifts the marker.      *)
(*                                                                         *)
(* Each restriction denies a use of its own; an artifact is named by the   *)
(* approval it was staged for.  The write of a record and the verification *)
(* read after it are one step, which may fail with the record stored; and  *)
(* so is a batch's work on one intent or one manifest (RevocationCleanup   *)
(* has its steps).  How a candidate is staged and committed is             *)
(* StagedPublication.                                                      *)
(***************************************************************************)
EXTENDS Naturals, Sequences

CONSTANTS
    Approvals,    \* requests to approve and publish, each tried once
    Restrictions, \* requests to restrict, each tried once
    NoOp,
    Overlaps,     \* may the audit reconciler meet a request under way?
    MaxFaults     \* bound of failing calls and deaths together

ASSUME ConstantAssumption ==
    /\ Approvals \cap Restrictions = {}
    /\ NoOp \notin Approvals \cup Restrictions
    /\ Overlaps \in BOOLEAN
    /\ MaxFaults \in Nat

VARIABLES
    record,   \* the governance record
    pointer,  \* whose candidate the publication pointer names
    audit,    \* the audit intent of each request
    repair,   \* the repair intent of each restriction
    manifest, \* the cleanup manifest of each restriction
    req,      \* the local state of each request
    effects,  \* history: the requests that took effect, in order
    blind,    \* history: those that another decided for, or whose answer was lost
    faults

vars == <<record, pointer, audit, repair, manifest, req, effects, blind, faults>>
cleanup == <<repair, manifest>>
history == <<effects, blind>>

Requests == Approvals \cup Restrictions
Result == {"success", "refused", "failed"}
Status == {"unreviewed", "approval_pending", "approved", "published", "restricted", "reconciliation_required"}
NoMarker == [op |-> NoOp]

(* sourceGovernanceAuditValue: what an audit says of a record. *)
Value(rec) == [status |-> rec.status, revision |-> rec.revision, approval |-> rec.approval,
               staged |-> rec.staged, active |-> rec.active, restriction |-> rec.restriction]

Initial == [status |-> "unreviewed", revision |-> 1, approval |-> NoOp, staged |-> NoOp, active |-> NoOp,
            restriction |-> {}, intent |-> NoOp, marker |-> NoMarker]

(* ensureInitialRecord *)
Init ==
    /\ record = Initial
    /\ pointer = NoOp
    /\ audit = [q \in Requests |-> [status |-> "none"]]
    /\ repair = [o \in Restrictions |-> [status |-> "none"]]
    /\ manifest = [o \in Restrictions |-> "none"]
    /\ req = [q \in Requests |-> [pc |-> "idle"]]
    /\ effects = <<>>
    /\ blind = {}
    /\ faults = 0

Fault == faults < MaxFaults /\ faults' = faults + 1
Ended(q) == req[q].pc \in {"done", "dead"}
Goto(q, pc) == req' = [req EXCEPT ![q].pc = pc]
End(q, pc) == req' = [req EXCEPT ![q] = [pc |-> pc]]
Fail(q, result, pc) == req' = [req EXCEPT ![q].pc = pc, ![q].result = result]

-----------------------------------------------------------------------------
(* transition: a record is replaced only by who holds its current version, *)
(* and the writer goes on from what it stored.                             *)
Holds(q) == record.revision = req[q].held.revision
Put(rec) == record' = [rec EXCEPT !.revision = @ + 1]
Store(q, rec, pc) ==
    /\ Put(rec)
    /\ req' = [req EXCEPT ![q].pc = pc, ![q].held = record']

(* A request reads the record, must find its last audit settled, and      *)
(* leaves an intent of its own.                                            *)
Settled == record.marker = NoMarker /\ (record.intent # NoOp => audit[record.intent].status = "completed")

Begin(q) ==
    /\ req[q].pc = "idle"
    /\ \/ /\ Settled
          /\ audit' = [audit EXCEPT ![q] = [status |-> "pending", before |-> Value(record)]]
          /\ req' = [req EXCEPT ![q] = [pc |-> "check", held |-> record, result |-> "success"]]
          /\ UNCHANGED faults
       \/ /\ \/ ~Settled /\ UNCHANGED faults
             \/ Fault
          /\ End(q, "done")
          /\ UNCHANGED audit
    /\ UNCHANGED <<record, pointer, cleanup, history>>

(* Mutant: the fence forgets the intents whose deny may still come. *)
FenceIgnoresPrepared == \A o \in Restrictions : repair[o].status \notin {"deny_committed", "cleanup_registered"}
FenceReleased == \A o \in Restrictions : repair[o].status \notin {"prepared", "deny_committed", "cleanup_registered"}

MayApprove(rec) ==
    /\ rec.status \in {"unreviewed", "restricted", "reconciliation_required"}
    /\ rec.restriction # {} => FenceReleased
MayRestrict(rec) == rec.status \in {"published", "restricted"}

(* Any request may be refused: for its input, for the version it expects,  *)
(* for its actor's authority.                                              *)
Check(q) ==
    /\ req[q].pc = "check"
    /\ \/ /\ IF q \in Approvals THEN MayApprove(req[q].held) ELSE MayRestrict(req[q].held)
          /\ Goto(q, IF q \in Approvals THEN "open" ELSE "prepare")
       \/ Fail(q, "refused", "finish")
    /\ UNCHANGED <<record, pointer, audit, cleanup, history, faults>>

(* A write that meets a newer record is a conflict.  One that fails may    *)
(* have stored the record: its answer was lost, or the read that verifies  *)
(* it failed; the writer then goes on from what it held before.            *)
Write(q, rec, next, onFailure) ==
    \/ /\ Holds(q)
       /\ Store(q, rec, next)
       /\ UNCHANGED faults
    \/ /\ ~Holds(q)
       /\ Fail(q, "refused", onFailure)
       /\ UNCHANGED <<record, faults>>
    \/ /\ Fault
       /\ Fail(q, "failed", onFailure)
       /\ UNCHANGED record \/ (Holds(q) /\ Put(rec))

(* A write by which the request takes effect. *)
TakesEffect(q) ==
    /\ effects' = IF record' = record THEN effects ELSE Append(effects, q)
    /\ blind' = IF record' \in {record, req'[q].held} THEN blind ELSE blind \cup {q}

-----------------------------------------------------------------------------
(* An approval lifts every restriction and everything published before.    *)
Opened(rec, a) ==
    [rec EXCEPT !.status = "approval_pending", !.approval = a, !.restriction = {}, !.intent = a,
                !.marker = NoMarker, !.staged = NoOp, !.active = NoOp]

Open(a) ==
    /\ req[a].pc = "open"
    /\ Write(a, Opened(req[a].held, a), "stage", "finish")
    /\ UNCHANGED <<pointer, audit, cleanup, history>>

(* The candidate is staged, found to carry the approval, and recorded. *)
Stage(a) ==
    /\ req[a].pc = "stage"
    /\ Write(a, [req[a].held EXCEPT !.status = "approved", !.staged = a], "commit", "mark")
    /\ UNCHANGED <<pointer, audit, cleanup, history>>

(* The actor may have lost its authority meanwhile.  A commit that fails   *)
(* may have switched the pointer.                                          *)
Commit(a) ==
    /\ req[a].pc = "commit"
    /\ \/ pointer' = a /\ Goto(a, "publish") /\ UNCHANGED faults
       \/ Fail(a, "refused", "mark") /\ UNCHANGED <<pointer, faults>>
       \/ Fault /\ pointer' \in {pointer, a} /\ Fail(a, "failed", "mark")
    /\ UNCHANGED <<record, audit, cleanup, history>>

Publish(a) ==
    /\ req[a].pc = "publish"
    /\ Write(a, [req[a].held EXCEPT !.status = "published", !.active = a], "finish", "mark")
    /\ TakesEffect(a)
    /\ UNCHANGED <<pointer, audit, cleanup>>

-----------------------------------------------------------------------------
(* The deny is named by the record it is to make: its revision, its intent *)
(* and its status.                                                         *)
DenyCurrent(o) == record.status = "restricted" /\ record.intent = o /\ record.revision = repair[o].deny

Transition(o, from, to) == repair' = IF repair[o].status \in from THEN [repair EXCEPT ![o].status = to] ELSE repair

Prepare(o) ==
    /\ req[o].pc = "prepare"
    /\ \/ /\ repair' = [repair EXCEPT ![o] = [status |-> "prepared", deny |-> req[o].held.revision + 1]]
          /\ Goto(o, "deny")
          /\ UNCHANGED faults
       \/ /\ Fault
          /\ Fail(o, "failed", "finish")
          /\ UNCHANGED repair
    /\ UNCHANGED <<record, pointer, audit, manifest, history>>

(* Restrictions add up. *)
(* Mutant: a restriction replaces the ones before it. *)
RestrictedAlone(rec, o) == [rec EXCEPT !.status = "restricted", !.restriction = {o}, !.intent = o, !.marker = NoMarker]
Restricted(rec, o) == [rec EXCEPT !.status = "restricted", !.restriction = @ \cup {o}, !.intent = o, !.marker = NoMarker]

Deny(o) ==
    /\ req[o].pc = "deny"
    /\ Write(o, Restricted(req[o].held, o), "deny_committed", "abandon")
    /\ TakesEffect(o)
    /\ UNCHANGED <<pointer, audit, cleanup>>

Abandon(o) ==
    /\ req[o].pc = "abandon"
    /\ \/ Transition(o, {"prepared", "deny_committed"}, "abandoned") /\ UNCHANGED faults
       \/ Fault /\ UNCHANGED repair
    /\ Goto(o, "finish")
    /\ UNCHANGED <<record, pointer, audit, manifest, history>>

(* Marking the deny is an error once a batch has registered the cleanup. *)
MarkDeny(o) ==
    /\ req[o].pc = "deny_committed"
    /\ \/ /\ repair[o].status # "cleanup_registered"
          /\ Transition(o, {"prepared"}, "deny_committed")
          /\ Goto(o, "register")
          /\ UNCHANGED faults
       \/ /\ repair[o].status = "cleanup_registered"
          /\ Fail(o, "failed", "mark")
          /\ UNCHANGED <<repair, faults>>
       \/ /\ Fault
          /\ Fail(o, "failed", "mark")
          /\ UNCHANGED repair
    /\ UNCHANGED <<record, pointer, audit, manifest, history>>

Register(o) ==
    /\ req[o].pc = "register"
    /\ \/ /\ manifest' = [manifest EXCEPT ![o] = IF @ = "none" THEN "pending" ELSE @]
          /\ Goto(o, "registered")
          /\ UNCHANGED faults
       \/ /\ Fault
          /\ Fail(o, "failed", "mark")
          /\ UNCHANGED manifest
    /\ UNCHANGED <<record, pointer, audit, repair, history>>

MarkRegistered(o) ==
    /\ req[o].pc = "registered"
    /\ \/ Transition(o, {"deny_committed"}, "cleanup_registered") /\ Goto(o, "finish") /\ UNCHANGED faults
       \/ Fault /\ Fail(o, "failed", "mark") /\ UNCHANGED repair
    /\ UNCHANGED <<record, pointer, audit, manifest, history>>

-----------------------------------------------------------------------------
(* markReconciliationRequired, of an approval or a restriction that failed *)
(* half way; that it fails in turn is ignored.                             *)
Mark(q) ==
    /\ req[q].pc = "mark"
    /\ \/ /\ Holds(q)
          /\ Store(q, [req[q].held EXCEPT !.status = "reconciliation_required"], "finish")
          /\ UNCHANGED faults
       \/ /\ \/ ~Holds(q) /\ UNCHANGED <<record, faults>>
             \/ Fault /\ UNCHANGED record
             \/ Fault /\ Holds(q) /\ Put([req[q].held EXCEPT !.status = "reconciliation_required"])
          /\ Goto(q, "finish")
    /\ UNCHANGED <<pointer, audit, cleanup, history>>

(* The audit outbox: a completion is requested first, and a request that   *)
(* is there already must be the same.                                      *)
Requested(q, result, after) ==
    /\ audit[q].status # "pending"
    /\ audit[q].result = result /\ audit[q].after = after
Request(q, result, after) ==
    audit' = [audit EXCEPT ![q] = [status |-> "finalization_pending", before |-> @.before,
                                   result |-> result, after |-> after]]
Complete(q) == audit' = [audit EXCEPT ![q].status = "completed"]

Finish(q) ==
    /\ req[q].pc = "finish"
    /\ LET after == Value(req[q].held) IN
        \/ /\ audit[q].status = "pending"
           /\ Request(q, req[q].result, after)
           /\ Goto(q, "complete")
           /\ UNCHANGED faults
        \/ /\ Requested(q, req[q].result, after)
           /\ Goto(q, "complete")
           /\ UNCHANGED <<audit, faults>>
        \/ /\ \/ audit[q].status # "pending" /\ ~Requested(q, req[q].result, after) /\ UNCHANGED faults
              \/ Fault
           /\ Goto(q, "hold")
           /\ UNCHANGED audit
    /\ UNCHANGED <<record, pointer, cleanup, history>>

FinishCompletion(q) ==
    /\ req[q].pc = "complete"
    /\ \/ Complete(q) /\ End(q, "done") /\ UNCHANGED faults
       \/ Fault /\ Goto(q, "hold") /\ UNCHANGED audit
    /\ UNCHANGED <<record, pointer, cleanup, history>>

(* recordAuditReconciliation: the record is taken out of use and keeps     *)
(* what the audit is to say and what to go back to; a failure is ignored,  *)
(* whether the marker was stored or not.                                   *)
Held(q) ==
    [req[q].held EXCEPT
       !.status = "reconciliation_required", !.intent = q,
       !.marker = [op |-> q, result |-> req[q].result, after |-> Value(req[q].held), resume |-> req[q].held.status]]

Hold(q) ==
    /\ req[q].pc = "hold"
    /\ \/ Holds(q) /\ Put(Held(q)) /\ UNCHANGED faults
       \/ ~Holds(q) /\ UNCHANGED <<record, faults>>
       \/ Fault /\ UNCHANGED record
    /\ End(q, "done")
    /\ UNCHANGED <<pointer, audit, cleanup, history>>

Crash(q) ==
    /\ req[q].pc # "idle" /\ ~Ended(q)
    /\ Fault
    /\ End(q, "dead")
    /\ UNCHANGED <<record, pointer, audit, cleanup, history>>

-----------------------------------------------------------------------------
(* The audit reconciler: what it finds out about an intent that is open.   *)
(* Mutant: an intent in the record counts as its success. *)
PostStateByIntent(q) == record.intent = q
PostState(q) ==
    /\ record.intent = q
    /\ record.status = IF q \in Approvals THEN "published" ELSE "restricted"

Marked(q) == record.marker.op = q
(* Mutant: the revision of the marker's own write is forgotten. *)
MarkerValidAsStored ==
    /\ record.status = "reconciliation_required" /\ record.intent = record.marker.op
    /\ Value([record EXCEPT !.status = record.marker.resume]) = record.marker.after
MarkerValid ==
    /\ record.status = "reconciliation_required" /\ record.intent = record.marker.op
    /\ Value([record EXCEPT !.status = record.marker.resume, !.revision = @ - 1]) = record.marker.after

Resolves(q, result, after) ==
    LET requested == audit[q].status = "finalization_pending" IN
    \/ /\ Marked(q)
       /\ MarkerValid
       /\ result = record.marker.result /\ after = record.marker.after
       /\ requested => Requested(q, result, after)
    \/ /\ ~Marked(q) /\ requested
       /\ Requested(q, result, after)
       /\ after = Value(record)
       /\ record.intent = q \/ audit[q].before = after
       /\ result = "success" => PostState(q)
    \/ /\ ~Marked(q) /\ ~requested
       /\ after = Value(record)
       /\ record.intent = q \/ audit[q].before = after
       /\ result = IF PostState(q) THEN "success" ELSE "failed"

Resolvable(q) == \E result \in Result, after \in {Value(record)} \cup
                    (IF record.marker = NoMarker THEN {} ELSE {record.marker.after}) :
                    Resolves(q, result, after)
Pending(q) ==
    /\ audit[q].status \in {"pending", "finalization_pending"}
    /\ Overlaps \/ Ended(q)

(* The reconciler may meet the intent of a request under way, for which it *)
(* then decides.                                                           *)
Resolve(q) ==
    /\ Pending(q)
    /\ \E result \in Result, after \in {Value(record)} \cup
            (IF record.marker = NoMarker THEN {} ELSE {record.marker.after}) :
          /\ Resolves(q, result, after)
          /\ audit' = [audit EXCEPT ![q] = [status |-> "completed", before |-> @.before,
                                            result |-> result, after |-> after]]
    /\ blind' = IF Ended(q) THEN blind ELSE blind \cup {q}
    /\ UNCHANGED <<record, pointer, cleanup, req, effects, faults>>

(* restoreCompletedMarker: the record goes back to what it was. *)
RestoreMarker ==
    /\ record.marker # NoMarker
    /\ LET q == record.marker.op IN
        /\ audit[q].status = "completed"
        /\ MarkerValid
        /\ Requested(q, record.marker.result, record.marker.after)
    /\ record' = [record EXCEPT !.status = record.marker.resume, !.revision = @ + 1, !.marker = NoMarker]
    /\ UNCHANGED <<pointer, audit, cleanup, req, history, faults>>

(* A batch of the cleanup: it carries the repair intents on whose deny is  *)
(* the record's, and closes those whose deny was committed and is not.     *)
Repair(o) ==
    /\ repair[o].status \in {"prepared", "deny_committed"}
    /\ \/ /\ DenyCurrent(o)
          /\ Transition(o, {"prepared", "deny_committed"}, "cleanup_registered")
          /\ manifest' = [manifest EXCEPT ![o] = IF @ = "none" THEN "pending" ELSE @]
       \/ /\ ~DenyCurrent(o) /\ repair[o].status = "deny_committed"
          /\ Transition(o, {"deny_committed"}, "abandoned")
          /\ UNCHANGED manifest
    /\ UNCHANGED <<record, pointer, audit, req, history, faults>>

Clean(o) ==
    /\ manifest[o] = "pending"
    /\ manifest' = [manifest EXCEPT ![o] = IF DenyCurrent(o) THEN "completed" ELSE "superseded"]
    /\ Transition(o, {"deny_committed", "cleanup_registered"}, "cleanup_completed")
    /\ UNCHANGED <<record, pointer, audit, req, history, faults>>

Reconciler == RestoreMarker \/ \E q \in Requests : Resolve(q)

Next ==
    \/ \E q \in Requests : Begin(q) \/ Check(q) \/ Mark(q) \/ Finish(q) \/ FinishCompletion(q) \/ Hold(q) \/ Crash(q)
    \/ \E a \in Approvals : Open(a) \/ Stage(a) \/ Commit(a) \/ Publish(a)
    \/ \E o \in Restrictions : Prepare(o) \/ Deny(o) \/ Abandon(o) \/ MarkDeny(o) \/ Register(o) \/ MarkRegistered(o)
    \/ \E o \in Restrictions : Repair(o) \/ Clean(o)
    \/ Reconciler

Spec == Init /\ [][Next]_vars
FairSpec == Spec /\ WF_vars(Reconciler)

-----------------------------------------------------------------------------
Revision == Nat \ {0}
ValueSet == [status : Status, revision : Revision, approval : Approvals \cup {NoOp},
             staged : Approvals \cup {NoOp}, active : Approvals \cup {NoOp}, restriction : SUBSET Restrictions]
MarkerSet == {NoMarker} \cup [op : Requests, result : Result, after : ValueSet, resume : Status]
RecordSet == [status : Status, revision : Revision, approval : Approvals \cup {NoOp},
              staged : Approvals \cup {NoOp}, active : Approvals \cup {NoOp}, restriction : SUBSET Restrictions,
              intent : Requests \cup {NoOp}, marker : MarkerSet]
Working == {"check", "open", "stage", "commit", "publish", "prepare", "deny", "abandon",
            "deny_committed", "register", "registered", "mark", "finish", "complete", "hold", "done"}

(* Types; and only the candidate of the record's own approval is active.   *)
TypeOK ==
    /\ record \in RecordSet
    /\ record.active \in {NoOp, record.approval}
    /\ pointer \in Approvals \cup {NoOp}
    /\ \A q \in Requests :
          \/ audit[q] = [status |-> "none"]
          \/ audit[q] \in [status : {"pending"}, before : ValueSet]
          \/ audit[q] \in [status : {"finalization_pending", "completed"}, before : ValueSet,
                           result : Result, after : ValueSet]
    /\ \A o \in Restrictions :
          \/ repair[o] = [status |-> "none"]
          \/ repair[o] \in [status : {"prepared", "deny_committed", "cleanup_registered", "cleanup_completed",
                                      "abandoned"}, deny : Revision]
    /\ manifest \in [Restrictions -> {"none", "pending", "completed", "superseded"}]
    /\ \A q \in Requests :
          \/ req[q] \in [pc : {"idle", "done", "dead"}]
          \/ req[q] \in [pc : Working, held : RecordSet, result : Result]
    /\ blind \subseteq Requests
    /\ faults \in 0..MaxFaults

Happened(q) == \E i \in DOMAIN effects : effects[i] = q

(* What a completed audit says is what happened: a success took effect,    *)
(* whoever recorded it and whatever was lost.  What is recorded as failed  *)
(* did not, unless the audit's own state shows the deny; except for a      *)
(* request whose write landed with its answer lost, and for one that the   *)
(* reconciler met under way.                                               *)
AuditsAreTrue ==
    \A q \in Requests : audit[q].status = "completed" =>
        IF audit[q].result = "success" THEN Happened(q)
        ELSE Happened(q) => q \in audit[q].after.restriction \cup blind

(* The source may be used for u: the record is in use, an artifact of its  *)
(* approval is active, and u is not restricted.                            *)
Serves(u) ==
    /\ record.status \in {"published", "restricted"}
    /\ record.approval # NoOp
    /\ record.approval \in {record.active, pointer}
    /\ u \notin record.restriction

(* A use that was restricted is served again only after an approval that   *)
(* was published later, whatever failed, was restored or came late.        *)
ServedOnceReapproved ==
    \A u \in Restrictions : Serves(u) =>
        \A i \in DOMAIN effects : effects[i] = u =>
            \E j \in DOMAIN effects : j > i /\ effects[j] = record.approval

(* No approval opens the record while a deny that took effect waits for    *)
(* its cleanup: the cleanup would meet what the approval publishes.        *)
NoApprovalUnderCleanup ==
    [][ record'.status = "approval_pending" /\ record.status # "approval_pending" =>
          \A o \in Restrictions : Happened(o) => repair[o].status \in {"cleanup_completed", "abandoned"} ]_vars

(* An intent that no reconciliation can complete, and no marker explains:  *)
(* the tenant's batches fail on it from then on.                           *)
Blocked == \E q \in Requests : Pending(q) /\ ~Marked(q) /\ ~Resolvable(q)

(* A record taken out of use for its audit comes back, unless another      *)
(* intent of the tenant blocks the reconciler, or the reconciler met the   *)
(* request under way and completed its audit otherwise.                    *)
MarkerIsLifted ==
    record.marker # NoMarker ~> (record.marker = NoMarker \/ record.marker.op \in blind \/ Blocked)

(* "A worker can therefore regenerate a missing cleanup manifest after a   *)
(* process crash or a cleanup-ledger outage": the repair intent of the     *)
(* deny in force, the last thing that took effect, is not given up.  It    *)
(* is when the request then failed and changed the version it had denied.  *)
DenyIsFollowedUp ==
    \A o \in Restrictions :
        effects # <<>> /\ effects[Len(effects)] = o /\ o \in record.restriction => repair[o].status # "abandoned"
=============================================================================
