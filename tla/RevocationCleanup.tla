-------------------------- MODULE RevocationCleanup --------------------------
(***************************************************************************)
(* Taking a permission away and cleaning up what was derived from it.      *)
(*                                                                         *)
(* A revoking request leaves a repair intent, writes the authoritative     *)
(* deny and registers a cleanup manifest; a request that gives the         *)
(* permission back must find no open intent (the resource fence).  Batches *)
(* (ProductionRevocationCleanupService.reconcilePending) regenerate the    *)
(* manifests that crashed requests left out and reconcile each manifest:   *)
(* discover, checkpoint, delete target by target, look for residuals.      *)
(*                                                                         *)
(* One resource and one affected principal; the share policy of a folder   *)
(* or a document, written under its version.  The scopes of a manifest are *)
(* merged: a pass has failed when any of its scopes has.  An object        *)
(* version is only compared with what a reader holds, so it is kept as the *)
(* set of actors whose last read is still current.                         *)
(***************************************************************************)
EXTENDS Naturals

CONSTANTS
    Revokes,     \* revoking operations, each tried once
    Grants,      \* requests that give the permission back, each tried once
    Workers,     \* batches that may overlap
    Repeating,   \* the workers that start another batch after one ended
    Artifacts,   \* what is derived from the resource
    Index,       \* the artifact the others are discovered through
    Known,       \* the targets a request names when it registers
    PartialDiscovery, \* may the discovery of one scope fail and of another succeed?
    NoOp, MaxFaults, MaxCrashes

ASSUME ConstantAssumption ==
    /\ Repeating \subseteq Workers
    /\ Index \in Artifacts
    /\ Known \subseteq Artifacts
    /\ PartialDiscovery \in BOOLEAN
    /\ NoOp \notin Revokes
    /\ MaxFaults \in Nat /\ MaxCrashes \in Nat

VARIABLES
    granted,    \* does the policy grant the principal its permission?
    denier,     \* the operation whose deny is in force, else NoOp
    readers,    \* requests whose read of the policy is still current
    repair,     \* repair intent of each operation
    manifest,   \* cleanup manifest of each operation
    holders,    \* workers whose copy of a manifest is still current
    artifacts,  \* what exists
    req,        \* progress of each request
    worker,     \* the local state of each batch
    faults, crashes

policy == <<granted, denier, readers>>
ledger == <<repair, manifest, holders>>
vars == <<granted, denier, readers, repair, manifest, holders, artifacts, req, worker, faults, crashes>>

Open == {"prepared", "deny_committed", "cleanup_registered"}
Closed == {"cleanup_completed", "abandoned"}
Pending == {"cleanup_pending", "reconciliation_required"}
Final == {"completed", "superseded"}

NoManifest == [status |-> "none", targets |-> {}, cleaned |-> {}]
Idle == [pc |-> "idle", op |-> NoOp, queue |-> {}, targets |-> {}, cleaned |-> {},
         tried |-> {}, target |-> Index, failed |-> FALSE]

Init ==
    /\ granted = TRUE /\ denier = NoOp /\ readers = {}
    /\ repair = [o \in Revokes |-> "none"]
    /\ manifest = [o \in Revokes |-> NoManifest]
    /\ holders = [o \in Revokes |-> {}]
    /\ artifacts = Artifacts
    /\ req = [r \in Revokes \cup Grants |-> "idle"]
    /\ worker = [w \in Workers |-> Idle]
    /\ faults = 0 /\ crashes = 0

Fault == faults < MaxFaults /\ faults' = faults + 1
Goto(r, pc) == req' = [req EXCEPT ![r] = pc]
Set(o, status) == repair' = [repair EXCEPT ![o] = status]

-----------------------------------------------------------------------------
(* The repair intent moves forward only.  A transition to where it is, or  *)
(* of a closed intent, is a no-op; any other is refused with an error.     *)
TransitionAllowed(from, to) ==
    \/ to = "abandoned" /\ from \in {"prepared", "deny_committed"}
    \/ to = "deny_committed" /\ from = "prepared"
    \/ to = "cleanup_registered" /\ from = "deny_committed"
    \/ to = "cleanup_completed" /\ from \in {"deny_committed", "cleanup_registered"}

Accepts(o, to) == repair[o] = to \/ repair[o] \in Closed \/ TransitionAllowed(repair[o], to)
Transition(o, to) == Set(o, IF TransitionAllowed(repair[o], to) THEN to ELSE repair[o])

Registered == [status |-> "cleanup_pending", targets |-> Known, cleaned |-> {}]
Register(o) == manifest' = [manifest EXCEPT ![o] = IF @.status = "none" THEN Registered ELSE @]

FenceIgnoresRegistered == \A o \in Revokes : repair[o] \notin {"prepared", "deny_committed"}
FenceReleased == \A o \in Revokes : repair[o] \notin Open

-----------------------------------------------------------------------------
(* A request reads the policy.  There is only a share to revoke where the  *)
(* policy grants one.                                                      *)
Read(r) ==
    /\ req[r] = "idle"
    /\ r \in Revokes => granted
    /\ r \in Grants => ~granted
    /\ readers' = readers \cup {r}
    /\ Goto(r, IF r \in Revokes THEN "prepare" ELSE "fence")
    /\ UNCHANGED <<granted, denier, ledger, artifacts, worker, faults, crashes>>

Prepare(o) ==
    /\ req[o] = "prepare"
    /\ Set(o, "prepared")
    /\ Goto(o, "deny")
    /\ UNCHANGED <<policy, manifest, holders, artifacts, worker, faults, crashes>>

(* The policy takes a write only of a reader that is current.  Whatever    *)
(* goes wrong, the request gives its intent up, also when the write took   *)
(* effect and only its answer was lost.                                    *)
DenyLands(o) == granted' = FALSE /\ denier' = o /\ readers' = {}

Deny(o) ==
    /\ req[o] = "deny"
    /\ \/ o \in readers /\ DenyLands(o) /\ Goto(o, "mark") /\ UNCHANGED faults
       \/ o \in readers /\ Fault /\ (DenyLands(o) \/ UNCHANGED policy) /\ Goto(o, "abandon")
       \/ o \notin readers /\ UNCHANGED <<policy, faults>> /\ Goto(o, "abandon")
    /\ UNCHANGED <<ledger, artifacts, worker, crashes>>

(* Somebody replaces the policy for other principals: this permission      *)
(* survives, what was read of the policy is out of date.                   *)
ReplaceForOthers ==
    /\ readers # {} /\ readers' = {}
    /\ UNCHANGED <<granted, denier, ledger, artifacts, req, worker, faults, crashes>>

(* An intent that cannot be abandoned is left as it is. *)
Abandon(o) ==
    /\ req[o] = "abandon"
    /\ \/ Transition(o, "abandoned") /\ UNCHANGED faults
       \/ Fault /\ UNCHANGED repair
    /\ Goto(o, "failed")
    /\ UNCHANGED <<policy, manifest, holders, artifacts, worker, crashes>>

(* A batch may have carried the intent on meanwhile; then marking the deny *)
(* fails and the request ends there.                                       *)
MarkDeny(o) ==
    /\ req[o] = "mark"
    /\ Transition(o, "deny_committed")
    /\ Goto(o, IF Accepts(o, "deny_committed") THEN "register" ELSE "done")
    /\ UNCHANGED <<policy, manifest, holders, artifacts, worker, faults, crashes>>

RegisterCleanup(o) ==
    /\ req[o] = "register"
    /\ Register(o)
    /\ Goto(o, "registered")
    /\ UNCHANGED <<policy, repair, holders, artifacts, worker, faults, crashes>>

MarkRegistered(o) ==
    /\ req[o] = "registered"
    /\ Transition(o, "cleanup_registered")
    /\ Goto(o, "done")
    /\ UNCHANGED <<policy, manifest, holders, artifacts, worker, faults, crashes>>

CheckFence(g) ==
    /\ req[g] = "fence"
    /\ Goto(g, IF FenceReleased THEN "grant" ELSE "done")
    /\ UNCHANGED <<policy, ledger, artifacts, worker, faults, crashes>>

Grant(g) ==
    /\ req[g] = "grant"
    /\ IF g \in readers
         THEN granted' = TRUE /\ denier' = NoOp /\ readers' = {}
         ELSE UNCHANGED policy
    /\ Goto(g, "done")
    /\ UNCHANGED <<ledger, artifacts, worker, faults, crashes>>

(* Work of a principal that holds the permission leaves artifacts behind.  *)
Produce(a) ==
    /\ granted /\ a \notin artifacts
    /\ a = Index \/ Index \in artifacts
    /\ artifacts' = artifacts \cup {a}
    /\ UNCHANGED <<policy, ledger, req, worker, faults, crashes>>

(* The request dies; for the state here a call that fails in any other     *)
(* step ends it the same way.                                              *)
CrashRequest(r) ==
    /\ req[r] \notin {"idle", "done", "failed"}
    /\ crashes < MaxCrashes /\ crashes' = crashes + 1
    /\ Goto(r, "done")
    /\ UNCHANGED <<policy, ledger, artifacts, worker, faults>>

-----------------------------------------------------------------------------
(* A deny is current while the principal stays denied, whoever wrote the   *)
(* policy since.                                                           *)
DenyCurrent == ~granted

Step(w, rec) == worker' = [worker EXCEPT ![w] = rec]
To(w, pc) == Step(w, [worker[w] EXCEPT !.pc = pc])
End(w) == Step(w, IF w \in Repeating THEN Idle ELSE [Idle EXCEPT !.pc = "done"])

(* A batch first lists the intents that have no manifest for certain. *)
Begin(w) ==
    /\ worker[w].pc = "idle"
    /\ Step(w, [Idle EXCEPT !.pc = "repairs",
                            !.queue = {o \in Revokes : repair[o] \in {"prepared", "deny_committed"}}])
    /\ UNCHANGED <<policy, ledger, artifacts, req, faults, crashes>>

(* Absence of the deny closes an intent only when the deny had been        *)
(* recorded: a prepared one may belong to a request about to write it.     *)
RepairUnlessCurrent(w, o) ==
    /\ worker[w].pc = "repairs" /\ o \in worker[w].queue
    /\ Step(w, [worker[w] EXCEPT !.queue = @ \ {o}])
    /\ IF DenyCurrent THEN UNCHANGED repair ELSE Transition(o, "abandoned")
    /\ UNCHANGED <<policy, manifest, holders, artifacts, req, faults, crashes>>

Repair(w, o) ==
    /\ worker[w].pc = "repairs" /\ o \in worker[w].queue
    /\ LET rest == worker[w].queue \ {o} IN
       \/ Fault /\ Step(w, [worker[w] EXCEPT !.queue = rest]) /\ UNCHANGED repair
       \/ /\ ~DenyCurrent /\ UNCHANGED faults
          /\ Step(w, [worker[w] EXCEPT !.queue = rest])
          /\ IF repair[o] = "prepared" THEN UNCHANGED repair ELSE Transition(o, "abandoned")
       \/ /\ DenyCurrent /\ UNCHANGED faults
          /\ Transition(o, "deny_committed")
          /\ IF Accepts(o, "deny_committed")
               THEN Step(w, [worker[w] EXCEPT !.queue = rest, !.op = o, !.pc = "register"])
               ELSE End(w)
    /\ UNCHANGED <<policy, manifest, holders, artifacts, req, crashes>>

RepairRegister(w) ==
    /\ worker[w].pc = "register"
    /\ Register(worker[w].op)
    /\ To(w, "registered")
    /\ UNCHANGED <<policy, repair, holders, artifacts, req, faults, crashes>>

RepairRegistered(w) ==
    /\ worker[w].pc = "registered"
    /\ Transition(worker[w].op, "cleanup_registered")
    /\ To(w, "repairs")
    /\ UNCHANGED <<policy, manifest, holders, artifacts, req, faults, crashes>>

(* Then it lists the manifests that are not final. *)
List(w) ==
    /\ worker[w].pc = "repairs" /\ worker[w].queue = {}
    /\ Step(w, [Idle EXCEPT !.pc = "manifests",
                            !.queue = {o \in Revokes : manifest[o].status \in Pending}])
    /\ UNCHANGED <<policy, ledger, artifacts, req, faults, crashes>>

EndBatch(w) ==
    /\ worker[w].pc = "manifests" /\ worker[w].queue = {}
    /\ End(w)
    /\ UNCHANGED <<policy, ledger, artifacts, req, faults, crashes>>

(* A manifest another batch made final is reported like one of this batch. *)
Load(w, o) ==
    /\ worker[w].pc = "manifests" /\ o \in worker[w].queue
    /\ holders' = [holders EXCEPT ![o] = @ \cup {w}]
    /\ Step(w, [worker[w] EXCEPT !.op = o, !.queue = @ \ {o}, !.tried = {}, !.failed = FALSE,
                   !.targets = manifest[o].targets, !.cleaned = manifest[o].cleaned,
                   !.pc = IF manifest[o].status \in Final THEN "close" ELSE "discover"])
    /\ UNCHANGED <<policy, repair, manifest, artifacts, req, faults, crashes>>

(* Writes a manifest the worker's copy of which is current; otherwise the  *)
(* conflict ends the whole batch.                                          *)
Persist(w, status, next) ==
    LET o == next.op IN
    IF w \in holders[o]
      THEN /\ manifest' = [manifest EXCEPT ![o] = [status |-> status, targets |-> next.targets,
                                                   cleaned |-> next.cleaned]]
           /\ holders' = [holders EXCEPT ![o] = {w}]
           /\ Step(w, next)
      ELSE End(w) /\ UNCHANGED <<manifest, holders>>

Supersede(w) == Persist(w, "superseded", [worker[w] EXCEPT !.pc = "close"])
GiveUp(w, rec) == Persist(w, "reconciliation_required", [rec EXCEPT !.pc = "manifests"])

(* What the index does not name any more is not discovered; what a failing *)
(* scope would have found is missed in this pass.                          *)
Discoverable == IF Index \in artifacts THEN artifacts ELSE {}
Findings == IF PartialDiscovery THEN SUBSET Discoverable ELSE {{}, Discoverable}

(* Every target found is recorded before the first one is deleted. *)
CheckpointNothing(w) ==
    LET me == worker[w] IN
    /\ me.pc = "discover"
    /\ \E found \in Findings :
         Step(w, [me EXCEPT !.targets = @ \cup found, !.pc = "recheck"])
    /\ UNCHANGED <<policy, ledger, artifacts, req, faults, crashes>>

Discover(w) ==
    LET me == worker[w] IN
    /\ me.pc = "discover"
    /\ \/ ~DenyCurrent /\ Supersede(w) /\ UNCHANGED faults
       \/ Fault /\ GiveUp(w, me)
       \/ /\ DenyCurrent
          /\ \E found \in Findings :
               /\ IF found = Discoverable THEN UNCHANGED faults ELSE Fault
               /\ LET missed == found # Discoverable IN
                  Persist(w, IF missed THEN "reconciliation_required" ELSE "cleanup_pending",
                          [me EXCEPT !.targets = @ \cup found, !.failed = missed, !.pc = "recheck"])
    /\ UNCHANGED <<policy, repair, artifacts, req, crashes>>

(* The deny is checked again before every deletion. *)
Recheck(w) ==
    LET me == worker[w]
        left == me.targets \ (me.cleaned \cup me.tried) IN
    /\ me.pc = "recheck"
    /\ \/ left # {} /\ ~DenyCurrent /\ Supersede(w) /\ UNCHANGED faults
       \/ left # {} /\ Fault /\ GiveUp(w, me)
       \/ /\ DenyCurrent /\ UNCHANGED <<manifest, holders, faults>>
          /\ \E t \in left : Step(w, [me EXCEPT !.pc = "clean", !.target = t, !.tried = @ \cup {t}])
       \/ left = {} /\ To(w, "verify") /\ UNCHANGED <<manifest, holders, faults>>
    /\ UNCHANGED <<policy, repair, artifacts, req, crashes>>

Clean(w) ==
    LET me == worker[w] IN
    /\ me.pc = "clean"
    /\ \/ /\ artifacts' = artifacts \ {me.target} /\ UNCHANGED faults
          /\ Step(w, [me EXCEPT !.pc = "progress", !.cleaned = @ \cup {me.target}])
       \/ Fault /\ UNCHANGED artifacts /\ Step(w, [me EXCEPT !.pc = "progress", !.failed = TRUE])
    /\ UNCHANGED <<policy, ledger, req, crashes>>

Progress(w) ==
    /\ worker[w].pc = "progress"
    /\ Persist(w, "cleanup_pending", [worker[w] EXCEPT !.pc = "recheck"])
    /\ UNCHANGED <<policy, repair, artifacts, req, faults, crashes>>

(* Residuals are looked for among the recorded targets and a fresh         *)
(* discovery; those found are open again.                                  *)
Verify(w) ==
    LET me == worker[w]
        residual == (me.targets \cap artifacts) \cup Discoverable IN
    /\ me.pc = "verify"
    /\ \/ Fault /\ GiveUp(w, me)
       \/ /\ UNCHANGED faults
          /\ IF residual = {} /\ ~me.failed /\ me.targets = me.cleaned
               THEN To(w, "final") /\ UNCHANGED <<manifest, holders>>
               ELSE GiveUp(w, [me EXCEPT !.targets = @ \cup residual, !.cleaned = @ \ residual])
    /\ UNCHANGED <<policy, repair, artifacts, req, crashes>>

FinalCheck(w) ==
    /\ worker[w].pc = "final"
    /\ \/ ~DenyCurrent /\ Supersede(w) /\ UNCHANGED faults
       \/ Fault /\ GiveUp(w, worker[w])
       \/ DenyCurrent /\ To(w, "complete") /\ UNCHANGED <<manifest, holders, faults>>
    /\ UNCHANGED <<policy, repair, artifacts, req, crashes>>

Complete(w) ==
    /\ worker[w].pc = "complete"
    /\ Persist(w, "completed", [worker[w] EXCEPT !.pc = "close"])
    /\ UNCHANGED <<policy, repair, artifacts, req, faults, crashes>>

Close(w) ==
    /\ worker[w].pc = "close"
    /\ Transition(worker[w].op, "cleanup_completed")
    /\ IF Accepts(worker[w].op, "cleanup_completed") THEN To(w, "manifests") ELSE End(w)
    /\ UNCHANGED <<policy, manifest, holders, artifacts, req, faults, crashes>>

CrashWorker(w) ==
    /\ worker[w].pc \notin {"idle", "done"}
    /\ crashes < MaxCrashes /\ crashes' = crashes + 1
    /\ End(w)
    /\ UNCHANGED <<policy, ledger, artifacts, req, faults>>

-----------------------------------------------------------------------------
RevokeStep(o) == Prepare(o) \/ Deny(o) \/ Abandon(o) \/ MarkDeny(o) \/ RegisterCleanup(o) \/ MarkRegistered(o)
GrantStep(g) == CheckFence(g) \/ Grant(g)
WorkerStep(w) ==
    \/ Begin(w) \/ RepairRegister(w) \/ RepairRegistered(w) \/ List(w) \/ EndBatch(w)
    \/ Discover(w) \/ Recheck(w) \/ Clean(w) \/ Progress(w) \/ Verify(w) \/ FinalCheck(w)
    \/ Complete(w) \/ Close(w)
    \/ \E o \in Revokes : Repair(w, o) \/ Load(w, o)

Next ==
    \/ \E r \in Revokes \cup Grants : Read(r) \/ CrashRequest(r)
    \/ ReplaceForOthers
    \/ \E o \in Revokes : RevokeStep(o)
    \/ \E g \in Grants : GrantStep(g)
    \/ \E a \in Artifacts : Produce(a)
    \/ \E w \in Workers : WorkerStep(w) \/ CrashWorker(w)

Spec == Init /\ [][Next]_vars

(* Accepted requests and started batches run on; batches of Repeating are  *)
(* started again and again.                                                *)
Fairness ==
    /\ \A o \in Revokes : WF_vars(RevokeStep(o))
    /\ \A g \in Grants : WF_vars(GrantStep(g))
    /\ \A w \in Workers : WF_vars(WorkerStep(w))

FairSpec == Spec /\ Fairness

-----------------------------------------------------------------------------
ManifestRecord ==
    [status : {"none"} \cup Pending \cup Final, targets : SUBSET Artifacts, cleaned : SUBSET Artifacts]

WorkerRecord ==
    [pc : {"idle", "done", "repairs", "register", "registered", "manifests", "discover", "recheck",
           "clean", "progress", "verify", "final", "complete", "close"},
     op : Revokes \cup {NoOp}, queue : SUBSET Revokes, targets : SUBSET Artifacts,
     cleaned : SUBSET Artifacts, tried : SUBSET Artifacts, target : Artifacts, failed : BOOLEAN]

TypeOK ==
    /\ granted \in BOOLEAN
    /\ denier \in Revokes \cup {NoOp}
    /\ readers \subseteq Revokes \cup Grants
    /\ repair \in [Revokes -> {"none"} \cup Open \cup Closed]
    /\ manifest \in [Revokes -> ManifestRecord]
    /\ holders \in [Revokes -> SUBSET Workers]
    /\ artifacts \subseteq Artifacts
    /\ req \in [Revokes \cup Grants ->
                  {"idle", "prepare", "deny", "abandon", "mark", "register", "registered",
                   "fence", "grant", "done", "failed"}]
    /\ worker \in [Workers -> WorkerRecord]
    /\ faults \in 0..MaxFaults /\ crashes \in 0..MaxCrashes

(* Once the cleanup of the standing deny is reported complete and no other *)
(* cleanup is pending, nothing is left behind, although the deletions      *)
(* destroy what later passes discover by, passes fail half way, batches    *)
(* die and overlap.                                                        *)
CompletedLeavesNothing ==
    \A o \in Revokes :
        /\ denier = o /\ manifest[o].status = "completed"
        /\ \A p \in Revokes : manifest[p].status \notin Pending
        => artifacts = {}

(* The permission is never given back before the intent of the deny in     *)
(* force is closed: the fence is checked before the policy is written, and *)
(* the version of the write covers the time between.                       *)
NoGrantUnderOpenFence == [][~granted /\ granted' => repair[denier] \in Closed]_vars

(* Nothing the standing deny has recorded as a target is there any more    *)
(* once its cleanup is complete, although other batches wrote the manifest *)
(* in between, residuals were found and deletions failed.                  *)
RecordedIsGone ==
    \A o \in Revokes :
        denier = o /\ manifest[o].status = "completed" => manifest[o].targets \cap artifacts = {}

(* A deny that took effect is followed by the removal of everything that   *)
(* was derived under the permission, wherever the request or a batch died; *)
(* except a deny whose answer was lost and whose request gave the intent   *)
(* up before a batch had found it.                                         *)
GivenUp(o) == req[o] = "failed" /\ repair[o] = "abandoned"
DenyIsFollowedUp == \A o \in Revokes : denier = o ~> (artifacts = {} \/ denier # o \/ GivenUp(o))

(* The fence of a recorded deny is there while its cleanup can run, not    *)
(* for ever.  It stays shut when a batch dies between the final manifest   *)
(* and the intent: later batches list neither.                             *)
FenceOpensAgain ==
    \A o \in Revokes : repair[o] \in {"deny_committed", "cleanup_registered"} ~> repair[o] \in Closed
=============================================================================
