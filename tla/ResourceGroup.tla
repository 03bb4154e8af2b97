--------------------------- MODULE ResourceGroup ---------------------------
(***************************************************************************)
(* Resource groups: who belongs to them, and how a group is taken away.    *)
(*                                                                         *)
(* A group's members are replaced as a whole under the version that was    *)
(* read; members are users and other groups.  Taking members away leaves a *)
(* repair intent first, in the outbox all cleanups share and in a store of *)
(* the groups' own, and registers the cleanup afterwards.  The deletion of *)
(* a group is a stored intent that the repeated request carries on: it     *)
(* clears the members, registers that cleanup, archives the group and      *)
(* registers the other cleanup.  Renames, the scheduled batch and the      *)
(* manager's retry of pending cleanups run in between.                     *)
(*                                                                         *)
(* The version of a membership state is a hash of its content with the     *)
(* time of the replacement, so it is named by the members and the request  *)
(* that wrote them; an empty state has one version, whoever emptied it.    *)
(* One group is deleted, by its creator, who may always manage it; levels  *)
(* of permission are left out.  The reconciliation of a manifest, which    *)
(* RevocationCleanup has, is one step.                                     *)
(*                                                                         *)
(* A write that fails may have taken effect: its answer may be lost, or    *)
(* the read that verifies it may fail.                                     *)
(***************************************************************************)
EXTENDS Naturals, FiniteSets

CONSTANTS
    Groups,
    Users,
    Doomed,       \* the group whose deletion is requested
    Replacements, \* requests to replace the members of some group
    Renames,      \* requests to update the deleted group
    NoOp,
    Emptying,     \* may a replacement leave a group without members?
    MaxFaults     \* bound of failing calls and deaths together

Deletion == "deletion"
Denies == {"memberships", "archive"}    \* the two cleanups of a deletion
Ops == Replacements \cup Denies

(* Every group starts with a member, the user who created it. *)
ASSUME ConstantAssumption ==
    /\ Doomed \in Groups
    /\ Groups \cap Users = {} /\ Users # {}
    /\ NoOp \notin Replacements \cup Renames
    /\ Replacements \cap (Renames \cup Denies) = {}
    /\ Deletion \notin Replacements \cup Renames \cup {NoOp}
    /\ Emptying \in BOOLEAN
    /\ MaxFaults \in Nat

VARIABLES
    group,    \* status and version of each group
    members,  \* the versioned membership state of each group
    intent,   \* the stored intent of the deletion
    repair,   \* the shared repair intent of each cleanup
    local,    \* the groups' own repair intent of each replacement
    manifest, \* the cleanups with a manifest
    audit,    \* what the audit says of each request
    req,      \* the local state of each replacement and rename
    del,      \* where the request that carries the deletion on stands
    landed,   \* history: the denies and replacements that took effect
    unseen,   \* history: those of them whose request gave up their cleanup
    faults

vars == <<group, members, intent, repair, local, manifest, audit, req, del, landed, unseen, faults>>
cleanup == <<repair, local, manifest>>

NoIntent == [status |-> "none"]
Open == {"prepared", "deny_committed", "cleanup_registered"}
Said == {"none", "pending", "success", "untouched", "changed"}
Target(o) == IF o \in Denies THEN Doomed ELSE req[o].group
OpenRepair(x) == {o \in Ops : Target(o) = x /\ repair[o] \in Open}

(* What a request takes away and what it adds. *)
Revoked(o) ==
    CASE o = "memberships" -> intent.members.set
      [] o = "archive" -> {}
      [] OTHER -> req[o].held.set \ req[o].next
Added(o) == req[o].next \ req[o].held.set

State(set, by) == [set |-> set, by |-> IF set = {} THEN NoOp ELSE by]
Principals(x) == Users \cup (Groups \ {x})

Init ==
    /\ group = [x \in Groups |-> [status |-> "active", by |-> NoOp]]
    /\ members = [x \in Groups |-> State(Users, NoOp)]
    /\ intent = NoIntent
    /\ repair = [o \in Ops |-> "none"]
    /\ local = [o \in Replacements |-> "none"]
    /\ manifest = {}
    /\ audit = [q \in Replacements \cup Renames \cup {Deletion} |-> "none"]
    /\ req = [q \in Replacements \cup Renames |-> [pc |-> "idle", group |-> NoOp]]
    /\ del = "idle"
    /\ landed = {}
    /\ unseen = {}
    /\ faults = 0

Fault == faults < MaxFaults /\ faults' = faults + 1
Goto(q, pc) == req' = [req EXCEPT ![q].pc = pc]
Say(q, what) == audit' = [audit EXCEPT ![q] = what]

-----------------------------------------------------------------------------
(* The graph of nested groups. *)
Nested(m, x) == m[x].set \cap Groups
Reach(m, x) ==
    LET Wider(s) == s \cup UNION {Nested(m, y) : y \in s}
        step[n \in 0..Cardinality(Groups)] == IF n = 0 THEN Nested(m, x) ELSE Wider(step[n - 1])
    IN step[Cardinality(Groups)]
InCycle(m, x) == x \in Reach(m, x)

(* validateReachableGraph: no cycle is reached from the target, and every  *)
(* group that is reached is active.                                        *)
Sound(m, x) ==
    LET reached == {x} \cup Reach(m, x) IN
    \A y \in reached : group[y].status = "active" /\ ~InCycle(m, y)

(* findExternalReferences *)
Referenced(x) == \E y \in Groups \ {x} : x \in members[y].set

-----------------------------------------------------------------------------
(* The outbox of repair intents. *)
Allowed(from, to) ==
    CASE to = "abandoned" -> from \in {"prepared", "deny_committed"}
      [] to = "deny_committed" -> from = "prepared"
      [] to = "cleanup_registered" -> from = "deny_committed"
      [] OTHER -> from \in {"cleanup_registered", "deny_committed"}
Stays(o, to) == repair[o] \in {to, "cleanup_completed", "abandoned"}
Transition(o, to) ==
    repair' = [repair EXCEPT ![o] = IF Stays(o, to) THEN @ ELSE to]
TransitionRuns(o, to) == Stays(o, to) \/ Allowed(repair[o], to)

(* The groups' own store: a final intent stays what it is. *)
MarkLocal(o, to) ==
    local' = [local EXCEPT ![o] = IF @ \in {"cleanup_registered", "abandoned"} THEN @ ELSE to]

-----------------------------------------------------------------------------
(* replaceMemberships: read the group and its members, prepare the audit. *)
Begin(o) ==
    /\ req[o].pc = "idle"
    /\ \E x \in Groups : \E next \in SUBSET Principals(x) :
         /\ Emptying \/ next # {}
         /\ next # members[x].set
         /\ req' = [req EXCEPT ![o] = [pc |-> "validate", group |-> x, held |-> members[x], next |-> next]]
    /\ Say(o, "pending")
    /\ UNCHANGED <<group, members, intent, cleanup, del, landed, unseen, faults>>

Refuse(o) == Say(o, "untouched") /\ Goto(o, "done")

(* validateMutation, over the groups and memberships of this moment *)
Validate(o) ==
    /\ req[o].pc = "validate"
    /\ LET x == req[o].group
           proposed == [members EXCEPT ![x] = State(req[o].next, o)]
       IN \/ /\ members[x] = req[o].held
             /\ Sound(proposed, x)
             /\ Goto(o, IF Added(o) # {} THEN "fence" ELSE "prepare")
             /\ UNCHANGED <<audit, faults>>
          \/ /\ \/ (members[x] # req[o].held \/ ~Sound(proposed, x)) /\ UNCHANGED faults
                \/ Fault
             /\ Refuse(o)
    /\ UNCHANGED <<group, members, intent, cleanup, del, landed, unseen>>

(* assertResourceFenceReleased, asked only when somebody is added *)
(* Mutant: an intent that is only prepared does not count. *)
FenceIgnoresPrepared(o) ==
    /\ req[o].pc = "fence"
    /\ IF \A p \in OpenRepair(req[o].group) : repair[p] = "prepared"
       THEN Goto(o, "prepare") /\ UNCHANGED audit
       ELSE Refuse(o)
    /\ UNCHANGED <<group, members, intent, cleanup, del, landed, unseen, faults>>
Fence(o) ==
    /\ req[o].pc = "fence"
    /\ IF OpenRepair(req[o].group) = {}
       THEN Goto(o, "prepare") /\ UNCHANGED audit
       ELSE Refuse(o)
    /\ UNCHANGED <<group, members, intent, cleanup, del, landed, unseen, faults>>

(* Both repair intents; if the second cannot be stored, the first is       *)
(* abandoned, and one stored unanswered stays.                             *)
Prepare(o) ==
    /\ req[o].pc = "prepare"
    /\ \/ /\ Revoked(o) = {}
          /\ Goto(o, "replace")
          /\ UNCHANGED <<repair, local, audit, faults>>
       \/ /\ Revoked(o) # {}
          /\ repair' = [repair EXCEPT ![o] = "prepared"]
          /\ local' = [local EXCEPT ![o] = "prepared"]
          /\ Goto(o, "replace")
          /\ UNCHANGED <<audit, faults>>
       \/ /\ Revoked(o) # {}
          /\ Fault
          /\ \/ /\ repair' \in {repair} \cup {[repair EXCEPT ![o] = s] : s \in {"prepared", "abandoned"}}
                /\ UNCHANGED local
             \/ /\ repair' = [repair EXCEPT ![o] = "abandoned"]
                /\ local' = [local EXCEPT ![o] = "prepared"]
          /\ Refuse(o)
    /\ UNCHANGED <<group, members, intent, manifest, del, landed, unseen>>

(* replaceGroupState under the version that was read; a failing one counts *)
(* as refused, whether or not the members were replaced.                   *)
Land(o) ==
    /\ members[req[o].group] = req[o].held
    /\ members' = [members EXCEPT ![req[o].group] = State(req[o].next, o)]
    /\ landed' = landed \cup {o}

Replace(o) ==
    /\ req[o].pc = "replace"
    /\ \/ /\ Land(o)
          /\ Goto(o, IF Revoked(o) = {} THEN "finish" ELSE "mark_local")
          /\ UNCHANGED <<unseen, audit, faults>>
       \/ /\ \/ members[req[o].group] # req[o].held /\ UNCHANGED <<members, landed, unseen, faults>>
             \/ Fault /\ UNCHANGED <<members, landed, unseen>>
             \/ Fault /\ Land(o) /\ unseen' = unseen \cup {o}
          /\ IF Revoked(o) = {} THEN Refuse(o) ELSE Goto(o, "abandon") /\ UNCHANGED audit
    /\ UNCHANGED <<group, intent, cleanup, del>>

(* A refused replacement abandons both intents; that one of them cannot be *)
(* abandoned is ignored, and the audit may be left open.                   *)
Abandon(o) ==
    LET Shared == IF TransitionRuns(o, "abandoned") THEN Transition(o, "abandoned") ELSE UNCHANGED repair
        Own == MarkLocal(o, "abandoned")
    IN /\ req[o].pc = "abandon"
       /\ \/ Shared /\ Own /\ Refuse(o) /\ UNCHANGED faults
          \/ Fault /\ Shared /\ UNCHANGED local /\ Refuse(o)
          \/ Fault /\ Own /\ UNCHANGED repair /\ Refuse(o)
          \/ Fault /\ Shared /\ Own /\ Goto(o, "done") /\ UNCHANGED audit
       /\ UNCHANGED <<group, members, intent, manifest, del, landed, unseen>>

(* From here on a failure is told with the members as they are now. *)
Changed(o) == Say(o, "changed") /\ Goto(o, "done")

MarkOwnIntent(o) ==
    /\ req[o].pc = "mark_local"
    /\ \/ MarkLocal(o, "deny_committed") /\ Goto(o, "mark") /\ UNCHANGED <<audit, faults>>
       \/ Fault /\ Changed(o) /\ (UNCHANGED local \/ MarkLocal(o, "deny_committed"))
    /\ UNCHANGED <<group, members, intent, repair, manifest, del, landed, unseen>>

MarkDenyCommitted(o) ==
    /\ req[o].pc = "mark"
    /\ \/ /\ TransitionRuns(o, "deny_committed")
          /\ Transition(o, "deny_committed")
          /\ Goto(o, "register")
          /\ UNCHANGED <<audit, faults>>
       \/ /\ \/ ~TransitionRuns(o, "deny_committed") /\ UNCHANGED <<repair, faults>>
             \/ Fault /\ UNCHANGED repair
             \/ Fault /\ TransitionRuns(o, "deny_committed") /\ Transition(o, "deny_committed")
          /\ Changed(o)
    /\ UNCHANGED <<group, members, intent, local, manifest, del, landed, unseen>>

Register(o) ==
    /\ req[o].pc = "register"
    /\ \/ manifest' = manifest \cup {o} /\ Goto(o, "mark_registered") /\ UNCHANGED <<audit, faults>>
       \/ Fault /\ Changed(o) /\ manifest' \in {manifest, manifest \cup {o}}
    /\ UNCHANGED <<group, members, intent, repair, local, del, landed, unseen>>

(* The own intent may fail to be marked unnoticed; a failure of the shared *)
(* one escapes and leaves the audit open.                                  *)
MarkRegistered(o) ==
    /\ req[o].pc = "mark_registered"
    /\ \/ /\ MarkLocal(o, "cleanup_registered") /\ UNCHANGED faults
          /\ IF TransitionRuns(o, "cleanup_registered")
             THEN Transition(o, "cleanup_registered") /\ Goto(o, "finish")
             ELSE Goto(o, "done") /\ UNCHANGED repair
       \/ /\ Fault
          /\ \/ Transition(o, "cleanup_registered") /\ Goto(o, "finish") /\ UNCHANGED local
             \/ MarkLocal(o, "cleanup_registered") /\ Goto(o, "done") /\ UNCHANGED repair
             \/ MarkLocal(o, "cleanup_registered") /\ Goto(o, "done") /\ Transition(o, "cleanup_registered")
    /\ UNCHANGED <<group, members, intent, manifest, audit, del, landed, unseen>>

Finish(o) ==
    /\ req[o].pc = "finish"
    /\ \/ Say(o, "success") /\ UNCHANGED faults
       \/ Fault /\ UNCHANGED audit
    /\ Goto(o, "done")
    /\ UNCHANGED <<group, members, intent, cleanup, del, landed, unseen>>

-----------------------------------------------------------------------------
(* update: the group is renamed under the version that was read; like a    *)
(* replacement, one that fails is told as refused.                         *)
BeginRename(u) ==
    /\ req[u].pc = "idle"
    /\ group[Doomed].status = "active"
    /\ req' = [req EXCEPT ![u] = [pc |-> "fence", group |-> Doomed, version |-> group[Doomed].by]]
    /\ Say(u, "pending")
    /\ UNCHANGED <<group, members, intent, cleanup, del, landed, unseen, faults>>

RenameFence(u) ==
    /\ req[u].pc = "fence"
    /\ IF OpenRepair(Doomed) = {} THEN Goto(u, "replace") /\ UNCHANGED audit ELSE Refuse(u)
    /\ UNCHANGED <<group, members, intent, cleanup, del, landed, unseen, faults>>

Rename(u) ==
    LET Stored == group[Doomed].by = req[u].version /\ group' = [group EXCEPT ![Doomed] = [status |-> "active", by |-> u]] IN
    /\ req[u].pc = "replace"
    /\ \/ Stored /\ Goto(u, "finish") /\ UNCHANGED <<audit, faults>>
       \/ /\ \/ group[Doomed].by # req[u].version /\ UNCHANGED <<group, faults>>
             \/ Fault /\ (Stored \/ UNCHANGED group)
          /\ Refuse(u)
    /\ UNCHANGED <<members, intent, cleanup, del, landed, unseen>>

-----------------------------------------------------------------------------
(* delete: the group and its members are read, and the intent is stored. *)
Unchanged(x) == group[x] = intent.group
Archived == [status |-> "archived", by |-> Deletion]

DeleteRead ==
    /\ del = "idle" /\ intent = NoIntent
    /\ group[Doomed].status = "active"
    /\ Say(Deletion, "pending")
    /\ intent' = [status |-> "reading", group |-> group[Doomed], members |-> members[Doomed]]
    /\ del' = "store"
    /\ UNCHANGED <<group, members, cleanup, req, landed, unseen, faults>>

DeleteStore ==
    /\ del = "store"
    /\ \/ intent' = [intent EXCEPT !.status = "prepared"] /\ del' = "prepared" /\ UNCHANGED faults
       \/ Fault /\ intent' \in {NoIntent, [intent EXCEPT !.status = "prepared"]} /\ del' = "idle"
    /\ UNCHANGED <<group, members, cleanup, audit, req, landed, unseen>>

(* The request repeated: it carries on where the stored intent stands. *)
DeleteAgain ==
    /\ del = "idle" /\ intent.status \notin {"none", "completed", "failed"}
    /\ del' = intent.status
    /\ UNCHANGED <<group, members, intent, cleanup, audit, req, landed, unseen, faults>>

(* advanceIntent: a request whose write landed unanswered still holds the  *)
(* version before it.                                                      *)
Advance(status) ==
    \/ intent' = [intent EXCEPT !.status = status] /\ del' = status /\ UNCHANGED faults
    \/ Fault /\ del' = "undo" /\ UNCHANGED intent
    \/ Fault /\ del' = "undo_stale" /\ intent' = [intent EXCEPT !.status = status]

DeleteAuthorize ==
    /\ del = "prepared"
    /\ \/ Unchanged(Doomed) /\ ~Referenced(Doomed) /\ Advance("authorized")
       \/ ~(Unchanged(Doomed) /\ ~Referenced(Doomed)) /\ del' = "undo" /\ UNCHANGED <<intent, faults>>
    /\ UNCHANGED <<group, members, cleanup, audit, req, landed, unseen>>

(* prepareDeleteCleanupRepairs: what is stored already stays as it is. *)
DeletePrepare ==
    LET wanted == IF intent.members.set = {} THEN {"archive"} ELSE Denies
        Stored(set) == [o \in Ops |-> IF o \in set /\ repair[o] = "none" THEN "prepared" ELSE repair[o]]
    IN /\ del = "authorized"
       /\ \/ repair' = Stored(wanted) /\ del' = "clear" /\ UNCHANGED faults
          \/ Fault /\ repair' \in {repair, Stored(wanted \ {"archive"}), Stored(wanted)} /\ del' = "undo"
       /\ UNCHANGED <<group, members, intent, local, manifest, audit, req, landed, unseen>>

Deny(d) ==
    /\ landed' = landed \cup {d}
    /\ unseen' = IF repair[d] = "abandoned" THEN unseen \cup {d} ELSE unseen

(* The members are cleared; the write may take effect and still fail. *)
DeleteClear ==
    /\ del = "clear"
    /\ \/ /\ members[Doomed].set = {}
          /\ del' = "cleared"
          /\ UNCHANGED <<members, landed, unseen, faults>>
       \/ /\ members[Doomed] = intent.members /\ members[Doomed].set # {}
          /\ members' = [members EXCEPT ![Doomed] = State({}, NoOp)]
          /\ Deny("memberships")
          /\ \/ del' = "cleared" /\ UNCHANGED faults
             \/ Fault /\ del' = "undo"
       \/ /\ \/ members[Doomed] # intent.members /\ members[Doomed].set # {} /\ UNCHANGED faults
             \/ Fault
          /\ del' = "undo"
          /\ UNCHANGED <<members, landed, unseen>>
    /\ UNCHANGED <<group, intent, cleanup, audit, req>>

DeleteCleared ==
    /\ del = "cleared"
    /\ Advance("memberships_cleared")
    /\ UNCHANGED <<group, members, cleanup, audit, req, landed, unseen>>

(* registerCommonCleanup *)
(* Mutant: an intent the batch has moved on is not passed over. *)
RegistersOnce(o) ==
    /\ repair[o] \in {"none", "prepared", "deny_committed"}
    /\ repair' = [repair EXCEPT ![o] = "cleanup_registered"]
    /\ manifest' = manifest \cup {o}
Registers(o) ==
    /\ repair[o] # "abandoned"
    /\ IF repair[o] \in {"none", "prepared", "deny_committed"}
       THEN /\ repair' = [repair EXCEPT ![o] = "cleanup_registered"]
            /\ manifest' = manifest \cup {o}
       ELSE UNCHANGED <<repair, manifest>>
(* ... and how far it may come before a call fails *)
RegistersPartly(o) ==
    /\ repair[o] \in {"none", "prepared", "deny_committed"}
    /\ \/ repair' \in {repair, [repair EXCEPT ![o] = "deny_committed"]} /\ UNCHANGED manifest
       \/ /\ repair' \in {[repair EXCEPT ![o] = s] : s \in {"deny_committed", "cleanup_registered"}}
          /\ manifest' = manifest \cup {o}

DeleteRegister ==
    /\ del = "memberships_cleared"
    /\ \/ /\ intent.members.set = {}
          /\ del' = "references"
          /\ UNCHANGED <<repair, manifest, faults>>
       \/ /\ intent.members.set # {}
          /\ \/ Registers("memberships") /\ del' = "references" /\ UNCHANGED faults
             \/ repair["memberships"] = "abandoned" /\ del' = "undo" /\ UNCHANGED <<repair, manifest, faults>>
             \/ RegistersPartly("memberships") /\ Fault /\ del' = "undo"
    /\ UNCHANGED <<group, members, intent, local, audit, req, landed, unseen>>

DeleteReferences ==
    /\ del = "references"
    /\ \/ ~Referenced(Doomed) /\ del' = "archive" /\ UNCHANGED faults
       \/ Referenced(Doomed) /\ del' = "undo" /\ UNCHANGED faults
       \/ Fault /\ del' = "undo"
    /\ UNCHANGED <<group, members, intent, cleanup, audit, req, landed, unseen>>

(* The group is archived under the version the deletion started from. *)
DeleteArchive ==
    /\ del = "archive"
    /\ \/ /\ Unchanged(Doomed)
          /\ group' = [group EXCEPT ![Doomed] = Archived]
          /\ Deny("archive")
          /\ \/ del' = "archived" /\ UNCHANGED faults
             \/ Fault /\ del' = "undo"
       \/ /\ group[Doomed] = Archived
          /\ del' = "archived"
          /\ UNCHANGED <<group, landed, unseen, faults>>
       \/ /\ \/ ~Unchanged(Doomed) /\ group[Doomed] # Archived /\ UNCHANGED faults
             \/ Fault
          /\ del' = "undo"
          /\ UNCHANGED <<group, landed, unseen>>
    /\ UNCHANGED <<members, intent, cleanup, audit, req>>

DeleteArchived ==
    /\ del = "archived"
    /\ Advance("group_archived")
    /\ UNCHANGED <<group, members, cleanup, audit, req, landed, unseen>>

(* What follows the archiving is no longer caught. *)
DeleteRegisterArchive ==
    /\ del = "group_archived"
    /\ \/ Registers("archive") /\ del' = "finish" /\ UNCHANGED faults
       \/ repair["archive"] = "abandoned" /\ del' = "idle" /\ UNCHANGED <<repair, manifest, faults>>
       \/ RegistersPartly("archive") /\ Fault /\ del' = "idle"
    /\ UNCHANGED <<group, members, intent, local, audit, req, landed, unseen>>

(* The audit is completed; what it says already it does not take back. *)
DeleteAudit ==
    /\ del = "finish"
    /\ \/ audit[Deletion] \in {"pending", "success"} /\ Say(Deletion, "success") /\ del' = "complete" /\ UNCHANGED faults
       \/ /\ \/ audit[Deletion] = "untouched" /\ UNCHANGED faults
             \/ Fault
          /\ del' = "idle"
          /\ UNCHANGED audit
       \/ audit[Deletion] = "pending" /\ Say(Deletion, "success") /\ Fault /\ del' = "idle"
    /\ UNCHANGED <<group, members, intent, cleanup, req, landed, unseen>>

DeleteComplete ==
    /\ del = "complete"
    /\ \/ intent' = [intent EXCEPT !.status = "completed"] /\ UNCHANGED faults
       \/ Fault /\ intent' \in {intent, [intent EXCEPT !.status = "completed"]}
    /\ del' = "idle"
    /\ UNCHANGED <<group, members, cleanup, audit, req, landed, unseen>>

(* A deletion that failed looks at what it has done: once the group is     *)
(* archived or its members are gone it waits to be repeated, and otherwise *)
(* it abandons its repair intents, whether or not that works.  A look that *)
(* fails sees nothing.                                                     *)
(* Mutant: cleared members do not count. *)
PartlyByGroup(looks) == "group" \in looks /\ group[Doomed].status = "archived"
Partly(looks) ==
    \/ "group" \in looks /\ group[Doomed].status = "archived"
    \/ "members" \in looks /\ members[Doomed].set = {} /\ intent.members.set # {}

DeleteUndo ==
    LET Abandoned(set) == [o \in Ops |-> IF o \in set /\ repair[o] \in {"prepared", "deny_committed"}
                                         THEN "abandoned" ELSE repair[o]]
        both == {"group", "members"}
    IN /\ del \in {"undo", "undo_stale"}
       /\ \E looks \in SUBSET both, ended \in {{}, {"memberships"}, Denies} :
            /\ IF looks = both /\ ended = Denies THEN UNCHANGED faults ELSE Fault
            /\ IF Partly(looks)
               THEN del' = "idle" /\ UNCHANGED <<repair, unseen>>
               ELSE /\ del' = IF del = "undo" THEN "undo_audit" ELSE "undo_stale_audit"
                    /\ repair' = Abandoned(ended)
                    /\ unseen' = IF Partly(both) THEN unseen \cup (landed \cap Denies) ELSE unseen
       /\ UNCHANGED <<group, members, intent, local, manifest, audit, req, landed>>

(* The stored intent is marked failed under the version the request holds. *)
DeleteUndoAudit ==
    /\ del \in {"undo_audit", "undo_stale_audit"}
    /\ \/ /\ Say(Deletion, "untouched")
          /\ del' = IF del = "undo_audit" THEN "undo_end" ELSE "idle"
          /\ UNCHANGED faults
       \/ Fault /\ del' = "idle" /\ (UNCHANGED audit \/ Say(Deletion, "untouched"))
    /\ UNCHANGED <<group, members, intent, cleanup, req, landed, unseen>>

DeleteFail ==
    /\ del = "undo_end"
    /\ \/ intent' = [intent EXCEPT !.status = "failed"] /\ UNCHANGED faults
       \/ Fault /\ intent' \in {intent, [intent EXCEPT !.status = "failed"]}
    /\ del' = "idle"
    /\ UNCHANGED <<group, members, cleanup, audit, req, landed, unseen>>

-----------------------------------------------------------------------------
(* The process that serves a request may die. *)
Crash(q) ==
    /\ req[q].pc \notin {"idle", "done"}
    /\ Fault
    /\ Goto(q, "done")
    /\ UNCHANGED <<group, members, intent, cleanup, audit, del, landed, unseen>>

DeleteCrash ==
    /\ del # "idle"
    /\ Fault
    /\ del' = "idle"
    /\ intent' = IF intent.status = "reading" THEN NoIntent ELSE intent
    /\ UNCHANGED <<group, members, cleanup, audit, req, landed, unseen>>

-----------------------------------------------------------------------------
(* groupDeny: a revocation is in force while its own state is the current  *)
(* one, or while everybody it took away is still away.                     *)
(* Mutant: a state that was replaced in the meantime counts as lifted. *)
InForceByVersion(o) ==
    CASE o = "archive" -> group[Doomed] = Archived
      [] o = "memberships" -> members[Doomed].set = {}
      [] OTHER -> members[req[o].group] = State(req[o].next, o)
InForce(o) ==
    IF o = "archive" THEN group[Doomed] = Archived
    ELSE Revoked(o) \cap members[Target(o)].set = {}

(* The scheduled batch, for one pending repair intent. *)
BatchRepair(o) ==
    /\ repair[o] \in {"prepared", "deny_committed"}
    /\ \/ InForce(o) /\ repair' = [repair EXCEPT ![o] = "cleanup_registered"] /\ manifest' = manifest \cup {o}
       \/ /\ ~InForce(o) /\ repair[o] = "deny_committed"
          /\ repair' = [repair EXCEPT ![o] = "abandoned"]
          /\ UNCHANGED manifest
    /\ UNCHANGED <<group, members, intent, local, audit, req, del, landed, unseen, faults>>

(* The reconciliation of a manifest to its end opens the fence. *)
BatchComplete(o) ==
    /\ o \in manifest /\ repair[o] \in {"deny_committed", "cleanup_registered"}
    /\ repair' = [repair EXCEPT ![o] = "cleanup_completed"]
    /\ UNCHANGED <<group, members, intent, local, manifest, audit, req, del, landed, unseen, faults>>

(* retryPendingRevocationCleanups, for one pending intent of the group *)
Retry(o) ==
    /\ local[o] \in {"prepared", "deny_committed"}
    /\ group[Target(o)].status = "active"
    /\ members[Target(o)] = State(req[o].next, o)
    /\ IF repair[o] = "abandoned"
       THEN MarkLocal(o, "deny_committed") /\ UNCHANGED <<repair, manifest>>
       ELSE MarkLocal(o, "cleanup_registered") /\ Registers(o)
    /\ UNCHANGED <<group, members, intent, audit, req, del, landed, unseen, faults>>

Replacing(o) ==
    Begin(o) \/ Validate(o) \/ Fence(o) \/ Prepare(o) \/ Replace(o) \/ Abandon(o)
    \/ MarkOwnIntent(o) \/ MarkDenyCommitted(o) \/ Register(o) \/ MarkRegistered(o) \/ Finish(o)
Renaming(u) == BeginRename(u) \/ RenameFence(u) \/ Rename(u) \/ Finish(u)
Deleting ==
    DeleteRead \/ DeleteStore \/ DeleteAgain \/ DeleteAuthorize \/ DeletePrepare \/ DeleteClear \/ DeleteCleared
    \/ DeleteRegister \/ DeleteReferences \/ DeleteArchive \/ DeleteArchived \/ DeleteRegisterArchive
    \/ DeleteAudit \/ DeleteComplete \/ DeleteUndo \/ DeleteUndoAudit \/ DeleteFail
Batch(o) == BatchRepair(o) \/ BatchComplete(o)

Next ==
    \/ \E o \in Replacements : Replacing(o) \/ Retry(o)
    \/ \E u \in Renames : Renaming(u)
    \/ \E q \in Replacements \cup Renames : Crash(q)
    \/ Deleting
    \/ DeleteCrash
    \/ \E o \in Ops : Batch(o)

Spec ==
    /\ Init /\ [][Next]_vars
    /\ WF_vars(Deleting)
    /\ \A o \in Ops : WF_vars(Batch(o))

-----------------------------------------------------------------------------
TypeOK ==
    /\ \A x \in Groups : group[x].status \in {"active", "archived"} /\ members[x].set \subseteq Principals(x)
    /\ intent.status \in {"none", "reading", "prepared", "authorized", "memberships_cleared", "group_archived",
                          "completed", "failed"}
    /\ repair \in [Ops -> {"none", "cleanup_completed", "abandoned"} \cup Open]
    /\ local \in [Replacements -> {"none", "prepared", "deny_committed", "cleanup_registered", "abandoned"}]
    /\ audit \in [Replacements \cup Renames \cup {Deletion} -> Said]
    /\ manifest \subseteq Ops /\ landed \subseteq Ops /\ unseen \subseteq landed
    /\ faults \in 0..MaxFaults

(* A replacement is told as refused only if it did not take effect, or it  *)
(* did and its request never learned so; one told as done has its cleanup  *)
(* taken care of, a deletion told as done has archived the group, and one  *)
(* that ended as failed has left it active and with members, unless it     *)
(* could not look.                                                         *)
TookEffect ==
    /\ \A o \in Replacements :
         /\ audit[o] = "untouched" => o \notin landed \ unseen
         /\ audit[o] \in {"success", "changed"} => o \in landed
    /\ audit[Deletion] = "success" => group[Doomed] = Archived
AuditsAreTrue ==
    /\ TookEffect
    /\ \A o \in Replacements :
         audit[o] = "success" /\ Revoked(o) # {} => repair[o] \in {"cleanup_registered", "cleanup_completed"}
    /\ intent.status = "failed" /\ unseen \cap Denies = {} =>
          group[Doomed].status = "active" /\ members[Doomed].set # {}

(* Nobody is added to a group while the cleanup of an earlier revocation   *)
(* of that group, one that took effect, is still open.                     *)
NoGrantUnderCleanup ==
    [][\A x \in Groups :
         ~(members'[x].set \subseteq members[x].set) => OpenRepair(x) \cap landed = {}]_vars

(* A revocation that took effect gets its manifest, unless somebody it     *)
(* took away has been let in again or its request gave its cleanup up      *)
(* without knowing that it took effect.                                    *)
NotFollowedUp(o) ==
    /\ o \in landed \ (manifest \cup unseen)
    /\ o \in Denies \/ Revoked(o) # {}
    /\ IF o = "archive" THEN group[Doomed] = Archived
       ELSE Revoked(o) \cap members[Target(o)].set = {}
DenyIsFollowedUp == \A o \in Ops : NotFollowedUp(o) ~> ~NotFollowedUp(o)

(* A deletion that was authorized comes to its end, unless the group was   *)
(* changed or referenced meanwhile or the deletion was given up before: an *)
(* audit closed as failed, or a repair intent abandoned, stays in its way. *)
GivenUp == audit[Deletion] = "untouched" \/ \E d \in Denies : repair[d] = "abandoned"
Underway ==
    /\ intent.status \in {"authorized", "memberships_cleared", "group_archived"}
    /\ group[Doomed] \in {intent.group, Archived}
    /\ ~Referenced(Doomed)
    /\ ~GivenUp
DeletionSettles == Underway ~> ~Underway

=============================================================================
