------------------------ MODULE ResourceGroupProofs ------------------------
(***************************************************************************)
(* Proofs about resource groups.  For any groups, replacements and renames *)
(* and any number of failures and deaths: what the audits say of the       *)
(* changes themselves is true, and nobody is added to a group that has     *)
(* members under an open cleanup.  Requests may empty groups; the version  *)
(* of an empty group comes back, and there the fence alone is not enough.  *)
(***************************************************************************)
EXTENDS ResourceGroup, TLAPS

-----------------------------------------------------------------------------
(* Types, by parts.                                                        *)

Early == {"validate", "fence", "prepare", "replace"}
Late == {"mark_local", "mark", "register", "mark_registered", "finish"}
Steps == Early \cup Late \cup {"abandon", "done"}
RenameSteps == {"fence", "replace", "finish", "done"}
DeleteSteps == {"idle", "store", "prepared", "authorized", "clear", "cleared", "memberships_cleared",
                "references", "archive", "archived", "group_archived", "finish", "complete",
                "undo", "undo_audit", "undo_end", "undo_stale", "undo_stale_audit"}

GroupRecord == [status : {"active", "archived"}, by : Renames \cup {NoOp, Deletion}]
Membership == [set : SUBSET (Users \cup Groups), by : Replacements \cup {NoOp}]
IntentStatus == {"reading", "prepared", "authorized", "memberships_cleared", "group_archived",
                 "completed", "failed"}
IntentRecord == [status : IntentStatus, group : GroupRecord, members : Membership]
Idle == [pc : {"idle"}, group : {NoOp}]
ReplaceRecord == [pc : Steps, group : Groups, held : Membership, next : SUBSET (Users \cup Groups)]
RenameRecord == [pc : RenameSteps, group : {Doomed}, version : Renames \cup {NoOp, Deletion}]
RepairStatus == {"none", "cleanup_completed", "abandoned"} \cup Open
LocalStatus == {"none", "prepared", "deny_committed", "cleanup_registered", "abandoned"}

GroupTyped == group \in [Groups -> GroupRecord]
MembersTyped ==
    /\ members \in [Groups -> Membership]
    /\ \A x \in Groups : members[x].set \subseteq Principals(x)
IntentTyped == intent \in {NoIntent} \cup IntentRecord
RepairTyped == repair \in [Ops -> RepairStatus]
LocalTyped == local \in [Replacements -> LocalStatus]
AuditTyped == audit \in [Replacements \cup Renames \cup {Deletion} -> Said]
ReqTyped ==
    /\ req \in [Replacements \cup Renames -> Idle \cup ReplaceRecord \cup RenameRecord]
    /\ \A o \in Replacements : req[o] \in Idle \cup ReplaceRecord
    /\ \A o \in Replacements : req[o].pc # "idle" => req[o].next \subseteq Principals(req[o].group)
    /\ \A u \in Renames : req[u] \in Idle \cup RenameRecord
DelTyped ==
    /\ del \in DeleteSteps
    /\ del # "idle" => intent # NoIntent
    /\ intent.status = "reading" <=> del = "store"

Types ==
    /\ GroupTyped /\ MembersTyped /\ IntentTyped /\ RepairTyped /\ LocalTyped /\ AuditTyped /\ ReqTyped
    /\ manifest \subseteq Ops /\ landed \subseteq Ops /\ unseen \subseteq landed
    /\ DelTyped
    /\ faults \in 0..MaxFaults

-----------------------------------------------------------------------------
(* The inductive invariant.                                                *)

(* What a replacement knows of itself: it took effect when its label says  *)
(* so or its answer was lost, and whatever it takes away has a repair      *)
(* intent by then.                                                         *)
Local(o) ==
    /\ req[o].pc \in {"idle"} \cup Early => o \notin landed
    /\ req[o].pc \in Late => o \in landed
    /\ req[o].pc = "abandon" => o \notin landed \ unseen /\ repair[o] # "none"
    /\ req[o].pc \in {"idle", "validate", "fence", "prepare"} => repair[o] = "none"
    /\ req[o].pc = "replace" \/ o \in landed => Revoked(o) = {} \/ repair[o] # "none"
    /\ req[o].pc \in (Late \ {"finish"}) => Revoked(o) # {}
    /\ audit[o] = "untouched" => o \notin landed \ unseen /\ req[o].pc = "done"
    /\ audit[o] \in {"success", "changed"} => o \in landed /\ req[o].pc = "done"
    /\ local[o] # "none" => repair[o] # "none"
LocalInv == \A o \in Replacements : Local(o)

(* Every version of a membership but the first was written by a request    *)
(* that has taken effect, so the version of a group with members does not  *)
(* come back.                                                              *)
Began(o) == req[o].pc # "idle"
VersionInv ==
    /\ \A x \in Groups : members[x].by \in landed \cup {NoOp}
    /\ \A o \in Replacements : Began(o) => req[o].held.by \in landed \cup {NoOp}

GroupInv ==
    /\ group[Doomed].status = "archived" => group[Doomed] = Archived
    /\ group[Doomed].status = "archived" <=> "archive" \in landed
    /\ group[Doomed].status = "active" => group[Doomed].by # Deletion
    /\ \A u \in Renames : req[u].pc # "idle" => req[u].version # Deletion
    /\ intent # NoIntent => intent.group.status = "active"

(* Where the deletion stands, and what has taken effect by then. *)
Standing ==
    /\ del = "prepared" => intent.status = "prepared"
    /\ del \in {"authorized", "clear", "cleared"} => intent.status = "authorized"
    /\ del \in {"memberships_cleared", "references", "archive", "archived"} => intent.status = "memberships_cleared"
    /\ del \in {"group_archived", "finish", "complete"} => intent.status = "group_archived"
DeletionInv ==
    /\ Standing
    /\ intent.status \in {"group_archived", "completed"} \/ del = "archived" => "archive" \in landed
    /\ audit[Deletion] = "success" => "archive" \in landed

(* The repair intents of the deletion are stored before it changes what    *)
(* they are about.                                                         *)
Archives == intent.status \in {"memberships_cleared", "group_archived"} \/ del = "cleared"
DenyInv ==
    /\ del = "clear" \/ Archives => repair["archive"] # "none"
    /\ del = "clear" /\ intent.members.set # {} => repair["memberships"] # "none"
    /\ \A d \in Denies \cap landed : repair[d] # "none"

(* Whoever may still add somebody to a group that had members, under the   *)
(* version that was read, has seen every revocation of the group that took *)
(* effect closed; and the deletion, if it is to archive the group, has     *)
(* cleared it since.                                                       *)
MayAdd(o) == req[o].pc \in {"prepare", "replace"} /\ Added(o) # {} /\ req[o].held.set # {}
UnderVersion(o) == MayAdd(o) /\ members[req[o].group] = req[o].held
GrantInv ==
    \A o \in Replacements : UnderVersion(o) =>
        /\ \A p \in Ops : p \in landed /\ repair[p] \in Open => Target(p) # req[o].group
        /\ req[o].group = Doomed /\ repair["archive"] \in Open => ~Archives

GroupsInv == Types /\ LocalInv /\ VersionInv /\ GroupInv /\ DeletionInv /\ DenyInv /\ GrantInv

-----------------------------------------------------------------------------
(* Steps of one request and of the stored intent, by their fields.         *)

Others(q) == \A p \in (Replacements \cup Renames) \ {q} : req'[p] = req[p]
SameChange(o) == req'[o].group = req[o].group /\ req'[o].held = req[o].held /\ req'[o].next = req[o].next
Moved(o, pc) == ReqTyped' /\ req'[o].pc = pc /\ SameChange(o) /\ Others(o)

LEMMA Distinct ==
    /\ "memberships" \notin Replacements /\ "archive" \notin Replacements
    /\ \A o \in Replacements : o \notin Renames /\ o # Deletion /\ o # NoOp /\ o \in Ops
    /\ \A u \in Renames : u \notin Replacements /\ u # Deletion /\ u # NoOp
    /\ "memberships" \in Ops /\ "archive" \in Ops /\ "memberships" # "archive"
    /\ Doomed \in Groups /\ Deletion # NoOp /\ MaxFaults \in Nat
BY ConstantAssumption DEF Denies, Ops

LEMMA ReplaceFields ==
    ASSUME ReqTyped, NEW o \in Replacements, req[o].pc # "idle"
    PROVE  /\ req[o] \in ReplaceRecord
           /\ req[o].pc \in Steps /\ req[o].group \in Groups /\ req[o].held \in Membership
           /\ req[o].next \subseteq Users \cup Groups
BY DEF ReqTyped, Idle, ReplaceRecord

LEMMA GotoMoves ==
    ASSUME ReqTyped, NEW o \in Replacements, req[o].pc # "idle", NEW pc \in Steps, Goto(o, pc)
    PROVE  Moved(o, pc)
<1>. DEFINE rec == [req[o] EXCEPT !.pc = pc]
<1>1. req[o] \in ReplaceRecord
  BY ReplaceFields
<1>2. /\ rec \in ReplaceRecord /\ rec.pc = pc /\ rec.group = req[o].group
      /\ rec.held = req[o].held /\ rec.next = req[o].next
  BY <1>1 DEF ReplaceRecord
<1>3. req' = [req EXCEPT ![o] = rec]
  BY DEF Goto, ReqTyped
<1>4. rec.pc # "idle" => rec.next \subseteq Principals(rec.group)
  BY <1>2 DEF ReqTyped
<1>. HIDE DEF rec
<1>5. req'[o] = rec /\ Others(o)
  BY <1>3 DEF ReqTyped, Others
<1>6. ReqTyped'
  BY <1>2, <1>3, <1>4, Distinct DEF ReqTyped
<1>. QED BY <1>2, <1>5, <1>6 DEF Moved, SameChange

LEMMA RenameMoves ==
    ASSUME ReqTyped, NEW u \in Renames, req[u].pc # "idle", NEW pc \in RenameSteps, Goto(u, pc)
    PROVE  ReqTyped' /\ Others(u)
<1>. DEFINE rec == [req[u] EXCEPT !.pc = pc]
<1>1. rec \in RenameRecord
  BY DEF ReqTyped, Idle, RenameRecord
<1>2. req' = [req EXCEPT ![u] = rec]
  BY DEF Goto, ReqTyped
<1>. HIDE DEF rec
<1>3. Others(u)
  BY <1>2 DEF ReqTyped, Others
<1>4. ReqTyped'
  BY <1>1, <1>2, Distinct DEF ReqTyped
<1>. QED BY <1>3, <1>4

LEMMA IntentMoves ==
    ASSUME IntentTyped, intent.status # "none", NEW status \in IntentStatus,
           intent' = [intent EXCEPT !.status = status]
    PROVE  /\ IntentTyped' /\ intent'.status = status
           /\ intent'.group = intent.group /\ intent'.members = intent.members
BY DEF IntentTyped, NoIntent, IntentRecord

LEMMA IntentFields ==
    ASSUME IntentTyped
    PROVE  /\ intent.status \in IntentStatus \cup {"none"}
           /\ intent.status # "none" <=> intent # NoIntent
           /\ intent # NoIntent => intent.group \in GroupRecord /\ intent.members \in Membership
BY DEF IntentTyped, NoIntent, IntentRecord, IntentStatus

-----------------------------------------------------------------------------
(* Types are kept.                                                         *)

LEMMA TypesInit == Init => Types
<1>. SUFFICES ASSUME Init PROVE Types
  OBVIOUS
<1>1. GroupTyped /\ MembersTyped
  BY DEF Init, GroupTyped, MembersTyped, GroupRecord, Membership, State, Principals
<1>2. IntentTyped /\ RepairTyped /\ LocalTyped /\ AuditTyped
  BY DEF Init, IntentTyped, RepairTyped, LocalTyped, AuditTyped, RepairStatus, LocalStatus, Said
<1>3. ReqTyped
  BY DEF Init, ReqTyped, Idle
<1>4. manifest \subseteq Ops /\ landed \subseteq Ops /\ unseen \subseteq landed /\ DelTyped /\ faults \in 0..MaxFaults
  BY Distinct DEF Init, DelTyped, DeleteSteps, NoIntent
<1>. QED BY <1>1, <1>2, <1>3, <1>4 DEF Types

LEMMA FaultTyped == ASSUME faults \in 0..MaxFaults, Fault PROVE faults' \in 0..MaxFaults
BY Distinct DEF Fault

LEMMA SayTyped ==
    ASSUME AuditTyped, NEW q \in Replacements \cup Renames \cup {Deletion}, NEW what \in Said, Say(q, what)
    PROVE  AuditTyped'
BY DEF AuditTyped, Say

LEMMA BeginMoves ==
    ASSUME ReqTyped, MembersTyped, NEW o \in Replacements, Begin(o)
    PROVE  /\ req[o].pc = "idle" /\ req'[o].pc = "validate" /\ req'[o].group \in Groups
           /\ req'[o].held = members[req'[o].group]
           /\ (Emptying \/ req'[o].next # {}) /\ req'[o].next # req'[o].held.set
           /\ Others(o) /\ ReqTyped'
<1>1. PICK x \in Groups : \E next \in SUBSET Principals(x) :
        /\ Emptying \/ next # {}
        /\ next # members[x].set
        /\ req' = [req EXCEPT ![o] = [pc |-> "validate", group |-> x, held |-> members[x], next |-> next]]
  BY DEF Begin
<1>9. PICK next \in SUBSET Principals(x) :
        /\ Emptying \/ next # {}
        /\ next # members[x].set
        /\ req' = [req EXCEPT ![o] = [pc |-> "validate", group |-> x, held |-> members[x], next |-> next]]
  BY <1>1
<1>. DEFINE rec == [pc |-> "validate", group |-> x, held |-> members[x], next |-> next]
<1>2. rec \in ReplaceRecord
  BY DEF ReplaceRecord, Steps, Early, MembersTyped, Principals
<1>3. rec.pc = "validate" /\ rec.group = x /\ rec.held = members[x] /\ rec.next = next
  OBVIOUS
<1>4. req' = [req EXCEPT ![o] = rec]
  BY <1>9
<1>. HIDE DEF rec
<1>5. req'[o] = rec /\ Others(o)
  BY <1>4 DEF ReqTyped, Others
<1>6. ReqTyped'
  BY <1>2, <1>3, <1>4, Distinct DEF ReqTyped
<1>. QED BY <1>9, <1>3, <1>5, <1>6 DEF Begin

(* Every step of a replacement but the first keeps what it changes. *)
Proceeds(o) ==
    Validate(o) \/ Fence(o) \/ Prepare(o) \/ Replace(o) \/ Abandon(o)
    \/ MarkOwnIntent(o) \/ MarkDenyCommitted(o) \/ Register(o) \/ MarkRegistered(o) \/ Finish(o)

LEMMA ProceedsMoves ==
    ASSUME ReqTyped, NEW o \in Replacements, Proceeds(o)
    PROVE  \E pc \in Steps : Moved(o, pc)
<1>1. \E pc \in Steps : req[o].pc # "idle" /\ Goto(o, pc)
  <2>1. CASE Validate(o)
    BY <2>1 DEF Validate, Refuse, Steps, Early
  <2>2. CASE Fence(o)
    BY <2>2 DEF Fence, Refuse, Steps, Early
  <2>3. CASE Prepare(o)
    BY <2>3 DEF Prepare, Refuse, Steps, Early
  <2>4. CASE Replace(o)
    BY <2>4 DEF Replace, Refuse, Steps, Late
  <2>5. CASE Abandon(o)
    BY <2>5 DEF Abandon, Refuse, Steps
  <2>6. CASE MarkOwnIntent(o)
    BY <2>6 DEF MarkOwnIntent, Changed, Steps, Late
  <2>7. CASE MarkDenyCommitted(o)
    BY <2>7 DEF MarkDenyCommitted, Changed, Steps, Late
  <2>8. CASE Register(o)
    BY <2>8 DEF Register, Changed, Steps, Late
  <2>9. CASE MarkRegistered(o)
    BY <2>9 DEF MarkRegistered, Steps, Late
  <2>10. CASE Finish(o)
    BY <2>10 DEF Finish, Steps
  <2>. QED BY <2>1, <2>2, <2>3, <2>4, <2>5, <2>6, <2>7, <2>8, <2>9, <2>10 DEF Proceeds
<1>. QED BY <1>1, GotoMoves

LEMMA RenamingMoves ==
    ASSUME ReqTyped, GroupTyped, NEW u \in Renames, Renaming(u)
    PROVE  ReqTyped' /\ Others(u)
<1>1. CASE BeginRename(u)
  <2>. DEFINE rec == [pc |-> "fence", group |-> Doomed, version |-> group[Doomed].by]
  <2>1. rec \in RenameRecord
    BY Distinct DEF RenameRecord, RenameSteps, GroupTyped, GroupRecord
  <2>2. req' = [req EXCEPT ![u] = rec]
    BY <1>1 DEF BeginRename
  <2>. HIDE DEF rec
  <2>3. Others(u)
    BY <2>2 DEF ReqTyped, Others
  <2>4. ReqTyped'
    BY <2>1, <2>2, Distinct DEF ReqTyped
  <2>. QED BY <2>3, <2>4
<1>2. CASE ~BeginRename(u)
  <2>1. \E pc \in RenameSteps : req[u].pc # "idle" /\ Goto(u, pc)
    BY <1>2 DEF Renaming, RenameFence, Rename, Finish, Refuse, RenameSteps
  <2>. QED BY <2>1, RenameMoves
<1>. QED BY <1>1, <1>2

LEMMA CrashMoves ==
    ASSUME ReqTyped, NEW q \in Replacements \cup Renames, Crash(q)
    PROVE  /\ ReqTyped' /\ Others(q)
           /\ q \in Replacements => Moved(q, "done")
<1>1. req[q].pc # "idle" /\ Goto(q, "done")
  BY DEF Crash
<1>2. "done" \in Steps /\ "done" \in RenameSteps
  BY DEF Steps, RenameSteps
<1>3. CASE q \in Replacements
  BY <1>1, <1>2, <1>3, GotoMoves DEF Moved
<1>4. CASE q \in Renames
  BY <1>1, <1>2, <1>4, RenameMoves, Distinct
<1>. QED BY <1>3, <1>4

LEMMA TransitionTyped ==
    ASSUME RepairTyped, NEW o \in Ops, NEW to \in RepairStatus, Transition(o, to)
    PROVE  /\ RepairTyped'
           /\ \A p \in Ops \ {o} : repair'[p] = repair[p]
           /\ repair'[o] = IF Stays(o, to) THEN repair[o] ELSE to
BY DEF RepairTyped, Transition

LEMMA MarkLocalTyped ==
    ASSUME LocalTyped, NEW o \in Replacements, NEW to \in LocalStatus, MarkLocal(o, to)
    PROVE  /\ LocalTyped'
           /\ \A p \in Replacements \ {o} : local'[p] = local[p]
           /\ local'[o] = IF local[o] \in {"cleanup_registered", "abandoned"} THEN local[o] ELSE to
BY DEF LocalTyped, MarkLocal

LEMMA Statuses ==
    /\ {"none", "prepared", "deny_committed", "cleanup_registered", "cleanup_completed", "abandoned"} = RepairStatus
    /\ {"none", "prepared", "deny_committed", "cleanup_registered", "abandoned"} = LocalStatus
    /\ {"none", "pending", "success", "untouched", "changed"} = Said
    /\ Open = {"prepared", "deny_committed", "cleanup_registered"}
BY DEF RepairStatus, LocalStatus, Said, Open

LEMMA ReplacingTyped ==
    ASSUME Types, NEW o \in Replacements, Proceeds(o)
    PROVE  Types'
<1>1. ReqTyped'
  BY ProceedsMoves DEF Types, Moved
<1>2. GroupTyped' /\ IntentTyped' /\ DelTyped'
  BY DEF Types, Proceeds, Validate, Fence, Prepare, Replace, Abandon, MarkOwnIntent, MarkDenyCommitted, Register,
         MarkRegistered, Finish, GroupTyped, IntentTyped, DelTyped
<1>3. faults' \in 0..MaxFaults
  BY FaultTyped
     DEF Types, Proceeds, Validate, Fence, Prepare, Replace, Abandon, MarkOwnIntent, MarkDenyCommitted, Register,
         MarkRegistered, Finish
<1>4. AuditTyped'
  <2>1. audit' = audit \/ \E what \in Said : Say(o, what)
    BY Statuses
       DEF Proceeds, Validate, Fence, Prepare, Replace, Abandon, MarkOwnIntent, MarkDenyCommitted, Register,
           MarkRegistered, Finish, Refuse, Changed
  <2>. QED BY <2>1, SayTyped DEF Types, AuditTyped
<1>5. RepairTyped' /\ LocalTyped' /\ manifest' \subseteq Ops
  <2>1. CASE Prepare(o)
    BY <2>1, Distinct, Statuses DEF Prepare, Types, RepairTyped, LocalTyped
  <2>2. CASE Abandon(o)
    <3>1. /\ repair' = repair \/ Transition(o, "abandoned")
          /\ local' = local \/ MarkLocal(o, "abandoned")
          /\ manifest' = manifest
      BY <2>2 DEF Abandon
    <3>. QED BY <3>1, Distinct, Statuses, TransitionTyped, MarkLocalTyped DEF Types, RepairTyped, LocalTyped
  <2>3. CASE MarkOwnIntent(o)
    BY <2>3, Statuses, MarkLocalTyped DEF MarkOwnIntent, Types, RepairTyped, LocalTyped
  <2>4. CASE MarkDenyCommitted(o)
    BY <2>4, Distinct, Statuses, TransitionTyped DEF MarkDenyCommitted, Types, RepairTyped, LocalTyped
  <2>5. CASE Register(o)
    BY <2>5, Distinct DEF Register, Types, RepairTyped, LocalTyped
  <2>6. CASE MarkRegistered(o)
    BY <2>6, Distinct, Statuses, TransitionTyped, MarkLocalTyped DEF MarkRegistered, Types, RepairTyped, LocalTyped
  <2>. QED BY <2>1, <2>2, <2>3, <2>4, <2>5, <2>6
           DEF Proceeds, Validate, Fence, Replace, Finish, cleanup, Types, RepairTyped, LocalTyped
<1>6. MembersTyped' /\ landed' \subseteq Ops /\ unseen' \subseteq landed'
  <2>1. CASE Replace(o)
    <3>1. /\ req[o].group \in Groups /\ req[o].next \subseteq Users \cup Groups
          /\ req[o].next \subseteq Principals(req[o].group)
      BY <2>1, ReplaceFields DEF Replace, Types, ReqTyped
    <3>2. State(req[o].next, o) \in Membership /\ State(req[o].next, o).set = req[o].next
      BY <3>1 DEF State, Membership
    <3>. QED BY <2>1, <3>1, <3>2, Distinct DEF Replace, Land, Types, MembersTyped
  <2>2. CASE ~Replace(o)
    BY <2>2 DEF Proceeds, Validate, Fence, Prepare, Abandon, MarkOwnIntent, MarkDenyCommitted, Register,
                MarkRegistered, Finish, Types, MembersTyped
  <2>. QED BY <2>1, <2>2
<1>. QED BY <1>1, <1>2, <1>3, <1>4, <1>5, <1>6 DEF Types

LEMMA RenamingTyped ==
    ASSUME Types, NEW u \in Renames, Renaming(u)
    PROVE  Types'
<1>1. ReqTyped'
  BY RenamingMoves DEF Types
<1>2. UNCHANGED <<members, intent, cleanup, del, landed, unseen>>
  BY DEF Renaming, BeginRename, RenameFence, Rename, Finish, Refuse
<1>3. faults' \in 0..MaxFaults
  BY FaultTyped DEF Types, Renaming, BeginRename, RenameFence, Rename, Finish
<1>4. AuditTyped'
  <2>1. audit' = audit \/ \E what \in Said : Say(u, what)
    BY Statuses DEF Renaming, BeginRename, RenameFence, Rename, Finish, Refuse
  <2>. QED BY <2>1, SayTyped DEF Types, AuditTyped
<1>5. GroupTyped'
  <2>1. \/ group' = group
        \/ group' = [group EXCEPT ![Doomed] = [status |-> "active", by |-> u]]
    BY DEF Renaming, BeginRename, RenameFence, Rename, Finish
  <2>2. [status |-> "active", by |-> u] \in GroupRecord
    BY DEF GroupRecord
  <2>. QED BY <2>1, <2>2 DEF Types, GroupTyped
<1>. QED BY <1>1, <1>2, <1>3, <1>4, <1>5 DEF Types, MembersTyped, IntentTyped, DelTyped, RepairTyped, LocalTyped, cleanup

(* The stored intent moves along with the label of its request. *)
Stores(status) == intent' = [intent EXCEPT !.status = status]

LEMMA DelStep ==
    ASSUME IntentTyped, DelTyped, Deleting \/ DeleteCrash
    PROVE  DelTyped'
<1>1. CASE DeleteRead
  <2>1. del' = "store" /\ intent'.status = "reading"
    BY <1>1 DEF DeleteRead
  <2>. QED BY <2>1 DEF DelTyped, DeleteSteps, NoIntent
<1>2. CASE DeleteAgain
  <2>1. del' = intent.status /\ intent' = intent /\ intent.status \notin {"none", "completed", "failed"} /\ del = "idle"
    BY <1>2 DEF DeleteAgain
  <2>2. intent.status \in IntentStatus \ {"reading"} /\ intent # NoIntent
    BY <2>1, IntentFields DEF DelTyped
  <2>. QED BY <2>1, <2>2 DEF DelTyped, DeleteSteps, IntentStatus
<1>3. CASE \/ DeleteStore \/ DeleteAuthorize \/ DeleteCleared \/ DeleteArchived \/ DeleteComplete \/ DeleteFail
  <2>1. del # "idle" /\ del' \in DeleteSteps \ {"store"}
    BY <1>3 DEF DeleteStore, DeleteAuthorize, DeleteCleared, DeleteArchived, DeleteComplete, DeleteFail, Advance, DeleteSteps
  <2>2. \/ intent' = NoIntent /\ del' = "idle"
        \/ \E status \in IntentStatus \ {"reading"} : Stores(status)
        \/ intent' = intent /\ del # "store"
    BY <1>3 DEF DeleteStore, DeleteAuthorize, DeleteCleared, DeleteArchived, DeleteComplete, DeleteFail, Advance,
                IntentStatus, Stores
  <2>3. ASSUME NEW status \in IntentStatus \ {"reading"}, Stores(status)
        PROVE  intent'.status # "reading" /\ intent' # NoIntent
    <3>1. intent'.status = status
      BY <2>1, <2>3, IntentMoves, IntentFields DEF DelTyped, Stores
    <3>. QED BY <3>1 DEF NoIntent, IntentStatus
  <2>. QED BY <2>1, <2>2, <2>3 DEF DelTyped, NoIntent
<1>4. CASE DeleteCrash
  <2>1. del' = "idle" /\ intent' = IF intent.status = "reading" THEN NoIntent ELSE intent
    BY <1>4 DEF DeleteCrash
  <2>. QED BY <2>1 DEF DelTyped, DeleteSteps, NoIntent
<1>5. CASE \/ DeletePrepare \/ DeleteClear \/ DeleteRegister \/ DeleteReferences \/ DeleteArchive
           \/ DeleteRegisterArchive \/ DeleteAudit \/ DeleteUndo \/ DeleteUndoAudit
  <2>1. del \notin {"idle", "store"} /\ del' \in DeleteSteps \ {"store"} /\ intent' = intent
    BY <1>5 DEF DeletePrepare, DeleteClear, DeleteRegister, DeleteReferences, DeleteArchive, DeleteRegisterArchive,
                DeleteAudit, DeleteUndo, DeleteUndoAudit, DeleteSteps
  <2>. QED BY <2>1 DEF DelTyped
<1>. QED BY <1>1, <1>2, <1>3, <1>4, <1>5 DEF Deleting

LEMMA DeletingTyped ==
    ASSUME Types, Deleting \/ DeleteCrash
    PROVE  Types'
<1>. USE DEF Deleting, DeleteRead, DeleteStore, DeleteAgain, DeleteAuthorize, DeletePrepare, DeleteClear, DeleteCleared,
             DeleteRegister, DeleteReferences, DeleteArchive, DeleteArchived, DeleteRegisterArchive, DeleteAudit,
             DeleteComplete, DeleteUndo, DeleteUndoAudit, DeleteFail, DeleteCrash
<1>1. ReqTyped' /\ LocalTyped'
  BY DEF Types, ReqTyped, LocalTyped, cleanup
<1>2. faults' \in 0..MaxFaults
  BY FaultTyped DEF Types, Advance
<1>3. AuditTyped'
  <2>1. audit' = audit \/ \E what \in Said : Say(Deletion, what)
    BY Statuses
  <2>. QED BY <2>1, SayTyped DEF Types, AuditTyped
<1>4. GroupTyped'
  <2>1. group' = group \/ group' = [group EXCEPT ![Doomed] = Archived]
    OBVIOUS
  <2>2. Archived \in GroupRecord
    BY DEF Archived, GroupRecord
  <2>. QED BY <2>1, <2>2 DEF Types, GroupTyped
<1>5. MembersTyped' /\ landed' \subseteq Ops /\ unseen' \subseteq landed'
  <2>1. /\ members' = members \/ members' = [members EXCEPT ![Doomed] = State({}, NoOp)]
        /\ landed \subseteq landed' /\ landed' \subseteq landed \cup Denies
        /\ unseen' \subseteq landed'
    BY DEF Denies, Deny, Types
  <2>2. State({}, NoOp) \in Membership /\ State({}, NoOp).set = {}
    BY DEF State, Membership
  <2>. QED BY <2>1, <2>2, Distinct DEF Types, MembersTyped, Denies
<1>6. RepairTyped' /\ manifest' \subseteq Ops
  <2>1. CASE DeletePrepare
    BY <2>1, Statuses DEF Types, RepairTyped, cleanup
  <2>2. CASE DeleteRegister \/ DeleteRegisterArchive
    BY <2>2, Distinct, Statuses DEF Types, RepairTyped, cleanup, Registers, RegistersPartly
  <2>3. CASE DeleteUndo
    BY <2>3, Statuses DEF Types, RepairTyped, cleanup
  <2>. QED BY <2>1, <2>2, <2>3 DEF Types, RepairTyped, cleanup
<1>8. IntentTyped'
  <2>1. CASE DeleteRead
    <3>1. intent' \in IntentRecord
      BY <2>1, Distinct DEF Types, GroupTyped, MembersTyped, IntentRecord, IntentStatus
    <3>. QED BY <3>1 DEF IntentTyped
  <2>2. CASE ~DeleteRead
    <3>1. \/ intent' = intent
          \/ intent' = NoIntent
          \/ del # "idle" /\ \E status \in IntentStatus : intent' = [intent EXCEPT !.status = status]
      BY <2>2 DEF Advance, IntentStatus
    <3>2. CASE del # "idle" /\ \E status \in IntentStatus : intent' = [intent EXCEPT !.status = status]
      BY <3>2, IntentMoves, IntentFields DEF Types, DelTyped
    <3>. QED BY <3>1, <3>2 DEF Types, IntentTyped
  <2>. QED BY <2>1, <2>2
<1>7. DelTyped'
  BY DelStep DEF Types
<1>. QED BY <1>1, <1>2, <1>3, <1>4, <1>5, <1>6, <1>7, <1>8 DEF Types

LEMMA RepairingTyped ==
    ASSUME Types,
           \/ \E o \in Ops : Batch(o)
           \/ \E o \in Replacements : Retry(o)
    PROVE  Types'
<1>1. CASE \E o \in Ops : Batch(o)
  <2>. PICK o \in Ops : Batch(o)
    BY <1>1
  <2>1. RepairTyped' /\ manifest' \subseteq Ops
    BY Statuses DEF Types, RepairTyped, Batch, BatchRepair, BatchComplete
  <2>. QED BY <2>1 DEF Types, Batch, BatchRepair, BatchComplete, GroupTyped, MembersTyped, IntentTyped, DelTyped, LocalTyped,
                       AuditTyped, ReqTyped
<1>2. CASE \E o \in Replacements : Retry(o)
  <2>. PICK o \in Replacements : Retry(o)
    BY <1>2
  <2>1. RepairTyped' /\ manifest' \subseteq Ops
    BY Statuses, Distinct DEF Types, RepairTyped, Retry, Registers
  <2>2. LocalTyped'
    BY Statuses, MarkLocalTyped DEF Types, Retry
  <2>. QED BY <2>1, <2>2 DEF Types, Retry, GroupTyped, MembersTyped, IntentTyped, DelTyped, AuditTyped, ReqTyped
<1>. QED BY <1>1, <1>2

LEMMA TypesNext == Types /\ [Next]_vars => Types'
<1>. SUFFICES ASSUME Types, [Next]_vars PROVE Types'
  OBVIOUS
<1>1. CASE \E o \in Replacements : Begin(o)
  <2>. PICK o \in Replacements : Begin(o)
    BY <1>1
  <2>1. ReqTyped'
    BY BeginMoves DEF Types
  <2>2. AuditTyped'
    BY SayTyped, Statuses DEF Types, Begin
  <2>. QED BY <2>1, <2>2 DEF Begin, Types, GroupTyped, MembersTyped, IntentTyped, DelTyped, RepairTyped, LocalTyped, cleanup
<1>2. CASE \E o \in Replacements : Proceeds(o)
  BY <1>2, ReplacingTyped
<1>3. CASE \E u \in Renames : Renaming(u)
  BY <1>3, RenamingTyped
<1>4. CASE \E q \in Replacements \cup Renames : Crash(q)
  <2>. PICK q \in Replacements \cup Renames : Crash(q)
    BY <1>4
  <2>1. ReqTyped' /\ faults' \in 0..MaxFaults
    BY CrashMoves, FaultTyped DEF Types, Crash
  <2>. QED BY <2>1 DEF Crash, Types, GroupTyped, MembersTyped, IntentTyped, DelTyped, RepairTyped, LocalTyped, AuditTyped, cleanup
<1>5. CASE Deleting \/ DeleteCrash
  BY <1>5, DeletingTyped
<1>6. CASE (\E o \in Ops : Batch(o)) \/ (\E o \in Replacements : Retry(o))
  BY <1>6, RepairingTyped
<1>7. CASE UNCHANGED vars
  BY <1>7 DEF vars, Types, GroupTyped, MembersTyped, IntentTyped, DelTyped, RepairTyped, LocalTyped, AuditTyped, ReqTyped
<1>. QED BY <1>1, <1>2, <1>3, <1>4, <1>5, <1>6, <1>7 DEF Next, Replacing, Proceeds

(* Every variable keeps its type, for any groups, users and requests, and  *)
(* no group is a member of itself.                                         *)
THEOREM TypeCorrect == Spec => []TypeOK
<1>1. Types => TypeOK
  <2>. SUFFICES ASSUME Types PROVE TypeOK
    OBVIOUS
  <2>1. intent.status \in IntentStatus \cup {"none"}
    BY IntentFields DEF Types
  <2>2. \A x \in Groups : group[x].status \in {"active", "archived"}
    BY DEF Types, GroupTyped, GroupRecord
  <2>. QED BY <2>1, <2>2
           DEF Types, TypeOK, MembersTyped, RepairTyped, RepairStatus, LocalTyped, LocalStatus, AuditTyped, IntentStatus
<1>. QED BY <1>1, TypesInit, TypesNext, PTL DEF Spec

-----------------------------------------------------------------------------
(* What a step may change.                                                 *)

Kept(o) == req'[o].pc # "idle" /\ SameChange(o)

LEMMA ReqStep ==
    ASSUME Types, [Next]_vars, NEW o \in Replacements
    PROVE  /\ req[o].pc # "idle" => Kept(o)
           /\ req[o].pc = "idle" => Begin(o) \/ req'[o] = req[o]
<1>. USE Distinct DEF Kept, SameChange, Types
<1>1. CASE \E p \in Replacements : Begin(p)
  BY <1>1, BeginMoves DEF Others
<1>2. CASE \E p \in Replacements : Proceeds(p)
  <2>1. PICK p \in Replacements : Proceeds(p)
    BY <1>2
  <2>2. PICK pc \in Steps : Moved(p, pc)
    BY <2>1, ProceedsMoves
  <2>3. pc # "idle" /\ req[p].pc # "idle"
    BY <2>1 DEF Steps, Early, Late, Proceeds, Validate, Fence, Prepare, Replace, Abandon, MarkOwnIntent,
                MarkDenyCommitted, Register, MarkRegistered, Finish
  <2>. QED BY <2>2, <2>3 DEF Moved, Others
<1>3. CASE \E u \in Renames : Renaming(u)
  BY <1>3, RenamingMoves DEF Others
<1>4. CASE \E q \in Replacements \cup Renames : Crash(q)
  <2>1. PICK q \in Replacements \cup Renames : Crash(q)
    BY <1>4
  <2>2. Others(q) /\ (q \in Replacements => Moved(q, "done")) /\ req[q].pc # "idle"
    BY <2>1, CrashMoves DEF Crash
  <2>. QED BY <2>2 DEF Others, Moved
<1>5. CASE req' = req
  BY <1>5
<1>6. CASE Deleting \/ DeleteCrash
  <2>1. req' = req
    BY <1>6 DEF Deleting, DeleteRead, DeleteStore, DeleteAgain, DeleteAuthorize, DeletePrepare, DeleteClear, DeleteCleared,
             DeleteRegister, DeleteReferences, DeleteArchive, DeleteArchived, DeleteRegisterArchive, DeleteAudit,
             DeleteComplete, DeleteUndo, DeleteUndoAudit, DeleteFail, DeleteCrash
  <2>. QED BY <2>1, <1>5
<1>7. CASE (\E p \in Ops : Batch(p)) \/ (\E p \in Replacements : Retry(p)) \/ UNCHANGED vars
  <2>1. req' = req
    BY <1>7 DEF Batch, BatchRepair, BatchComplete, Retry, vars
  <2>. QED BY <2>1, <1>5
<1>. QED BY <1>1, <1>2, <1>3, <1>4, <1>6, <1>7 DEF Next, Replacing, Proceeds

LEMMA RenameStep ==
    ASSUME Types, [Next]_vars, NEW u \in Renames, ~BeginRename(u), req'[u].pc # "idle"
    PROVE  req[u].pc # "idle" /\ req'[u].version = req[u].version
<1>. USE DEF Types
<1>1. CASE \E o \in Replacements : Begin(o) \/ Proceeds(o)
  BY <1>1, BeginMoves, ProceedsMoves, Distinct DEF Others, Moved
<1>2. CASE \E v \in Renames : Renaming(v)
  <2>1. PICK v \in Renames : Renaming(v)
    BY <1>2
  <2>2. CASE v # u
    BY <2>1, <2>2, RenamingMoves DEF Others
  <2>3. CASE v = u
    <3>1. \E pc \in RenameSteps : req[u].pc # "idle" /\ Goto(u, pc)
      BY <2>1, <2>3 DEF Renaming, RenameFence, Rename, Finish, Refuse, RenameSteps
    <3>. QED BY <3>1 DEF Goto, ReqTyped, RenameRecord, Idle
  <2>. QED BY <2>2, <2>3
<1>3. CASE \E q \in Replacements \cup Renames : Crash(q)
  <2>1. PICK q \in Replacements \cup Renames : Crash(q)
    BY <1>3
  <2>2. CASE q # u
    BY <2>1, <2>2, CrashMoves DEF Others
  <2>3. CASE q = u
    BY <2>1, <2>3 DEF Crash, Goto, ReqTyped, RenameRecord, Idle
  <2>. QED BY <2>2, <2>3
<1>4. CASE Deleting \/ DeleteCrash
  <2>1. req' = req
    BY <1>4 DEF Deleting, DeleteRead, DeleteStore, DeleteAgain, DeleteAuthorize, DeletePrepare, DeleteClear, DeleteCleared,
             DeleteRegister, DeleteReferences, DeleteArchive, DeleteArchived, DeleteRegisterArchive, DeleteAudit,
             DeleteComplete, DeleteUndo, DeleteUndoAudit, DeleteFail, DeleteCrash
  <2>. QED BY <2>1
<1>5. CASE (\E p \in Ops : Batch(p)) \/ (\E p \in Replacements : Retry(p)) \/ UNCHANGED vars
  <2>1. req' = req
    BY <1>5 DEF Batch, BatchRepair, BatchComplete, Retry, vars
  <2>. QED BY <2>1
<1>. QED BY <1>1, <1>2, <1>3, <1>4, <1>5 DEF Next, Replacing, Proceeds

(* The steps that change members or let a change take effect. *)
Landing(o) ==
    /\ Replace(o)
    /\ req[o].pc = "replace" /\ members[req[o].group] = req[o].held
    /\ members' = [members EXCEPT ![req[o].group] = State(req[o].next, o)]
    /\ landed' = landed \cup {o}
    /\ UNCHANGED <<group, intent, repair, del>>
Clearing ==
    /\ del = "clear"
    /\ members[Doomed] = intent.members /\ members[Doomed].set # {}
    /\ members' = [members EXCEPT ![Doomed] = State({}, NoOp)]
    /\ landed' = landed \cup {"memberships"}
    /\ UNCHANGED <<group, intent, repair, req>>
Archiving ==
    /\ del = "archive"
    /\ Unchanged(Doomed)
    /\ group' = [group EXCEPT ![Doomed] = Archived]
    /\ landed' = landed \cup {"archive"}
    /\ UNCHANGED <<members, intent, repair, req>>
Renamed(u) ==
    /\ req[u].pc = "replace" /\ group[Doomed].by = req[u].version
    /\ group' = [group EXCEPT ![Doomed] = [status |-> "active", by |-> u]]
    /\ UNCHANGED <<members, landed, intent, repair, del>>

LEMMA DataStep ==
    ASSUME [Next]_vars
    PROVE  \/ UNCHANGED <<members, landed, group>>
           \/ \E o \in Replacements : Landing(o)
           \/ Clearing
           \/ Archiving
           \/ \E u \in Renames : Renamed(u)
<1>1. CASE \E o \in Replacements : Begin(o) \/ Proceeds(o)
  <2>1. PICK o \in Replacements : Begin(o) \/ Proceeds(o)
    BY <1>1
  <2>2. CASE Replace(o)
    <3>1. Landing(o) \/ UNCHANGED <<members, landed, group>>
      BY <2>2 DEF Replace, Land, Landing, cleanup
    <3>. QED BY <3>1
  <2>3. CASE ~Replace(o)
    BY <2>1, <2>3 DEF Proceeds, Begin, Validate, Fence, Prepare, Abandon, MarkOwnIntent, MarkDenyCommitted, Register,
                      MarkRegistered, Finish
  <2>. QED BY <2>2, <2>3
<1>2. CASE \E u \in Renames : Renaming(u)
  <2>1. PICK u \in Renames : Renaming(u)
    BY <1>2
  <2>2. Renamed(u) \/ UNCHANGED <<members, landed, group>>
    BY <2>1 DEF Renaming, BeginRename, RenameFence, Rename, Renamed, Finish, cleanup
  <2>. QED BY <2>2
<1>3. CASE \E q \in Replacements \cup Renames : Crash(q)
  BY <1>3 DEF Crash
<1>4. CASE DeleteClear
  <2>1. Clearing \/ UNCHANGED <<members, landed, group>>
    BY <1>4 DEF DeleteClear, Deny, Clearing, cleanup
  <2>. QED BY <2>1
<1>5. CASE DeleteArchive
  <2>1. Archiving \/ UNCHANGED <<members, landed, group>>
    BY <1>5 DEF DeleteArchive, Deny, Archiving, cleanup
  <2>. QED BY <2>1
<1>6. CASE (Deleting \/ DeleteCrash) /\ ~DeleteClear /\ ~DeleteArchive
  BY <1>6 DEF Deleting, DeleteRead, DeleteStore, DeleteAgain, DeleteAuthorize, DeletePrepare, DeleteCleared,
             DeleteRegister, DeleteReferences, DeleteArchived, DeleteRegisterArchive, DeleteAudit,
             DeleteComplete, DeleteUndo, DeleteUndoAudit, DeleteFail, DeleteCrash
<1>7. CASE (\E p \in Ops : Batch(p)) \/ (\E p \in Replacements : Retry(p)) \/ UNCHANGED vars
  BY <1>7 DEF Batch, BatchRepair, BatchComplete, Retry, vars
<1>. QED BY <1>1, <1>2, <1>3, <1>4, <1>5, <1>6, <1>7 DEF Next, Replacing, Proceeds

(* Whose step changes the repair intent of a cleanup. *)
LEMMA RepairFrame ==
    ASSUME Types, [Next]_vars, NEW p \in Ops, repair'[p] # repair[p]
    PROVE  \/ Batch(p)
           \/ p \in Replacements /\ (Proceeds(p) \/ Retry(p))
           \/ p \in Denies /\ (DeletePrepare \/ DeleteRegister \/ DeleteRegisterArchive \/ DeleteUndo)
<1>. USE DEF Types
<1>1. CASE \E o \in Replacements : Proceeds(o)
  <2>1. PICK o \in Replacements : Proceeds(o)
    BY <1>1
  <2>2. \A q \in Ops \ {o} : repair'[q] = repair[q]
    BY <2>1, Statuses, TransitionTyped, Distinct
       DEF Proceeds, Validate, Fence, Prepare, Replace, Abandon, MarkOwnIntent, MarkDenyCommitted, Register,
           MarkRegistered, Finish, RepairTyped, cleanup
  <2>. QED BY <2>1, <2>2
<1>2. CASE \E o \in Replacements : Retry(o)
  <2>1. PICK o \in Replacements : Retry(o)
    BY <1>2
  <2>2. \A q \in Ops \ {o} : repair'[q] = repair[q]
    BY <2>1 DEF Retry, Registers, RepairTyped
  <2>. QED BY <2>1, <2>2
<1>3. CASE \E o \in Ops : Batch(o)
  <2>1. PICK o \in Ops : Batch(o)
    BY <1>3
  <2>2. \A q \in Ops \ {o} : repair'[q] = repair[q]
    BY <2>1 DEF Batch, BatchRepair, BatchComplete, RepairTyped
  <2>. QED BY <2>1, <2>2
<1>4. CASE DeletePrepare \/ DeleteRegister \/ DeleteRegisterArchive \/ DeleteUndo
  <2>1. p \notin Denies => repair'[p] = repair[p]
    BY <1>4 DEF DeletePrepare, DeleteRegister, DeleteRegisterArchive, DeleteUndo, Registers, RegistersPartly, RepairTyped,
                Denies, cleanup
  <2>. QED BY <1>4, <2>1
<1>5. CASE repair' = repair
  BY <1>5
<1>6. CASE \/ \E o \in Replacements : Begin(o)
           \/ \E u \in Renames : Renaming(u)
           \/ \E q \in Replacements \cup Renames : Crash(q)
           \/ UNCHANGED vars
  <2>1. repair' = repair
    BY <1>6 DEF Begin, Renaming, BeginRename, RenameFence, Rename, Finish, Crash, cleanup, vars
  <2>. QED BY <2>1, <1>5
<1>7. CASE /\ Deleting \/ DeleteCrash
           /\ ~(DeletePrepare \/ DeleteRegister \/ DeleteRegisterArchive \/ DeleteUndo)
  <2>1. repair' = repair
    BY <1>7 DEF Deleting, DeleteRead, DeleteStore, DeleteAgain, DeleteAuthorize, DeleteClear, DeleteCleared,
             DeleteReferences, DeleteArchive, DeleteArchived, DeleteAudit,
             DeleteComplete, DeleteUndoAudit, DeleteFail, DeleteCrash, cleanup
  <2>. QED BY <2>1, <1>5
<1>. QED BY <1>1, <1>2, <1>3, <1>4, <1>6, <1>7 DEF Next, Replacing, Proceeds

LEMMA IntentStep ==
    ASSUME Types, [Next]_vars
    PROVE  /\ intent # NoIntent =>
                \/ intent' = NoIntent /\ intent.status = "reading"
                \/ intent' # NoIntent /\ intent'.group = intent.group /\ intent'.members = intent.members
           /\ intent = NoIntent => intent' = NoIntent \/ DeleteRead
<1>1. CASE Deleting \/ DeleteCrash
  <2>1. \/ intent' = intent
        \/ intent' = NoIntent /\ del = "store"
        \/ DeleteCrash
        \/ DeleteRead
        \/ del # "idle" /\ \E status \in IntentStatus : Stores(status)
    BY <1>1 DEF Deleting, DeleteRead, DeleteStore, DeleteAgain, DeleteAuthorize, DeletePrepare, DeleteClear, DeleteCleared,
             DeleteRegister, DeleteReferences, DeleteArchive, DeleteArchived, DeleteRegisterArchive, DeleteAudit,
             DeleteComplete, DeleteUndo, DeleteUndoAudit, DeleteFail, Advance, Stores, IntentStatus
  <2>2. CASE del # "idle" /\ \E status \in IntentStatus : Stores(status)
    <3>1. PICK status \in IntentStatus : Stores(status)
      BY <2>2
    <3>2. intent # NoIntent /\ intent.status # "none"
      BY <2>2, IntentFields DEF Types, DelTyped
    <3>3. intent'.status = status /\ intent'.group = intent.group /\ intent'.members = intent.members
      BY <3>1, <3>2, IntentMoves DEF Types, Stores
    <3>4. intent' # NoIntent
      BY <3>3 DEF NoIntent, IntentStatus
    <3>. QED BY <3>2, <3>3, <3>4
  <2>3. CASE DeleteCrash
    BY <2>3 DEF DeleteCrash, NoIntent
  <2>4. CASE DeleteRead
    BY <2>4 DEF DeleteRead
  <2>5. CASE intent' = NoIntent /\ del = "store"
    BY <2>5 DEF Types, DelTyped
  <2>. QED BY <2>1, <2>2, <2>3, <2>4, <2>5
<1>2. CASE intent' = intent
  BY <1>2
<1>3. CASE ~(Deleting \/ DeleteCrash)
  <2>1. intent' = intent
    BY <1>3 DEF Next, vars, Replacing, Begin, Validate, Fence, Prepare, Replace, Abandon, MarkOwnIntent, MarkDenyCommitted,
           Register, MarkRegistered, Finish, Renaming, BeginRename, RenameFence, Rename, Crash, Batch, BatchRepair,
           BatchComplete, Retry
  <2>. QED BY <2>1, <1>2
<1>. QED BY <1>1, <1>3

-----------------------------------------------------------------------------
(* What a replacement knows of itself is kept.                             *)

LEMMA Effect ==
    ASSUME NEW o \in Replacements
    PROVE  /\ Revoked(o) = req[o].held.set \ req[o].next /\ Added(o) = req[o].next \ req[o].held.set
           /\ Target(o) = req[o].group
           /\ Revoked(o)' = req'[o].held.set \ req'[o].next /\ Added(o)' = req'[o].next \ req'[o].held.set
           /\ Target(o)' = req'[o].group
           /\ SameChange(o) => Revoked(o)' = Revoked(o) /\ Added(o)' = Added(o) /\ Target(o)' = Target(o)
BY Distinct DEF Revoked, Added, Target, Denies, SameChange

LEMMA DenyEffect ==
    /\ Target("memberships") = Doomed /\ Target("archive") = Doomed
    /\ Target("memberships")' = Doomed /\ Target("archive")' = Doomed
    /\ Revoked("memberships") = intent.members.set
BY DEF Target, Denies, Revoked

Quiet(o) ==
    /\ req'[o] = req[o] /\ repair'[o] = repair[o] /\ local'[o] = local[o] /\ audit'[o] = audit[o]
    /\ o \in landed' <=> o \in landed
    /\ o \in unseen' <=> o \in unseen

LEMMA OwnStep ==
    ASSUME Types, [Next]_vars, NEW o \in Replacements
    PROVE  Quiet(o) \/ Begin(o) \/ Proceeds(o) \/ Retry(o) \/ Crash(o) \/ Batch(o)
<1>. USE DEF Types
<1>1. ASSUME NEW p \in Replacements, p # o, Begin(p) \/ Proceeds(p)
      PROVE  Quiet(o)
  <2>1. req'[o] = req[o]
    BY <1>1, BeginMoves, ProceedsMoves DEF Others, Moved
  <2>2. repair'[o] = repair[o]
    BY <1>1, Distinct, Statuses, TransitionTyped
       DEF Begin, Proceeds, Validate, Fence, Prepare, Replace, Abandon, MarkOwnIntent, MarkDenyCommitted, Register,
           MarkRegistered, Finish, RepairTyped, cleanup
  <2>3. local'[o] = local[o]
    BY <1>1, Statuses, MarkLocalTyped
       DEF Begin, Proceeds, Validate, Fence, Prepare, Replace, Abandon, MarkOwnIntent, MarkDenyCommitted, Register,
           MarkRegistered, Finish, LocalTyped, cleanup
  <2>4. audit'[o] = audit[o]
    BY <1>1
       DEF Begin, Proceeds, Validate, Fence, Prepare, Replace, Abandon, MarkOwnIntent, MarkDenyCommitted, Register,
           MarkRegistered, Finish, Refuse, Changed, Say, AuditTyped
  <2>5. (o \in landed' <=> o \in landed) /\ (o \in unseen' <=> o \in unseen)
    BY <1>1
       DEF Begin, Proceeds, Validate, Fence, Prepare, Replace, Land, Abandon, MarkOwnIntent, MarkDenyCommitted, Register,
           MarkRegistered, Finish
  <2>. QED BY <2>1, <2>2, <2>3, <2>4, <2>5 DEF Quiet
<1>2. ASSUME NEW p \in Replacements, p # o, Retry(p)
      PROVE  Quiet(o)
  BY <1>2, Statuses, MarkLocalTyped, Distinct DEF Retry, Registers, RepairTyped, Quiet
<1>3. ASSUME NEW u \in Renames, Renaming(u)
      PROVE  Quiet(o)
  <2>1. req'[o] = req[o]
    BY <1>3, RenamingMoves, Distinct DEF Others
  <2>2. audit'[o] = audit[o]
    BY <1>3, Distinct DEF Renaming, BeginRename, RenameFence, Rename, Finish, Refuse, Say, AuditTyped
  <2>3. UNCHANGED <<repair, local, landed, unseen>>
    BY <1>3 DEF Renaming, BeginRename, RenameFence, Rename, Finish, cleanup
  <2>. QED BY <2>1, <2>2, <2>3 DEF Quiet
<1>4. ASSUME NEW q \in Replacements \cup Renames, q # o, Crash(q)
      PROVE  Quiet(o)
  BY <1>4, CrashMoves DEF Others, Crash, cleanup, Quiet
<1>5. ASSUME NEW p \in Ops, p # o, Batch(p)
      PROVE  Quiet(o)
  BY <1>5, Distinct DEF Batch, BatchRepair, BatchComplete, RepairTyped, Quiet
<1>6. ASSUME Deleting \/ DeleteCrash
      PROVE  Quiet(o)
  <2>1. repair'[o] = repair[o]
    <3>1. repair'[o] # repair[o] => DeletePrepare \/ DeleteRegister \/ DeleteRegisterArchive \/ DeleteUndo
      BY <1>6
         DEF Deleting, DeleteRead, DeleteStore, DeleteAgain, DeleteAuthorize, DeleteClear, DeleteCleared,
             DeleteReferences, DeleteArchive, DeleteArchived, DeleteAudit,
             DeleteComplete, DeleteUndoAudit, DeleteFail, DeleteCrash, cleanup
    <3>2. DeletePrepare \/ DeleteRegister \/ DeleteRegisterArchive \/ DeleteUndo => repair'[o] = repair[o]
      BY Distinct DEF DeletePrepare, DeleteRegister, DeleteRegisterArchive, DeleteUndo, Registers, RegistersPartly,
                      RepairTyped, Denies, cleanup
    <3>. QED BY <3>1, <3>2
  <2>2. req' = req /\ local' = local /\ (o \in landed' <=> o \in landed) /\ (o \in unseen' <=> o \in unseen)
    BY <1>6, Distinct
       DEF Denies, Deny, Deleting, DeleteRead, DeleteStore, DeleteAgain, DeleteAuthorize, DeletePrepare, DeleteClear, DeleteCleared,
             DeleteRegister, DeleteReferences, DeleteArchive, DeleteArchived, DeleteRegisterArchive, DeleteAudit,
             DeleteComplete, DeleteUndo, DeleteUndoAudit, DeleteFail, DeleteCrash, cleanup
  <2>3. audit'[o] = audit[o]
    BY <1>6, Distinct
       DEF Deleting, DeleteRead, DeleteStore, DeleteAgain, DeleteAuthorize, DeletePrepare, DeleteClear, DeleteCleared,
             DeleteRegister, DeleteReferences, DeleteArchive, DeleteArchived, DeleteRegisterArchive, DeleteAudit,
             DeleteComplete, DeleteUndo, DeleteUndoAudit, DeleteFail, DeleteCrash, Say, AuditTyped
  <2>. QED BY <2>1, <2>2, <2>3 DEF Quiet
<1>7. CASE UNCHANGED vars
  BY <1>7 DEF vars, Quiet
<1>. QED BY <1>1, <1>2, <1>3, <1>4, <1>5, <1>6, <1>7, Distinct DEF Next, Replacing, Proceeds

LEMMA LocalNext ==
    ASSUME Types, LocalInv, [Next]_vars, NEW o \in Replacements
    PROVE  Local(o)'
<1>. USE DEF LocalInv, Types
<1>0. Types' /\ Local(o)
  BY TypesNext
<1>1. CASE Quiet(o)
  <2>1. Revoked(o)' = Revoked(o)
    BY <1>1, Effect DEF Quiet
  <2>. QED BY <1>0, <1>1, <2>1 DEF Quiet, Local
<1>2. CASE Begin(o)
  <2>1. req[o].pc = "idle" /\ req'[o].pc = "validate"
    BY <1>2, BeginMoves
  <2>2. repair'[o] = "none" /\ local'[o] = "none" /\ o \notin landed' /\ audit'[o] = "pending"
    BY <1>0, <1>2, <2>1 DEF Begin, cleanup, Local, Say, AuditTyped
  <2>. QED BY <2>1, <2>2 DEF Local, Late
<1>3. CASE Proceeds(o)
  <2>1. Revoked(o)' = Revoked(o)
    BY <1>3, ProceedsMoves, Effect DEF Moved
  <2>2. ASSUME NEW pc \in Steps, Goto(o, pc), req[o].pc # "idle"
        PROVE  req'[o].pc = pc
    BY <2>2, GotoMoves DEF Moved
  <2>3. ASSUME NEW what \in Said, Say(o, what)
        PROVE  audit'[o] = what
    BY <2>3 DEF Say, AuditTyped
  <2>4. CASE Validate(o)
    <3>1. /\ req[o].pc = "validate" /\ landed' = landed /\ unseen' = unseen
          /\ repair'[o] = repair[o] /\ local'[o] = local[o]
          /\ \/ req'[o].pc \in {"fence", "prepare"} /\ audit'[o] = audit[o]
             \/ req'[o].pc = "done" /\ audit'[o] = "untouched"
      BY <2>2, <2>3, <2>4 DEF Validate, Refuse, cleanup, Steps, Early, Said
    <3>. QED BY <1>0, <2>1, <3>1 DEF Local, Early, Late
  <2>5. CASE Fence(o)
    <3>1. /\ req[o].pc = "fence" /\ landed' = landed /\ unseen' = unseen
          /\ repair'[o] = repair[o] /\ local'[o] = local[o]
          /\ \/ req'[o].pc = "prepare" /\ audit'[o] = audit[o]
             \/ req'[o].pc = "done" /\ audit'[o] = "untouched"
      BY <2>2, <2>3, <2>5 DEF Fence, Refuse, cleanup, Steps, Early, Said
    <3>. QED BY <1>0, <2>1, <3>1 DEF Local, Early, Late
  <2>6. CASE Prepare(o)
    <3>1. /\ req[o].pc = "prepare" /\ repair[o] = "none" /\ local[o] = "none" /\ o \notin landed
          /\ landed' = landed /\ unseen' = unseen
          /\ audit[o] \notin {"success", "changed", "untouched"}
      BY <1>0, <2>6 DEF Prepare, Local, Early
    <3>2. \/ /\ req'[o].pc = "replace" /\ Revoked(o) = {} /\ audit'[o] = audit[o]
             /\ repair'[o] = "none" /\ local'[o] = "none"
          \/ req'[o].pc = "replace" /\ repair'[o] = "prepared" /\ audit'[o] = audit[o]
          \/ /\ req'[o].pc = "done" /\ audit'[o] = "untouched"
             /\ local'[o] # "none" => repair'[o] = "abandoned"
      BY <2>2, <2>3, <2>6, <3>1, Distinct
         DEF Prepare, Refuse, Steps, Early, Said, RepairTyped, LocalTyped
    <3>. QED BY <1>0, <2>1, <3>1, <3>2 DEF Local, Early, Late
  <2>7. CASE Replace(o)
    <3>1. /\ req[o].pc = "replace" /\ o \notin landed /\ repair'[o] = repair[o] /\ local'[o] = local[o]
          /\ Revoked(o) = {} \/ repair[o] # "none"
          /\ audit[o] \notin {"success", "changed", "untouched"}
      BY <1>0, <2>7 DEF Replace, Local, Early, cleanup
    <3>2. \/ /\ req'[o].pc = IF Revoked(o) = {} THEN "finish" ELSE "mark_local"
             /\ landed' = landed \cup {o} /\ audit'[o] = audit[o]
          \/ /\ o \notin landed' \ unseen'
             /\ \/ req'[o].pc = "done" /\ audit'[o] = "untouched"
                \/ req'[o].pc = "abandon" /\ audit'[o] = audit[o] /\ Revoked(o) # {}
      BY <2>2, <2>3, <2>7, <3>1 DEF Replace, Land, Refuse, Steps, Early, Late, Said
    <3>. QED BY <1>0, <2>1, <3>1, <3>2 DEF Local, Early, Late
  <2>8. CASE Abandon(o)
    <3>1. /\ req[o].pc = "abandon" /\ o \notin landed \ unseen /\ landed' = landed /\ unseen' = unseen
          /\ req'[o].pc = "done" /\ (audit'[o] = "untouched" \/ audit'[o] = audit[o])
          /\ audit[o] \notin {"success", "changed", "untouched"}
      BY <1>0, <2>2, <2>3, <2>8 DEF Abandon, Refuse, Local, Steps, Said
    <3>2. repair' = repair \/ (TransitionRuns(o, "abandoned") /\ Transition(o, "abandoned"))
      BY <2>8 DEF Abandon
    <3>3. repair'[o] = repair[o] \/ (repair[o] # "none" /\ repair'[o] = "abandoned")
      BY <3>2, TransitionTyped, Distinct, Statuses DEF TransitionRuns, Stays, Allowed
    <3>4. local'[o] # "none" => repair'[o] # "none"
      BY <1>0, <3>1, <3>3 DEF Local
    <3>. QED BY <1>0, <2>1, <3>1, <3>3, <3>4 DEF Local, Early, Late
  <2>9. CASE MarkOwnIntent(o)
    <3>1. /\ req[o].pc = "mark_local" /\ landed' = landed /\ unseen' = unseen /\ repair'[o] = repair[o]
          /\ \/ req'[o].pc = "mark" /\ audit'[o] = audit[o]
             \/ req'[o].pc = "done" /\ audit'[o] = "changed"
      BY <2>2, <2>3, <2>9 DEF MarkOwnIntent, Changed, Steps, Late, Said
    <3>. QED BY <1>0, <2>1, <3>1 DEF Local, Early, Late
  <2>10. CASE MarkDenyCommitted(o)
    <3>1. /\ req[o].pc = "mark" /\ landed' = landed /\ unseen' = unseen /\ local'[o] = local[o]
          /\ repair'[o] = repair[o] \/ repair'[o] # "none"
          /\ \/ req'[o].pc = "register" /\ audit'[o] = audit[o]
             \/ req'[o].pc = "done" /\ audit'[o] = "changed"
      BY <2>2, <2>3, <2>10, TransitionTyped, Distinct, Statuses
         DEF MarkDenyCommitted, Changed, Steps, Late, Said
    <3>. QED BY <1>0, <2>1, <3>1 DEF Local, Early, Late
  <2>11. CASE Register(o)
    <3>1. /\ req[o].pc = "register" /\ landed' = landed /\ unseen' = unseen /\ repair'[o] = repair[o] /\ local'[o] = local[o]
          /\ \/ req'[o].pc = "mark_registered" /\ audit'[o] = audit[o]
             \/ req'[o].pc = "done" /\ audit'[o] = "changed"
      BY <2>2, <2>3, <2>11 DEF Register, Changed, Steps, Late, Said
    <3>. QED BY <1>0, <2>1, <3>1 DEF Local, Early, Late
  <2>12. CASE MarkRegistered(o)
    <3>1. /\ req[o].pc = "mark_registered" /\ landed' = landed /\ unseen' = unseen /\ audit'[o] = audit[o]
          /\ req'[o].pc \in {"finish", "done"}
          /\ repair'[o] = repair[o] \/ repair'[o] # "none"
      BY <2>2, <2>12, TransitionTyped, Distinct, Statuses DEF MarkRegistered, Steps, Late
    <3>. QED BY <1>0, <2>1, <3>1 DEF Local, Early, Late
  <2>13. CASE Finish(o)
    <3>1. /\ req[o].pc = "finish" /\ req'[o].pc = "done" /\ landed' = landed /\ unseen' = unseen
          /\ repair'[o] = repair[o] /\ local'[o] = local[o]
          /\ audit'[o] = "success" \/ audit'[o] = audit[o]
      BY <2>2, <2>3, <2>13 DEF Finish, Steps, Said, cleanup
    <3>. QED BY <1>0, <2>1, <3>1 DEF Local, Early, Late
  <2>. QED BY <1>3, <2>4, <2>5, <2>6, <2>7, <2>8, <2>9, <2>10, <2>11, <2>12, <2>13 DEF Proceeds
<1>4. CASE Crash(o)
  <2>1. req'[o].pc = "done" /\ Revoked(o)' = Revoked(o) /\ req[o].pc # "done"
    BY <1>4, CrashMoves, Effect DEF Moved, Crash
  <2>2. repair' = repair /\ local' = local /\ audit' = audit /\ landed' = landed /\ unseen' = unseen
    BY <1>4 DEF Crash, cleanup
  <2>. QED BY <1>0, <2>1, <2>2 DEF Local, Early, Late
<1>5. CASE Retry(o)
  <2>1. req' = req /\ audit' = audit /\ landed' = landed /\ unseen' = unseen /\ local[o] # "none"
    BY <1>5 DEF Retry
  <2>2. repair'[o] = repair[o] \/ repair'[o] = "cleanup_registered"
    BY <1>5, Distinct DEF Retry, Registers, RepairTyped
  <2>3. Revoked(o)' = Revoked(o)
    BY <2>1, Effect DEF SameChange
  <2>. QED BY <1>0, <2>1, <2>2, <2>3 DEF Local
<1>6. CASE Batch(o)
  <2>1. req' = req /\ audit' = audit /\ landed' = landed /\ unseen' = unseen /\ local' = local
    BY <1>6 DEF Batch, BatchRepair, BatchComplete
  <2>2. Revoked(o)' = Revoked(o)
    BY <2>1, Effect DEF SameChange
  <2>3. repair[o] # "none" /\ repair'[o] # "none"
    BY <1>6, Distinct DEF Batch, BatchRepair, BatchComplete, RepairTyped
  <2>. QED BY <1>0, <2>1, <2>2, <2>3 DEF Local
<1>. QED BY <1>1, <1>2, <1>3, <1>4, <1>5, <1>6, OwnStep

-----------------------------------------------------------------------------
(* What becomes of an open intent, and of the members.                     *)

(* An intent of what took effect is open only if it was open before. *)
LEMMA OpenStays ==
    ASSUME Types, LocalInv, DenyInv, [Next]_vars, NEW p \in Ops, p \in landed, repair'[p] \in Open
    PROVE  repair[p] \in Open
<1>. SUFFICES ASSUME repair'[p] # repair[p] PROVE repair[p] \in Open
  OBVIOUS
<1>. USE DEF Types
<1>1. CASE Batch(p)
  BY <1>1, Statuses DEF Batch, BatchRepair, BatchComplete
<1>2. CASE p \in Replacements /\ Proceeds(p)
  <2>1. Local(p)
    BY <1>2 DEF LocalInv
  <2>2. MarkDenyCommitted(p) \/ MarkRegistered(p) \/ Abandon(p)
    BY <1>2, <2>1 DEF Proceeds, Validate, Fence, Prepare, Replace, MarkOwnIntent, Register, Finish, cleanup,
                      Local, Early
  <2>3. CASE MarkDenyCommitted(p)
    BY <2>3, TransitionTyped, Statuses DEF MarkDenyCommitted, TransitionRuns, Stays, Allowed
  <2>4. CASE MarkRegistered(p)
    <3>1. repair[p] # "none"
      BY <2>1, <2>4 DEF Local, MarkRegistered, Late
    <3>2. Transition(p, "cleanup_registered")
      BY <2>4 DEF MarkRegistered
    <3>. QED BY <3>1, <3>2, TransitionTyped, Statuses DEF RepairTyped, Stays
  <2>5. CASE Abandon(p)
    <3>1. Transition(p, "abandoned")
      BY <2>5 DEF Abandon
    <3>. QED BY <3>1, TransitionTyped, Statuses
  <2>. QED BY <2>2, <2>3, <2>4, <2>5
<1>3. CASE p \in Replacements /\ Retry(p)
  <2>1. repair[p] # "none"
    BY <1>3 DEF LocalInv, Local, Retry
  <2>. QED BY <1>3, <2>1, Statuses DEF Retry, Registers, RepairTyped
<1>4. CASE p \in Denies /\ (DeletePrepare \/ DeleteRegister \/ DeleteRegisterArchive \/ DeleteUndo)
  <2>1. repair[p] # "none"
    BY <1>4 DEF DenyInv, Denies
  <2>2. CASE DeletePrepare
    BY <2>1, <2>2, Statuses DEF DeletePrepare, RepairTyped
  <2>3. CASE DeleteRegister \/ DeleteRegisterArchive
    BY <1>4, <2>1, <2>3, Statuses DEF DeleteRegister, DeleteRegisterArchive, Registers, RegistersPartly, RepairTyped, cleanup
  <2>4. CASE DeleteUndo
    BY <2>1, <2>4, Statuses DEF DeleteUndo, RepairTyped
  <2>. QED BY <1>4, <2>2, <2>3, <2>4
<1>. QED BY <1>1, <1>2, <1>3, <1>4, RepairFrame

LEMMA LandingFacts ==
    ASSUME Types, LocalInv, NEW o \in Replacements, Landing(o)
    PROVE  LET x == req[o].group IN
           /\ x \in Groups /\ o \notin landed /\ Began(o)
           /\ members'[x].set = req[o].next /\ (req[o].next # {} => members'[x].by = o)
           /\ \A y \in Groups \ {x} : members'[y] = members[y]
           /\ members[x] = req[o].held
           /\ landed' = landed \cup {o} /\ repair' = repair /\ intent' = intent /\ group' = group
<1>1. req[o].pc = "replace" /\ o \notin landed
  BY DEF Landing, LocalInv, Local, Early
<1>2. req[o].group \in Groups
  BY <1>1, ReplaceFields DEF Types
<1>. QED BY <1>1, <1>2 DEF Landing, Types, MembersTyped, State, Began

LEMMA ClearingFacts ==
    ASSUME Types, Clearing
    PROVE  /\ members'[Doomed] = [set |-> {}, by |-> NoOp]
           /\ \A y \in Groups \ {Doomed} : members'[y] = members[y]
           /\ members[Doomed] = intent.members /\ members[Doomed].set # {}
           /\ landed' = landed \cup {"memberships"} /\ repair' = repair /\ intent' = intent /\ group' = group
           /\ req' = req /\ intent # NoIntent
BY Distinct DEF Clearing, Types, DelTyped, MembersTyped, State

LEMMA VersionNext ==
    ASSUME Types, LocalInv, VersionInv, [Next]_vars
    PROVE  VersionInv'
<1>. USE DEF Types
<1>1. landed \subseteq landed'
  BY DataStep DEF Landing, Clearing, Archiving, Renamed
<1>2. ASSUME NEW x \in Groups
      PROVE  members'[x].by \in landed' \cup {NoOp}
  <2>1. ASSUME NEW p \in Replacements, Landing(p)
        PROVE  members'[x].by \in landed' \cup {NoOp}
    <3>1. CASE x = req[p].group
      <4>1. members'[x] = State(req[p].next, p) /\ p \in landed'
        BY <2>1, <3>1 DEF Landing, MembersTyped
      <4>. QED BY <4>1 DEF State
    <3>2. CASE x # req[p].group
      BY <1>1, <2>1, <3>2, LandingFacts DEF VersionInv
    <3>. QED BY <3>1, <3>2
  <2>2. CASE Clearing
    BY <1>1, <2>2, ClearingFacts DEF VersionInv
  <2>3. CASE members' = members
    BY <1>1, <2>3 DEF VersionInv
  <2>. QED BY <2>1, <2>2, <2>3, DataStep DEF Archiving, Renamed
<1>3. ASSUME NEW o \in Replacements, Began(o)'
      PROVE  req'[o].held.by \in landed' \cup {NoOp}
  <2>1. CASE Began(o)
    BY <1>1, <2>1, ReqStep DEF Began, Kept, SameChange, VersionInv
  <2>2. CASE ~Began(o)
    <3>1. Begin(o)
      BY <1>3, <2>2, ReqStep DEF Began
    <3>. QED BY <1>1, <3>1, BeginMoves DEF VersionInv
  <2>. QED BY <2>1, <2>2
<1>. QED BY <1>2, <1>3 DEF VersionInv

LEMMA GroupNext ==
    ASSUME Types, GroupInv, DeletionInv, [Next]_vars
    PROVE  GroupInv'
<1>. USE DEF Types
<1>1. /\ group'[Doomed].status = "archived" => group'[Doomed] = Archived
      /\ group'[Doomed].status = "archived" <=> "archive" \in landed'
      /\ group'[Doomed].status = "active" => group'[Doomed].by # Deletion
  <2>1. ASSUME NEW o \in Replacements, Landing(o)
        PROVE  group' = group /\ ("archive" \in landed' <=> "archive" \in landed)
    BY <2>1, Distinct DEF Landing
  <2>2. CASE Clearing
    BY <2>2 DEF Clearing, GroupInv
  <2>3. CASE Archiving
    BY <2>3, Distinct DEF Archiving, GroupTyped, Archived
  <2>4. ASSUME NEW u \in Renames, Renamed(u)
        PROVE  /\ group[Doomed].status = "active"
               /\ group'[Doomed].status = "active" /\ group'[Doomed].by = u /\ landed' = landed
    BY <2>4, Distinct DEF Renamed, GroupTyped, GroupRecord, GroupInv, Archived
  <2>5. CASE UNCHANGED <<members, landed, group>>
    BY <2>5 DEF GroupInv
  <2>. QED BY <2>1, <2>2, <2>3, <2>4, <2>5, DataStep, Distinct DEF GroupInv
<1>2. ASSUME NEW u \in Renames, req'[u].pc # "idle"
      PROVE  req'[u].version # Deletion
  <2>1. CASE BeginRename(u)
    <3>1. req'[u].version = group[Doomed].by /\ group[Doomed].status = "active"
      BY <2>1, Distinct DEF BeginRename, ReqTyped
    <3>. QED BY <3>1 DEF GroupInv
  <2>2. CASE ~BeginRename(u)
    <3>1. req[u].pc # "idle" /\ req'[u].version = req[u].version
      BY <1>2, <2>2, RenameStep
    <3>. QED BY <3>1 DEF GroupInv
  <2>. QED BY <2>1, <2>2
<1>3. intent' # NoIntent => intent'.group.status = "active"
  BY IntentStep DEF GroupInv, DeleteRead
<1>. QED BY <1>1, <1>2, <1>3 DEF GroupInv

-----------------------------------------------------------------------------
(* Where the deletion stands.                                              *)

LEMMA OthersLeaveDeletion ==
    ASSUME Types, [Next]_vars, ~Deleting, ~DeleteCrash
    PROVE  UNCHANGED <<del, intent>> /\ audit'[Deletion] = audit[Deletion]
<1>1. UNCHANGED <<del, intent>>
  BY DEF Next, vars, Replacing, Begin, Validate, Fence, Prepare, Replace, Abandon, MarkOwnIntent, MarkDenyCommitted,
         Register, MarkRegistered, Finish, Renaming, BeginRename, RenameFence, Rename, Crash, Batch, BatchRepair,
         BatchComplete, Retry
<1>2. audit'[Deletion] = audit[Deletion]
  <2>1. \/ audit' = audit
        \/ \E q \in Replacements \cup Renames : \E what \in Said : Say(q, what)
    BY ZenonT(60), Statuses
       DEF Next, vars, Replacing, Begin, Validate, Fence, Prepare, Replace, Abandon, MarkOwnIntent, MarkDenyCommitted,
         Register, MarkRegistered, Finish, Refuse, Changed, Renaming, BeginRename, RenameFence, Rename, Crash, Batch,
         BatchRepair, BatchComplete, Retry
  <2>. QED BY <2>1, Distinct DEF Say, Types, AuditTyped
<1>. QED BY <1>1, <1>2

(* The stored intent after a step of the deletion. *)
LEMMA StatusStep ==
    ASSUME Types, del # "idle", NEW status \in IntentStatus, Stores(status)
    PROVE  intent'.status = status
<1>1. intent.status # "none"
  BY IntentFields DEF Types, DelTyped
<1>. QED BY <1>1, IntentMoves DEF Types, Stores

LEMMA StandingNext ==
    ASSUME Types, Standing, [Next]_vars
    PROVE  Standing'
<1>. USE DEF Types
<1>0. ASSUME NEW status \in IntentStatus, del # "idle", intent' = [intent EXCEPT !.status = status]
      PROVE  intent'.status = status
  BY <1>0, StatusStep DEF Stores
<1>1. CASE DeleteRead
  <2>1. del' = "store" /\ intent'.status = "reading"
    BY <1>1 DEF DeleteRead
  <2>. QED BY <2>1 DEF Standing
<1>2. CASE DeleteStore
  <2>1. \/ del' = "prepared" /\ intent'.status = "prepared"
        \/ del' = "idle"
    BY <1>0, <1>2 DEF DeleteStore, IntentStatus, NoIntent
  <2>. QED BY <2>1 DEF Standing
<1>3. CASE DeleteAgain
  <2>1. del' = intent.status /\ intent' = intent /\ intent.status \in IntentStatus \ {"completed", "failed", "reading"}
    BY <1>3, IntentFields DEF DeleteAgain, DelTyped
  <2>. QED BY <2>1 DEF Standing, IntentStatus
<1>4. CASE DeleteAuthorize
  <2>1. /\ del = "prepared"
        /\ \/ del' = "authorized" /\ intent'.status = "authorized"
           \/ del' \in {"undo", "undo_stale"}
    BY <1>0, <1>4 DEF DeleteAuthorize, Advance, IntentStatus
  <2>. QED BY <2>1 DEF Standing
<1>5. CASE DeletePrepare \/ DeleteClear \/ DeleteRegister \/ DeleteReferences \/ DeleteArchive \/ DeleteRegisterArchive
           \/ DeleteAudit \/ DeleteUndo \/ DeleteUndoAudit
  <2>1. /\ intent' = intent
        /\ \/ del = "authorized" /\ del' \in {"clear", "undo"}
           \/ del = "clear" /\ del' \in {"cleared", "undo"}
           \/ del = "memberships_cleared" /\ del' \in {"references", "undo"}
           \/ del = "references" /\ del' \in {"archive", "undo"}
           \/ del = "archive" /\ del' \in {"archived", "undo"}
           \/ del = "group_archived" /\ del' \in {"finish", "idle"}
           \/ del = "finish" /\ del' \in {"complete", "idle"}
           \/ del' \in {"undo_audit", "undo_stale_audit", "undo_end", "idle"}
    BY <1>5 DEF DeletePrepare, DeleteClear, DeleteRegister, DeleteReferences, DeleteArchive, DeleteRegisterArchive,
                DeleteAudit, DeleteUndo, DeleteUndoAudit
  <2>. QED BY <2>1 DEF Standing
<1>6. CASE DeleteCleared \/ DeleteArchived
  <2>1. \/ /\ del = "cleared"
           /\ \/ del' = "memberships_cleared" /\ intent'.status = "memberships_cleared"
              \/ del' \in {"undo", "undo_stale"}
        \/ /\ del = "archived"
           /\ \/ del' = "group_archived" /\ intent'.status = "group_archived"
              \/ del' \in {"undo", "undo_stale"}
    BY <1>0, <1>6 DEF DeleteCleared, DeleteArchived, Advance, IntentStatus
  <2>. QED BY <2>1 DEF Standing
<1>7. CASE DeleteComplete \/ DeleteFail \/ DeleteCrash
  <2>1. del' = "idle"
    BY <1>7 DEF DeleteComplete, DeleteFail, DeleteCrash
  <2>. QED BY <2>1 DEF Standing
<1>8. CASE ~Deleting /\ ~DeleteCrash
  BY <1>8, OthersLeaveDeletion DEF Standing
<1>. QED BY <1>1, <1>2, <1>3, <1>4, <1>5, <1>6, <1>7, <1>8 DEF Deleting

(* How the stored intent moves on. *)
LEMMA Advances ==
    ASSUME Types, [Next]_vars, intent' # intent
    PROVE  \/ intent'.status \in {"none", "reading", "prepared", "authorized", "failed"}
           \/ del = "cleared" /\ intent'.status = "memberships_cleared"
           \/ del = "archived" /\ intent'.status = "group_archived"
           \/ del = "complete" /\ intent'.status = "completed"
<1>. USE DEF Types
<1>1. Deleting \/ DeleteCrash
  BY OthersLeaveDeletion
<1>2. ASSUME NEW status \in IntentStatus, del # "idle", intent' = [intent EXCEPT !.status = status]
      PROVE  intent'.status = status
  BY <1>2, StatusStep DEF Stores
<1>. QED BY <1>1, <1>2
         DEF Deleting, DeleteRead, DeleteStore, DeleteAgain, DeleteAuthorize, DeletePrepare, DeleteClear, DeleteCleared,
             DeleteRegister, DeleteReferences, DeleteArchive, DeleteArchived, DeleteRegisterArchive, DeleteAudit,
             DeleteComplete, DeleteUndo, DeleteUndoAudit, DeleteFail, DeleteCrash, Advance, IntentStatus, NoIntent

(* How the request that carries the deletion comes to the steps that count. *)
LEMMA Arrives ==
    ASSUME Types, [Next]_vars, del' # del
    PROVE  /\ del' = "clear" => DeletePrepare
           /\ del' = "cleared" => DeleteClear
           /\ del' = "archived" => DeleteArchive
<1>1. Deleting \/ DeleteCrash
  BY OthersLeaveDeletion
<1>2. DeleteAgain => del' \in IntentStatus
  BY IntentFields DEF Types, DeleteAgain
<1>. QED BY <1>1, <1>2
         DEF Deleting, DeleteRead, DeleteStore, DeleteAuthorize, DeletePrepare, DeleteClear, DeleteCleared,
             DeleteRegister, DeleteReferences, DeleteArchive, DeleteArchived, DeleteRegisterArchive, DeleteAudit,
             DeleteComplete, DeleteUndo, DeleteUndoAudit, DeleteFail, DeleteCrash, Advance, IntentStatus

(* The deletion says that it has archived the group only afterwards. *)
LEMMA DeletionNext ==
    ASSUME Types, GroupInv, DeletionInv, [Next]_vars
    PROVE  DeletionInv'
<1>. USE DEF Types
<1>0. Standing /\ Standing'
  BY StandingNext DEF DeletionInv
<1>1. landed \subseteq landed'
  BY DataStep DEF Landing, Clearing, Archiving, Renamed
<1>2. ASSUME intent'.status \in {"group_archived", "completed"} \/ del' = "archived"
      PROVE  "archive" \in landed'
  <2>1. CASE del' = "archived" /\ del # "archived"
    <3>1. DeleteArchive
      BY <2>1, Arrives
    <3>. QED BY <1>1, <2>1, <3>1 DEF DeleteArchive, Deny, GroupInv, Archived
  <2>2. CASE del' = "archived" => del = "archived"
    <3>1. \/ intent.status \in {"group_archived", "completed"}
          \/ del \in {"archived", "complete"}
      BY <1>2, <2>2, Advances
    <3>. QED BY <1>0, <1>1, <3>1 DEF DeletionInv, Standing
  <2>. QED BY <2>1, <2>2
<1>3. ASSUME audit'[Deletion] = "success"
      PROVE  "archive" \in landed'
  <2>1. CASE ~Deleting /\ ~DeleteCrash
    BY <1>1, <1>3, <2>1, OthersLeaveDeletion DEF DeletionInv
  <2>2. CASE DeleteAudit
    BY <1>0, <1>1, <2>2 DEF DeleteAudit, DeletionInv, Standing
  <2>3. CASE (Deleting \/ DeleteCrash) /\ ~DeleteAudit
    <3>1. audit' = audit \/ Say(Deletion, "pending") \/ Say(Deletion, "untouched")
      BY <2>3
         DEF Deleting, DeleteRead, DeleteStore, DeleteAgain, DeleteAuthorize, DeletePrepare, DeleteClear, DeleteCleared,
             DeleteRegister, DeleteReferences, DeleteArchive, DeleteArchived, DeleteRegisterArchive,
             DeleteComplete, DeleteUndo, DeleteUndoAudit, DeleteFail, DeleteCrash
    <3>. QED BY <1>1, <1>3, <3>1 DEF DeletionInv, Say, AuditTyped
  <2>. QED BY <2>1, <2>2, <2>3
<1>. QED BY <1>0, <1>2, <1>3 DEF DeletionInv

-----------------------------------------------------------------------------
(* The repair intents of the deletion, and who may add members.            *)

LEMMA DenyRepairStep ==
    ASSUME Types, [Next]_vars, NEW p \in Denies, repair[p] # "none"
    PROVE  /\ repair'[p] # "none"
           /\ repair'[p] \in Open => repair[p] \in Open
<1>. USE DEF Types
<1>0. p \in Ops /\ p \notin Replacements
  BY Distinct DEF Denies
<1>1. CASE repair'[p] = repair[p]
  BY <1>1
<1>2. CASE Batch(p)
  BY <1>0, <1>2, Statuses DEF Batch, BatchRepair, BatchComplete, RepairTyped
<1>3. CASE DeletePrepare
  BY <1>0, <1>3, Statuses DEF DeletePrepare, RepairTyped
<1>4. CASE DeleteRegister \/ DeleteRegisterArchive
  BY <1>0, <1>4, Statuses DEF DeleteRegister, DeleteRegisterArchive, Registers, RegistersPartly, RepairTyped, cleanup
<1>5. CASE DeleteUndo
  BY <1>0, <1>5, Statuses DEF DeleteUndo, RepairTyped
<1>. QED BY <1>0, <1>1, <1>2, <1>3, <1>4, <1>5, RepairFrame

(* The deletion goes on to archive the group only from an empty one. *)
LEMMA ArchivesStep ==
    ASSUME Types, Standing, [Next]_vars, Archives', ~Archives
    PROVE  del = "clear" /\ members'[Doomed].set = {}
<1>. USE DEF Types
<1>1. CASE del' = "cleared"
  <2>1. DeleteClear
    BY <1>1, Arrives DEF Archives
  <2>2. CASE members[Doomed].set = {} /\ members' = members
    BY <2>1, <2>2 DEF DeleteClear
  <2>3. CASE Clearing
    BY <2>3, ClearingFacts DEF Clearing
  <2>4. Clearing \/ (members[Doomed].set = {} /\ members' = members)
    BY <1>1, <2>1 DEF DeleteClear, Deny, Clearing, cleanup
  <2>. QED BY <2>2, <2>3, <2>4
<1>2. CASE del' # "cleared"
  <2>1. intent'.status \in {"memberships_cleared", "group_archived"} /\ intent' # intent
    BY <1>2 DEF Archives
  <2>2. del \in {"cleared", "archived"}
    BY <2>1, Advances
  <2>. QED BY <2>2 DEF Archives, Standing
<1>. QED BY <1>1, <1>2

LEMMA DenyNext ==
    ASSUME Types, DeletionInv, DenyInv, [Next]_vars
    PROVE  DenyInv'
<1>. USE DEF Types
<1>0. Standing /\ "archive" \in Denies /\ "memberships" \in Denies
  BY DEF DeletionInv, Denies
<1>1. ASSUME DeletePrepare, del' = "clear"
      PROVE  repair'["archive"] # "none" /\ (intent'.members.set # {} => repair'["memberships"] # "none")
  BY <1>1, Distinct DEF DeletePrepare, Denies
<1>2. ASSUME del' = "clear" \/ Archives'
      PROVE  repair'["archive"] # "none"
  <2>1. CASE del = "clear" \/ Archives
    BY <1>0, <2>1, DenyRepairStep DEF DenyInv
  <2>2. CASE ~(del = "clear" \/ Archives)
    BY <1>0, <1>1, <1>2, <2>2, Arrives, ArchivesStep
  <2>. QED BY <2>1, <2>2
<1>3. ASSUME del' = "clear", intent'.members.set # {}
      PROVE  repair'["memberships"] # "none"
  <2>1. CASE del = "clear"
    <3>1. intent # NoIntent /\ intent.status # "reading"
      BY <2>1 DEF DelTyped
    <3>2. intent'.members = intent.members
      BY <3>1, IntentStep
    <3>. QED BY <1>0, <1>3, <2>1, <3>2, DenyRepairStep DEF DenyInv
  <2>2. CASE del # "clear"
    BY <1>1, <1>3, <2>2, Arrives
  <2>. QED BY <2>1, <2>2
<1>4. ASSUME NEW d \in Denies, d \in landed'
      PROVE  repair'[d] # "none"
  <2>1. CASE d \in landed
    BY <2>1, DenyRepairStep DEF DenyInv
  <2>2. CASE Clearing /\ d = "memberships"
    BY <2>2, ClearingFacts DEF DenyInv, Clearing
  <2>3. CASE Archiving /\ d = "archive"
    BY <1>0, <2>3 DEF DenyInv, Archiving, Archives, Standing
  <2>4. d \in landed \/ (Clearing /\ d = "memberships") \/ (Archiving /\ d = "archive")
    BY <1>4, DataStep, Distinct DEF Landing, Clearing, Archiving, Renamed, Denies
  <2>. QED BY <2>1, <2>2, <2>3, <2>4
<1>. QED BY <1>2, <1>3, <1>4 DEF DenyInv

LEMMA MayAddStep ==
    ASSUME Types, [Next]_vars, NEW o \in Replacements, MayAdd(o)'
    PROVE  /\ Began(o) /\ Kept(o)
           /\ \/ MayAdd(o)
              \/ OpenRepair(req[o].group) = {} /\ UNCHANGED <<members, landed, repair>>
<1>. USE DEF Types
<1>1. Began(o) /\ Kept(o)
  <2>1. req'[o].pc \in {"prepare", "replace"}
    BY DEF MayAdd
  <2>2. ~Begin(o)
    BY <2>1, BeginMoves
  <2>3. req[o].pc # "idle"
    BY <2>1, <2>2, ReqStep
  <2>. QED BY <2>3, ReqStep DEF Began
<1>2. Added(o)' = Added(o)
  BY <1>1, Effect DEF Kept
<1>3. req'[o].pc \in {"prepare", "replace"} /\ Added(o) # {} /\ req[o].held.set # {}
  BY <1>1, <1>2 DEF MayAdd, Kept, SameChange
<1>4. CASE req'[o].pc = req[o].pc
  BY <1>1, <1>3, <1>4 DEF MayAdd
<1>5. CASE Proceeds(o) /\ req'[o].pc # req[o].pc
  <2>1. \A pc \in Steps : Goto(o, pc) => req'[o].pc = pc
    BY <1>1, GotoMoves DEF Moved, Began
  <2>2. Validate(o) \/ Fence(o) \/ Prepare(o)
    BY <1>3, <1>5, <2>1 DEF Proceeds, Replace, Abandon, MarkOwnIntent, MarkDenyCommitted, Register, MarkRegistered,
                            Finish, Refuse, Changed, Steps, Late
  <2>3. CASE Validate(o)
    BY <1>3, <2>1, <2>3 DEF Validate, Refuse, Steps, Early
  <2>4. CASE Fence(o)
    BY <1>1, <1>3, <2>1, <2>4 DEF Fence, Refuse, cleanup, Steps
  <2>5. CASE Prepare(o)
    BY <1>1, <1>3, <2>5 DEF Prepare, MayAdd
  <2>. QED BY <2>2, <2>3, <2>4, <2>5
<1>6. CASE Crash(o)
  BY <1>3, <1>6, CrashMoves, Distinct DEF Moved
<1>7. CASE Quiet(o) \/ Retry(o) \/ Batch(o)
  <2>1. req'[o].pc = req[o].pc
    BY <1>7 DEF Quiet, Retry, Batch, BatchRepair, BatchComplete
  <2>. QED BY <1>4, <2>1
<1>8. ~Begin(o)
  BY <1>3, BeginMoves
<1>. QED BY <1>1, <1>4, <1>5, <1>6, <1>7, <1>8, OwnStep

LEMMA GrantNext ==
    ASSUME Types, LocalInv, VersionInv, DeletionInv, DenyInv, GrantInv, [Next]_vars
    PROVE  GrantInv'
<1>. USE DEF Types
<1>. SUFFICES ASSUME NEW o \in Replacements, UnderVersion(o)'
              PROVE  /\ \A p \in Ops : p \in landed' /\ repair'[p] \in Open => Target(p)' # req'[o].group
                     /\ req'[o].group = Doomed /\ repair'["archive"] \in Open => ~Archives'
  BY DEF GrantInv
<1>0. MayAdd(o)' /\ Standing /\ "archive" \in Denies
  BY DEF UnderVersion, DeletionInv, Denies
<1>1. /\ Began(o) /\ req'[o].group = req[o].group /\ req'[o].held = req[o].held
      /\ MayAdd(o) \/ (OpenRepair(req[o].group) = {} /\ UNCHANGED <<members, landed, repair>>)
  BY <1>0, MayAddStep DEF Kept, SameChange
<1>2. /\ req[o].held.by \in landed \cup {NoOp} /\ req[o].group \in Groups /\ req[o].held.set # {}
      /\ members'[req[o].group] = req[o].held
  BY <1>0, <1>1, ReplaceFields DEF VersionInv, Began, UnderVersion, MayAdd
<1>3. ~(Clearing /\ req[o].group = Doomed)
  BY <1>2, ClearingFacts
<1>4. \A q \in Replacements : Landing(q) => req[q].group # req[o].group
  <2>. SUFFICES ASSUME NEW q \in Replacements, Landing(q), req[q].group = req[o].group
                PROVE  FALSE
    OBVIOUS
  <2>1. members'[req[o].group].by = q /\ q \notin landed
    BY <1>2, LandingFacts
  <2>. QED BY <1>2, <2>1, Distinct
<1>5. members[req[o].group] = req[o].held
  <2>1. ASSUME NEW q \in Replacements, Landing(q)
        PROVE  members'[req[o].group] = members[req[o].group]
    BY <1>2, <1>4, <2>1, LandingFacts
  <2>. QED BY <1>2, <1>3, <2>1, ClearingFacts, DataStep DEF Archiving, Renamed
<1>6. \/ UnderVersion(o)
      \/ OpenRepair(req[o].group) = {} /\ UNCHANGED <<members, landed, repair>>
  BY <1>1, <1>5 DEF UnderVersion
<1>7. ASSUME NEW p \in Ops, p \in landed', repair'[p] \in Open
      PROVE  Target(p)' # req[o].group
  <2>1. CASE p \in landed
    <3>1. repair[p] \in Open
      BY <1>7, <2>1, OpenStays
    <3>2. Target(p)' = Target(p)
      <4>1. CASE p \in Replacements
        <5>1. req[p].pc # "idle"
          BY <2>1, <4>1 DEF LocalInv, Local
        <5>. QED BY <4>1, <5>1, ReqStep, Effect DEF Kept
      <4>2. CASE p \in Denies
        BY <4>2, DenyEffect DEF Denies
      <4>. QED BY <4>1, <4>2 DEF Ops
    <3>. QED BY <1>6, <2>1, <3>1, <3>2 DEF GrantInv, OpenRepair
  <2>2. CASE p \notin landed
    <3>1. CASE p \in Replacements
      <4>1. Landing(p)
        BY <1>7, <2>2, <3>1, DataStep, Distinct DEF Landing, Clearing, Archiving, Renamed
      <4>2. Target(p)' = req[p].group
        BY <3>1, <4>1, ReqStep, Effect DEF Kept, SameChange, Landing
      <4>. QED BY <1>4, <3>1, <4>1, <4>2
    <3>2. CASE p = "memberships"
      <4>1. Clearing
        BY <1>7, <2>2, <3>2, DataStep, Distinct DEF Landing, Archiving, Renamed
      <4>. QED BY <1>3, <3>2, <4>1, DenyEffect
    <3>3. CASE p = "archive"
      <4>1. Archiving
        BY <1>7, <2>2, <3>3, DataStep, Distinct DEF Landing, Clearing, Renamed
      <4>2. Archives /\ repair["archive"] \in Open
        BY <1>0, <1>7, <3>3, <4>1 DEF Archiving, Archives, Standing
      <4>3. UnderVersion(o)
        BY <1>6, <1>7, <2>2
      <4>. QED BY <3>3, <4>2, <4>3, DenyEffect DEF GrantInv
    <3>. QED BY <3>1, <3>2, <3>3 DEF Ops, Denies
  <2>. QED BY <2>1, <2>2
<1>8. ASSUME req[o].group = Doomed, repair'["archive"] \in Open, Archives'
      PROVE  FALSE
  <2>1. UnderVersion(o)
    BY <1>6, <1>8, DenyEffect, Distinct DEF OpenRepair
  <2>2. ~Archives
    <3>1. CASE repair["archive"] \in Open
      BY <1>8, <2>1, <3>1 DEF GrantInv
    <3>2. CASE repair["archive"] \notin Open
      BY <1>0, <1>8, <3>2, DenyRepairStep DEF DenyInv
    <3>. QED BY <3>1, <3>2
  <2>3. members'[Doomed].set = {}
    BY <1>0, <1>8, <2>2, ArchivesStep
  <2>. QED BY <1>2, <1>8, <2>3
<1>. QED BY <1>1, <1>7, <1>8

-----------------------------------------------------------------------------
(* The theorems.                                                           *)

LEMMA GroupsInit == Init => GroupsInv
<1>. SUFFICES ASSUME Init PROVE GroupsInv
  OBVIOUS
<1>1. Types
  BY TypesInit
<1>2. \A o \in Replacements : req[o].pc = "idle" /\ repair[o] = "none" /\ local[o] = "none" /\ audit[o] = "none"
  BY Distinct DEF Init
<1>3. LocalInv /\ landed = {}
  BY <1>2 DEF Init, LocalInv, Local, Early, Late
<1>4. GrantInv
  BY <1>2 DEF GrantInv, UnderVersion, MayAdd
<1>5. intent = NoIntent /\ intent.status = "none" /\ del = "idle" /\ audit[Deletion] = "none"
  BY Distinct DEF Init, NoIntent
<1>6. VersionInv
  <2>1. \A x \in Groups : members[x].by = NoOp
    BY ConstantAssumption DEF Init, State
  <2>. QED BY <1>2, <2>1 DEF VersionInv, Began
<1>7. GroupInv
  BY <1>3, <1>5, Distinct DEF Init, GroupInv
<1>8. DeletionInv
  BY <1>3, <1>5 DEF DeletionInv, Standing
<1>9. DenyInv
  BY <1>3, <1>5 DEF DenyInv, Archives
<1>. QED BY <1>1, <1>3, <1>4, <1>6, <1>7, <1>8, <1>9 DEF GroupsInv

LEMMA GroupsNext == GroupsInv /\ [Next]_vars => GroupsInv'
<1>. SUFFICES ASSUME GroupsInv, [Next]_vars PROVE GroupsInv'
  OBVIOUS
<1>. USE DEF GroupsInv
<1>1. Types' /\ LocalInv'
  BY LocalNext, TypesNext DEF LocalInv
<1>2. VersionInv' /\ GroupInv' /\ DeletionInv'
  BY VersionNext, GroupNext, DeletionNext
<1>3. DenyInv' /\ GrantInv'
  BY DenyNext, GrantNext
<1>. QED BY <1>1, <1>2, <1>3

(* The inductive invariant: the version of a group with members never      *)
(* comes back, so a request that passed the fence writes under the version *)
(* it was checked for; and the intent of the archive, stored before the    *)
(* members are cleared, is seen by whoever reads them afterwards.          *)
THEOREM GroupInvariant == Spec => []GroupsInv
BY GroupsInit, GroupsNext, PTL DEF Spec

(* A replacement is told as refused only if it did not take effect or its  *)
(* answer was lost, one told as done or half done took effect, and a       *)
(* deletion told as done has archived the group, whatever renames,         *)
(* replacements, failures and deaths come in between.                      *)
THEOREM ChangesAreTold == Spec => []TookEffect
<1>1. GroupsInv => TookEffect
  BY DEF GroupsInv, LocalInv, Local, DeletionInv, GroupInv, TookEffect
<1>. QED BY <1>1, GroupInvariant, PTL

(* Nobody is added to a group that has members while the cleanup of an     *)
(* earlier revocation of that group is open: the fence is read several     *)
(* calls before the members are written, and the version the write names   *)
(* makes up for it.                                                        *)
NoGrantToMembers ==
    [][\A x \in Groups :
         members[x].set # {} /\ ~(members'[x].set \subseteq members[x].set) => OpenRepair(x) \cap landed = {}]_vars
THEOREM GrantsFollowCleanups == Spec => NoGrantToMembers
<1>1. GroupsInv /\ [Next]_vars =>
        [\A x \in Groups :
           members[x].set # {} /\ ~(members'[x].set \subseteq members[x].set) => OpenRepair(x) \cap landed = {}]_vars
  <2>. SUFFICES ASSUME GroupsInv, [Next]_vars,
                       NEW x \in Groups, members[x].set # {}, ~(members'[x].set \subseteq members[x].set)
                PROVE  OpenRepair(x) \cap landed = {}
    OBVIOUS
  <2>. USE DEF GroupsInv
  <2>1. PICK o \in Replacements : Landing(o)
    BY DataStep, ClearingFacts DEF Archiving, Renamed
  <2>2. req[o].group = x /\ ~(req[o].next \subseteq req[o].held.set)
    BY <2>1, LandingFacts
  <2>3. UnderVersion(o)
    BY <2>1, <2>2, Effect DEF MayAdd, UnderVersion, Landing
  <2>. QED BY <2>2, <2>3 DEF GrantInv, OpenRepair
<1>. QED BY <1>1, GroupInvariant, PTL DEF Spec, NoGrantToMembers
=============================================================================
