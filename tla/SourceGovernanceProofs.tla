----------------------- MODULE SourceGovernanceProofs -----------------------
(***************************************************************************)
(* Proofs about the governance of a source.  For any requests, failures    *)
(* and deaths, and with a reconciler that may meet requests under way: a   *)
(* restricted use is served again only after a later approval, no approval *)
(* opens the record under a cleanup that is owed, and what completed       *)
(* audits say is true.                                                     *)
(***************************************************************************)
EXTENDS SourceGovernance, TLAPS

-----------------------------------------------------------------------------
(* Types, by parts.                                                        *)

Steps == {"check", "open", "stage", "commit", "publish", "prepare", "deny", "abandon",
          "deny_committed", "register", "registered", "mark", "finish", "complete", "hold"}
Resting == [pc : {"idle", "done", "dead"}]
Active == [pc : Steps, held : RecordSet, result : Result]
Closed == {"cleanup_completed", "abandoned"}
Owing == {"prepared", "deny_committed", "cleanup_registered"}

AuditRecord == [status : {"none"}] \cup [status : {"pending"}, before : ValueSet]
               \cup [status : {"finalization_pending", "completed"}, before : ValueSet,
                     result : Result, after : ValueSet]
RepairRecord == [status : {"none"}] \cup [status : Owing \cup Closed, deny : Revision]

AuditTyped == audit \in [Requests -> AuditRecord]
RepairTyped == repair \in [Restrictions -> RepairRecord]
ManifestTyped == manifest \in [Restrictions -> {"none", "pending", "completed", "superseded"}]
ReqTyped == req \in [Requests -> Resting \cup Active]
EffectsTyped == effects \in Seq(Requests)

Under(q) == req[q].pc \in Steps

(* A request under way has an audit intent, and one whose completion is    *)
(* due has said how it ended.                                              *)
AuditFits ==
    \A q \in Requests :
        /\ Under(q) => audit[q].status # "none"
        /\ req[q].pc = "complete" => audit[q].status \in {"finalization_pending", "completed"}

Types ==
    /\ record \in RecordSet
    /\ pointer \in Approvals \cup {NoOp}
    /\ AuditTyped /\ RepairTyped /\ ManifestTyped /\ ReqTyped /\ EffectsTyped
    /\ AuditFits
    /\ faults \in 0..MaxFaults

(* What a request knows of the record it read or wrote last, by its label; *)
(* whoever has the current version has the record itself.                  *)
Labelled(q, pc, held) ==
    /\ held.marker = NoMarker
    /\ pc \in {"stage", "commit", "publish"} => held.approval = q
    /\ pc = "stage" => held.restriction = {}
    /\ pc \in {"prepare", "deny"} => held.status \in {"published", "restricted"}
    /\ pc \in {"stage", "commit", "publish", "deny_committed", "register", "registered", "mark"} => held.intent = q

HeldInv ==
    \A q \in Requests : Under(q) =>
        /\ req[q].held.revision <= record.revision
        /\ req[q].held.revision = record.revision => req[q].held = record
        /\ Labelled(q, req[q].pc, req[q].held)

ActiveInv == record.active \in {NoOp, record.approval}

-----------------------------------------------------------------------------
(* Restrictions, and what is owed to them.                                 *)

(* A request that has not come to its effect. *)
Early == {"idle", "check", "open", "stage", "commit", "publish", "prepare", "deny"}
EarlyInv == \A q \in Requests : req[q].pc \in Early => ~Happened(q)

Settles(o) == repair[o].status \in Closed

(* A deny that took effect is in the record until its cleanup is closed,   *)
(* and an approval that may still open the record has seen that.           *)
OwedInv ==
    /\ \A o \in Restrictions : Happened(o) =>
          /\ repair[o].status # "none"
          /\ o \in record.restriction \/ Settles(o)
    /\ \A o \in Restrictions : req[o].pc \in {"deny", "deny_committed", "register", "registered"} =>
          repair[o].status # "none"
    /\ \A a \in Requests : req[a].pc = "open" /\ Holds(a) =>
          \A o \in Restrictions : Happened(o) => Settles(o)

Unpublished == {"approval_pending", "approved"}
UnpublishedInv ==
    /\ record.status \in Unpublished => record.restriction = {}
    /\ record.marker # NoMarker => (record.marker.resume \in Unpublished => record.restriction = {})

(* The record is in use, or will be when its marker is lifted. *)
InUse ==
    \/ record.status \in {"published", "restricted"}
    \/ record.marker # NoMarker /\ record.marker.resume \in {"published", "restricted"}

(* Every deny that took effect is in the record or was before its approval. *)
ServeInv ==
    InUse => \A u \in Restrictions : u \notin record.restriction =>
        \A i \in DOMAIN effects : effects[i] = u =>
            \E j \in DOMAIN effects : j > i /\ effects[j] = record.approval

BlindTyped == blind \subseteq Requests

GovernanceInv ==
    Types /\ HeldInv /\ ActiveInv /\ EarlyInv /\ OwedInv /\ UnpublishedInv /\ ServeInv /\ BlindTyped

-----------------------------------------------------------------------------
(* What audits say.                                                        *)

Truth(q, result, after) ==
    IF result = "success" THEN Happened(q) ELSE Happened(q) => q \in after.restriction \cup blind

(* What a request under way says of itself when it comes to its audit. *)
Reports(q) ==
    /\ req[q].pc \in {"check", "open", "stage", "commit", "publish"} => req[q].result = "success"
    /\ req[q].pc \in {"deny_committed", "register", "registered"} =>
          Happened(q) /\ q \in req[q].held.restriction
    /\ req[q].pc = "mark" =>
          req[q].result # "success" /\ (Happened(q) => q \in req[q].held.restriction \cup blind)
    /\ req[q].pc = "abandon" => req[q].result # "success" /\ (Happened(q) => q \in blind)
    /\ req[q].pc \in {"finish", "complete", "hold"} =>
          IF req[q].result = "success" THEN Happened(q) ELSE Happened(q) => q \in req[q].held.restriction \cup blind
ReportInv == \A q \in Requests : Reports(q)

(* The audit of a request under way knows nothing of its outcome, unless   *)
(* the reconciler has completed it; a record is marked for a request only  *)
(* when nothing more can come of it.                                       *)
Guessed(q) == audit[q].status = "completed" /\ (audit[q].result = "success" \/ q \in blind)
WaitInv ==
    \A q \in Requests :
        /\ req[q].pc = "idle" => audit[q].status = "none" /\ q \notin blind
        /\ Under(q) /\ req[q].pc \notin {"complete", "hold"} => audit[q].status = "pending" \/ Guessed(q)
        /\ req[q].pc = "idle" \/ Under(q) => ~Marked(q)

(* A request whose answer was lost cannot write any more.                  *)
LostInv ==
    \A q \in Requests : q \in blind /\ audit[q].status # "completed" /\ Under(q) => ~Holds(q)

(* What the record says of the request whose intent it carries. *)
IntentInv ==
    \A q \in Requests :
        /\ audit[q].status # "none" => audit[q].before.revision <= record.revision
        /\ Happened(q) => audit[q].status # "none" /\ audit[q].before.revision < record.revision
        /\ record.intent = q /\ ~Marked(q) /\ audit[q].status # "completed" =>
              /\ PostState(q) => Happened(q)
              /\ Happened(q) => IF q \in Approvals THEN record.status = "published" ELSE q \in record.restriction

TruthInv ==
    /\ \A q \in Requests : audit[q].status \in {"finalization_pending", "completed"} =>
          Truth(q, audit[q].result, audit[q].after)
    /\ record.marker # NoMarker => Truth(record.marker.op, record.marker.result, record.marker.after)

AuditInv == ReportInv /\ WaitInv /\ LostInv /\ IntentInv /\ TruthInv
-----------------------------------------------------------------------------
(* Steps of one request, by the fields of its record.                      *)

Others(q) == \A p \in Requests \ {q} : req'[p] = req[p]

Moved(q, pc, held, result) ==
    /\ ReqTyped'
    /\ req'[q].pc = pc /\ req'[q].held = held /\ req'[q].result = result
    /\ Others(q)

LEMMA UnderActive ==
    ASSUME ReqTyped, NEW q \in Requests
    PROVE  /\ Under(q) => req[q] \in Active
           /\ req[q].pc \in Steps \cup {"idle", "done", "dead"}
BY DEF ReqTyped, Under, Steps, Resting, Active

LEMMA MovesTo ==
    ASSUME ReqTyped, NEW q \in Requests, Under(q), NEW rec \in Active, req' = [req EXCEPT ![q] = rec]
    PROVE  Moved(q, rec.pc, rec.held, rec.result)
BY DEF ReqTyped, Moved, Others

LEMMA GotoMoves ==
    ASSUME ReqTyped, NEW q \in Requests, Under(q), NEW pc \in Steps, Goto(q, pc)
    PROVE  Moved(q, pc, req[q].held, req[q].result)
<1>. DEFINE rec == [req[q] EXCEPT !.pc = pc]
<1>1. req[q] \in Active
  BY UnderActive
<1>2. rec \in Active /\ rec.pc = pc /\ rec.held = req[q].held /\ rec.result = req[q].result
  BY <1>1 DEF Active
<1>3. req' = [req EXCEPT ![q] = rec]
  BY DEF Goto, ReqTyped
<1>. HIDE DEF rec
<1>. QED BY <1>2, <1>3, MovesTo

LEMMA FailMoves ==
    ASSUME ReqTyped, NEW q \in Requests, Under(q), NEW pc \in Steps, NEW result \in Result, Fail(q, result, pc)
    PROVE  Moved(q, pc, req[q].held, result)
<1>. DEFINE rec == [req[q] EXCEPT !.pc = pc, !.result = result]
<1>1. req[q] \in Active
  BY UnderActive
<1>2. rec \in Active /\ rec.pc = pc /\ rec.held = req[q].held /\ rec.result = result
  BY <1>1 DEF Active
<1>3. req' = [req EXCEPT ![q] = rec]
  BY DEF Fail, ReqTyped
<1>. HIDE DEF rec
<1>. QED BY <1>2, <1>3, MovesTo

(* What is stored, and the request goes on from it. *)
Replaced(rec) == record' = [rec EXCEPT !.revision = @ + 1]

LEMMA PutStores == ASSUME NEW rec \in RecordSet, Put(rec) PROVE Replaced(rec) /\ record' \in RecordSet
  BY DEF Put, Replaced, RecordSet, Revision

LEMMA StoreMoves ==
    ASSUME ReqTyped, NEW q \in Requests, Under(q), NEW pc \in Steps, NEW rec \in RecordSet, Store(q, rec, pc)
    PROVE  Replaced(rec) /\ record' \in RecordSet /\ Moved(q, pc, record', req[q].result)
<1>1. Replaced(rec) /\ record' \in RecordSet
  BY PutStores DEF Store
<1>. DEFINE new == [req[q] EXCEPT !.pc = pc, !.held = record']
<1>2. req[q] \in Active
  BY UnderActive
<1>3. new \in Active /\ new.pc = pc /\ new.held = record' /\ new.result = req[q].result
  BY <1>1, <1>2 DEF Active
<1>4. req' = [req EXCEPT ![q] = new]
  BY DEF Store, ReqTyped
<1>. HIDE DEF new
<1>. QED BY <1>1, <1>3, <1>4, MovesTo

LEMMA EndMoves ==
    ASSUME ReqTyped, NEW q \in Requests, NEW pc \in {"done", "dead"}, End(q, pc)
    PROVE  ReqTyped' /\ req'[q].pc = pc /\ Others(q)
<1>1. [pc |-> pc] \in Resting
  BY DEF Resting
<1>. QED BY <1>1 DEF End, ReqTyped, Others

LEMMA WriteMoves ==
    ASSUME ReqTyped, NEW q \in Requests, Under(q), NEW next \in Steps, NEW onFailure \in Steps,
           NEW rec \in RecordSet, Write(q, rec, next, onFailure), faults \in 0..MaxFaults
    PROVE  /\ faults' \in 0..MaxFaults
           /\ \/ Holds(q) /\ Replaced(rec) /\ record' \in RecordSet /\ Moved(q, next, record', req[q].result)
              \/ Holds(q) /\ Replaced(rec) /\ record' \in RecordSet /\ Moved(q, onFailure, req[q].held, "failed")
              \/ /\ record' = record
                 /\ \E result \in {"refused", "failed"} : Moved(q, onFailure, req[q].held, result)
<1>1. faults' \in 0..MaxFaults
  BY ConstantAssumption DEF Write, Fault
<1>2. CASE Holds(q) /\ Store(q, rec, next)
  BY <1>1, <1>2, StoreMoves
<1>3. CASE UNCHANGED record /\ Fail(q, "refused", onFailure)
  BY <1>1, <1>3, FailMoves DEF Result
<1>4. CASE UNCHANGED record /\ Fail(q, "failed", onFailure)
  BY <1>1, <1>4, FailMoves DEF Result
<1>5. CASE Holds(q) /\ Put(rec) /\ Fail(q, "failed", onFailure)
  BY <1>1, <1>5, PutStores, FailMoves DEF Result
<1>. QED BY <1>2, <1>3, <1>4, <1>5 DEF Write
-----------------------------------------------------------------------------
(* What each action does to the record, by its fields.                     *)

Base == Types /\ HeldInv /\ ActiveInv

Newer == record' \in RecordSet /\ record'.revision = record.revision + 1

Opens(a) ==
    /\ Newer
    /\ record'.status = "approval_pending" /\ record'.restriction = {}
    /\ record'.approval = a /\ record'.intent = a /\ record'.active = NoOp /\ record'.marker = NoMarker
Stages(a) ==
    /\ Newer
    /\ record'.status = "approved" /\ record'.marker = NoMarker
    /\ record'.approval = record.approval /\ record'.intent = record.intent
    /\ record'.active = record.active /\ record'.restriction = record.restriction
Publishes(a) ==
    /\ Newer
    /\ record'.status = "published" /\ record'.marker = NoMarker /\ record'.active = a
    /\ record'.approval = record.approval /\ record'.intent = record.intent
    /\ record'.restriction = record.restriction
Denies(o) ==
    /\ Newer
    /\ record'.status = "restricted" /\ record'.marker = NoMarker /\ record'.intent = o
    /\ record'.restriction = record.restriction \cup {o}
    /\ record'.approval = record.approval /\ record'.active = record.active
Marks ==
    /\ Newer
    /\ record'.status = "reconciliation_required" /\ record'.marker = NoMarker
    /\ record'.approval = record.approval /\ record'.intent = record.intent
    /\ record'.active = record.active /\ record'.restriction = record.restriction
Puts(q, result, after) ==
    /\ Newer
    /\ record'.status = "reconciliation_required" /\ record'.intent = q
    /\ record'.marker = [op |-> q, result |-> result, after |-> after, resume |-> record.status]
    /\ record'.approval = record.approval /\ record'.active = record.active
    /\ record'.restriction = record.restriction
Lifts ==
    /\ Newer
    /\ record.marker # NoMarker /\ record'.status = record.marker.resume /\ record'.marker = NoMarker
    /\ record'.approval = record.approval /\ record'.intent = record.intent
    /\ record'.active = record.active /\ record'.restriction = record.restriction

LEMMA Values == ASSUME NEW rec \in RecordSet PROVE Value(rec) \in ValueSet
  BY DEF Value, ValueSet, RecordSet

LEMMA OpHeld ==
    ASSUME Base, NEW q \in Requests, Under(q)
    PROVE  req[q].held \in RecordSet /\ (Holds(q) => req[q].held = record) /\ req[q].held.marker = NoMarker
BY UnderActive DEF Base, Types, HeldInv, Labelled, Holds, Active

LEMMA NoMarkerIn == NoMarker \in MarkerSet /\ \A q \in Requests : NoMarker.op # q
  BY ConstantAssumption DEF NoMarker, MarkerSet, Requests

LEMMA OpenEffect ==
    ASSUME Base, NEW a \in Approvals, Open(a)
    PROVE  /\ faults' \in 0..MaxFaults
           /\ \/ Holds(a) /\ Opens(a) /\ Moved(a, "stage", record', req[a].result)
              \/ Holds(a) /\ Opens(a) /\ Moved(a, "finish", req[a].held, "failed")
              \/ record' = record /\ \E result \in {"refused", "failed"} : Moved(a, "finish", req[a].held, result)
<1>. DEFINE rec == Opened(req[a].held, a)
<1>1. a \in Requests /\ Under(a)
  BY DEF Open, Under, Steps, Requests
<1>2. req[a].held \in RecordSet
  BY <1>1, OpHeld
<1>3. rec \in RecordSet
  BY <1>2, <1>1, NoMarkerIn DEF Opened, RecordSet, Status
<1>4. /\ rec.status = "approval_pending" /\ rec.restriction = {} /\ rec.approval = a /\ rec.intent = a
      /\ rec.active = NoOp /\ rec.marker = NoMarker /\ rec.revision = req[a].held.revision
  BY <1>2 DEF Opened, RecordSet
<1>5. Write(a, rec, "stage", "finish")
  BY DEF Open
<1>. HIDE DEF rec
<1>6. Holds(a) /\ Replaced(rec) /\ record' \in RecordSet => Opens(a)
  BY <1>3, <1>4 DEF Holds, Replaced, Opens, Newer, RecordSet
<1>. QED BY <1>1, <1>3, <1>5, <1>6, WriteMoves DEF Base, Types, Steps

LEMMA StageEffect ==
    ASSUME Base, NEW a \in Approvals, Stage(a)
    PROVE  /\ faults' \in 0..MaxFaults
           /\ \/ Holds(a) /\ Stages(a) /\ Moved(a, "commit", record', req[a].result)
              \/ Holds(a) /\ Stages(a) /\ Moved(a, "mark", req[a].held, "failed")
              \/ record' = record /\ \E result \in {"refused", "failed"} : Moved(a, "mark", req[a].held, result)
<1>. DEFINE rec == [req[a].held EXCEPT !.status = "approved", !.staged = a]
<1>1. a \in Requests /\ Under(a)
  BY DEF Stage, Under, Steps, Requests
<1>2. /\ req[a].held \in RecordSet /\ req[a].held.marker = NoMarker
      /\ Holds(a) => req[a].held = record
  BY <1>1, OpHeld
<1>3. rec \in RecordSet
  BY <1>2 DEF RecordSet, Status
<1>4. /\ rec.status = "approved" /\ rec.marker = NoMarker /\ rec.revision = req[a].held.revision
      /\ rec.approval = req[a].held.approval /\ rec.intent = req[a].held.intent
      /\ rec.active = req[a].held.active /\ rec.restriction = req[a].held.restriction
  BY <1>2 DEF RecordSet
<1>5. Write(a, rec, "commit", "mark")
  BY DEF Stage
<1>. HIDE DEF rec
<1>6. Holds(a) /\ Replaced(rec) /\ record' \in RecordSet => Stages(a)
  BY <1>2, <1>3, <1>4 DEF Replaced, Stages, Newer, RecordSet
<1>. QED BY <1>1, <1>3, <1>5, <1>6, WriteMoves DEF Base, Types, Steps

LEMMA PublishEffect ==
    ASSUME Base, NEW a \in Approvals, Publish(a)
    PROVE  /\ faults' \in 0..MaxFaults
           /\ \/ /\ Holds(a) /\ Publishes(a) /\ Moved(a, "finish", record', req[a].result)
                 /\ effects' = Append(effects, a) /\ blind' \in {blind, blind \cup {a}}
              \/ /\ Holds(a) /\ Publishes(a) /\ Moved(a, "mark", req[a].held, "failed")
                 /\ effects' = Append(effects, a) /\ blind' = blind \cup {a}
              \/ /\ record' = record /\ effects' = effects /\ blind' = blind
                 /\ \E result \in {"refused", "failed"} : Moved(a, "mark", req[a].held, result)
<1>. DEFINE rec == [req[a].held EXCEPT !.status = "published", !.active = a]
<1>1. a \in Requests /\ Under(a)
  BY DEF Publish, Under, Steps, Requests
<1>2. /\ req[a].held \in RecordSet /\ req[a].held.marker = NoMarker
      /\ Holds(a) => req[a].held = record
  BY <1>1, OpHeld
<1>3. rec \in RecordSet
  BY <1>2 DEF RecordSet, Status
<1>4. /\ rec.status = "published" /\ rec.marker = NoMarker /\ rec.revision = req[a].held.revision
      /\ rec.approval = req[a].held.approval /\ rec.intent = req[a].held.intent
      /\ rec.active = a /\ rec.restriction = req[a].held.restriction
  BY <1>2 DEF RecordSet
<1>5. Write(a, rec, "finish", "mark") /\ TakesEffect(a)
  BY DEF Publish
<1>. HIDE DEF rec
<1>6. Holds(a) /\ Replaced(rec) /\ record' \in RecordSet => Publishes(a)
  BY <1>2, <1>3, <1>4 DEF Replaced, Publishes, Newer, RecordSet
<1>7. Publishes(a) => record' # record
  BY DEF Publishes, Newer, Base, Types, RecordSet, Revision
<1>8. /\ faults' \in 0..MaxFaults
      /\ \/ Holds(a) /\ Replaced(rec) /\ record' \in RecordSet /\ Moved(a, "finish", record', req[a].result)
         \/ Holds(a) /\ Replaced(rec) /\ record' \in RecordSet /\ Moved(a, "mark", req[a].held, "failed")
         \/ /\ record' = record
            /\ \E result \in {"refused", "failed"} : Moved(a, "mark", req[a].held, result)
  BY <1>1, <1>3, <1>5, WriteMoves DEF Base, Types, Steps
<1>9. Holds(a) /\ Publishes(a) => req[a].held # record'
  BY <1>2, <1>7
<1>. QED BY <1>5, <1>6, <1>7, <1>8, <1>9 DEF TakesEffect, Moved

LEMMA DenyEffect ==
    ASSUME Base, NEW o \in Restrictions, Deny(o)
    PROVE  /\ faults' \in 0..MaxFaults
           /\ \/ /\ Holds(o) /\ Denies(o) /\ Moved(o, "deny_committed", record', req[o].result)
                 /\ effects' = Append(effects, o) /\ blind' \in {blind, blind \cup {o}}
              \/ /\ Holds(o) /\ Denies(o) /\ Moved(o, "abandon", req[o].held, "failed")
                 /\ effects' = Append(effects, o) /\ blind' = blind \cup {o}
              \/ /\ record' = record /\ effects' = effects /\ blind' = blind
                 /\ \E result \in {"refused", "failed"} : Moved(o, "abandon", req[o].held, result)
<1>. DEFINE rec == Restricted(req[o].held, o)
<1>1. o \in Requests /\ Under(o)
  BY DEF Deny, Under, Steps, Requests
<1>2. /\ req[o].held \in RecordSet /\ req[o].held.marker = NoMarker
      /\ Holds(o) => req[o].held = record
  BY <1>1, OpHeld
<1>3. rec \in RecordSet
  BY <1>2, <1>1, NoMarkerIn DEF RecordSet, Status, Restricted
<1>4. /\ rec.status = "restricted" /\ rec.marker = NoMarker /\ rec.revision = req[o].held.revision
      /\ rec.approval = req[o].held.approval /\ rec.intent = o
      /\ rec.active = req[o].held.active /\ rec.restriction = req[o].held.restriction \cup {o}
  BY <1>2 DEF RecordSet, Restricted
<1>5. Write(o, rec, "deny_committed", "abandon") /\ TakesEffect(o)
  BY DEF Deny
<1>. HIDE DEF rec
<1>6. Holds(o) /\ Replaced(rec) /\ record' \in RecordSet => Denies(o)
  BY <1>2, <1>3, <1>4 DEF Replaced, Denies, Newer, RecordSet
<1>7. Denies(o) => record' # record
  BY DEF Denies, Newer, Base, Types, RecordSet, Revision
<1>8. /\ faults' \in 0..MaxFaults
      /\ \/ Holds(o) /\ Replaced(rec) /\ record' \in RecordSet /\ Moved(o, "deny_committed", record', req[o].result)
         \/ Holds(o) /\ Replaced(rec) /\ record' \in RecordSet /\ Moved(o, "abandon", req[o].held, "failed")
         \/ /\ record' = record
            /\ \E result \in {"refused", "failed"} : Moved(o, "abandon", req[o].held, result)
  BY <1>1, <1>3, <1>5, WriteMoves DEF Base, Types, Steps
<1>9. Holds(o) /\ Denies(o) => req[o].held # record'
  BY <1>2, <1>7
<1>. QED BY <1>5, <1>6, <1>7, <1>8, <1>9 DEF TakesEffect, Moved

LEMMA MarkEffect ==
    ASSUME Base, NEW q \in Requests, Mark(q)
    PROVE  /\ faults' \in 0..MaxFaults
           /\ \/ Holds(q) /\ Marks /\ Moved(q, "finish", record', req[q].result)
              \/ Holds(q) /\ Marks /\ Moved(q, "finish", req[q].held, req[q].result)
              \/ record' = record /\ Moved(q, "finish", req[q].held, req[q].result)
<1>. DEFINE rec == [req[q].held EXCEPT !.status = "reconciliation_required"]
<1>1. Under(q)
  BY DEF Mark, Under, Steps
<1>2. /\ req[q].held \in RecordSet /\ req[q].held.marker = NoMarker
      /\ Holds(q) => req[q].held = record
  BY <1>1, OpHeld
<1>3. rec \in RecordSet
  BY <1>2 DEF RecordSet, Status
<1>4. /\ rec.status = "reconciliation_required" /\ rec.marker = NoMarker /\ rec.revision = req[q].held.revision
      /\ rec.approval = req[q].held.approval /\ rec.intent = req[q].held.intent
      /\ rec.active = req[q].held.active /\ rec.restriction = req[q].held.restriction
  BY <1>2 DEF RecordSet
<1>5. \/ Holds(q) /\ Store(q, rec, "finish")
      \/ Goto(q, "finish") /\ UNCHANGED record
      \/ Goto(q, "finish") /\ Holds(q) /\ Put(rec)
  BY DEF Mark
<1>. HIDE DEF rec
<1>6. Holds(q) /\ Replaced(rec) /\ record' \in RecordSet => Marks
  BY <1>2, <1>3, <1>4 DEF Replaced, Marks, Newer, RecordSet
<1>7. "finish" \in Steps /\ ReqTyped
  BY DEF Steps, Base, Types
<1>8. faults' \in 0..MaxFaults
  BY ConstantAssumption DEF Mark, Fault, Base, Types
<1>9. CASE Holds(q) /\ Store(q, rec, "finish")
  BY <1>1, <1>3, <1>6, <1>7, <1>8, <1>9, StoreMoves
<1>10. CASE Goto(q, "finish") /\ UNCHANGED record
  BY <1>1, <1>7, <1>8, <1>10, GotoMoves
<1>11. CASE Goto(q, "finish") /\ Holds(q) /\ Put(rec)
  BY <1>1, <1>3, <1>6, <1>7, <1>8, <1>11, PutStores, GotoMoves
<1>. QED BY <1>5, <1>9, <1>10, <1>11

LEMMA HoldEffect ==
    ASSUME Base, NEW q \in Requests, Hold(q)
    PROVE  /\ faults' \in 0..MaxFaults
           /\ \/ Holds(q) /\ Puts(q, req[q].result, Value(req[q].held))
              \/ record' = record
           /\ ReqTyped' /\ req'[q].pc = "done" /\ Others(q)
<1>1. Under(q)
  BY DEF Hold, Under, Steps
<1>2. /\ req[q].held \in RecordSet /\ (Holds(q) => req[q].held = record) /\ req[q].result \in Result
  BY <1>1, OpHeld, UnderActive DEF Base, Types, Active
<1>. DEFINE marker == [op |-> q, result |-> req[q].result, after |-> Value(req[q].held), resume |-> req[q].held.status]
<1>3. marker \in MarkerSet
  BY <1>2, Values DEF MarkerSet, RecordSet
<1>4. Held(q) = [req[q].held EXCEPT !.status = "reconciliation_required", !.intent = q, !.marker = marker]
  BY DEF Held
<1>5. marker.resume = req[q].held.status /\ (Holds(q) => marker.resume = record.status)
  BY <1>2
<1>6. Holds(q) => marker = [op |-> q, result |-> req[q].result, after |-> Value(req[q].held), resume |-> record.status]
  BY <1>2
<1>. HIDE DEF marker
<1>7. Held(q) \in RecordSet
  BY <1>2, <1>3, <1>4 DEF RecordSet, Status
<1>8. /\ Held(q).status = "reconciliation_required" /\ Held(q).marker = marker /\ Held(q).intent = q
      /\ Held(q).revision = req[q].held.revision /\ Held(q).approval = req[q].held.approval
      /\ Held(q).active = req[q].held.active /\ Held(q).restriction = req[q].held.restriction
  BY <1>2, <1>4 DEF RecordSet
<1>9. Holds(q) /\ Put(Held(q)) => Puts(q, req[q].result, Value(req[q].held))
  <2>. SUFFICES ASSUME Holds(q), record' = [Held(q) EXCEPT !.revision = @ + 1]
                PROVE  Puts(q, req[q].result, Value(req[q].held))
    BY DEF Put
  <2>1. Newer
    BY <1>2, <1>7, <1>8 DEF Newer, RecordSet, Revision
  <2>2. /\ record'.status = "reconciliation_required" /\ record'.marker = marker /\ record'.intent = q
        /\ record'.approval = record.approval /\ record'.active = record.active
        /\ record'.restriction = record.restriction
    BY <1>2, <1>7, <1>8 DEF RecordSet
  <2>. QED BY <1>6, <2>1, <2>2 DEF Puts
<1>10. faults' \in 0..MaxFaults
  BY ConstantAssumption DEF Hold, Fault, Base, Types
<1>11. ReqTyped' /\ req'[q].pc = "done" /\ Others(q)
  BY EndMoves DEF Hold, Base, Types
<1>. QED BY <1>9, <1>10, <1>11 DEF Hold

LEMMA Relabelled ==
    ASSUME NEW rec \in RecordSet, NEW status \in Status, NEW marker \in MarkerSet
    PROVE  [rec EXCEPT !.status = status, !.revision = @ + 1, !.marker = marker] \in RecordSet
<1>. DEFINE one == [rec EXCEPT !.status = status]
            two == [one EXCEPT !.revision = rec.revision + 1]
<1>1. one \in RecordSet /\ rec.revision + 1 \in Revision
  BY DEF RecordSet, Revision
<1>. HIDE DEF one
<1>2. two \in RecordSet
  BY <1>1 DEF RecordSet
<1>. HIDE DEF two
<1>3. [two EXCEPT !.marker = marker] \in RecordSet
  BY <1>2 DEF RecordSet
<1>. QED BY <1>3 DEF one, two

LEMMA RestoreEffect ==
    ASSUME Base, RestoreMarker
    PROVE  Lifts
<1>1. record \in RecordSet /\ record.marker \in MarkerSet /\ record.marker # NoMarker
  BY DEF Base, Types, RestoreMarker, RecordSet
<1>2. record.marker.resume \in Status
  BY <1>1 DEF MarkerSet
<1>3. record' = [record EXCEPT !.status = record.marker.resume, !.revision = @ + 1, !.marker = NoMarker]
  BY DEF RestoreMarker
<1>4. Newer
  <2>1. record' \in RecordSet
    BY <1>1, <1>2, <1>3, NoMarkerIn, Relabelled
  <2>2. record'.revision = record.revision + 1
    BY <1>1, <1>3 DEF RecordSet
  <2>. QED BY <2>1, <2>2 DEF Newer
<1>5. /\ record'.status = record.marker.resume /\ record'.marker = NoMarker
      /\ record'.approval = record.approval /\ record'.intent = record.intent
      /\ record'.active = record.active /\ record'.restriction = record.restriction
  BY <1>1, <1>3 DEF RecordSet
<1>. QED BY <1>1, <1>4, <1>5 DEF Lifts
-----------------------------------------------------------------------------
(* What the other actions do.                                              *)

LEMMA BeginEffect ==
    ASSUME Base, NEW q \in Requests, Begin(q)
    PROVE  /\ UNCHANGED <<record, pointer, repair, manifest, effects>> /\ faults' \in 0..MaxFaults
           /\ req[q].pc = "idle"
           /\ \/ /\ Settled /\ Moved(q, "check", record, "success")
                 /\ audit' = [audit EXCEPT ![q] = [status |-> "pending", before |-> Value(record)]]
              \/ audit' = audit /\ ReqTyped' /\ req'[q].pc = "done" /\ Others(q)
<1>1. UNCHANGED <<record, pointer, repair, manifest, effects>> /\ req[q].pc = "idle"
  BY DEF Begin, cleanup, history
<1>2. faults' \in 0..MaxFaults
  BY ConstantAssumption DEF Begin, Fault, Base, Types
<1>3. CASE /\ Settled
           /\ audit' = [audit EXCEPT ![q] = [status |-> "pending", before |-> Value(record)]]
           /\ req' = [req EXCEPT ![q] = [pc |-> "check", held |-> record, result |-> "success"]]
  <2>. DEFINE rec == [pc |-> "check", held |-> record, result |-> "success"]
  <2>1. rec \in Active /\ rec.pc = "check" /\ rec.held = record /\ rec.result = "success"
    BY DEF Active, Steps, Result, Base, Types
  <2>. HIDE DEF rec
  <2>2. req' = [req EXCEPT ![q] = rec]
    BY <1>3 DEF rec
  <2>3. Moved(q, "check", record, "success")
    BY <2>1, <2>2 DEF Moved, Others, ReqTyped, Base, Types
  <2>. QED BY <1>1, <1>2, <1>3, <2>3
<1>4. CASE End(q, "done") /\ UNCHANGED audit
  BY <1>1, <1>2, <1>4, EndMoves DEF Base, Types
<1>. QED BY <1>3, <1>4 DEF Begin

LEMMA CheckEffect ==
    ASSUME Base, NEW q \in Requests, Check(q)
    PROVE  /\ UNCHANGED <<record, pointer, audit, repair, manifest, effects, faults>>
           /\ req[q].pc = "check"
           /\ \/ q \in Approvals /\ MayApprove(req[q].held) /\ Moved(q, "open", req[q].held, req[q].result)
              \/ q \in Restrictions /\ MayRestrict(req[q].held) /\ Moved(q, "prepare", req[q].held, req[q].result)
              \/ Moved(q, "finish", req[q].held, "refused")
<1>1. UNCHANGED <<record, pointer, audit, repair, manifest, effects, faults>> /\ req[q].pc = "check" /\ Under(q)
  BY DEF Check, cleanup, history, Under, Steps
<1>2. ReqTyped /\ {"open", "prepare", "finish"} \subseteq Steps /\ "refused" \in Result
  BY DEF Base, Types, Steps, Result
<1>3. CASE q \in Approvals /\ MayApprove(req[q].held) /\ Goto(q, "open")
  BY <1>1, <1>2, <1>3, GotoMoves
<1>4. CASE q \in Restrictions /\ MayRestrict(req[q].held) /\ Goto(q, "prepare")
  BY <1>1, <1>2, <1>4, GotoMoves
<1>5. CASE Fail(q, "refused", "finish")
  BY <1>1, <1>2, <1>5, FailMoves
<1>. QED BY <1>3, <1>4, <1>5 DEF Check, Requests

LEMMA CommitEffect ==
    ASSUME Base, NEW a \in Approvals, Commit(a)
    PROVE  /\ UNCHANGED <<record, audit, repair, manifest, effects>> /\ faults' \in 0..MaxFaults
           /\ pointer' \in {pointer, a} /\ req[a].pc = "commit"
           /\ \/ Moved(a, "publish", req[a].held, req[a].result)
              \/ \E result \in {"refused", "failed"} : Moved(a, "mark", req[a].held, result)
<1>1. UNCHANGED <<record, audit, repair, manifest, effects>> /\ a \in Requests /\ Under(a) /\ req[a].pc = "commit"
  BY DEF Commit, cleanup, history, Under, Steps, Requests
<1>2. faults' \in 0..MaxFaults /\ pointer' \in {pointer, a}
  BY ConstantAssumption DEF Commit, Fault, Base, Types
<1>3. ReqTyped /\ {"publish", "mark"} \subseteq Steps /\ {"refused", "failed"} \subseteq Result
  BY DEF Base, Types, Steps, Result
<1>4. CASE Goto(a, "publish")
  BY <1>1, <1>2, <1>3, <1>4, GotoMoves
<1>5. CASE \E result \in {"refused", "failed"} : Fail(a, result, "mark")
  BY <1>1, <1>2, <1>3, <1>5, FailMoves
<1>. QED BY <1>4, <1>5 DEF Commit

LEMMA Transits ==
    ASSUME RepairTyped, NEW o \in Restrictions, NEW from \in SUBSET Owing, NEW to \in Owing \cup Closed,
           Transition(o, from, to)
    PROVE  /\ RepairTyped'
           /\ \A p \in Restrictions \ {o} : repair'[p] = repair[p]
           /\ \/ repair' = repair
              \/ repair[o].status \in from /\ repair'[o].status = to
<1>1. CASE repair' = repair
  BY <1>1 DEF RepairTyped
<1>2. CASE repair[o].status \in from /\ repair' = [repair EXCEPT ![o].status = to]
  <2>. DEFINE rec == [repair[o] EXCEPT !.status = to]
  <2>1. repair[o] \in [status : Owing \cup Closed, deny : Revision]
    BY <1>2 DEF RepairTyped, RepairRecord, Owing
  <2>2. rec \in RepairRecord /\ rec.status = to
    BY <2>1 DEF RepairRecord
  <2>3. repair' = [repair EXCEPT ![o] = rec]
    BY <1>2 DEF RepairTyped
  <2>. HIDE DEF rec
  <2>. QED BY <1>2, <2>2, <2>3 DEF RepairTyped
<1>. QED BY <1>1, <1>2 DEF Transition

(* The repair intent of a restriction only moves on; once closed it stays. *)
RepairMoves ==
    /\ RepairTyped'
    /\ \A p \in Restrictions :
          /\ repair[p].status # "none" => repair'[p].status # "none"
          /\ repair[p].status \in Closed => repair'[p].status \in Closed \/ req[p].pc = "prepare"

LEMMA TransitMoves ==
    ASSUME RepairTyped, NEW o \in Restrictions, NEW from \in SUBSET Owing, NEW to \in Owing \cup Closed,
           Transition(o, from, to)
    PROVE  RepairMoves
<1>1. Owing \cap Closed = {} /\ "none" \notin Owing \cup Closed
  BY DEF Owing, Closed
<1>. QED BY <1>1, Transits DEF RepairMoves

LEMMA SameRepair == ASSUME RepairTyped, repair' = repair PROVE RepairMoves
  BY DEF RepairMoves, RepairTyped

LEMMA PrepareEffect ==
    ASSUME Base, NEW o \in Restrictions, Prepare(o)
    PROVE  /\ UNCHANGED <<record, pointer, audit, manifest, effects>> /\ faults' \in 0..MaxFaults
           /\ req[o].pc = "prepare"
           /\ RepairMoves /\ \A p \in Restrictions \ {o} : repair'[p] = repair[p]
           /\ \/ repair'[o].status = "prepared" /\ Moved(o, "deny", req[o].held, req[o].result)
              \/ repair' = repair /\ Moved(o, "finish", req[o].held, "failed")
<1>1. UNCHANGED <<record, pointer, audit, manifest, effects>> /\ o \in Requests /\ Under(o) /\ req[o].pc = "prepare"
  BY DEF Prepare, history, Under, Steps, Requests
<1>2. faults' \in 0..MaxFaults
  BY ConstantAssumption DEF Prepare, Fault, Base, Types
<1>3. ReqTyped /\ RepairTyped /\ {"deny", "finish"} \subseteq Steps /\ "failed" \in Result
  BY DEF Base, Types, Steps, Result
<1>4. CASE /\ repair' = [repair EXCEPT ![o] = [status |-> "prepared", deny |-> req[o].held.revision + 1]]
           /\ Goto(o, "deny")
  <2>. DEFINE rec == [status |-> "prepared", deny |-> req[o].held.revision + 1]
  <2>1. req[o].held.revision \in Revision
    BY <1>1, OpHeld DEF RecordSet
  <2>2. rec \in RepairRecord /\ rec.status = "prepared"
    BY <2>1 DEF RepairRecord, Owing, Revision
  <2>. HIDE DEF rec
  <2>3. repair' = [repair EXCEPT ![o] = rec]
    BY <1>4 DEF rec
  <2>4. RepairMoves /\ repair'[o].status = "prepared" /\ \A p \in Restrictions \ {o} : repair'[p] = repair[p]
    BY <1>1, <1>3, <2>2, <2>3 DEF RepairTyped, RepairMoves
  <2>5. Moved(o, "deny", req[o].held, req[o].result)
    BY <1>1, <1>3, <1>4, GotoMoves
  <2>. QED BY <1>1, <1>2, <2>4, <2>5
<1>5. CASE Fail(o, "failed", "finish") /\ UNCHANGED repair
  BY <1>1, <1>2, <1>3, <1>5, FailMoves, SameRepair
<1>. QED BY <1>4, <1>5 DEF Prepare

(* The rest of a restriction, and the batches: intents and manifests.      *)
LEMMA RepairEffect ==
    ASSUME Base, NEW o \in Restrictions,
           Abandon(o) \/ MarkDeny(o) \/ Register(o) \/ MarkRegistered(o) \/ Repair(o) \/ Clean(o)
    PROVE  /\ UNCHANGED <<record, pointer, audit, effects>> /\ faults' \in 0..MaxFaults
           /\ RepairMoves /\ ManifestTyped'
<1>1. UNCHANGED <<record, pointer, audit, effects>> /\ faults' \in 0..MaxFaults
  BY ConstantAssumption
  DEF Abandon, MarkDeny, Register, MarkRegistered, Repair, Clean, history, Fault, Base, Types
<1>2. ManifestTyped'
  BY DEF Abandon, MarkDeny, Register, MarkRegistered, Repair, Clean, ManifestTyped, Base, Types
<1>3. /\ {"prepared"} \in SUBSET Owing /\ {"deny_committed"} \in SUBSET Owing
      /\ {"prepared", "deny_committed"} \in SUBSET Owing /\ {"deny_committed", "cleanup_registered"} \in SUBSET Owing
      /\ {"deny_committed", "cleanup_registered", "cleanup_completed", "abandoned"} \subseteq Owing \cup Closed
  BY DEF Owing, Closed
<1>4. RepairTyped
  BY DEF Base, Types
<1>5. \/ repair' = repair
      \/ Transition(o, {"prepared", "deny_committed"}, "abandoned")
      \/ Transition(o, {"prepared"}, "deny_committed")
      \/ Transition(o, {"deny_committed"}, "cleanup_registered")
      \/ Transition(o, {"prepared", "deny_committed"}, "cleanup_registered")
      \/ Transition(o, {"deny_committed"}, "abandoned")
      \/ Transition(o, {"deny_committed", "cleanup_registered"}, "cleanup_completed")
  BY DEF Abandon, MarkDeny, Register, MarkRegistered, Repair, Clean
<1>. QED BY <1>1, <1>2, <1>3, <1>4, <1>5, TransitMoves, SameRepair
LEMMA RestrictionMoves ==
    ASSUME Base, NEW o \in Restrictions, Abandon(o) \/ MarkDeny(o) \/ Register(o) \/ MarkRegistered(o)
    PROVE  \/ req[o].pc = "abandon" /\ Moved(o, "finish", req[o].held, req[o].result)
           \/ req[o].pc = "deny_committed" /\ Moved(o, "register", req[o].held, req[o].result)
           \/ req[o].pc = "register" /\ Moved(o, "registered", req[o].held, req[o].result)
           \/ req[o].pc = "registered" /\ Moved(o, "finish", req[o].held, req[o].result)
           \/ /\ req[o].pc \in {"deny_committed", "register", "registered"}
              /\ Moved(o, "mark", req[o].held, "failed")
<1>1. o \in Requests /\ Under(o)
  BY DEF Abandon, MarkDeny, Register, MarkRegistered, Under, Steps, Requests
<1>2. ReqTyped /\ {"finish", "register", "registered", "mark"} \subseteq Steps /\ "failed" \in Result
  BY DEF Base, Types, Steps, Result
<1>3. \/ req[o].pc = "abandon" /\ Goto(o, "finish")
      \/ req[o].pc = "deny_committed" /\ Goto(o, "register")
      \/ req[o].pc = "register" /\ Goto(o, "registered")
      \/ req[o].pc = "registered" /\ Goto(o, "finish")
      \/ req[o].pc \in {"deny_committed", "register", "registered"} /\ Fail(o, "failed", "mark")
  BY DEF Abandon, MarkDeny, Register, MarkRegistered
<1>. QED BY <1>1, <1>2, <1>3, GotoMoves, FailMoves

LEMMA BatchMoves == ASSUME NEW o \in Restrictions, Repair(o) \/ Clean(o) PROVE req' = req
  BY DEF Repair, Clean

(* Of the audits only that of q changes. *)
AuditOf(q, rec) == audit' = [audit EXCEPT ![q] = rec]

LEMMA FinishEffect ==
    ASSUME Base, NEW q \in Requests, Finish(q)
    PROVE  /\ UNCHANGED <<record, pointer, repair, manifest, effects>> /\ faults' \in 0..MaxFaults
           /\ req[q].pc = "finish"
           /\ \/ /\ audit[q].status = "pending"
                 /\ AuditOf(q, [status |-> "finalization_pending", before |-> audit[q].before,
                                result |-> req[q].result, after |-> Value(req[q].held)])
                 /\ Moved(q, "complete", req[q].held, req[q].result)
              \/ /\ audit[q].status # "pending" /\ Requested(q, req[q].result, Value(req[q].held))
                 /\ audit' = audit /\ Moved(q, "complete", req[q].held, req[q].result)
              \/ audit' = audit /\ Moved(q, "hold", req[q].held, req[q].result)
<1>1. UNCHANGED <<record, pointer, repair, manifest, effects>> /\ Under(q) /\ req[q].pc = "finish"
  BY DEF Finish, cleanup, history, Under, Steps
<1>2. faults' \in 0..MaxFaults
  BY ConstantAssumption DEF Finish, Fault, Base, Types
<1>3. ReqTyped /\ AuditTyped /\ {"complete", "hold"} \subseteq Steps
  BY DEF Base, Types, Steps
<1>4. CASE /\ audit[q].status = "pending"
           /\ Request(q, req[q].result, Value(req[q].held))
           /\ Goto(q, "complete")
  <2>1. AuditOf(q, [status |-> "finalization_pending", before |-> audit[q].before,
                    result |-> req[q].result, after |-> Value(req[q].held)])
    BY <1>3, <1>4 DEF Request, AuditOf, AuditTyped
  <2>. QED BY <1>1, <1>2, <1>3, <1>4, <2>1, GotoMoves
<1>5. CASE Requested(q, req[q].result, Value(req[q].held)) /\ Goto(q, "complete") /\ UNCHANGED audit
  BY <1>1, <1>2, <1>3, <1>5, GotoMoves DEF Requested
<1>6. CASE Goto(q, "hold") /\ UNCHANGED audit
  BY <1>1, <1>2, <1>3, <1>6, GotoMoves
<1>. QED BY <1>4, <1>5, <1>6 DEF Finish

LEMMA CompletionEffect ==
    ASSUME Base, NEW q \in Requests, FinishCompletion(q)
    PROVE  /\ UNCHANGED <<record, pointer, repair, manifest, effects>> /\ faults' \in 0..MaxFaults
           /\ req[q].pc = "complete"
           /\ \/ /\ AuditOf(q, [audit[q] EXCEPT !.status = "completed"])
                 /\ ReqTyped' /\ req'[q].pc = "done" /\ Others(q)
              \/ audit' = audit /\ Moved(q, "hold", req[q].held, req[q].result)
<1>1. UNCHANGED <<record, pointer, repair, manifest, effects>> /\ Under(q) /\ req[q].pc = "complete"
  BY DEF FinishCompletion, cleanup, history, Under, Steps
<1>2. faults' \in 0..MaxFaults
  BY ConstantAssumption DEF FinishCompletion, Fault, Base, Types
<1>3. ReqTyped /\ AuditTyped /\ "hold" \in Steps
  BY DEF Base, Types, Steps
<1>4. CASE Complete(q) /\ End(q, "done")
  BY <1>1, <1>2, <1>3, <1>4, EndMoves DEF Complete, AuditOf, AuditTyped
<1>5. CASE Goto(q, "hold") /\ UNCHANGED audit
  BY <1>1, <1>2, <1>3, <1>5, GotoMoves
<1>. QED BY <1>4, <1>5 DEF FinishCompletion

LEMMA CrashEffect ==
    ASSUME Base, NEW q \in Requests, Crash(q)
    PROVE  /\ UNCHANGED <<record, pointer, audit, repair, manifest, effects>> /\ faults' \in 0..MaxFaults
           /\ ReqTyped' /\ req'[q].pc = "dead" /\ Others(q)
BY ConstantAssumption, EndMoves DEF Crash, cleanup, history, Fault, Base, Types

LEMMA ResolveEffect ==
    ASSUME Base, NEW q \in Requests, Resolve(q)
    PROVE  /\ UNCHANGED <<record, pointer, repair, manifest, req, effects, faults>> /\ Pending(q)
           /\ \E result \in Result, after \in ValueSet :
                 /\ Resolves(q, result, after)
                 /\ AuditOf(q, [status |-> "completed", before |-> audit[q].before, result |-> result, after |-> after])
<1>1. UNCHANGED <<record, pointer, repair, manifest, req, effects, faults>> /\ Pending(q)
  BY DEF Resolve, cleanup, history
<1>2. record \in RecordSet /\ AuditTyped
  BY DEF Base, Types
<1>3. Value(record) \in ValueSet /\ (record.marker # NoMarker => record.marker.after \in ValueSet)
  BY <1>2, Values DEF RecordSet, MarkerSet
<1>4. PICK result \in Result, after \in ValueSet :
          /\ Resolves(q, result, after)
          /\ audit' = [audit EXCEPT ![q] = [status |-> "completed", before |-> @.before,
                                            result |-> result, after |-> after]]
  BY <1>3 DEF Resolve
<1>. QED BY <1>1, <1>2, <1>4 DEF AuditOf, AuditTyped
-----------------------------------------------------------------------------
(* Types, and what requests hold.                                          *)

LEMMA EffectsGrow ==
    ASSUME EffectsTyped, NEW q \in Requests, effects' = Append(effects, q)
    PROVE  /\ EffectsTyped'
           /\ DOMAIN effects = 1..Len(effects) /\ DOMAIN effects' = 1..(Len(effects) + 1)
           /\ \A i \in DOMAIN effects : effects'[i] = effects[i]
           /\ effects'[Len(effects) + 1] = q
           /\ Len(effects) \in Nat
BY DEF EffectsTyped

LEMMA HappenedGrows ==
    ASSUME EffectsTyped, NEW q \in Requests, effects' = Append(effects, q)
    PROVE  \A p : Happened(p)' <=> Happened(p) \/ p = q
<1>1. DOMAIN effects' = DOMAIN effects \cup {Len(effects) + 1}
  BY EffectsGrow
<1>. QED BY <1>1, EffectsGrow DEF Happened

LEMMA AuditTypes ==
    ASSUME AuditTyped, NEW q \in Requests, NEW rec \in AuditRecord, AuditOf(q, rec)
    PROVE  AuditTyped' /\ audit'[q] = rec /\ \A p \in Requests \ {q} : audit'[p] = audit[p]
BY DEF AuditTyped, AuditOf

(* The records an audit goes through. *)
LEMMA BeginAudit ==
    ASSUME Base, NEW q \in Requests,
           audit' = [audit EXCEPT ![q] = [status |-> "pending", before |-> Value(record)]]
    PROVE  /\ AuditTyped' /\ \A p \in Requests \ {q} : audit'[p] = audit[p]
           /\ audit'[q].status = "pending" /\ audit'[q].before = Value(record)
<1>. DEFINE rec == [status |-> "pending", before |-> Value(record)]
<1>1. rec \in AuditRecord /\ rec.status = "pending" /\ rec.before = Value(record)
  BY Values DEF AuditRecord, Base, Types
<1>2. AuditOf(q, rec)
  BY DEF AuditOf
<1>. HIDE DEF rec
<1>. QED BY <1>1, <1>2, AuditTypes DEF Base, Types

LEMMA OutcomeAudit ==
    ASSUME Base, NEW q \in Requests, NEW status \in {"finalization_pending", "completed"},
           NEW result \in Result, NEW after \in ValueSet, audit[q].status # "none",
           AuditOf(q, [status |-> status, before |-> audit[q].before, result |-> result, after |-> after])
    PROVE  /\ AuditTyped' /\ \A p \in Requests \ {q} : audit'[p] = audit[p]
           /\ audit'[q].status = status /\ audit'[q].before = audit[q].before
           /\ audit'[q].result = result /\ audit'[q].after = after
<1>. DEFINE rec == [status |-> status, before |-> audit[q].before, result |-> result, after |-> after]
<1>1. audit[q].before \in ValueSet
  BY DEF Base, Types, AuditTyped, AuditRecord
<1>2. rec \in AuditRecord
  BY <1>1 DEF AuditRecord
<1>3. rec.status = status /\ rec.before = audit[q].before /\ rec.result = result /\ rec.after = after
  OBVIOUS
<1>. HIDE DEF rec
<1>4. AuditTyped
  BY DEF Base, Types
<1>5. AuditTyped' /\ audit'[q] = rec /\ \A p \in Requests \ {q} : audit'[p] = audit[p]
  BY <1>2, <1>4, AuditTypes DEF rec
<1>. QED BY <1>3, <1>5

LEMMA CompletedAudit ==
    ASSUME Base, NEW q \in Requests, audit[q].status \in {"finalization_pending", "completed"},
           AuditOf(q, [audit[q] EXCEPT !.status = "completed"])
    PROVE  /\ AuditTyped' /\ \A p \in Requests \ {q} : audit'[p] = audit[p]
           /\ audit'[q].status = "completed" /\ audit'[q].before = audit[q].before
           /\ audit'[q].result = audit[q].result /\ audit'[q].after = audit[q].after
<1>. DEFINE rec == [audit[q] EXCEPT !.status = "completed"]
<1>1. audit[q] \in [status : {"finalization_pending", "completed"}, before : ValueSet,
                     result : Result, after : ValueSet]
  BY DEF Base, Types, AuditTyped, AuditRecord
<1>2. /\ rec \in AuditRecord
      /\ rec.status = "completed" /\ rec.before = audit[q].before
      /\ rec.result = audit[q].result /\ rec.after = audit[q].after
  BY <1>1 DEF AuditRecord
<1>. HIDE DEF rec
<1>3. AuditTyped
  BY DEF Base, Types
<1>4. AuditTyped' /\ audit'[q] = rec /\ \A p \in Requests \ {q} : audit'[p] = audit[p]
  BY <1>2, <1>3, AuditTypes DEF rec
<1>. QED BY <1>2, <1>4

(* An audit moves on: from none to pending to what was requested or        *)
(* completed, and what it says of before stays.                            *)
AuditMoves ==
    /\ AuditTyped' /\ AuditFits'
    /\ \A p \in Requests :
          /\ audit[p].status # "none" /\ req[p].pc # "idle" =>
                audit'[p].status # "none" /\ audit'[p].before = audit[p].before
          /\ audit[p].status = "completed" /\ req[p].pc # "idle" => audit'[p].status = "completed"

LEMMA AuditStays ==
    ASSUME Base, audit' = audit, ReqTyped', NEW q \in Requests, Others(q), req'[q].pc # "complete",
           req'[q].pc \in Steps => Under(q)
    PROVE  AuditMoves
BY DEF Base, Types, Others, AuditMoves, AuditTyped, AuditFits, Under

LEMMA FinishAudit ==
    ASSUME Base, NEW q \in Requests, Finish(q)
    PROVE  AuditMoves
<1>1. req[q].pc = "finish"
  BY DEF Finish
<1>2. CASE /\ audit[q].status = "pending"
           /\ AuditOf(q, [status |-> "finalization_pending", before |-> audit[q].before,
                          result |-> req[q].result, after |-> Value(req[q].held)])
           /\ Moved(q, "complete", req[q].held, req[q].result)
  <2>1. req[q].result \in Result /\ Value(req[q].held) \in ValueSet
    BY <1>1, UnderActive, Values DEF Base, Types, Under, Steps, Active
  <2>2. /\ AuditTyped' /\ \A p \in Requests \ {q} : audit'[p] = audit[p]
        /\ audit'[q].status = "finalization_pending" /\ audit'[q].before = audit[q].before
    BY <1>2, <2>1, OutcomeAudit
  <2>. QED BY <1>1, <1>2, <2>2 DEF AuditMoves, AuditFits, Under, Moved, Others, Base, Types
<1>3. CASE /\ audit[q].status # "pending" /\ Requested(q, req[q].result, Value(req[q].held))
           /\ audit' = audit /\ Moved(q, "complete", req[q].held, req[q].result)
  <2>1. audit[q].status # "none"
    BY <1>1 DEF Base, Types, AuditFits, Under, Steps
  <2>2. audit[q].status \in {"finalization_pending", "completed"}
    BY <1>3, <2>1 DEF Base, Types, AuditTyped, AuditRecord
  <2>3. req'[q].pc = "complete" /\ Others(q) /\ audit' = audit
    BY <1>3 DEF Moved
  <2>. HIDE <1>3
  <2>4. AuditTyped' /\ AuditFits'
    BY <2>2, <2>3 DEF AuditFits, Under, Others, Base, Types, AuditTyped
  <2>. QED BY <2>3, <2>4 DEF AuditMoves
<1>4. CASE audit' = audit /\ Moved(q, "hold", req[q].held, req[q].result)
  BY <1>1, <1>4, AuditStays DEF Moved, Under, Steps
<1>. QED BY <1>2, <1>3, <1>4, FinishEffect

LEMMA CompletionAudit ==
    ASSUME Base, NEW q \in Requests, FinishCompletion(q)
    PROVE  AuditMoves
<1>1. req[q].pc = "complete" /\ audit[q].status \in {"finalization_pending", "completed"}
  BY DEF FinishCompletion, AuditFits, Base, Types
<1>2. CASE /\ AuditOf(q, [audit[q] EXCEPT !.status = "completed"])
           /\ ReqTyped' /\ req'[q].pc = "done" /\ Others(q)
  <2>1. /\ AuditTyped' /\ \A p \in Requests \ {q} : audit'[p] = audit[p]
        /\ audit'[q].status = "completed" /\ audit'[q].before = audit[q].before
    BY <1>1, <1>2, CompletedAudit
  <2>. QED BY <1>1, <1>2, <2>1 DEF AuditMoves, AuditFits, Under, Others, Base, Types
<1>3. CASE audit' = audit /\ Moved(q, "hold", req[q].held, req[q].result)
  BY <1>1, <1>3, AuditStays DEF Moved, Under, Steps
<1>. QED BY <1>2, <1>3, CompletionEffect

LEMMA ResolveAudit ==
    ASSUME Base, NEW q \in Requests, Resolve(q)
    PROVE  AuditMoves
<1>1. req' = req /\ audit[q].status \in {"pending", "finalization_pending"}
  BY ResolveEffect DEF Pending
<1>2. PICK result \in Result, after \in ValueSet :
          AuditOf(q, [status |-> "completed", before |-> audit[q].before, result |-> result, after |-> after])
  BY ResolveEffect
<1>3. /\ AuditTyped' /\ \A p \in Requests \ {q} : audit'[p] = audit[p]
      /\ audit'[q].status = "completed" /\ audit'[q].before = audit[q].before
  BY <1>1, <1>2, OutcomeAudit
<1>. QED BY <1>1, <1>3 DEF AuditMoves, AuditFits, Under, Base, Types

LEMMA BeginAuditMoves ==
    ASSUME Base, NEW q \in Requests, Begin(q)
    PROVE  AuditMoves
<1>1. CASE audit' = audit /\ ReqTyped' /\ req'[q].pc = "done" /\ Others(q)
  BY <1>1, AuditStays DEF Steps
<1>2. CASE /\ Moved(q, "check", record, "success")
           /\ audit' = [audit EXCEPT ![q] = [status |-> "pending", before |-> Value(record)]]
  <2>1. /\ req[q].pc = "idle" /\ req'[q].pc = "check" /\ Others(q)
        /\ AuditTyped' /\ audit'[q].status = "pending" /\ \A p \in Requests \ {q} : audit'[p] = audit[p]
    BY <1>2, BeginAudit DEF Begin, Moved
  <2>2. AuditFits'
    BY <2>1 DEF AuditFits, Under, Others, Base, Types
  <2>. QED BY <2>1, <2>2 DEF AuditMoves, Others
<1>. QED BY <1>1, <1>2, BeginEffect

(* Every action, one request or record at a time. *)
LEMMA Actions ==
    ASSUME Next
    PROVE  \/ \E q \in Requests : Begin(q) \/ Check(q) \/ Mark(q) \/ Finish(q) \/ FinishCompletion(q)
                                  \/ Hold(q) \/ Crash(q) \/ Resolve(q)
           \/ \E a \in Approvals : a \in Requests /\ (Open(a) \/ Stage(a) \/ Commit(a) \/ Publish(a))
           \/ \E o \in Restrictions : o \in Requests /\ (Prepare(o) \/ Deny(o) \/ Abandon(o) \/ MarkDeny(o)
                                  \/ Register(o) \/ MarkRegistered(o) \/ Repair(o) \/ Clean(o))
           \/ RestoreMarker
BY DEF Next, Reconciler, Requests

LEMMA TypesNext ==
    ASSUME Base, [Next]_vars
    PROVE  Types'
<1>t. /\ record \in RecordSet /\ pointer \in Approvals \cup {NoOp} /\ AuditTyped /\ RepairTyped
      /\ ManifestTyped /\ ReqTyped /\ EffectsTyped /\ faults \in 0..MaxFaults
      /\ AuditFits
  BY DEF Base, Types
<1>1. CASE UNCHANGED vars
  BY <1>1, <1>t DEF vars, Types, AuditTyped, AuditFits, Under, RepairTyped, ManifestTyped, ReqTyped, EffectsTyped
<1>2. ASSUME NEW q \in Requests, Begin(q) PROVE Types'
  BY <1>2, <1>t, BeginEffect, BeginAuditMoves
  DEF Types, RepairTyped, ManifestTyped, EffectsTyped, Moved, AuditMoves
<1>3. ASSUME NEW q \in Requests, Check(q) PROVE Types'
  <2>1. ReqTyped' /\ Others(q) /\ req'[q].pc # "complete" /\ Under(q)
    BY <1>3, CheckEffect DEF Moved, Check, Under, Steps
  <2>. QED BY <1>3, <1>t, <2>1, CheckEffect, AuditStays
           DEF Types, RepairTyped, ManifestTyped, EffectsTyped, AuditMoves
<1>4. ASSUME NEW q \in Requests, Mark(q) PROVE Types'
  <2>1. ReqTyped' /\ Others(q) /\ req'[q].pc # "complete" /\ Under(q)
    BY <1>4, MarkEffect DEF Moved, Mark, Under, Steps
  <2>2. record' \in RecordSet /\ faults' \in 0..MaxFaults
    BY <1>4, <1>t, MarkEffect DEF Marks, Newer
  <2>3. UNCHANGED <<pointer, audit, repair, manifest, effects>>
    BY <1>4 DEF Mark, cleanup, history
  <2>. QED BY <1>t, <2>1, <2>2, <2>3, AuditStays DEF Types, RepairTyped, ManifestTyped, EffectsTyped, AuditMoves
<1>5. ASSUME NEW q \in Requests, Finish(q) PROVE Types'
  BY <1>5, <1>t, FinishEffect, FinishAudit
  DEF Types, RepairTyped, ManifestTyped, EffectsTyped, Moved, AuditMoves
<1>6. ASSUME NEW q \in Requests, FinishCompletion(q) PROVE Types'
  BY <1>6, <1>t, CompletionEffect, CompletionAudit
  DEF Types, RepairTyped, ManifestTyped, EffectsTyped, Moved, AuditMoves
<1>7. ASSUME NEW q \in Requests, Hold(q) PROVE Types'
  <2>1. ReqTyped' /\ Others(q) /\ req'[q].pc # "complete" /\ Under(q)
    BY <1>7, HoldEffect DEF Hold, Under, Steps
  <2>2. record' \in RecordSet /\ faults' \in 0..MaxFaults
    BY <1>7, <1>t, HoldEffect DEF Puts, Newer
  <2>3. UNCHANGED <<pointer, audit, repair, manifest, effects>>
    BY <1>7 DEF Hold, cleanup, history
  <2>. QED BY <1>t, <2>1, <2>2, <2>3, AuditStays DEF Types, RepairTyped, ManifestTyped, EffectsTyped, AuditMoves
<1>8. ASSUME NEW q \in Requests, Crash(q) PROVE Types'
  BY <1>8, <1>t, CrashEffect, AuditStays DEF Steps, Types, RepairTyped, ManifestTyped, EffectsTyped, AuditMoves
<1>9. ASSUME NEW q \in Requests, Resolve(q) PROVE Types'
  BY <1>9, <1>t, ResolveEffect, ResolveAudit DEF Types, RepairTyped, ManifestTyped, EffectsTyped, ReqTyped, AuditMoves
<1>10. ASSUME NEW a \in Approvals, a \in Requests, Open(a) PROVE Types'
  <2>1. ReqTyped' /\ Others(a) /\ req'[a].pc # "complete" /\ Under(a)
    BY <1>10, OpenEffect DEF Moved, Open, Under, Steps
  <2>2. record' \in RecordSet /\ faults' \in 0..MaxFaults
    BY <1>10, <1>t, OpenEffect DEF Opens, Newer
  <2>3. UNCHANGED <<pointer, audit, repair, manifest, effects>>
    BY <1>10 DEF Open, cleanup, history
  <2>. QED BY <1>10, <1>t, <2>1, <2>2, <2>3, AuditStays DEF Types, RepairTyped, ManifestTyped, EffectsTyped, AuditMoves
<1>11. ASSUME NEW a \in Approvals, a \in Requests, Stage(a) PROVE Types'
  <2>1. ReqTyped' /\ Others(a) /\ req'[a].pc # "complete" /\ Under(a)
    BY <1>11, StageEffect DEF Moved, Stage, Under, Steps
  <2>2. record' \in RecordSet /\ faults' \in 0..MaxFaults
    BY <1>11, <1>t, StageEffect DEF Stages, Newer
  <2>3. UNCHANGED <<pointer, audit, repair, manifest, effects>>
    BY <1>11 DEF Stage, cleanup, history
  <2>. QED BY <1>11, <1>t, <2>1, <2>2, <2>3, AuditStays DEF Types, RepairTyped, ManifestTyped, EffectsTyped, AuditMoves
<1>12. ASSUME NEW a \in Approvals, a \in Requests, Commit(a) PROVE Types'
  <2>1. ReqTyped' /\ Others(a) /\ req'[a].pc # "complete" /\ Under(a)
    BY <1>12, CommitEffect DEF Moved, Commit, Under, Steps
  <2>. QED BY <1>12, <1>t, <2>1, CommitEffect, AuditStays
           DEF Types, RepairTyped, ManifestTyped, EffectsTyped, AuditMoves
<1>13. ASSUME NEW a \in Approvals, a \in Requests, Publish(a) PROVE Types'
  <2>1. ReqTyped' /\ Others(a) /\ req'[a].pc # "complete" /\ Under(a)
    BY <1>13, PublishEffect DEF Moved, Publish, Under, Steps
  <2>2. record' \in RecordSet /\ faults' \in 0..MaxFaults /\ EffectsTyped'
    BY <1>13, <1>t, PublishEffect, EffectsGrow DEF Publishes, Newer, EffectsTyped
  <2>3. UNCHANGED <<pointer, audit, repair, manifest>>
    BY <1>13 DEF Publish, cleanup, history
  <2>. QED BY <1>13, <1>t, <2>1, <2>2, <2>3, AuditStays DEF Types, RepairTyped, ManifestTyped, AuditMoves
<1>14. ASSUME NEW o \in Restrictions, o \in Requests, Prepare(o) PROVE Types'
  <2>1. ReqTyped' /\ Others(o) /\ req'[o].pc # "complete" /\ Under(o)
    BY <1>14, PrepareEffect DEF Moved, Prepare, Under, Steps
  <2>. QED BY <1>14, <1>t, <2>1, PrepareEffect, AuditStays
           DEF Types, RepairMoves, ManifestTyped, EffectsTyped, AuditMoves
<1>15. ASSUME NEW o \in Restrictions, o \in Requests, Deny(o) PROVE Types'
  <2>1. ReqTyped' /\ Others(o) /\ req'[o].pc # "complete" /\ Under(o)
    BY <1>15, DenyEffect DEF Moved, Deny, Under, Steps
  <2>2. record' \in RecordSet /\ faults' \in 0..MaxFaults /\ EffectsTyped'
    BY <1>15, <1>t, DenyEffect, EffectsGrow DEF Denies, Newer, EffectsTyped
  <2>3. UNCHANGED <<pointer, audit, repair, manifest>>
    BY <1>15 DEF Deny, cleanup, history
  <2>. QED BY <1>15, <1>t, <2>1, <2>2, <2>3, AuditStays DEF Types, RepairTyped, ManifestTyped, AuditMoves
<1>16. ASSUME NEW o \in Restrictions, o \in Requests, Abandon(o) \/ MarkDeny(o) \/ Register(o) \/ MarkRegistered(o)
       PROVE Types'
  <2>1. ReqTyped' /\ Others(o) /\ req'[o].pc # "complete" /\ Under(o)
    BY <1>16, RestrictionMoves DEF Moved, Under, Steps
  <2>2. /\ UNCHANGED <<record, pointer, audit, effects>> /\ faults' \in 0..MaxFaults
        /\ RepairMoves /\ ManifestTyped'
    BY <1>16, RepairEffect
  <2>. QED BY <1>16, <1>t, <2>1, <2>2, AuditStays DEF Types, RepairMoves, EffectsTyped, AuditMoves
<1>17. ASSUME NEW o \in Restrictions, o \in Requests, Repair(o) \/ Clean(o) PROVE Types'
  <2>1. /\ UNCHANGED <<record, pointer, audit, effects>> /\ faults' \in 0..MaxFaults
        /\ RepairMoves /\ ManifestTyped' /\ req' = req
    BY <1>17, RepairEffect, BatchMoves
  <2>. QED BY <1>t, <2>1 DEF Types, RepairMoves, EffectsTyped, AuditTyped, AuditFits, Under, ReqTyped
<1>18. CASE RestoreMarker
  <2>1. record' \in RecordSet
    BY <1>18, RestoreEffect DEF Lifts, Newer
  <2>2. UNCHANGED <<pointer, audit, repair, manifest, req, effects, faults>>
    BY <1>18 DEF RestoreMarker, cleanup, history
  <2>. QED BY <1>t, <2>1, <2>2 DEF Types, AuditTyped, AuditFits, Under, RepairTyped, ManifestTyped, ReqTyped, EffectsTyped
<1>. QED BY <1>1, <1>2, <1>3, <1>4, <1>5, <1>6, <1>7, <1>8, <1>9, <1>10, <1>11, <1>12, <1>13, <1>14, <1>15, <1>16,
            <1>17, <1>18, Actions
Fits(q) ==
    Under(q) =>
        /\ req[q].held.revision <= record.revision
        /\ req[q].held.revision = record.revision => req[q].held = record
        /\ Labelled(q, req[q].pc, req[q].held)

LEMMA HeldOthers ==
    ASSUME Base, record' = record \/ Newer, NEW q \in Requests, Others(q), Fits(q)'
    PROVE  HeldInv'
<1>1. record \in RecordSet
  BY DEF Base, Types
<1>2. ASSUME NEW p \in Requests, p # q PROVE Fits(p)'
  <2>1. req'[p] = req[p] /\ (Under(p) => req[p].held \in RecordSet) /\ Fits(p)
    BY <1>2, OpHeld DEF Others, Base, HeldInv, Fits
  <2>2. Under(p) => req[p].held.revision \in Nat /\ record.revision \in Nat
    BY <1>1, <2>1 DEF RecordSet, Revision
  <2>3. Under(p)' <=> Under(p)
    BY <2>1 DEF Under
  <2>4. CASE record' = record
    BY <2>1, <2>3, <2>4 DEF Fits
  <2>5. CASE Newer
    <3>1. Under(p) => req[p].held.revision < record'.revision
      BY <2>1, <2>2, <2>5 DEF Fits, Newer
    <3>2. Under(p) => req[p].held.revision <= record'.revision /\ req[p].held.revision # record'.revision
      BY <2>2, <2>5, <3>1 DEF Newer
    <3>. QED BY <2>1, <2>3, <3>2 DEF Fits
  <2>. QED BY <2>4, <2>5
<1>. QED BY <1>2 DEF HeldInv, Fits

LEMMA HeldGoes ==
    ASSUME Base, record' = record, NEW q \in Requests, Under(q), NEW pc, NEW result,
           Moved(q, pc, req[q].held, result), Labelled(q, pc, req[q].held)
    PROVE  HeldInv'
<1>1. Fits(q)'
  BY DEF Moved, Fits, Base, HeldInv, Under
<1>. QED BY <1>1, HeldOthers DEF Moved

LEMMA HeldStored ==
    ASSUME Base, Newer, NEW q \in Requests, NEW pc, NEW result, Moved(q, pc, record', result),
           Labelled(q, pc, record')
    PROVE  HeldInv'
<1>1. record'.revision \in Nat
  BY DEF Newer, RecordSet, Revision
<1>2. Fits(q)'
  BY <1>1 DEF Moved, Fits
<1>. QED BY <1>2, HeldOthers DEF Moved

LEMMA HeldLost ==
    ASSUME Base, Newer, NEW q \in Requests, Under(q), NEW pc, NEW result,
           Moved(q, pc, req[q].held, result), Labelled(q, pc, req[q].held)
    PROVE  HeldInv'
<1>1. req[q].held.revision \in Nat /\ record.revision \in Nat /\ req[q].held.revision <= record.revision
  BY OpHeld DEF Base, Types, HeldInv, RecordSet, Revision
<1>2. Fits(q)'
  BY <1>1 DEF Moved, Fits, Newer
<1>. QED BY <1>2, HeldOthers DEF Moved

LEMMA HeldEnds ==
    ASSUME Base, record' = record \/ Newer, NEW q \in Requests, Others(q), req'[q].pc \in {"done", "dead"}
    PROVE  HeldInv'
<1>1. Fits(q)'
  BY DEF Fits, Under, Steps
<1>. QED BY <1>1, HeldOthers

LEMMA HeldRests ==
    ASSUME Base, record' = record \/ Newer, req' = req
    PROVE  HeldInv'
<1>2. CASE record' = record
  BY <1>2 DEF Base, HeldInv, Under
<1>3. ASSUME NEW p \in Requests, Newer PROVE Fits(p)'
  <2>1. Under(p) => req[p].held \in RecordSet /\ record \in RecordSet
    BY OpHeld DEF Base, Types
  <2>2. Under(p) => req[p].held.revision \in Nat /\ record.revision \in Nat
    BY <2>1 DEF RecordSet, Revision
  <2>3. Fits(p) /\ (Under(p)' <=> Under(p))
    BY DEF Base, HeldInv, Fits, Under
  <2>4. Under(p) => req[p].held.revision <= record'.revision /\ req[p].held.revision # record'.revision
    BY <1>3, <2>2, <2>3 DEF Newer, Fits
  <2>. QED BY <2>3, <2>4 DEF Fits
<1>. QED BY <1>2, <1>3 DEF HeldInv, Fits

LEMMA LabelNow ==
    ASSUME Base, NEW q \in Requests, Under(q)
    PROVE  Labelled(q, req[q].pc, req[q].held)
BY DEF Base, HeldInv

LEMMA HeldNext ==
    ASSUME Base, [Next]_vars
    PROVE  HeldInv'
<1>1. CASE UNCHANGED vars
  BY <1>1, HeldRests DEF vars
<1>2. ASSUME NEW q \in Requests, Begin(q) PROVE HeldInv'
  <2>1. CASE Settled /\ Moved(q, "check", record, "success")
    <3>1. record.marker = NoMarker /\ record' = record /\ record.revision \in Nat
      BY <1>2, <2>1 DEF Settled, Begin, Base, Types, RecordSet, Revision
    <3>2. Labelled(q, "check", record)
      BY <3>1 DEF Labelled
    <3>3. Fits(q)'
      BY <2>1, <3>1, <3>2 DEF Moved, Fits
    <3>. QED BY <2>1, <3>1, <3>3, HeldOthers DEF Moved
  <2>2. CASE req'[q].pc = "done" /\ Others(q)
    BY <1>2, <2>2, BeginEffect, HeldEnds
  <2>. QED BY <1>2, <2>1, <2>2, BeginEffect
<1>3. ASSUME NEW q \in Requests, Check(q) PROVE HeldInv'
  <2>1. record' = record /\ Under(q) /\ req[q].held.marker = NoMarker
    BY <1>3, OpHeld, CheckEffect DEF Check, Under, Steps
  <2>2. Labelled(q, "open", req[q].held) /\ Labelled(q, "finish", req[q].held)
    BY <2>1 DEF Labelled
  <2>3. MayRestrict(req[q].held) => Labelled(q, "prepare", req[q].held)
    BY <2>1 DEF Labelled, MayRestrict
  <2>. QED BY <1>3, <2>1, <2>2, <2>3, CheckEffect, HeldGoes
<1>4. ASSUME NEW q \in Requests, Mark(q) PROVE HeldInv'
  <2>1. Under(q) /\ req[q].held.marker = NoMarker /\ Labelled(q, "finish", req[q].held)
    BY <1>4, OpHeld DEF Mark, Under, Steps, Labelled
  <2>2. Marks => Newer /\ Labelled(q, "finish", record')
    BY DEF Marks, Labelled
  <2>. QED BY <1>4, <2>1, <2>2, MarkEffect, HeldGoes, HeldStored, HeldLost
<1>5. ASSUME NEW q \in Requests, Finish(q) PROVE HeldInv'
  <2>1. Under(q) /\ req[q].held.marker = NoMarker
    BY <1>5, OpHeld DEF Finish, Under, Steps
  <2>2. Labelled(q, "complete", req[q].held) /\ Labelled(q, "hold", req[q].held)
    BY <2>1 DEF Labelled
  <2>. QED BY <1>5, <2>1, <2>2, FinishEffect, HeldGoes
<1>6. ASSUME NEW q \in Requests, FinishCompletion(q) PROVE HeldInv'
  <2>1. Under(q) /\ Labelled(q, "hold", req[q].held)
    BY <1>6, OpHeld DEF FinishCompletion, Under, Steps, Labelled
  <2>. QED BY <1>6, <2>1, CompletionEffect, HeldGoes, HeldEnds
<1>7. ASSUME NEW q \in Requests, Hold(q) PROVE HeldInv'
  BY <1>7, HoldEffect, HeldEnds DEF Puts
<1>8. ASSUME NEW q \in Requests, Crash(q) PROVE HeldInv'
  BY <1>8, CrashEffect, HeldEnds
<1>9. ASSUME NEW q \in Requests, Resolve(q) PROVE HeldInv'
  BY <1>9, ResolveEffect, HeldRests
<1>10. ASSUME NEW a \in Approvals, a \in Requests, Open(a) PROVE HeldInv'
  <2>1. Under(a) /\ Labelled(a, "finish", req[a].held)
    BY <1>10, OpHeld DEF Open, Under, Steps, Labelled
  <2>2. Opens(a) => Newer /\ Labelled(a, "stage", record')
    BY DEF Opens, Labelled
  <2>. QED BY <1>10, <2>1, <2>2, OpenEffect, HeldGoes, HeldStored, HeldLost
<1>11. ASSUME NEW a \in Approvals, a \in Requests, Stage(a) PROVE HeldInv'
  <2>1. Under(a) /\ Labelled(a, "stage", req[a].held)
    BY <1>11, LabelNow DEF Stage, Under, Steps
  <2>2. Labelled(a, "mark", req[a].held)
    BY <2>1 DEF Labelled
  <2>3. Holds(a) /\ Stages(a) => Newer /\ Labelled(a, "commit", record')
    BY <1>11, <2>1, OpHeld DEF Stages, Labelled
  <2>. QED BY <1>11, <2>1, <2>2, <2>3, StageEffect, HeldGoes, HeldStored, HeldLost
<1>12. ASSUME NEW a \in Approvals, a \in Requests, Commit(a) PROVE HeldInv'
  <2>1. Under(a) /\ Labelled(a, "commit", req[a].held)
    BY <1>12, LabelNow DEF Commit, Under, Steps
  <2>2. Labelled(a, "mark", req[a].held) /\ Labelled(a, "publish", req[a].held)
    BY <2>1 DEF Labelled
  <2>. QED BY <1>12, <2>1, <2>2, CommitEffect, HeldGoes
<1>13. ASSUME NEW a \in Approvals, a \in Requests, Publish(a) PROVE HeldInv'
  <2>1. Under(a) /\ Labelled(a, "publish", req[a].held)
    BY <1>13, LabelNow DEF Publish, Under, Steps
  <2>2. Labelled(a, "mark", req[a].held)
    BY <2>1 DEF Labelled
  <2>3. Publishes(a) => Newer /\ Labelled(a, "finish", record')
    BY DEF Publishes, Labelled
  <2>. QED BY <1>13, <2>1, <2>2, <2>3, PublishEffect, HeldGoes, HeldStored, HeldLost
<1>14. ASSUME NEW o \in Restrictions, o \in Requests, Prepare(o) PROVE HeldInv'
  <2>1. Under(o) /\ Labelled(o, "prepare", req[o].held)
    BY <1>14, LabelNow DEF Prepare, Under, Steps
  <2>2. Labelled(o, "deny", req[o].held) /\ Labelled(o, "finish", req[o].held)
    BY <2>1 DEF Labelled
  <2>. QED BY <1>14, <2>1, <2>2, PrepareEffect, HeldGoes
<1>15. ASSUME NEW o \in Restrictions, o \in Requests, Deny(o) PROVE HeldInv'
  <2>1. Under(o) /\ Labelled(o, "deny", req[o].held)
    BY <1>15, LabelNow DEF Deny, Under, Steps
  <2>2. Labelled(o, "abandon", req[o].held)
    BY <2>1 DEF Labelled
  <2>3. Denies(o) => Newer /\ Labelled(o, "deny_committed", record')
    BY DEF Denies, Labelled
  <2>. QED BY <1>15, <2>1, <2>2, <2>3, DenyEffect, HeldGoes, HeldStored, HeldLost
<1>16. ASSUME NEW o \in Restrictions, o \in Requests, Abandon(o) \/ MarkDeny(o) \/ Register(o) \/ MarkRegistered(o)
       PROVE HeldInv'
  <2>1. Under(o) /\ Labelled(o, req[o].pc, req[o].held)
    BY <1>16, LabelNow DEF Abandon, MarkDeny, Register, MarkRegistered, Under, Steps
  <2>2. /\ Labelled(o, "finish", req[o].held)
        /\ req[o].pc \in {"deny_committed", "register", "registered"} =>
              /\ Labelled(o, "register", req[o].held) /\ Labelled(o, "registered", req[o].held)
              /\ Labelled(o, "mark", req[o].held)
    BY <2>1 DEF Labelled
  <2>. QED BY <1>16, <2>1, <2>2, RestrictionMoves, RepairEffect, HeldGoes
<1>17. ASSUME NEW o \in Restrictions, o \in Requests, Repair(o) \/ Clean(o) PROVE HeldInv'
  BY <1>17, RepairEffect, BatchMoves, HeldRests
<1>18. CASE RestoreMarker
  BY <1>18, RestoreEffect, HeldRests DEF RestoreMarker, Lifts
<1>. QED BY <1>1, <1>2, <1>3, <1>4, <1>5, <1>6, <1>7, <1>8, <1>9, <1>10, <1>11, <1>12, <1>13, <1>14, <1>15, <1>16,
            <1>17, <1>18, Actions
-----------------------------------------------------------------------------
(* The steps, by what they do to the record and to what has taken effect.  *)

Opening(a) == a \in Requests /\ req[a].pc = "open" /\ Holds(a) /\ Opens(a) /\ effects' = effects
Staging(a) ==
    /\ a \in Requests /\ req[a].pc = "stage" /\ Stages(a) /\ effects' = effects
    /\ record.approval = a /\ record.intent = a /\ record.restriction = {}
Publishing(a) ==
    /\ a \in Requests /\ req[a].pc = "publish" /\ Publishes(a) /\ effects' = Append(effects, a)
    /\ record.approval = a /\ record.intent = a
    /\ \/ Moved(a, "finish", record', req[a].result)
       \/ Moved(a, "mark", req[a].held, "failed") /\ a \in blind'
Denying(o) ==
    /\ o \in Requests /\ req[o].pc = "deny" /\ Denies(o) /\ effects' = Append(effects, o)
    /\ record.status \in {"published", "restricted"}
    /\ \/ Moved(o, "deny_committed", record', req[o].result)
       \/ Moved(o, "abandon", req[o].held, "failed") /\ o \in blind'
Marking(q) ==
    /\ req[q].pc = "mark" /\ Marks /\ effects' = effects /\ record.intent = q /\ req[q].held = record
    /\ \E held \in {record, record'} : Moved(q, "finish", held, req[q].result)
Putting(q) ==
    /\ req[q].pc = "hold" /\ Puts(q, req[q].result, Value(record)) /\ effects' = effects
    /\ req[q].held = record /\ req'[q].pc = "done"
Lifting == RestoreMarker /\ Lifts /\ effects' = effects /\ req' = req
Unmoved == record' = record /\ effects' = effects

LEMMA PublishIsOne ==
    ASSUME Base, NEW a \in Approvals, a \in Requests, Publish(a)
    PROVE  Unmoved \/ Publishing(a)
<1>1. req[a].pc = "publish" /\ Under(a)
  BY DEF Publish, Under, Steps
<1>2. Holds(a) => record.approval = a /\ record.intent = a
  BY <1>1, OpHeld, LabelNow DEF Labelled
<1>. QED BY <1>1, <1>2, PublishEffect DEF Unmoved, Publishing

LEMMA DenyIsOne ==
    ASSUME Base, NEW o \in Restrictions, o \in Requests, Deny(o)
    PROVE  Unmoved \/ Denying(o)
<1>1. req[o].pc = "deny" /\ Under(o)
  BY DEF Deny, Under, Steps
<1>2. Holds(o) => record.status \in {"published", "restricted"}
  BY <1>1, OpHeld, LabelNow DEF Labelled
<1>. QED BY <1>1, <1>2, DenyEffect DEF Unmoved, Denying

LEMMA RecordStep ==
    ASSUME Base, [Next]_vars
    PROVE  \/ Unmoved \/ Lifting
           \/ \E a \in Approvals : Opening(a) \/ Staging(a) \/ Publishing(a)
           \/ \E o \in Restrictions : Denying(o)
           \/ \E q \in Requests : Marking(q) \/ Putting(q)
<1>1. CASE UNCHANGED vars
  BY <1>1 DEF vars, Unmoved
<1>2. ASSUME NEW q \in Requests, Mark(q) PROVE Unmoved \/ Marking(q)
  <2>1. req[q].pc = "mark" /\ Under(q) /\ effects' = effects
    BY <1>2 DEF Mark, history, Under, Steps
  <2>2. Holds(q) => req[q].held = record /\ record.intent = q
    BY <2>1, OpHeld, LabelNow DEF Labelled
  <2>. QED BY <1>2, <2>1, <2>2, MarkEffect DEF Unmoved, Marking
<1>3. ASSUME NEW q \in Requests, Hold(q) PROVE Unmoved \/ Putting(q)
  <2>1. req[q].pc = "hold" /\ Under(q) /\ effects' = effects
    BY <1>3 DEF Hold, history, Under, Steps
  <2>2. Holds(q) => req[q].held = record
    BY <2>1, OpHeld
  <2>. QED BY <1>3, <2>1, <2>2, HoldEffect DEF Unmoved, Putting
<1>4. ASSUME NEW a \in Approvals, a \in Requests, Open(a) PROVE Unmoved \/ Opening(a)
  BY <1>4, OpenEffect DEF Open, history, Unmoved, Opening
<1>5. ASSUME NEW a \in Approvals, a \in Requests, Stage(a) PROVE Unmoved \/ Staging(a)
  <2>1. req[a].pc = "stage" /\ Under(a) /\ effects' = effects
    BY <1>5 DEF Stage, history, Under, Steps
  <2>2. Holds(a) => record.approval = a /\ record.intent = a /\ record.restriction = {}
    BY <1>5, <2>1, OpHeld, LabelNow DEF Labelled
  <2>. QED BY <1>5, <2>1, <2>2, StageEffect DEF Unmoved, Staging
<1>6. ASSUME NEW a \in Approvals, a \in Requests, Publish(a) PROVE Unmoved \/ Publishing(a)
  BY <1>6, PublishIsOne
<1>7. ASSUME NEW o \in Restrictions, o \in Requests, Deny(o) PROVE Unmoved \/ Denying(o)
  BY <1>7, DenyIsOne
<1>8. CASE RestoreMarker
  BY <1>8, RestoreEffect DEF RestoreMarker, history, Lifting
<1>9. ASSUME NEW q \in Requests, Begin(q) \/ Check(q) \/ Finish(q) \/ FinishCompletion(q) \/ Crash(q) \/ Resolve(q)
      PROVE Unmoved
  BY <1>9 DEF Begin, Check, Finish, FinishCompletion, Crash, Resolve, history, Unmoved
<1>10. ASSUME NEW a \in Approvals, Commit(a) PROVE Unmoved
  BY <1>10 DEF Commit, history, Unmoved
<1>11. ASSUME NEW o \in Restrictions, Prepare(o) \/ Abandon(o) \/ MarkDeny(o) \/ Register(o) \/ MarkRegistered(o)
                                      \/ Repair(o) \/ Clean(o)
       PROVE Unmoved
  BY <1>11 DEF Prepare, Abandon, MarkDeny, Register, MarkRegistered, Repair, Clean, history, Unmoved
<1>. QED BY <1>1, <1>2, <1>3, <1>4, <1>5, <1>6, <1>7, <1>8, <1>9, <1>10, <1>11, Actions

LEMMA RepairStep ==
    ASSUME Base, [Next]_vars
    PROVE  RepairMoves
<1>1. RepairTyped
  BY DEF Base, Types
<1>2. CASE \E o \in Restrictions : Prepare(o)
  BY <1>2, PrepareEffect
<1>3. CASE \E o \in Restrictions : Abandon(o) \/ MarkDeny(o) \/ Register(o) \/ MarkRegistered(o) \/ Repair(o) \/ Clean(o)
  BY <1>3, RepairEffect
<1>4. CASE repair' = repair
  BY <1>1, <1>4, SameRepair
<1>5. UNCHANGED vars => repair' = repair
  BY DEF vars
<1>6. \A q \in Requests : Begin(q) \/ Check(q) \/ Mark(q) \/ Finish(q) \/ FinishCompletion(q) \/ Hold(q) \/ Crash(q)
                          \/ Resolve(q) => repair' = repair
  BY DEF Begin, Check, Mark, Finish, FinishCompletion, Hold, Crash, Resolve, cleanup, history
<1>7. \A a \in Approvals : Open(a) \/ Stage(a) \/ Commit(a) \/ Publish(a) => repair' = repair
  BY DEF Open, Stage, Commit, Publish, cleanup, history
<1>8. \A o \in Restrictions : Deny(o) => repair' = repair
  BY DEF Deny, cleanup, history
<1>9. RestoreMarker => repair' = repair
  BY DEF RestoreMarker, cleanup, history
<1>. QED BY <1>2, <1>3, <1>4, <1>5, <1>6, <1>7, <1>8, <1>9, Actions

(* Where a request may come from. *)
Denied == {"deny", "deny_committed", "register", "registered"}

Comes(p) ==
    /\ req'[p].pc \in Early => req[p].pc \in Early
    /\ req'[p].pc = "open" => \/ req[p].pc = "open" /\ req'[p] = req[p]
                              \/ /\ req[p].pc = "check" /\ MayApprove(req[p].held) /\ req'[p].held = req[p].held
                                 /\ record' = record /\ repair' = repair
    /\ p \in Restrictions /\ req'[p].pc \in Denied => req[p].pc \in Denied \/ repair'[p].status # "none"

LEMMA ComesSame ==
    ASSUME NEW p, req'[p] = req[p]
    PROVE  Comes(p)
BY DEF Comes

LEMMA ComesTo ==
    ASSUME NEW p, req'[p].pc \notin Early \cup Denied
    PROVE  Comes(p)
BY DEF Comes, Early

LEMMA ComesStep ==
    ASSUME Base, [Next]_vars, NEW p \in Requests
    PROVE  Comes(p)
<1>0. ConstantAssumption
  BY ConstantAssumption
<1>1. CASE UNCHANGED vars
  BY <1>1, ComesSame DEF vars
<1>2. ASSUME NEW q \in Requests, Begin(q) PROVE Comes(p)
  BY <1>2, BeginEffect, ComesSame DEF Comes, Moved, Others, Early, Denied
<1>3. ASSUME NEW q \in Requests, Check(q) PROVE Comes(p)
  BY <1>3, CheckEffect, ComesSame DEF Comes, Moved, Others, Early, Denied
<1>4. ASSUME NEW q \in Requests, Mark(q) PROVE Comes(p)
  BY <1>4, MarkEffect, ComesSame, ComesTo DEF Moved, Others, Early, Denied
<1>5. ASSUME NEW q \in Requests, Finish(q) PROVE Comes(p)
  BY <1>5, FinishEffect, ComesSame, ComesTo DEF Moved, Others, Early, Denied
<1>6. ASSUME NEW q \in Requests, FinishCompletion(q) PROVE Comes(p)
  BY <1>6, CompletionEffect, ComesSame, ComesTo DEF Moved, Others, Early, Denied
<1>7. ASSUME NEW q \in Requests, Hold(q) PROVE Comes(p)
  BY <1>7, HoldEffect, ComesSame, ComesTo DEF Others, Early, Denied
<1>8. ASSUME NEW q \in Requests, Crash(q) PROVE Comes(p)
  BY <1>8, CrashEffect, ComesSame, ComesTo DEF Others, Early, Denied
<1>9. ASSUME NEW q \in Requests, Resolve(q) PROVE Comes(p)
  BY <1>9, ResolveEffect, ComesSame
<1>10. ASSUME NEW a \in Approvals, a \in Requests, Open(a) PROVE Comes(p)
  BY <1>10, OpenEffect, ComesSame DEF Comes, Open, Moved, Others, Early, Denied
<1>11. ASSUME NEW a \in Approvals, a \in Requests, Stage(a) PROVE Comes(p)
  BY <1>11, StageEffect, ComesSame DEF Comes, Stage, Moved, Others, Early, Denied
<1>12. ASSUME NEW a \in Approvals, a \in Requests, Commit(a) PROVE Comes(p)
  BY <1>12, CommitEffect, ComesSame DEF Comes, Moved, Others, Early, Denied
<1>13. ASSUME NEW a \in Approvals, a \in Requests, Publish(a) PROVE Comes(p)
  BY <1>13, PublishEffect, ComesSame, ComesTo DEF Moved, Others, Early, Denied
<1>14. ASSUME NEW o \in Restrictions, o \in Requests, Prepare(o) PROVE Comes(p)
  BY <1>14, PrepareEffect, ComesSame DEF Comes, Moved, Others, Early, Denied
<1>15. ASSUME NEW o \in Restrictions, o \in Requests, Deny(o) PROVE Comes(p)
  BY <1>15, DenyEffect, ComesSame DEF Comes, Deny, Moved, Others, Early, Denied
<1>16. ASSUME NEW o \in Restrictions, o \in Requests, Abandon(o) \/ MarkDeny(o) \/ Register(o) \/ MarkRegistered(o)
       PROVE Comes(p)
  BY <1>16, RestrictionMoves, ComesSame DEF Comes, Moved, Others, Early, Denied
<1>17. ASSUME NEW o \in Restrictions, o \in Requests, Repair(o) \/ Clean(o) PROVE Comes(p)
  BY <1>17, BatchMoves, ComesSame
<1>18. CASE RestoreMarker
  BY <1>18, ComesSame DEF RestoreMarker
<1>. QED BY <1>1, <1>2, <1>3, <1>4, <1>5, <1>6, <1>7, <1>8, <1>9, <1>10, <1>11, <1>12, <1>13, <1>14, <1>15, <1>16,
            <1>17, <1>18, Actions
-----------------------------------------------------------------------------
(* The invariant is kept.                                                  *)

LEMMA ActiveNext ==
    ASSUME Base, [Next]_vars
    PROVE  ActiveInv'
<1>1. Unmoved \/ Lifting => ActiveInv'
  BY DEF Base, ActiveInv, Unmoved, Lifting, Lifts
<1>2. \A a \in Approvals : Opening(a) \/ Staging(a) \/ Publishing(a) => ActiveInv'
  BY DEF Base, ActiveInv, Opening, Staging, Publishing, Opens, Stages, Publishes
<1>3. \A o \in Restrictions : Denying(o) => ActiveInv'
  BY DEF Base, ActiveInv, Denying, Denies
<1>4. \A q \in Requests : Marking(q) \/ Putting(q) => ActiveInv'
  BY DEF Base, ActiveInv, Marking, Putting, Marks, Puts
<1>. QED BY <1>1, <1>2, <1>3, <1>4, RecordStep

(* A request takes effect as it publishes or denies, and at no other time. *)
LEMMA HappenedStep ==
    ASSUME Base, [Next]_vars, NEW p
    PROVE  /\ Happened(p) => Happened(p)'
           /\ Happened(p)' => Happened(p) \/ (p \in Approvals /\ Publishing(p)) \/ (p \in Restrictions /\ Denying(p))
<1>0. EffectsTyped
  BY DEF Base, Types
<1>1. CASE effects' = effects
  BY <1>1 DEF Happened
<1>2. CASE \E a \in Approvals : Publishing(a)
  BY <1>0, <1>2, HappenedGrows DEF Publishing
<1>3. CASE \E o \in Restrictions : Denying(o)
  BY <1>0, <1>3, HappenedGrows DEF Denying
<1>. QED BY <1>1, <1>2, <1>3, RecordStep DEF Unmoved, Lifting, Opening, Staging, Marking, Putting

LEMMA EarlyNext ==
    ASSUME Base, EarlyInv, [Next]_vars
    PROVE  EarlyInv'
<1>. SUFFICES ASSUME NEW p \in Requests, req'[p].pc \in Early, Happened(p)' PROVE FALSE
  BY DEF EarlyInv
<1>1. req[p].pc \in Early /\ ~Happened(p)
  BY ComesStep DEF Comes, EarlyInv
<1>2. Publishing(p) \/ Denying(p)
  BY <1>1, HappenedStep
<1>3. req'[p].pc \in {"finish", "deny_committed", "mark", "abandon"}
  BY <1>2 DEF Publishing, Denying, Moved
<1>. QED BY <1>3 DEF Early

LEMMA UnpublishedNext ==
    ASSUME Base, UnpublishedInv, [Next]_vars
    PROVE  UnpublishedInv'
<1>1. Unmoved => UnpublishedInv'
  BY DEF UnpublishedInv, Unmoved
<1>2. Lifting => UnpublishedInv'
  BY DEF UnpublishedInv, Lifting, Lifts
<1>3. \A a \in Approvals : Opening(a) \/ Staging(a) \/ Publishing(a) => UnpublishedInv'
  BY DEF UnpublishedInv, Unpublished, Opening, Staging, Publishing, Opens, Stages, Publishes
<1>4. \A o \in Restrictions : Denying(o) => UnpublishedInv'
  BY DEF UnpublishedInv, Unpublished, Denying, Denies
<1>5. \A q \in Requests : Marking(q) => UnpublishedInv'
  BY DEF UnpublishedInv, Unpublished, Marking, Marks
<1>6. \A q \in Requests : Putting(q) => UnpublishedInv'
  BY DEF UnpublishedInv, Unpublished, Putting, Puts
<1>. QED BY <1>1, <1>2, <1>3, <1>4, <1>5, <1>6, RecordStep

LEMMA ServeNext ==
    ASSUME Base, ServeInv, [Next]_vars
    PROVE  ServeInv'
<1>0. EffectsTyped
  BY DEF Base, Types
<1>1. ASSUME effects' = effects, record'.approval = record.approval, record'.restriction = record.restriction,
             InUse' => InUse
      PROVE  ServeInv'
  BY <1>1 DEF ServeInv
<1>2. Unmoved => ServeInv'
  BY DEF Unmoved, ServeInv, InUse
<1>3. Lifting => ServeInv'
  <2>1. Lifting /\ InUse' => InUse
    BY DEF Lifting, Lifts, InUse
  <2>. QED BY <1>1, <2>1 DEF Lifting, Lifts
<1>4. \A a \in Approvals : Opening(a) \/ Staging(a) => ~InUse'
  BY DEF Opening, Opens, Staging, Stages, InUse
<1>5. \A q \in Requests : Marking(q) => ~InUse'
  BY DEF Marking, Marks, InUse
<1>6. \A q \in Requests : Putting(q) => ServeInv'
  <2>1. ASSUME NEW q \in Requests, Putting(q), InUse' PROVE InUse
    <3>1. record'.marker.resume = record.status /\ record'.status = "reconciliation_required"
      BY <2>1 DEF Putting, Puts
    <3>. QED BY <2>1, <3>1 DEF InUse
  <2>. QED BY <1>1, <2>1 DEF Putting, Puts
<1>7. ASSUME NEW a \in Approvals, Publishing(a) PROVE ServeInv'
  <2>1. /\ effects' = Append(effects, a) /\ a \in Requests
        /\ record'.approval = a /\ record'.restriction = record.restriction
    BY <1>7 DEF Publishing, Publishes
  <2>2. ASSUME NEW u \in Restrictions, NEW i \in DOMAIN effects', effects'[i] = u
        PROVE  \E j \in DOMAIN effects' : j > i /\ effects'[j] = a
    <3>1. u # a
      BY ConstantAssumption
    <3>2. i \in 1..(Len(effects) + 1) /\ i # Len(effects) + 1 /\ Len(effects) \in Nat
      BY <1>0, <2>1, <2>2, <3>1, EffectsGrow
    <3>3. Len(effects) + 1 \in DOMAIN effects' /\ Len(effects) + 1 > i /\ effects'[Len(effects) + 1] = a
      BY <1>0, <2>1, <3>2, EffectsGrow
    <3>. QED BY <3>3
  <2>. QED BY <2>1, <2>2 DEF ServeInv
<1>8. ASSUME NEW o \in Restrictions, Denying(o) PROVE ServeInv'
  <2>1. /\ effects' = Append(effects, o) /\ o \in Requests /\ InUse
        /\ record'.approval = record.approval /\ record'.restriction = record.restriction \cup {o}
    BY <1>8 DEF Denying, Denies, InUse
  <2>2. ASSUME NEW u \in Restrictions, u \notin record'.restriction, NEW i \in DOMAIN effects', effects'[i] = u
        PROVE  \E j \in DOMAIN effects' : j > i /\ effects'[j] = record'.approval
    <3>1. u # o /\ u \notin record.restriction
      BY <2>1, <2>2
    <3>2. i \in DOMAIN effects /\ effects[i] = u
      BY <1>0, <2>1, <2>2, <3>1, EffectsGrow
    <3>3. PICK j \in DOMAIN effects : j > i /\ effects[j] = record.approval
      BY <2>1, <3>1, <3>2 DEF ServeInv
    <3>4. j \in DOMAIN effects' /\ effects'[j] = record'.approval
      BY <1>0, <2>1, <3>3, EffectsGrow
    <3>. QED BY <3>3, <3>4
  <2>. QED BY <2>2 DEF ServeInv
<1>. QED BY <1>2, <1>3, <1>4, <1>5, <1>6, <1>7, <1>8, RecordStep DEF ServeInv

LEMMA OwedNext ==
    ASSUME GovernanceInv, [Next]_vars
    PROVE  OwedInv'
<1>0. Base /\ EarlyInv /\ OwedInv /\ ConstantAssumption
  BY ConstantAssumption DEF GovernanceInv, Base
<1>1. RepairMoves
  BY <1>0, RepairStep
<1>2. \A o \in Restrictions : o \in Requests
  BY DEF Requests
<1>3. ASSUME NEW o \in Restrictions, Happened(o), Settles(o) PROVE Settles(o)'
  <2>1. req[o].pc # "prepare"
    BY <1>0, <1>2, <1>3 DEF EarlyInv, Early
  <2>. QED BY <1>1, <1>3, <2>1 DEF RepairMoves, Settles
(* Nothing takes effect that was not recorded for its cleanup. *)
<1>4. ASSUME NEW o \in Restrictions, Happened(o)'
      PROVE  repair'[o].status # "none" /\ (o \in record'.restriction \/ Settles(o)')
  <2>1. CASE Happened(o)
    <3>1. repair[o].status # "none" /\ repair'[o].status # "none"
      BY <1>0, <1>1, <2>1 DEF OwedInv, RepairMoves
    <3>2. CASE Settles(o)
      BY <1>3, <2>1, <3>1, <3>2
    <3>3. CASE o \in record.restriction
      <4>1. CASE record.restriction \subseteq record'.restriction
        BY <3>1, <3>3, <4>1
      <4>2. CASE \E a \in Approvals : Opening(a)
        <5>1. Settles(o)
          BY <1>0, <2>1, <4>2 DEF OwedInv, Opening
        <5>. QED BY <1>3, <2>1, <3>1, <5>1
      <4>3. Unmoved \/ Lifting => record.restriction \subseteq record'.restriction
        BY DEF Unmoved, Lifting, Lifts
      <4>4. \A a \in Approvals : Staging(a) \/ Publishing(a) => record.restriction \subseteq record'.restriction
        BY DEF Staging, Stages, Publishing, Publishes
      <4>5. \A r \in Restrictions : Denying(r) => record.restriction \subseteq record'.restriction
        BY DEF Denying, Denies
      <4>6. \A q \in Requests : Marking(q) \/ Putting(q) => record.restriction \subseteq record'.restriction
        BY DEF Marking, Marks, Putting, Puts
      <4>. QED BY <1>0, <4>1, <4>2, <4>3, <4>4, <4>5, <4>6, RecordStep
    <3>. QED BY <1>0, <2>1, <3>2, <3>3 DEF OwedInv
  <2>2. CASE Denying(o)
    <3>1. o \in record'.restriction /\ req[o].pc = "deny"
      BY <2>2 DEF Denying, Denies
    <3>2. repair[o].status # "none"
      BY <1>0, <3>1 DEF OwedInv
    <3>. QED BY <1>1, <3>1, <3>2 DEF RepairMoves
  <2>. QED BY <1>0, <1>4, <2>1, <2>2, HappenedStep
<1>5. ASSUME NEW o \in Restrictions, req'[o].pc \in Denied PROVE repair'[o].status # "none"
  <2>1. req[o].pc \in Denied \/ repair'[o].status # "none"
    BY <1>0, <1>2, <1>5, ComesStep DEF Comes
  <2>2. req[o].pc \in Denied => repair[o].status # "none"
    BY <1>0 DEF OwedInv, Denied
  <2>. QED BY <1>1, <2>1, <2>2 DEF RepairMoves
(* Who is about to open the record knows that nothing is owed. *)
<1>6. ASSUME NEW a \in Requests, req'[a].pc = "open", Holds(a)', NEW o \in Restrictions, Happened(o)'
      PROVE  Settles(o)'
  <2>1. Under(a)' /\ Comes(a)
    BY <1>0, <1>6, ComesStep DEF Under, Steps
  <2>2. CASE req[a].pc = "open" /\ req'[a] = req[a]
    <3>1. Under(a) /\ req[a].held.revision <= record.revision /\ record'.revision = req[a].held.revision
      BY <1>0, <1>6, <2>2 DEF Base, HeldInv, Under, Steps, Holds
    <3>2. ~Newer
      BY <1>0, <3>1, OpHeld DEF Newer, Base, Types, RecordSet, Revision
    <3>3. Unmoved
      BY <1>0, <3>2, RecordStep
      DEF Lifting, Lifts, Opening, Opens, Staging, Stages, Publishing, Publishes, Denying, Denies, Marking, Marks,
          Putting, Puts
    <3>4. Holds(a) /\ Happened(o)
      BY <1>6, <2>2, <3>3 DEF Unmoved, Holds, Happened
    <3>5. Settles(o)
      BY <1>0, <2>2, <3>4 DEF OwedInv
    <3>. QED BY <1>3, <3>4, <3>5
  <2>3. CASE /\ req[a].pc = "check" /\ MayApprove(req[a].held) /\ req'[a].held = req[a].held
             /\ record' = record /\ repair' = repair
    <3>1. Under(a) /\ Holds(a) /\ req[a].held = record
      BY <1>0, <1>6, <2>3, OpHeld DEF Under, Steps, Holds
    <3>2. Happened(o)
      <4>1. Newer => record' # record
        BY <1>0 DEF Newer, Base, Types, RecordSet, Revision
      <4>. QED BY <1>0, <1>6, <2>3, <4>1, HappenedStep DEF Publishing, Publishes, Denying, Denies
    <3>3. repair[o].status # "none" /\ (o \in record.restriction \/ Settles(o))
      BY <1>0, <3>2 DEF OwedInv
    <3>4. CASE o \in record.restriction
      <4>1. FenceReleased
        BY <2>3, <3>1, <3>4 DEF MayApprove
      <4>2. repair[o].status \notin Owing
        BY <4>1 DEF FenceReleased, Owing
      <4>3. repair[o].status \in {"none"} \cup Owing \cup Closed
        BY <1>0 DEF Base, Types, RepairTyped, RepairRecord
      <4>. QED BY <2>3, <3>3, <4>2, <4>3 DEF Settles
    <3>. QED BY <2>3, <3>3, <3>4 DEF Settles
  <2>. QED BY <1>6, <2>1, <2>2, <2>3 DEF Comes
<1>. QED BY <1>4, <1>5, <1>6 DEF OwedInv, Denied
(* Who becomes blind has just lost the answer of its write, or has its     *)
(* audit completed under it.                                               *)
BlindAnew(p) ==
    \/ /\ (p \in Approvals /\ Publishing(p)) \/ (p \in Restrictions /\ Denying(p))
       /\ req'[p].held # record'
    \/ /\ Pending(p) /\ ~Ended(p) /\ audit'[p].status = "completed" /\ audit'[p].before = audit[p].before
       /\ UNCHANGED <<record, req, effects>>

LEMMA BlindStep ==
    ASSUME Base, [Next]_vars
    PROVE  /\ blind \subseteq blind'
           /\ \A p \in blind' \ blind : p \in Requests /\ BlindAnew(p)
<1>1. CASE blind' = blind
  BY <1>1
<1>2. UNCHANGED vars => blind' = blind
  BY DEF vars
<1>3. \A q \in Requests : Begin(q) \/ Check(q) \/ Mark(q) \/ Finish(q) \/ FinishCompletion(q) \/ Hold(q) \/ Crash(q)
         => blind' = blind
  BY DEF Begin, Check, Mark, Finish, FinishCompletion, Hold, Crash, history
<1>4. \A a \in Approvals : Open(a) \/ Stage(a) \/ Commit(a) => blind' = blind
  BY DEF Open, Stage, Commit, history
<1>5. \A o \in Restrictions :
         Prepare(o) \/ Abandon(o) \/ MarkDeny(o) \/ Register(o) \/ MarkRegistered(o) \/ Repair(o) \/ Clean(o)
            => blind' = blind
  BY DEF Prepare, Abandon, MarkDeny, Register, MarkRegistered, Repair, Clean, history
<1>6. RestoreMarker => blind' = blind
  BY DEF RestoreMarker, history
<1>7. ASSUME NEW a \in Approvals, a \in Requests, Publish(a), blind' # blind
      PROVE  /\ blind \subseteq blind'
             /\ \A p \in blind' \ blind : p \in Requests /\ BlindAnew(p)
  <2>1. blind' = blind \cup {a} /\ record' # record /\ record' # req'[a].held
    BY <1>7 DEF Publish, TakesEffect
  <2>2. Publishing(a)
    BY <1>7, <2>1, PublishIsOne DEF Unmoved
  <2>. QED BY <1>7, <2>1, <2>2 DEF BlindAnew
<1>8. ASSUME NEW o \in Restrictions, o \in Requests, Deny(o), blind' # blind
      PROVE  /\ blind \subseteq blind'
             /\ \A p \in blind' \ blind : p \in Requests /\ BlindAnew(p)
  <2>1. blind' = blind \cup {o} /\ record' # record /\ record' # req'[o].held
    BY <1>8 DEF Deny, TakesEffect
  <2>2. Denying(o)
    BY <1>8, <2>1, DenyIsOne DEF Unmoved
  <2>. QED BY <1>8, <2>1, <2>2 DEF BlindAnew
<1>9. ASSUME NEW q \in Requests, Resolve(q), blind' # blind
      PROVE  /\ blind \subseteq blind'
             /\ \A p \in blind' \ blind : p \in Requests /\ BlindAnew(p)
  <2>1. blind' = blind \cup {q} /\ ~Ended(q)
    BY <1>9 DEF Resolve
  <2>2. Pending(q) /\ UNCHANGED <<record, req, effects>>
    BY <1>9, ResolveEffect
  <2>3. PICK result \in Result, after \in ValueSet :
            AuditOf(q, [status |-> "completed", before |-> audit[q].before, result |-> result, after |-> after])
    BY <1>9, ResolveEffect
  <2>4. audit'[q].status = "completed" /\ audit'[q].before = audit[q].before
    BY <2>2, <2>3, OutcomeAudit DEF Pending
  <2>. QED BY <2>1, <2>2, <2>4 DEF BlindAnew
<1>. QED BY <1>1, <1>2, <1>3, <1>4, <1>5, <1>6, <1>7, <1>8, <1>9, Actions

LEMMA InitGovernance == Init => GovernanceInv
<1>. SUFFICES ASSUME Init PROVE GovernanceInv
  OBVIOUS
<1>1. record \in RecordSet /\ record.marker = NoMarker /\ record.status = "unreviewed" /\ record.active = NoOp
  BY ConstantAssumption, NoMarkerIn DEF Init, Initial, RecordSet, Status, Revision
<1>2. /\ \A q \in Requests : req[q].pc = "idle" /\ audit[q].status = "none"
      /\ \A q : ~Happened(q)
  BY DEF Init, Happened
<1>3. AuditTyped /\ RepairTyped /\ ManifestTyped /\ ReqTyped /\ EffectsTyped
  BY DEF Init, AuditTyped, RepairTyped, ManifestTyped, ReqTyped, EffectsTyped, AuditRecord, RepairRecord, Resting
<1>4. Types
  BY <1>1, <1>2, <1>3, ConstantAssumption DEF Init, Types, AuditFits, Under, Steps
<1>5. HeldInv /\ ActiveInv /\ EarlyInv /\ OwedInv
  BY <1>1, <1>2 DEF HeldInv, ActiveInv, EarlyInv, OwedInv, Under, Steps, Requests
<1>6. UnpublishedInv /\ ServeInv /\ BlindTyped
  BY <1>1 DEF UnpublishedInv, Unpublished, ServeInv, InUse, Init, BlindTyped
<1>. QED BY <1>4, <1>5, <1>6 DEF GovernanceInv

LEMMA NextGovernance == GovernanceInv /\ [Next]_vars => GovernanceInv'
<1>. SUFFICES ASSUME GovernanceInv, [Next]_vars PROVE GovernanceInv'
  OBVIOUS
<1>1. Base /\ EarlyInv /\ UnpublishedInv /\ ServeInv
  BY DEF GovernanceInv, Base
<1>2. Types' /\ HeldInv' /\ ActiveInv'
  BY <1>1, TypesNext, HeldNext, ActiveNext
<1>3. EarlyInv' /\ OwedInv' /\ UnpublishedInv' /\ ServeInv'
  BY <1>1, EarlyNext, OwedNext, UnpublishedNext, ServeNext
<1>4. BlindTyped'
  BY <1>1, BlindStep DEF GovernanceInv, BlindTyped
<1>. QED BY <1>2, <1>3, <1>4 DEF GovernanceInv

(* What the record, its requests, its repair intents and the history of    *)
(* what took effect know of each other, for all values of the constants:   *)
(* also with a reconciler that completes the audits of requests under way. *)
THEOREM GovernanceInvariant == Spec => []GovernanceInv
  BY InitGovernance, NextGovernance, PTL DEF Spec

(* Every variable keeps its type, and only a candidate of the record's own *)
(* approval is active.                                                     *)
THEOREM TypeCorrect == Spec => []TypeOK
<1>1. GovernanceInv => TypeOK
  <2>. SUFFICES ASSUME GovernanceInv PROVE TypeOK
    OBVIOUS
  <2>1. Types /\ ActiveInv
    BY DEF GovernanceInv
  <2>2. \A q \in Requests :
          \/ audit[q] = [status |-> "none"]
          \/ audit[q] \in [status : {"pending"}, before : ValueSet]
          \/ audit[q] \in [status : {"finalization_pending", "completed"}, before : ValueSet,
                           result : Result, after : ValueSet]
    BY <2>1 DEF Types, AuditTyped, AuditRecord
  <2>3. \A o \in Restrictions :
          \/ repair[o] = [status |-> "none"]
          \/ repair[o] \in [status : {"prepared", "deny_committed", "cleanup_registered", "cleanup_completed",
                                      "abandoned"}, deny : Revision]
    BY <2>1 DEF Types, RepairTyped, RepairRecord, Owing, Closed
  <2>4. \A q \in Requests :
          \/ req[q] \in [pc : {"idle", "done", "dead"}]
          \/ req[q] \in [pc : Working, held : RecordSet, result : Result]
    BY <2>1 DEF Types, ReqTyped, Resting, Active, Steps, Working
  <2>5. blind \subseteq Requests
    BY DEF GovernanceInv, BlindTyped
  <2>. QED BY <2>1, <2>2, <2>3, <2>4, <2>5 DEF Types, ActiveInv, ManifestTyped, TypeOK
<1>. QED BY <1>1, GovernanceInvariant, PTL

(* A restricted use is served again only after an approval that was        *)
(* published later, whatever failed, was restored or came late.            *)
THEOREM ServedAgainOnlyReapproved == Spec => []ServedOnceReapproved
<1>1. GovernanceInv => ServedOnceReapproved
  BY DEF GovernanceInv, ServeInv, InUse, ServedOnceReapproved, Serves
<1>. QED BY <1>1, GovernanceInvariant, PTL

(* No step opens the record, and none brings it back to where it was       *)
(* opened, while a deny that took effect waits for its cleanup.            *)
THEOREM ApprovalsWaitForCleanup == Spec => NoApprovalUnderCleanup
<1>1. GovernanceInv /\ [Next]_vars =>
        (record'.status = "approval_pending" /\ record.status # "approval_pending" =>
          \A o \in Restrictions : Happened(o) => repair[o].status \in {"cleanup_completed", "abandoned"})
  <2>. SUFFICES ASSUME GovernanceInv, [Next]_vars, record'.status = "approval_pending",
                       record.status # "approval_pending", NEW o \in Restrictions, Happened(o)
                PROVE  Settles(o)
    BY DEF Settles, Closed
  <2>1. Base /\ OwedInv /\ UnpublishedInv
    BY DEF GovernanceInv, Base
  <2>2. \A a \in Approvals : Opening(a) => Settles(o)
    BY <2>1 DEF Opening, OwedInv
  <2>3. Lifting => Settles(o)
    <3>1. Lifting => record.restriction = {}
      BY <2>1 DEF Lifting, Lifts, UnpublishedInv, Unpublished
    <3>. QED BY <2>1, <3>1 DEF OwedInv
  <2>4. ~Unmoved
    BY DEF Unmoved
  <2>5. \A a \in Approvals : ~Staging(a) /\ ~Publishing(a)
    BY DEF Staging, Stages, Publishing, Publishes
  <2>6. (\A r \in Restrictions : ~Denying(r)) /\ (\A q \in Requests : ~Marking(q) /\ ~Putting(q))
    BY DEF Denying, Denies, Marking, Marks, Putting, Puts
  <2>. QED BY <2>1, <2>2, <2>3, <2>4, <2>5, <2>6, RecordStep
<1>. QED BY <1>1, GovernanceInvariant, PTL DEF Spec, NoApprovalUnderCleanup
-----------------------------------------------------------------------------
(* Completed audits.                                                       *)

LEMMA Mover ==
    ASSUME Base, [Next]_vars, NEW p \in Requests
    PROVE  \/ req'[p] = req[p]
           \/ Begin(p) \/ Check(p) \/ Mark(p) \/ Finish(p) \/ FinishCompletion(p) \/ Hold(p) \/ Crash(p)
           \/ p \in Approvals /\ (Open(p) \/ Stage(p) \/ Commit(p) \/ Publish(p))
           \/ p \in Restrictions /\ (Prepare(p) \/ Deny(p))
           \/ p \in Restrictions /\ (Abandon(p) \/ MarkDeny(p) \/ Register(p) \/ MarkRegistered(p))
<1>1. UNCHANGED vars => req' = req
  BY DEF vars
<1>2. ASSUME NEW q \in Requests, q # p,
             Begin(q) \/ Check(q) \/ Mark(q) \/ Finish(q) \/ FinishCompletion(q) \/ Hold(q) \/ Crash(q)
      PROVE  req'[p] = req[p]
  <2>1. CASE Begin(q) \/ Check(q) \/ Mark(q)
    BY <1>2, <2>1, BeginEffect, CheckEffect, MarkEffect DEF Moved, Others
  <2>2. CASE Finish(q) \/ FinishCompletion(q)
    BY <1>2, <2>2, FinishEffect, CompletionEffect DEF Moved, Others
  <2>3. CASE Hold(q) \/ Crash(q)
    BY <1>2, <2>3, HoldEffect, CrashEffect DEF Others
  <2>. QED BY <1>2, <2>1, <2>2, <2>3
<1>3. ASSUME NEW q \in Requests, Resolve(q) PROVE req'[p] = req[p]
  BY <1>3 DEF Resolve
<1>4. ASSUME NEW a \in Approvals, a \in Requests, a # p, Open(a) \/ Stage(a) \/ Commit(a) \/ Publish(a)
      PROVE  req'[p] = req[p]
  BY <1>4, OpenEffect, StageEffect, CommitEffect, PublishEffect DEF Moved, Others
<1>5. ASSUME NEW o \in Restrictions, o \in Requests, o # p,
             \/ Prepare(o) \/ Deny(o)
             \/ Abandon(o) \/ MarkDeny(o) \/ Register(o) \/ MarkRegistered(o)
      PROVE  req'[p] = req[p]
  BY <1>5, PrepareEffect, DenyEffect, RestrictionMoves DEF Moved, Others
<1>6. ASSUME NEW o \in Restrictions, Repair(o) \/ Clean(o) PROVE req'[p] = req[p]
  BY <1>6, BatchMoves
<1>7. RestoreMarker => req'[p] = req[p]
  BY DEF RestoreMarker
<1>. QED BY <1>1, <1>2, <1>3, <1>4, <1>5, <1>6, <1>7, Actions

(* Whoever does not come from its effect has not taken effect just now. *)
LEMMA HappenedStays ==
    ASSUME Base, [Next]_vars, NEW p \in Requests,
           \/ req[p].pc \notin {"publish", "deny"}
           \/ req'[p].pc \notin {"finish", "deny_committed", "mark", "abandon"}
    PROVE  Happened(p)' <=> Happened(p)
BY HappenedStep DEF Publishing, Denying, Moved

LEMMA ReportNext ==
    ASSUME Base, EarlyInv, ReportInv, [Next]_vars
    PROVE  ReportInv'
<1>. SUFFICES ASSUME NEW p \in Requests PROVE Reports(p)'
  BY DEF ReportInv
<1>0. Reports(p) /\ (req[p].pc \in Early => ~Happened(p)) /\ blind \subseteq blind'
  BY BlindStep DEF ReportInv, EarlyInv
<1>1. CASE req'[p] = req[p]
  <2>1. Happened(p)' <=> Happened(p)
    BY <1>1, HappenedStays
  <2>. QED BY <1>0, <1>1, <2>1 DEF Reports
<1>2. CASE Begin(p)
  BY <1>2, BeginEffect DEF Moved, Reports
<1>3. CASE Check(p)
  <2>1. ~Happened(p)'
    BY <1>0, <1>3, CheckEffect, HappenedStays DEF Early
  <2>. QED BY <1>0, <1>3, <2>1, CheckEffect DEF Moved, Reports
<1>4. CASE Mark(p)
  <2>1. req[p].pc = "mark" /\ Under(p) /\ (Happened(p)' <=> Happened(p))
    BY <1>4, HappenedStays DEF Mark, Under, Steps
  <2>2. Holds(p) /\ Marks => record'.restriction = req[p].held.restriction
    BY <2>1, OpHeld DEF Marks
  <2>. QED BY <1>0, <1>4, <2>1, <2>2, MarkEffect DEF Moved, Reports
<1>5. CASE Finish(p)
  <2>1. Happened(p)' <=> Happened(p)
    BY <1>5, FinishEffect, HappenedStays
  <2>. QED BY <1>0, <1>5, <2>1, FinishEffect DEF Moved, Reports
<1>6. CASE FinishCompletion(p)
  <2>1. Happened(p)' <=> Happened(p)
    BY <1>6, CompletionEffect, HappenedStays
  <2>. QED BY <1>0, <1>6, <2>1, CompletionEffect DEF Moved, Reports
<1>7. CASE Hold(p) \/ Crash(p)
  BY <1>7, HoldEffect, CrashEffect DEF Reports
<1>8. CASE p \in Approvals /\ Open(p)
  <2>1. req[p].pc = "open" /\ ~Happened(p)'
    BY <1>0, <1>8, HappenedStays DEF Open, Early
  <2>. QED BY <1>0, <1>8, <2>1, OpenEffect DEF Moved, Reports
<1>9. CASE p \in Approvals /\ Stage(p)
  <2>1. req[p].pc = "stage" /\ ~Happened(p)'
    BY <1>0, <1>9, HappenedStays DEF Stage, Early
  <2>. QED BY <1>0, <1>9, <2>1, StageEffect DEF Moved, Reports
<1>10. CASE p \in Approvals /\ Commit(p)
  <2>1. req[p].pc = "commit" /\ ~Happened(p)'
    BY <1>0, <1>10, HappenedStays DEF Commit, Early
  <2>. QED BY <1>0, <1>10, <2>1, CommitEffect DEF Moved, Reports
<1>11. CASE p \in Approvals /\ Publish(p)
  <2>1. req[p].pc = "publish" /\ ~Happened(p) /\ req[p].result = "success"
    BY <1>0, <1>11 DEF Publish, Early, Reports
  <2>2. CASE Moved(p, "finish", record', req[p].result) /\ effects' = Append(effects, p)
    <3>1. Happened(p)'
      BY <2>2, HappenedGrows DEF Base, Types
    <3>. QED BY <2>1, <2>2, <3>1 DEF Moved, Reports
  <2>3. CASE effects' = effects /\ \E result \in {"refused", "failed"} : Moved(p, "mark", req[p].held, result)
    <3>1. ~Happened(p)'
      BY <2>1, <2>3 DEF Happened
    <3>. QED BY <2>3, <3>1 DEF Moved, Reports
  <2>4. CASE Moved(p, "mark", req[p].held, "failed") /\ blind' = blind \cup {p}
    BY <2>4 DEF Moved, Reports
  <2>. QED BY <1>11, <2>2, <2>3, <2>4, PublishEffect
<1>12. CASE p \in Restrictions /\ Prepare(p)
  <2>1. req[p].pc = "prepare" /\ ~Happened(p)'
    BY <1>0, <1>12, HappenedStays DEF Prepare, Early
  <2>. QED BY <1>0, <1>12, <2>1, PrepareEffect DEF Moved, Reports
<1>13. CASE p \in Restrictions /\ Deny(p)
  <2>1. req[p].pc = "deny" /\ ~Happened(p)
    BY <1>0, <1>13 DEF Deny, Early
  <2>2. CASE Moved(p, "deny_committed", record', req[p].result) /\ Denies(p) /\ effects' = Append(effects, p)
    <3>1. Happened(p)' /\ p \in record'.restriction
      BY <2>2, HappenedGrows DEF Base, Types, Denies
    <3>. QED BY <2>2, <3>1 DEF Moved, Reports
  <2>3. CASE effects' = effects /\ \E result \in {"refused", "failed"} : Moved(p, "abandon", req[p].held, result)
    <3>1. ~Happened(p)'
      BY <2>1, <2>3 DEF Happened
    <3>. QED BY <2>3, <3>1 DEF Moved, Reports
  <2>4. CASE Moved(p, "abandon", req[p].held, "failed") /\ blind' = blind \cup {p}
    BY <2>4 DEF Moved, Reports
  <2>. QED BY <1>13, <2>2, <2>3, <2>4, DenyEffect
<1>14. CASE p \in Restrictions /\ (Abandon(p) \/ MarkDeny(p) \/ Register(p) \/ MarkRegistered(p))
  <2>1. Happened(p)' <=> Happened(p)
    BY <1>14, HappenedStays DEF Abandon, MarkDeny, Register, MarkRegistered
  <2>. QED BY <1>0, <1>14, <2>1, RestrictionMoves DEF Moved, Reports
<1>. QED BY <1>1, <1>2, <1>3, <1>4, <1>5, <1>6, <1>7, <1>8, <1>9, <1>10, <1>11, <1>12, <1>13, <1>14, Mover

(* How the audit of one request changes. *)
AuditStep(p) ==
    \/ audit'[p] = audit[p]
    \/ /\ req[p].pc = "idle" /\ req'[p].pc = "check" /\ record' = record
       /\ audit'[p].status = "pending" /\ audit'[p].before = Value(record)
    \/ /\ req[p].pc = "finish" /\ req'[p].pc = "complete" /\ audit[p].status = "pending"
       /\ audit'[p].status = "finalization_pending" /\ audit'[p].before = audit[p].before
       /\ audit'[p].result = req[p].result /\ audit'[p].after = Value(req[p].held)
    \/ /\ req[p].pc = "complete" /\ req'[p].pc = "done" /\ audit[p].status \in {"finalization_pending", "completed"}
       /\ audit'[p].status = "completed" /\ audit'[p].before = audit[p].before
       /\ audit'[p].result = audit[p].result /\ audit'[p].after = audit[p].after
    \/ /\ Pending(p) /\ req' = req /\ record' = record /\ effects' = effects
       /\ audit'[p].status = "completed" /\ audit'[p].before = audit[p].before
       /\ Resolves(p, audit'[p].result, audit'[p].after)
       /\ Ended(p) \/ p \in blind'

LEMMA AuditSteps ==
    ASSUME Base, [Next]_vars, NEW p \in Requests
    PROVE  AuditStep(p)
<1>1. CASE audit' = audit
  BY <1>1 DEF AuditStep
<1>2. UNCHANGED vars => audit' = audit
  BY DEF vars
<1>3. ASSUME NEW q \in Requests, Begin(q) PROVE AuditStep(p)
  <2>1. CASE /\ audit' = [audit EXCEPT ![q] = [status |-> "pending", before |-> Value(record)]]
             /\ Moved(q, "check", record, "success")
    BY <1>3, <2>1, BeginAudit, BeginEffect DEF AuditStep, Moved
  <2>. QED BY <1>1, <1>3, <2>1, BeginEffect
<1>4. ASSUME NEW q \in Requests, Finish(q) PROVE AuditStep(p)
  <2>1. CASE /\ audit[q].status = "pending"
             /\ AuditOf(q, [status |-> "finalization_pending", before |-> audit[q].before,
                            result |-> req[q].result, after |-> Value(req[q].held)])
             /\ Moved(q, "complete", req[q].held, req[q].result)
    <3>1. req[q].pc = "finish" /\ req[q].result \in Result /\ Value(req[q].held) \in ValueSet
      BY <1>4, UnderActive, Values DEF Finish, Base, Types, Under, Steps, Active
    <3>2. /\ \A r \in Requests \ {q} : audit'[r] = audit[r]
          /\ audit'[q].status = "finalization_pending" /\ audit'[q].before = audit[q].before
          /\ audit'[q].result = req[q].result /\ audit'[q].after = Value(req[q].held)
      BY <2>1, <3>1, OutcomeAudit
    <3>. QED BY <2>1, <3>1, <3>2 DEF AuditStep, Moved
  <2>. QED BY <1>1, <1>4, <2>1, FinishEffect
<1>5. ASSUME NEW q \in Requests, FinishCompletion(q) PROVE AuditStep(p)
  <2>1. req[q].pc = "complete" /\ audit[q].status \in {"finalization_pending", "completed"}
    BY <1>5 DEF FinishCompletion, AuditFits, Base, Types
  <2>2. CASE AuditOf(q, [audit[q] EXCEPT !.status = "completed"]) /\ req'[q].pc = "done"
    <3>1. /\ \A r \in Requests \ {q} : audit'[r] = audit[r]
          /\ audit'[q].status = "completed" /\ audit'[q].before = audit[q].before
          /\ audit'[q].result = audit[q].result /\ audit'[q].after = audit[q].after
      BY <2>1, <2>2, CompletedAudit
    <3>. QED BY <2>1, <2>2, <3>1 DEF AuditStep
  <2>. QED BY <1>1, <1>5, <2>2, CompletionEffect
<1>6. ASSUME NEW q \in Requests, Resolve(q) PROVE AuditStep(p)
  <2>1. UNCHANGED <<record, req, effects>> /\ Pending(q)
    BY <1>6, ResolveEffect
  <2>2. PICK result \in Result, after \in ValueSet :
            /\ Resolves(q, result, after)
            /\ AuditOf(q, [status |-> "completed", before |-> audit[q].before, result |-> result, after |-> after])
    BY <1>6, ResolveEffect
  <2>3. /\ \A r \in Requests \ {q} : audit'[r] = audit[r]
        /\ audit'[q].status = "completed" /\ audit'[q].before = audit[q].before
        /\ audit'[q].result = result /\ audit'[q].after = after
    BY <2>1, <2>2, OutcomeAudit DEF Pending
  <2>4. Ended(q) \/ q \in blind'
    BY <1>6 DEF Resolve
  <2>. QED BY <2>1, <2>2, <2>3, <2>4 DEF AuditStep
<1>7. \A q \in Requests : Check(q) \/ Mark(q) \/ Hold(q) \/ Crash(q) => audit' = audit
  BY DEF Check, Mark, Hold, Crash
<1>8. \A a \in Approvals : Open(a) \/ Stage(a) \/ Commit(a) \/ Publish(a) => audit' = audit
  BY DEF Open, Stage, Commit, Publish
<1>9. \A o \in Restrictions :
         Prepare(o) \/ Deny(o) \/ Abandon(o) \/ MarkDeny(o) \/ Register(o) \/ MarkRegistered(o) \/ Repair(o) \/ Clean(o)
            => audit' = audit
  BY DEF Prepare, Deny, Abandon, MarkDeny, Register, MarkRegistered, Repair, Clean
<1>10. RestoreMarker => audit' = audit
  BY DEF RestoreMarker
<1>. QED BY <1>1, <1>2, <1>3, <1>4, <1>5, <1>6, <1>7, <1>8, <1>9, <1>10, Actions

(* Nobody starts twice, and nobody goes back from its completion. *)
LEMMA Goes ==
    ASSUME Base, [Next]_vars, NEW p \in Requests
    PROVE  /\ req'[p].pc = "idle" => req[p].pc = "idle"
           /\ Under(p)' => Under(p) \/ req[p].pc = "idle"
           /\ Under(p)' /\ req'[p].pc \notin {"complete", "hold"} =>
                 \/ Under(p) /\ req[p].pc \notin {"complete", "hold"}
                 \/ req[p].pc = "idle" /\ audit'[p].status = "pending"
<1>1. CASE req'[p] = req[p]
  BY <1>1 DEF Under
<1>2. CASE Begin(p)
  <2>1. audit' = [audit EXCEPT ![p] = [status |-> "pending", before |-> Value(record)]] => audit'[p].status = "pending"
    BY BeginAudit
  <2>. QED BY <1>2, <2>1, BeginEffect DEF Moved, Under, Steps
<1>3. CASE Check(p) \/ Mark(p) \/ Finish(p) \/ FinishCompletion(p)
  BY <1>3, CheckEffect, MarkEffect, FinishEffect, CompletionEffect
  DEF Check, Mark, Finish, FinishCompletion, Moved, Under, Steps
<1>4. CASE Hold(p) \/ Crash(p)
  BY <1>4, HoldEffect, CrashEffect DEF Under, Steps
<1>5. CASE p \in Approvals /\ (Open(p) \/ Stage(p) \/ Commit(p) \/ Publish(p))
  BY <1>5, OpenEffect, StageEffect, CommitEffect, PublishEffect
  DEF Open, Stage, Commit, Publish, Moved, Under, Steps
<1>6. CASE p \in Restrictions /\ (Prepare(p) \/ Deny(p))
  BY <1>6, PrepareEffect, DenyEffect DEF Prepare, Deny, Moved, Under, Steps
<1>7. CASE p \in Restrictions /\ (Abandon(p) \/ MarkDeny(p) \/ Register(p) \/ MarkRegistered(p))
  BY <1>7, RestrictionMoves DEF Abandon, MarkDeny, Register, MarkRegistered, Moved, Under, Steps
<1>. QED BY <1>1, <1>2, <1>3, <1>4, <1>5, <1>6, <1>7, Mover

LEMMA WaitNext ==
    ASSUME Base, WaitInv, [Next]_vars
    PROVE  WaitInv'
<1>. SUFFICES ASSUME NEW p \in Requests
     PROVE  /\ req'[p].pc = "idle" => audit'[p].status = "none" /\ p \notin blind'
            /\ Under(p)' /\ req'[p].pc \notin {"complete", "hold"} => audit'[p].status = "pending" \/ Guessed(p)'
            /\ req'[p].pc = "idle" \/ Under(p)' => ~Marked(p)'
  BY DEF WaitInv
<1>0. /\ req[p].pc = "idle" => audit[p].status = "none" /\ p \notin blind
      /\ Under(p) /\ req[p].pc \notin {"complete", "hold"} => audit[p].status = "pending" \/ Guessed(p)
      /\ req[p].pc = "idle" \/ Under(p) => ~Marked(p)
  BY DEF WaitInv
<1>1. blind \subseteq blind'
  BY BlindStep
<1>2. ASSUME req'[p].pc = "idle" PROVE audit'[p].status = "none" /\ p \notin blind'
  <2>1. req[p].pc = "idle" /\ audit[p].status = "none" /\ ~Pending(p) /\ p \notin blind
    BY <1>0, <1>2, Goes DEF Pending
  <2>2. ~BlindAnew(p)
    BY <2>1 DEF BlindAnew, Publishing, Denying
  <2>. QED BY <1>2, <2>1, <2>2, AuditSteps, BlindStep DEF AuditStep
<1>3. ASSUME Under(p)', req'[p].pc \notin {"complete", "hold"} PROVE audit'[p].status = "pending" \/ Guessed(p)'
  <2>1. CASE Under(p) /\ req[p].pc \notin {"complete", "hold"}
    <3>1. audit[p].status = "pending" \/ Guessed(p)
      BY <1>0, <2>1
    <3>2. ~Ended(p) /\ req[p].pc # "idle"
      BY <2>1 DEF Under, Steps, Ended
    <3>3. CASE audit'[p] = audit[p]
      BY <1>1, <3>1, <3>3 DEF Guessed
    <3>4. CASE audit'[p].status = "completed" /\ p \in blind'
      BY <3>4 DEF Guessed
    <3>. QED BY <1>3, <2>1, <3>2, <3>3, <3>4, AuditSteps DEF AuditStep, Under, Steps
  <2>. QED BY <1>3, <2>1, Goes
<1>4. ASSUME req'[p].pc = "idle" \/ Under(p)' PROVE ~Marked(p)'
  <2>1. ~Marked(p) /\ req'[p].pc # "done"
    BY <1>0, <1>4, Goes DEF Under, Steps
  <2>2. Unmoved => ~Marked(p)'
    BY <2>1 DEF Unmoved, Marked
  <2>3. record'.marker = NoMarker => ~Marked(p)'
    BY NoMarkerIn DEF Marked
  <2>4. \A q \in Requests : Putting(q) => ~Marked(p)'
    BY <2>1 DEF Putting, Puts, Marked
  <2>. QED BY <2>2, <2>3, <2>4, RecordStep
     DEF Lifting, Opening, Staging, Publishing, Denying, Marking, Lifts, Opens, Stages, Publishes, Denies, Marks
<1>. QED BY <1>2, <1>3, <1>4

(* Only a request that holds the record's version goes on from another.    *)
LEMMA HeldStays ==
    ASSUME Base, [Next]_vars, NEW p \in Requests, Under(p), ~Holds(p), Under(p)'
    PROVE  req'[p].held = req[p].held
<1>1. CASE req'[p] = req[p]
  BY <1>1
<1>2. ~Begin(p)
  BY DEF Begin, Under, Steps
<1>3. CASE Check(p) \/ Mark(p) \/ Finish(p)
  BY <1>3, CheckEffect, MarkEffect, FinishEffect DEF Moved
<1>4. CASE FinishCompletion(p)
  BY <1>4, CompletionEffect DEF Moved, Under, Steps
<1>5. ~Hold(p) /\ ~Crash(p)
  BY HoldEffect, CrashEffect DEF Under, Steps
<1>6. CASE p \in Approvals /\ (Open(p) \/ Stage(p) \/ Commit(p) \/ Publish(p))
  BY <1>6, OpenEffect, StageEffect, CommitEffect, PublishEffect DEF Moved
<1>7. CASE p \in Restrictions /\ (Prepare(p) \/ Deny(p))
  BY <1>7, PrepareEffect, DenyEffect DEF Moved
<1>8. CASE p \in Restrictions /\ (Abandon(p) \/ MarkDeny(p) \/ Register(p) \/ MarkRegistered(p))
  BY <1>8, RestrictionMoves DEF Moved
<1>. QED BY <1>1, <1>2, <1>3, <1>4, <1>5, <1>6, <1>7, <1>8, Mover

LEMMA LostNext ==
    ASSUME Base, WaitInv, LostInv, [Next]_vars
    PROVE  LostInv'
<1>. SUFFICES ASSUME NEW p \in Requests, p \in blind', audit'[p].status # "completed", Under(p)'
     PROVE  ~Holds(p)'
  BY DEF LostInv
<1>1. HeldInv'
  BY HeldNext
<1>2. CASE p \in blind
  <2>1. req[p].pc # "idle"
    BY <1>2 DEF WaitInv
  <2>2. audit[p].status # "completed"
    BY <2>1, AuditSteps DEF AuditStep
  <2>3. Under(p) /\ ~Holds(p)
    BY <1>2, <2>1, <2>2, Goes DEF LostInv
  <2>4. req'[p].held = req[p].held
    BY <2>3, HeldStays
  <2>5. /\ req[p].held.revision \in Nat /\ record.revision \in Nat
        /\ req[p].held.revision <= record.revision /\ req[p].held.revision # record.revision
    BY <2>3, OpHeld DEF Base, Types, HeldInv, RecordSet, Revision, Holds
  <2>6. record'.revision \in {record.revision, record.revision + 1}
    BY RecordStep
    DEF Unmoved, Lifting, Lifts, Opening, Opens, Staging, Stages, Publishing, Publishes, Denying, Denies, Marking, Marks,
        Putting, Puts, Newer
  <2>. QED BY <2>4, <2>5, <2>6 DEF Holds
<1>3. CASE p \notin blind
  <2>1. req'[p].held # record'
    BY <1>3, BlindStep DEF BlindAnew
  <2>. QED BY <1>1, <2>1 DEF HeldInv, Holds
<1>. QED BY <1>2, <1>3

LEMMA IntentNext ==
    ASSUME Base, EarlyInv, AuditInv, [Next]_vars
    PROVE  IntentInv'
<1>. SUFFICES ASSUME NEW p \in Requests
     PROVE  /\ audit'[p].status # "none" => audit'[p].before.revision <= record'.revision
            /\ Happened(p)' => audit'[p].status # "none" /\ audit'[p].before.revision < record'.revision
            /\ record'.intent = p /\ ~Marked(p)' /\ audit'[p].status # "completed" =>
                  /\ PostState(p)' => Happened(p)'
                  /\ Happened(p)' => IF p \in Approvals THEN record'.status = "published" ELSE p \in record'.restriction
  BY DEF IntentInv
<1>0. /\ audit[p].status # "none" => audit[p].before.revision <= record.revision
      /\ Happened(p) => audit[p].status # "none" /\ audit[p].before.revision < record.revision
      /\ record.intent = p /\ ~Marked(p) /\ audit[p].status # "completed" =>
            /\ PostState(p) => Happened(p)
            /\ Happened(p) => IF p \in Approvals THEN record.status = "published" ELSE p \in record.restriction
      /\ req[p].pc = "idle" => audit[p].status = "none" /\ ~Happened(p)
      /\ req[p].pc \in Early => ~Happened(p)
      /\ Reports(p)
  BY DEF AuditInv, IntentInv, WaitInv, EarlyInv, Early, ReportInv
<1>t. /\ record \in RecordSet /\ record.revision \in Nat
      /\ audit[p].status # "none" => audit[p].before.revision \in Nat
  BY DEF Base, Types, RecordSet, Revision, AuditTyped, AuditRecord, ValueSet
<1>1. record' = record \/ Newer
  BY RecordStep
  DEF Unmoved, Lifting, Lifts, Opening, Opens, Staging, Stages, Publishing, Publishes, Denying, Denies, Marking, Marks,
      Putting, Puts
<1>2. \/ /\ audit'[p].status # "none" => audit[p].status # "none" /\ audit'[p].before = audit[p].before
         /\ audit[p].status # "none" => audit'[p].status # "none"
         /\ audit[p].status = "completed" => audit'[p].status = "completed"
      \/ /\ audit[p].status = "none" /\ record' = record /\ ~Happened(p) /\ req'[p].pc = "check"
         /\ audit'[p].status = "pending" /\ audit'[p].before.revision = record.revision
  <2>1. Value(record).revision = record.revision
    BY DEF Value
  <2>. QED BY <1>0, <2>1, AuditSteps DEF AuditStep, Pending
<1>3. Happened(p)' => Happened(p) \/ (Newer /\ Under(p) /\ req[p].pc # "idle")
  BY HappenedStep DEF Publishing, Publishes, Denying, Denies, Under, Steps
<1>4. audit'[p].status # "none" => audit'[p].before.revision <= record'.revision
  BY <1>0, <1>t, <1>1, <1>2 DEF Newer
<1>5. ASSUME Happened(p)' PROVE audit'[p].status # "none" /\ audit'[p].before.revision < record'.revision
  <2>1. CASE Happened(p)
    BY <1>0, <1>t, <1>1, <1>2, <2>1 DEF Newer
  <2>2. CASE Newer /\ Under(p)
    <3>1. audit[p].status # "none"
      BY <2>2 DEF Base, Types, AuditFits
    <3>. QED BY <1>0, <1>t, <1>2, <2>2, <3>1 DEF Newer
  <2>. QED BY <1>3, <1>5, <2>1, <2>2
<1>6. ASSUME record'.intent = p, ~Marked(p)', audit'[p].status # "completed"
      PROVE  /\ PostState(p)' => Happened(p)'
             /\ Happened(p)' => IF p \in Approvals THEN record'.status = "published" ELSE p \in record'.restriction
  <2>1. CASE Unmoved
    BY <1>0, <1>2, <1>6, <2>1 DEF Unmoved, Marked, PostState, Happened
  <2>2. CASE Lifting
    <3>1. record.marker # NoMarker /\ audit[record.marker.op].status = "completed" /\ record.intent = record.marker.op
          /\ record'.intent = record.intent /\ audit' = audit
      BY <2>2 DEF Lifting, Lifts, RestoreMarker, MarkerValid
    <3>. QED BY <1>6, <3>1
  <2>3. ASSUME NEW a \in Approvals, Opening(a) \/ Staging(a)
        PROVE  ~PostState(p)' /\ ~Happened(p)'
    <3>1. /\ effects' = effects /\ p = a /\ req[p].pc \in {"open", "stage"}
          /\ record'.status \in {"approval_pending", "approved"}
      BY <1>6, <2>3 DEF Opening, Opens, Staging, Stages
    <3>. QED BY <1>0, <3>1 DEF Early, Happened, PostState
  <2>4. ASSUME NEW a \in Approvals, Publishing(a)
        PROVE  Happened(p)' /\ p \in Approvals /\ record'.status = "published"
    <3>1. /\ effects' = Append(effects, a) /\ p = a
          /\ record'.status = "published"
      BY <1>6, <2>4 DEF Publishing, Publishes
    <3>. QED BY <3>1, HappenedGrows DEF Base, Types
  <2>5. ASSUME NEW o \in Restrictions, Denying(o)
        PROVE  Happened(p)' /\ p \notin Approvals /\ p \in record'.restriction
    <3>1. /\ effects' = Append(effects, o) /\ p = o
          /\ o \in record'.restriction
      BY <1>6, <2>5 DEF Denying, Denies
    <3>. QED BY <3>1, HappenedGrows, ConstantAssumption DEF Base, Types
  <2>6. ASSUME NEW q \in Requests, Marking(q)
        PROVE  /\ ~PostState(p)'
               /\ Happened(p)' => IF p \in Approvals THEN record'.status = "published" ELSE p \in record'.restriction
    <3>1. /\ effects' = effects /\ p = q /\ req[p].pc = "mark" /\ req[p].held = record
          /\ record'.restriction = record.restriction /\ record'.status = "reconciliation_required"
      BY <1>6, <2>6 DEF Marking, Marks
    <3>2. Happened(p)' => p \in record.restriction
      <4>1. audit[p].status # "completed" /\ Under(p) /\ Holds(p)
        BY <1>2, <1>6, <3>1 DEF Under, Steps, Holds
      <4>2. p \notin blind
        BY <4>1 DEF AuditInv, LostInv
      <4>. QED BY <1>0, <3>1, <4>2 DEF Reports, Happened
    <3>3. p \in record.restriction => p \notin Approvals
      BY <1>t, ConstantAssumption DEF RecordSet
    <3>. QED BY <3>1, <3>2, <3>3 DEF PostState
  <2>7. \A q \in Requests : ~Putting(q)
    BY <1>6 DEF Putting, Puts, Marked
  <2>. QED BY <2>1, <2>2, <2>3, <2>4, <2>5, <2>6, <2>7, RecordStep
<1>. QED BY <1>4, <1>5, <1>6

LEMMA TruthNext ==
    ASSUME Base, EarlyInv, AuditInv, [Next]_vars
    PROVE  TruthInv'
<1>0. blind \subseteq blind'
  BY BlindStep
<1>1. ASSUME NEW p \in Requests, audit'[p].status \in {"finalization_pending", "completed"}
      PROVE  Truth(p, audit[p].result, audit[p].after)'
  <2>0. /\ audit[p].status \in {"finalization_pending", "completed"} => Truth(p, audit[p].result, audit[p].after)
        /\ req[p].pc \in {"publish", "deny"} => audit[p].status = "pending" \/ Guessed(p)
        /\ Reports(p)
    BY DEF AuditInv, TruthInv, WaitInv, ReportInv, Under, Steps
(* Who takes effect only now has no audit yet, or one guessed for it. *)
  <2>1. CASE Happened(p)' /\ ~Happened(p)
    <3>1. req[p].pc \in {"publish", "deny"} /\ effects' # effects
      BY <2>1, HappenedStep DEF Publishing, Denying, Happened
    <3>2. audit'[p] = audit[p]
      BY <1>1, <3>1, AuditSteps DEF AuditStep
    <3>3. Guessed(p)
      BY <1>1, <2>0, <3>1, <3>2
    <3>4. p \in blind
      BY <2>0, <2>1, <3>3 DEF Guessed, Truth
    <3>5. audit[p].result # "success"
      BY <2>0, <2>1, <3>3 DEF Guessed, Truth
    <3>. QED BY <1>0, <3>2, <3>4, <3>5 DEF Truth
  <2>. SUFFICES ASSUME Happened(p)' <=> Happened(p)
                PROVE  Truth(p, audit'[p].result, audit'[p].after)
    BY <1>0, <2>1, HappenedStep DEF Truth
  <2>2. CASE audit'[p] = audit[p]
    BY <1>1, <2>0, <2>2
  <2>3. CASE req[p].pc = "finish" /\ audit'[p].result = req[p].result /\ audit'[p].after = Value(req[p].held)
    BY <2>0, <2>3 DEF Reports, Truth, Value
  <2>4. CASE /\ audit[p].status \in {"finalization_pending", "completed"}
             /\ audit'[p].result = audit[p].result /\ audit'[p].after = audit[p].after
    BY <2>0, <2>4
  <2>5. CASE Pending(p) /\ Resolves(p, audit'[p].result, audit'[p].after)
    <3>. DEFINE result == audit'[p].result
                after == audit'[p].after
    <3>1. CASE Marked(p) /\ result = record.marker.result /\ after = record.marker.after
      <4>1. record.marker # NoMarker /\ record.marker.op = p
        BY <3>1, NoMarkerIn DEF Marked
      <4>. QED BY <3>1, <4>1 DEF AuditInv, TruthInv
    <3>2. CASE audit[p].status = "finalization_pending" /\ Requested(p, result, after)
      BY <2>0, <3>2 DEF Requested
    <3>3. CASE /\ ~Marked(p) /\ audit[p].status = "pending" /\ after = Value(record)
               /\ record.intent = p \/ audit[p].before = after
               /\ result = IF PostState(p) THEN "success" ELSE "failed"
      <4>1. /\ Happened(p) => audit[p].before.revision < record.revision
            /\ record.intent = p =>
                  /\ PostState(p) => Happened(p)
                  /\ Happened(p) => IF p \in Approvals THEN record.status = "published" ELSE p \in record.restriction
        BY <3>3 DEF AuditInv, IntentInv
      <4>2. after.revision = record.revision /\ after.restriction = record.restriction /\ record.revision \in Nat
        BY <3>3 DEF Value, Base, Types, RecordSet, Revision
      <4>3. PostState(p) => Happened(p) /\ result = "success"
        BY <3>3, <4>1 DEF PostState
      <4>4. ASSUME ~PostState(p), Happened(p) PROVE p \in after.restriction
        <5>1. record.intent = p
          BY <3>3, <4>1, <4>2, <4>4
        <5>2. p \notin Approvals
          BY <4>1, <4>4, <5>1 DEF PostState
        <5>. QED BY <4>1, <4>2, <4>4, <5>1, <5>2
      <4>. QED BY <3>3, <4>3, <4>4 DEF Truth
    <3>. QED BY <2>5, <3>1, <3>2, <3>3 DEF Resolves, Pending
  <2>. QED BY <1>1, <2>2, <2>3, <2>4, <2>5, AuditSteps DEF AuditStep
<1>2. ASSUME record'.marker # NoMarker
      PROVE  Truth(record.marker.op, record.marker.result, record.marker.after)'
  <2>1. CASE Unmoved
    BY <1>0, <1>2, <2>1 DEF Unmoved, Truth, Happened, AuditInv, TruthInv
  <2>2. ASSUME NEW q \in Requests, Putting(q)
        PROVE  Truth(record.marker.op, record.marker.result, record.marker.after)'
    <3>1. /\ effects' = effects /\ req[q].pc = "hold" /\ req[q].held = record /\ Reports(q)
          /\ record'.marker.op = q /\ record'.marker.result = req[q].result /\ record'.marker.after = Value(record)
      BY <2>2 DEF Putting, Puts, AuditInv, ReportInv
    <3>. QED BY <1>0, <3>1 DEF Truth, Happened, Reports, Value
  <2>. QED BY <1>2, <2>1, <2>2, RecordStep
     DEF Lifting, Opening, Staging, Publishing, Denying, Marking, Lifts, Opens, Stages, Publishes, Denies, Marks
<1>. QED BY <1>1, <1>2 DEF TruthInv

LEMMA InitAudit == Init => AuditInv
<1>. SUFFICES ASSUME Init PROVE AuditInv
  OBVIOUS
<1>1. record.marker = NoMarker /\ record.intent = NoOp /\ \A q \in Requests : ~Marked(q) /\ q # NoOp
  BY NoMarkerIn, ConstantAssumption DEF Init, Initial, Marked, Requests
<1>2. \A q \in Requests : req[q].pc = "idle" /\ audit[q].status = "none" /\ ~Happened(q) /\ q \notin blind
  BY DEF Init, Happened
<1>3. ReportInv /\ WaitInv /\ LostInv
  BY <1>1, <1>2 DEF ReportInv, Reports, WaitInv, LostInv, Under, Steps
<1>4. IntentInv /\ TruthInv
  BY <1>1, <1>2 DEF IntentInv, TruthInv
<1>. QED BY <1>3, <1>4 DEF AuditInv

(* What audits, the record's marker and the record's intent say of the     *)
(* requests, also of those the reconciler met under way.                   *)
THEOREM AuditInvariant == Spec => [](GovernanceInv /\ AuditInv)
<1>1. Init => GovernanceInv /\ AuditInv
  BY InitGovernance, InitAudit
<1>2. GovernanceInv /\ AuditInv /\ [Next]_vars => GovernanceInv' /\ AuditInv'
  <2>. SUFFICES ASSUME GovernanceInv, AuditInv, [Next]_vars PROVE GovernanceInv' /\ AuditInv'
    OBVIOUS
  <2>1. Base /\ EarlyInv /\ ReportInv /\ WaitInv /\ LostInv
    BY DEF GovernanceInv, AuditInv, Base
  <2>2. ReportInv' /\ WaitInv' /\ LostInv' /\ IntentInv' /\ TruthInv'
    BY <2>1, ReportNext, WaitNext, LostNext, IntentNext, TruthNext
  <2>. QED BY <2>2, NextGovernance DEF AuditInv
<1>. QED BY <1>1, <1>2, PTL DEF Spec

(* What a completed audit says is what happened: a success took effect,    *)
(* whoever recorded it; what is recorded as failed did not or is shown by  *)
(* the audit, except for the requests whose answer was lost and those the  *)
(* reconciler met under way.                                               *)
THEOREM CompletedAuditsAreTrue == Spec => []AuditsAreTrue
<1>1. AuditInv => AuditsAreTrue
  BY DEF AuditInv, TruthInv, Truth, AuditsAreTrue
<1>. QED BY <1>1, AuditInvariant, PTL

=============================================================================
