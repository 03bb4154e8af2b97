------------------------- MODULE RoleMutationProofs -------------------------
(***************************************************************************)
(* Proofs about the application role mutations: the tenant keeps a         *)
(* recovery principal, a released lock leaves the roles its audit names,   *)
(* a recorded success is complete, and no role is granted to an account    *)
(* whose cleanup is owed, for any users, roles and requests.               *)
(***************************************************************************)
EXTENDS RoleMutation, TLAPS

-----------------------------------------------------------------------------
(* The inductive invariants.                                               *)

(* The lock once taken names a mutation, and so does what a recovery read. *)
OpInv ==
    /\ lock.op = NoRequest => lock.phase = "released"
    /\ \A r \in Requests :
          /\ req[r].lease.op # NoRequest => lock.op # NoRequest
          /\ req[r].pc = "recover" \/ req[r].mode = "recover" => req[r].lease.op # NoRequest

(* What a request does goes with its mode. *)
Mutates == {"load", "prepare", "acquire", "locked", "guard", "begin", "deny", "register", "registered",
            "managed", "commit", "committed", "recover", "done"}

InMode(r) ==
    /\ req[r].pc \in Mutates => req[r].mode = "mutate"
    /\ req[r].pc \in {"rb_read", "rb_restored", "rb_failed"} => req[r].mode = "rollback"
    /\ req[r].pc \in {"reconcile", "closing"} => req[r].mode = "recover"
    /\ req[r].pc = "release" => ~req[r].keep

ModeInv == \A r \in Requests : InMode(r)

(* A request whose roles may still be read anew is nobody's mutation yet.  *)
Fresh(r) == req[r].pc \in {"load", "prepare"}

FreshInv ==
    /\ lock.op # NoRequest => ~Fresh(lock.op)
    /\ \A r \in Requests :
          /\ req[r].lease.op # NoRequest => ~Fresh(req[r].lease.op)
          /\ Fresh(r) => req[r].mode = "mutate" /\ audit[r].result = "none"

(* What a success stands for. *)
Done(o) ==
    /\ o \in ledger.saved
    /\ Removed(o) # {} => o \in manifests

(* A lock record that speaks of a completed managed commit. *)
Vouches(l) ==
    l.phase = "managed_committed" \/ l.action = "complete_managed" => l.op # NoRequest /\ Done(l.op)

CompleteInv ==
    /\ Vouches(lock)
    /\ \A r \in Requests :
          /\ Vouches(req[r].lease)
          /\ req[r].mode = "mutate" =>
                /\ req[r].pc \in {"begin", "replace", "fence", "write"} =>
                      (req[r].rep = "absent" => Removed(r) = {})
                /\ req[r].pc \in {"registered", "managed", "commit", "committed"} =>
                      (Removed(r) # {} => r \in manifests)
                /\ req[r].pc = "committed" => r \in ledger.saved
          /\ req[r].pc = "audit" /\ req[r].due.result = "success" =>
                Done(Op(r)) /\ (req[r].mode = "recover" => ~req[r].unread)
    /\ \A o \in Requests : audit[o].result = "success" => Done(o)

(* Who acts under a lease it took. *)
InWork(r) ==
    req[r].pc \in {"replace", "fence", "write", "deny", "register", "registered", "managed", "commit",
                   "committed", "reconcile", "closing", "rb_read", "rb_restored", "rb_failed"}
Ending(r) == req[r].pc \in {"audit", "audit_commit", "release"} /\ ~req[r].keep
Owner(r) == req[r].pc \in {"locked", "guard", "begin"} \/ InWork(r) \/ Ending(r)

(* A lease is held by one request, and is alive as long as its read-back   *)
(* or the group call it was renewed for is outstanding.                    *)
Leased(r) ==
    /\ req[r].lease.token <= lock.token
    /\ Owner(r) /\ req[r].mode # "recover" => req[r].lease.op = r
    /\ req[r].pc = "write" \/ req[r].unread =>
          Owner(r) /\ SameLease(r) /\ live /\ lock.phase # "released"
    /\ req[r].unread => req[r].lease = lock
    /\ InWork(r) /\ SameLease(r) => lock.phase # "held"

Sole == \A q, r \in Requests :
            q # r /\ Owner(q) /\ Owner(r) => req[q].lease.token # req[r].lease.token

LeaseInv == (\A r \in Requests : Leased(r)) /\ Sole

(* While a mutation changes its target's roles, somebody else remains.     *)
Covered(o) == \E u \in Users \ {Target[o]} : SystemAdmin \in roles[u]

CoverInv ==
    /\ AlwaysARecoveryPrincipal
    /\ lock.phase \notin {"released", "held"} => Covered(lock.op)
    /\ \A r \in Requests :
          req[r].pc \in {"guard", "begin"} /\ SameLease(r) /\ lock.phase = "held" => Covered(r)

(* Under its lease a mutation's view of the roles stays true.              *)
RolesInv ==
    \A r \in Requests :
        /\ req[r].pc \in {"replace", "fence", "write"} /\ req[r].mode = "mutate" => req[r].goal = Desired[r]
        /\ req[r].pc \in {"deny", "register", "registered", "managed", "commit", "committed"} =>
              (SameLease(r) => roles[Target[r]] = Desired[r])
        /\ Ending(r) /\ SameLease(r) /\ req[r].due.result \in {"success", "failed"} =>
              roles[Subject(r)] = req[r].due.after

(* What is on record when the lock is released. *)
Recorded(o, due) ==
    audit[o].status # "pending" /\ audit[o].result = due.result /\ audit[o].after = due.after

AuditInv ==
    /\ \A r \in Requests :
          /\ req[r].pc \in {"audit_commit", "release"} => Recorded(Op(r), req[r].due)
          /\ req[r].pc = "release" => audit[Op(r)].status = "completed"
    /\ ReleasedAsRecorded

WeakInv == OpInv /\ ModeInv /\ FreshInv
StrongInv == LeaseInv /\ CompleteInv /\ CoverInv /\ RolesInv /\ AuditInv

-----------------------------------------------------------------------------
(* Types, and the fields that a step gives the record of its request.      *)

LockTyped == lock \in LockRecord /\ live \in BOOLEAN
RolesTyped == roles \in [Users -> SUBSET Roles]
AuditTyped == audit \in [Requests -> AuditRecord]
RepairTyped == repair \in [Requests -> RepairStatus]
LedgerTyped == manifests \subseteq Requests /\ ledger \in [version : 0..MaxLedger, saved : SUBSET Requests]
FaultsTyped == faults \in 0..MaxFaults
ReqTyped == req \in [Requests -> RequestRecord]

LEMMA TypeParts ==
    /\ TypeOK <=> LockTyped /\ RolesTyped /\ AuditTyped /\ RepairTyped /\ LedgerTyped /\ FaultsTyped /\ ReqTyped
    /\ TypeOK' <=> /\ LockTyped' /\ RolesTyped' /\ AuditTyped' /\ RepairTyped' /\ LedgerTyped' /\ FaultsTyped'
                   /\ ReqTyped'
BY DEF TypeOK, LockTyped, RolesTyped, AuditTyped, RepairTyped, LedgerTyped, FaultsTyped, ReqTyped

Result == {"none", "success", "denied", "conflict", "failed"}

Others(r) == \A q \in Requests \ {r} : req'[q] = req[q]
SameRest(r) ==
    /\ req'[r].before = req[r].before /\ req'[r].rep = req[r].rep
    /\ req'[r].due = req[r].due /\ req'[r].keep = req[r].keep
SameView(r) ==
    /\ req'[r].mode = req[r].mode /\ req'[r].lease = req[r].lease
    /\ req'[r].unread = req[r].unread /\ req'[r].goal = req[r].goal

(* The request goes on at p, having changed nothing else that is told apart. *)
Moved(r, p) == req'[r].pc = p /\ SameRest(r) /\ SameView(r) /\ Others(r)

(* As Moved, but for the repair's status and the goal of the replacement. *)
Shifted(r, p) ==
    /\ req'[r].pc = p /\ req'[r].before = req[r].before
    /\ req'[r].due = req[r].due /\ req'[r].keep = req[r].keep
    /\ req'[r].mode = req[r].mode /\ req'[r].lease = req[r].lease
    /\ req'[r].unread = req[r].unread /\ Others(r)

FinishedAt(r) ==
    /\ req'[r].pc = "done" /\ req'[r].mode = "mutate" /\ req'[r].lease = NoLock /\ req'[r].unread = FALSE
    /\ req'[r].before = req[r].before /\ req'[r].due.result = "none" /\ req'[r].keep = FALSE
    /\ Others(r)

ThrownAt(r) ==
    /\ SameRest(r) /\ Others(r)
    /\ req'[r].lease = req[r].lease /\ req'[r].unread = req[r].unread /\ req'[r].goal = req[r].goal
    /\ \/ req[r].mode = "mutate" /\ req'[r].mode = "rollback" /\ req'[r].pc = "rb_read"
       \/ req[r].mode = "rollback" /\ req'[r].mode = "rollback" /\ req'[r].pc = "rb_failed"
       \/ req[r].mode = "recover" /\ req'[r].mode = "recover" /\ req'[r].pc = "refused"

CompletedAt(r, result, after, keep) ==
    /\ req'[r].pc = "audit" /\ req'[r].keep = keep
    /\ req'[r].due.result = result /\ req'[r].due.after = after
    /\ req'[r].before = req[r].before /\ req'[r].rep = req[r].rep
    /\ SameView(r) /\ Others(r)

LEMMA SetRecord ==
    ASSUME ReqTyped, NEW r \in Requests, NEW rec, req' = [req EXCEPT ![r] = rec]
    PROVE  req'[r] = rec /\ Others(r) /\ (rec \in RequestRecord => ReqTyped')
BY DEF ReqTyped, Others

LEMMA GotoFields ==
    ASSUME ReqTyped, NEW r \in Requests, NEW p, Goto(r, p)
    PROVE  Moved(r, p) /\ (p \in PcLabel => ReqTyped')
<1>. DEFINE rec == [req[r] EXCEPT !.pc = p]
<1>0. req[r] \in RequestRecord
  BY DEF ReqTyped
<1>1. req' = [req EXCEPT ![r] = rec]
  BY DEF Goto, ReqTyped
<1>2. /\ rec.pc = p /\ rec.before = req[r].before /\ rec.rep = req[r].rep /\ rec.due = req[r].due
      /\ rec.keep = req[r].keep /\ rec.mode = req[r].mode /\ rec.lease = req[r].lease
      /\ rec.unread = req[r].unread /\ rec.goal = req[r].goal
      /\ p \in PcLabel => rec \in RequestRecord
  BY <1>0 DEF RequestRecord
<1>. HIDE DEF rec
<1>. QED BY <1>1, <1>2, SetRecord DEF Moved, SameRest, SameView

LEMMA FinishFields ==
    ASSUME ConstantAssumption, ReqTyped, NEW r \in Requests, Finish(r)
    PROVE  FinishedAt(r) /\ ReqTyped'
<1>0. req[r] \in RequestRecord
  BY DEF ReqTyped
<1>1. NoLock \in LockRecord
  BY ConstantAssumption DEF NoLock, LockRecord, Phase, RecoveryAction
<1>2. /\ Finished(r).pc = "done" /\ Finished(r).mode = "mutate" /\ Finished(r).lease = NoLock
      /\ Finished(r).unread = FALSE /\ Finished(r).before = req[r].before
      /\ Finished(r).due.result = "none" /\ Finished(r).keep = FALSE
  BY DEF Finished, NewRequest
<1>3. NewRequest \in RequestRecord
  <2>1. 0 \in 0..MaxLedger
    BY DEF ConstantAssumption
  <2>. QED BY <1>1, <2>1 DEF NewRequest, RequestRecord, PcLabel, RepairStatus
<1>4. Finished(r) \in RequestRecord
  <2>1. req[r].before \in SUBSET Roles
    BY <1>0 DEF RequestRecord
  <2>2. \A new \in RequestRecord : [new EXCEPT !.pc = "done", !.before = req[r].before] \in RequestRecord
    BY ZenonT(60), <2>1 DEF RequestRecord, PcLabel
  <2>. QED BY <1>3, <2>2 DEF Finished
<1>. QED BY <1>2, <1>4, SetRecord DEF FinishedAt, Finish

LEMMA ThrowFields ==
    ASSUME ReqTyped, NEW r \in Requests, Throw(r)
    PROVE  ThrownAt(r) /\ ReqTyped'
<1>0. req[r] \in RequestRecord /\ req[r].mode \in {"mutate", "rollback", "recover"}
  BY DEF ReqTyped, RequestRecord
<1>1. /\ Thrown(r).before = req[r].before /\ Thrown(r).rep = req[r].rep /\ Thrown(r).due = req[r].due
      /\ Thrown(r).keep = req[r].keep /\ Thrown(r).lease = req[r].lease
      /\ Thrown(r).unread = req[r].unread /\ Thrown(r).goal = req[r].goal
  BY <1>0 DEF Thrown
<1>2. \/ req[r].mode = "mutate" /\ Thrown(r).mode = "rollback" /\ Thrown(r).pc = "rb_read"
      \/ req[r].mode = "rollback" /\ Thrown(r).mode = "rollback" /\ Thrown(r).pc = "rb_failed"
      \/ req[r].mode = "recover" /\ Thrown(r).mode = "recover" /\ Thrown(r).pc = "refused"
  BY <1>0 DEF Thrown, RequestRecord
<1>3. Thrown(r) \in RequestRecord
  <2>1. \A p \in {"rb_read", "rb_failed", "refused"} :
            /\ [req[r] EXCEPT !.pc = p] \in RequestRecord
            /\ [req[r] EXCEPT !.mode = "rollback", !.pc = p] \in RequestRecord
    BY ZenonT(60), <1>0 DEF RequestRecord, PcLabel
  <2>. QED BY <1>0, <2>1 DEF Thrown
<1>. QED BY ZenonT(60), <1>1, <1>2, <1>3, SetRecord DEF ThrownAt, SameRest, Throw

LEMMA CompletionFields ==
    ASSUME ReqTyped, NEW r \in Requests, NEW result \in Result, NEW after \in SUBSET Roles, NEW keep \in BOOLEAN
    PROVE  LET c == Completion(r, result, after, keep) IN
           /\ c.pc = "audit" /\ c.keep = keep /\ c.due.result = result /\ c.due.after = after
           /\ c.before = req[r].before /\ c.rep = req[r].rep
           /\ c.mode = req[r].mode /\ c.lease = req[r].lease /\ c.unread = req[r].unread /\ c.goal = req[r].goal
           /\ c \in RequestRecord
<1>0. req[r] \in RequestRecord
  BY DEF ReqTyped
<1>. QED BY ZenonT(60), <1>0 DEF Completion, RequestRecord, Result, PcLabel

LEMMA CompleteFields ==
    ASSUME ReqTyped, NEW r \in Requests, NEW result \in Result, NEW after \in SUBSET Roles, NEW keep \in BOOLEAN,
           Complete(r, result, after, keep)
    PROVE  CompletedAt(r, result, after, keep) /\ ReqTyped'
<1>. DEFINE c == Completion(r, result, after, keep)
<1>1. req' = [req EXCEPT ![r] = c]
  BY DEF Complete
<1>2. /\ c.pc = "audit" /\ c.keep = keep /\ c.due.result = result /\ c.due.after = after
      /\ c.before = req[r].before /\ c.rep = req[r].rep
      /\ c.mode = req[r].mode /\ c.lease = req[r].lease /\ c.unread = req[r].unread /\ c.goal = req[r].goal
      /\ c \in RequestRecord
  BY CompletionFields
<1>. HIDE DEF c
<1>. QED BY <1>1, <1>2, SetRecord DEF CompletedAt, SameView

(* The values that the outcomes and the puts are made of. *)
LEMMA Values ==
    ASSUME ConstantAssumption, TypeOK, OpInv, NEW r \in Requests
    PROVE  /\ req[r] \in RequestRecord /\ lock \in LockRecord
           /\ req[r].before \in SUBSET Roles /\ roles[Target[r]] \in SUBSET Roles
           /\ Op(r) \in Requests /\ Subject(r) \in Users
           /\ roles[Subject(r)] \in SUBSET Roles /\ req[Op(r)].before \in SUBSET Roles
           /\ \A p \in Phase : [lock EXCEPT !.phase = p] \in LockRecord
<1>1. ReqTyped /\ LockTyped /\ RolesTyped
  BY TypeParts
<1>2. req[r] \in RequestRecord /\ lock \in LockRecord
  BY <1>1 DEF ReqTyped, LockTyped
<1>3. Op(r) \in Requests
  BY <1>2 DEF Op, OpInv, RequestRecord, LockRecord
<1>4. Subject(r) \in Users /\ Target[r] \in Users
  BY <1>3 DEF Subject, ConstantAssumption
<1>5. req[Op(r)] \in RequestRecord
  BY <1>1, <1>3 DEF ReqTyped
<1>6. \A p \in Phase : [lock EXCEPT !.phase = p] \in LockRecord
  BY <1>2 DEF LockRecord
<1>7. req[r].before \in SUBSET Roles /\ req[Op(r)].before \in SUBSET Roles
  BY <1>2, <1>5 DEF RequestRecord
<1>8. roles[Target[r]] \in SUBSET Roles /\ roles[Subject(r)] \in SUBSET Roles
  BY <1>1, <1>4 DEF RolesTyped
<1>. QED BY <1>2, <1>3, <1>4, <1>6, <1>7, <1>8

(* A put by r that takes it to p, with what else the put's owner sets. *)
PutAt(r, p) ==
    /\ req'[r].pc = p /\ req'[r].lease = lock' /\ req'[r].unread = TRUE
    /\ req'[r].before = req[r].before
    /\ Others(r) /\ lock'.phase # "released" /\ live'

LEMMA AcquireFreeFields ==
    ASSUME ConstantAssumption, TypeOK, OpInv, NEW r \in Requests, AcquireFree(r)
    PROVE  /\ PutAt(r, "locked") /\ req'[r].mode = req[r].mode /\ SameRest(r)
           /\ lock'.op = r /\ lock'.token = lock.token + 1 /\ lock'.phase = "held" /\ lock'.action = "none"
           /\ ReqTyped' /\ LockTyped'
<1>. DEFINE rec == [op |-> r, token |-> lock.token + 1, phase |-> "held", action |-> "none"]
            new == [[req[r] EXCEPT !.pc = "locked"] EXCEPT !.lease = rec, !.unread = TRUE]
<1>0. ReqTyped /\ req[r] \in RequestRecord /\ lock \in LockRecord
  BY Values, TypeParts
<1>1. rec \in LockRecord
  BY <1>0 DEF AcquireFree, LockRecord, Phase, RecoveryAction, ConstantAssumption
<1>2. /\ new \in RequestRecord /\ new.pc = "locked" /\ new.mode = req[r].mode /\ new.before = req[r].before
      /\ new.rep = req[r].rep /\ new.due = req[r].due /\ new.keep = req[r].keep
      /\ new.lease = rec /\ new.unread = TRUE
  BY <1>0, <1>1 DEF RequestRecord, PcLabel
<1>3. lock' = rec /\ live' = (rec.phase # "released") /\ req' = [req EXCEPT ![r] = new]
  BY DEF AcquireFree, PutLock
<1>4. rec.op = r /\ rec.token = lock.token + 1 /\ rec.phase = "held" /\ rec.action = "none"
  OBVIOUS
<1>. HIDE DEF rec, new
<1>5. req'[r] = new /\ Others(r) /\ ReqTyped'
  BY <1>0, <1>2, <1>3, SetRecord
<1>6. lock'.phase # "released" /\ live' /\ LockTyped'
  BY <1>1, <1>3, <1>4 DEF LockTyped
<1>. QED BY <1>2, <1>3, <1>4, <1>5, <1>6 DEF PutAt, SameRest

LEMMA BeginFields ==
    ASSUME ConstantAssumption, TypeOK, OpInv, NEW r \in Requests, BeginIdentityMutation(r)
    PROVE  /\ \/ /\ SameLease(r) /\ lock.phase = "held"
                 /\ PutAt(r, "replace") /\ req'[r].mode = req[r].mode /\ SameRest(r)
                 /\ req'[r].goal = Desired[r] /\ lock' = [lock EXCEPT !.phase = "identity_mutation"]
              \/ /\ ~(SameLease(r) /\ lock.phase = "held")
                 /\ ThrownAt(r) /\ UNCHANGED <<lock, live>>
           /\ ReqTyped' /\ LockTyped'
<1>0. ReqTyped /\ LockTyped /\ req[r] \in RequestRecord /\ lock \in LockRecord
  BY Values, TypeParts
<1>1. CASE ~(SameLease(r) /\ lock.phase = "held")
  BY <1>0, <1>1, ThrowFields DEF BeginIdentityMutation, LockTyped
<1>2. CASE SameLease(r) /\ lock.phase = "held"
  <2>. DEFINE rec == [lock EXCEPT !.phase = "identity_mutation"]
              new == [[req[r] EXCEPT !.pc = "replace", !.base = req[r].before, !.goal = Desired[r]] EXCEPT !.lease = rec, !.unread = TRUE]
  <2>1. rec \in LockRecord /\ rec = [lock EXCEPT !.phase = "identity_mutation"] /\ rec.phase = "identity_mutation"
    BY <1>0, <1>2 DEF LockRecord, Phase
  <2>2. /\ new \in RequestRecord /\ new.lease = rec /\ new.unread = TRUE /\ new.before = req[r].before
        /\ new.pc = "replace" /\ new.mode = req[r].mode /\ new.goal = Desired[r]
        /\ new.rep = req[r].rep /\ new.due = req[r].due /\ new.keep = req[r].keep
    BY <1>0, <2>1 DEF RequestRecord, PcLabel, ConstantAssumption
  <2>3. lock' = rec /\ live' = (rec.phase # "released") /\ req' = [req EXCEPT ![r] = new]
    BY <1>2 DEF PutLock, BeginIdentityMutation
  <2>. HIDE DEF rec, new
  <2>4. req'[r] = new /\ Others(r) /\ ReqTyped'
    BY <1>0, <2>2, <2>3, SetRecord
  <2>5. lock'.phase # "released" /\ live' /\ LockTyped'
    BY <1>2, <2>1, <2>3 DEF LockTyped, Renewable
  <2>. QED BY <1>2, <2>1, <2>2, <2>3, <2>4, <2>5 DEF PutAt, SameRest
<1>. QED BY <1>1, <1>2

LEMMA ReplaceStartFields ==
    ASSUME ConstantAssumption, TypeOK, OpInv, NEW r \in Requests, ReplaceStart(r)
    PROVE  /\ \/ /\ Renewable(r)
                 /\ PutAt(r, "fence") /\ req'[r].mode = req[r].mode /\ SameRest(r)
                 /\ req'[r].goal = req[r].goal /\ lock' = lock
              \/ ThrownAt(r) /\ UNCHANGED <<lock, live>>
           /\ ReqTyped' /\ LockTyped'
<1>0. ReqTyped /\ LockTyped /\ req[r] \in RequestRecord /\ lock \in LockRecord
  BY Values, TypeParts
<1>1. CASE Throw(r) /\ UNCHANGED <<lock, live>>
  BY <1>0, <1>1, ThrowFields DEF LockTyped
<1>2. CASE Renewable(r) /\ PutLock(r, lock, [req[r] EXCEPT !.pc = "fence",
             !.left = (req[r].base \ req[r].goal) \cup (req[r].goal \ req[r].base)])
  <2>. DEFINE rec == lock
              new == [[req[r] EXCEPT !.pc = "fence",
                        !.left = (req[r].base \ req[r].goal) \cup (req[r].goal \ req[r].base)] EXCEPT !.lease = rec, !.unread = TRUE]
  <2>1. rec \in LockRecord /\ rec = lock
    BY <1>0, <1>2 DEF LockRecord
  <2>2. /\ new \in RequestRecord /\ new.lease = rec /\ new.unread = TRUE /\ new.before = req[r].before
        /\ new.pc = "fence" /\ new.mode = req[r].mode /\ new.goal = req[r].goal
        /\ new.rep = req[r].rep /\ new.due = req[r].due /\ new.keep = req[r].keep
    BY <1>0, <2>1 DEF RequestRecord, PcLabel
  <2>3. lock' = rec /\ live' = (rec.phase # "released") /\ req' = [req EXCEPT ![r] = new]
    BY <1>2 DEF PutLock, ReplaceStart
  <2>. HIDE DEF rec, new
  <2>4. req'[r] = new /\ Others(r) /\ ReqTyped'
    BY <1>0, <2>2, <2>3, SetRecord
  <2>5. lock'.phase # "released" /\ live' /\ LockTyped'
    BY <1>2, <2>1, <2>3 DEF LockTyped, Renewable
  <2>. QED BY <1>2, <2>1, <2>2, <2>3, <2>4, <2>5 DEF PutAt, SameRest
<1>. QED BY <1>1, <1>2 DEF ReplaceStart

LEMMA FenceFields ==
    ASSUME ConstantAssumption, TypeOK, OpInv, NEW r \in Requests, Fence(r)
    PROVE  /\ \/ /\ Renewable(r) /\ PutAt(r, "write") /\ req'[r].mode = req[r].mode /\ SameRest(r)
                 /\ req'[r].goal = req[r].goal /\ lock' = lock
              \/ /\ Renewable(r) /\ roles[Subject(r)] = req[r].goal
                 /\ PutAt(r, AfterReplace(r)) /\ req'[r].mode = req[r].mode /\ SameRest(r)
                 /\ lock' = lock
              \/ ThrownAt(r) /\ UNCHANGED <<lock, live>>
           /\ ReqTyped' /\ LockTyped'
<1>0. ReqTyped /\ LockTyped /\ req[r] \in RequestRecord /\ lock \in LockRecord
  BY Values, TypeParts
<1>1. CASE Throw(r) /\ UNCHANGED <<lock, live>>
  BY <1>0, <1>1, ThrowFields DEF LockTyped
<1>2. CASE Renewable(r) /\ PutLock(r, lock, [req[r] EXCEPT !.pc = "write"])
  <2>. DEFINE rec == lock
              new == [[req[r] EXCEPT !.pc = "write"] EXCEPT !.lease = rec, !.unread = TRUE]
  <2>1. rec \in LockRecord /\ rec = lock
    BY <1>0, <1>2 DEF LockRecord
  <2>2. /\ new \in RequestRecord /\ new.lease = rec /\ new.unread = TRUE /\ new.before = req[r].before
        /\ new.pc = "write" /\ new.mode = req[r].mode /\ new.goal = req[r].goal
        /\ new.rep = req[r].rep /\ new.due = req[r].due /\ new.keep = req[r].keep
    BY <1>0, <2>1 DEF RequestRecord, PcLabel
  <2>3. lock' = rec /\ live' = (rec.phase # "released") /\ req' = [req EXCEPT ![r] = new]
    BY <1>2 DEF PutLock, Fence
  <2>. HIDE DEF rec, new
  <2>4. req'[r] = new /\ Others(r) /\ ReqTyped'
    BY <1>0, <2>2, <2>3, SetRecord
  <2>5. lock'.phase # "released" /\ live' /\ LockTyped'
    BY <1>2, <2>1, <2>3 DEF LockTyped, Renewable
  <2>. QED BY <1>2, <2>1, <2>2, <2>3, <2>4, <2>5 DEF PutAt, SameRest
<1>3. CASE /\ Renewable(r) /\ roles[Subject(r)] = req[r].goal
           /\ PutLock(r, lock, [req[r] EXCEPT !.pc = AfterReplace(r), !.base = {}, !.goal = {}])
  <2>. DEFINE rec == lock
              new == [[req[r] EXCEPT !.pc = AfterReplace(r), !.base = {}, !.goal = {}] EXCEPT !.lease = rec, !.unread = TRUE]
  <2>0. AfterReplace(r) \in PcLabel
    BY <1>0 DEF AfterReplace, PcLabel, RequestRecord
  <2>1. rec \in LockRecord /\ rec = lock
    BY <1>0, <1>3, <2>0 DEF LockRecord
  <2>2. /\ new \in RequestRecord /\ new.lease = rec /\ new.unread = TRUE /\ new.before = req[r].before
        /\ new.pc = AfterReplace(r) /\ new.mode = req[r].mode
        /\ new.rep = req[r].rep /\ new.due = req[r].due /\ new.keep = req[r].keep
    BY <1>0, <2>1, <2>0 DEF RequestRecord
  <2>3. lock' = rec /\ live' = (rec.phase # "released") /\ req' = [req EXCEPT ![r] = new]
    BY <1>3 DEF PutLock, Fence
  <2>. HIDE DEF rec, new
  <2>4. req'[r] = new /\ Others(r) /\ ReqTyped'
    BY <1>0, <2>2, <2>3, SetRecord
  <2>5. lock'.phase # "released" /\ live' /\ LockTyped'
    BY <1>3, <2>1, <2>3 DEF LockTyped, Renewable
  <2>. QED BY <1>3, <2>1, <2>2, <2>3, <2>4, <2>5 DEF PutAt, SameRest
<1>. QED BY <1>1, <1>2, <1>3 DEF Fence

LEMMA ManagedFields ==
    ASSUME ConstantAssumption, TypeOK, OpInv, NEW r \in Requests, BeginManagedCommit(r)
    PROVE  /\ \/ /\ SameLease(r) /\ lock.phase = "identity_mutation"
                 /\ PutAt(r, "commit") /\ req'[r].mode = req[r].mode /\ SameRest(r)
                 /\ lock' = [lock EXCEPT !.phase = "managed_commit"]
              \/ ThrownAt(r) /\ UNCHANGED <<lock, live>>
           /\ ReqTyped' /\ LockTyped'
<1>0. ReqTyped /\ LockTyped /\ req[r] \in RequestRecord /\ lock \in LockRecord
  BY Values, TypeParts
<1>1. CASE Throw(r) /\ UNCHANGED <<lock, live>>
  BY <1>0, <1>1, ThrowFields DEF LockTyped
<1>2. CASE /\ SameLease(r) /\ lock.phase = "identity_mutation"
           /\ PutLock(r, [lock EXCEPT !.phase = "managed_commit"], [req[r] EXCEPT !.pc = "commit"])
  <2>. DEFINE rec == [lock EXCEPT !.phase = "managed_commit"]
              new == [[req[r] EXCEPT !.pc = "commit"] EXCEPT !.lease = rec, !.unread = TRUE]
  <2>1. rec \in LockRecord /\ rec = [lock EXCEPT !.phase = "managed_commit"] /\ rec.phase = "managed_commit"
    BY <1>0, <1>2 DEF LockRecord, Phase
  <2>2. /\ new \in RequestRecord /\ new.lease = rec /\ new.unread = TRUE /\ new.before = req[r].before
        /\ new.pc = "commit" /\ new.mode = req[r].mode
        /\ new.rep = req[r].rep /\ new.due = req[r].due /\ new.keep = req[r].keep
    BY <1>0, <2>1 DEF RequestRecord, PcLabel
  <2>3. lock' = rec /\ live' = (rec.phase # "released") /\ req' = [req EXCEPT ![r] = new]
    BY <1>2 DEF PutLock, BeginManagedCommit
  <2>. HIDE DEF rec, new
  <2>4. req'[r] = new /\ Others(r) /\ ReqTyped'
    BY <1>0, <2>2, <2>3, SetRecord
  <2>5. lock'.phase # "released" /\ live' /\ LockTyped'
    BY <1>2, <2>1, <2>3 DEF LockTyped, Renewable
  <2>. QED BY <1>2, <2>1, <2>2, <2>3, <2>4, <2>5 DEF PutAt, SameRest
<1>. QED BY <1>1, <1>2 DEF BeginManagedCommit

LEMMA CommittedFields ==
    ASSUME ConstantAssumption, TypeOK, OpInv, NEW r \in Requests, MarkManagedCommitted(r)
    PROVE  /\ \/ /\ SameLease(r) /\ lock.phase = "managed_commit"
                 /\ PutAt(r, "audit") /\ req'[r].mode = req[r].mode
                 /\ req'[r].due.result = "success" /\ req'[r].due.after = Desired[r] /\ req'[r].keep = FALSE
                 /\ lock' = [lock EXCEPT !.phase = "managed_committed"]
              \/ FinishedAt(r) /\ UNCHANGED <<lock, live>>
           /\ ReqTyped' /\ LockTyped'
<1>0. ReqTyped /\ LockTyped /\ req[r] \in RequestRecord /\ lock \in LockRecord
  BY Values, TypeParts
<1>1. CASE Finish(r) /\ UNCHANGED <<lock, live>>
  BY <1>0, <1>1, FinishFields DEF LockTyped
<1>2. CASE /\ SameLease(r) /\ lock.phase = "managed_commit"
           /\ PutLock(r, [lock EXCEPT !.phase = "managed_committed"], Completion(r, "success", Desired[r], FALSE))
  <2>. DEFINE rec == [lock EXCEPT !.phase = "managed_committed"]
              new == [[req[r] EXCEPT !.pc = "audit", !.keep = FALSE,
                        !.due = [result |-> "success", after |-> Desired[r]]] EXCEPT !.lease = rec, !.unread = TRUE]
  <2>1. rec \in LockRecord /\ rec = [lock EXCEPT !.phase = "managed_committed"] /\ rec.phase = "managed_committed"
    BY <1>0, <1>2 DEF LockRecord, Phase
  <2>2. /\ new \in RequestRecord /\ new.lease = rec /\ new.unread = TRUE /\ new.before = req[r].before
        /\ new.pc = "audit" /\ new.mode = req[r].mode /\ new.keep = FALSE
        /\ new.due.result = "success" /\ new.due.after = Desired[r]
    BY <1>0, <2>1 DEF RequestRecord, PcLabel, ConstantAssumption
  <2>3. lock' = rec /\ live' = (rec.phase # "released") /\ req' = [req EXCEPT ![r] = new]
    BY <1>2 DEF PutLock, MarkManagedCommitted, Completion
  <2>. HIDE DEF rec, new
  <2>4. req'[r] = new /\ Others(r) /\ ReqTyped'
    BY <1>0, <2>2, <2>3, SetRecord
  <2>5. lock'.phase # "released" /\ live' /\ LockTyped'
    BY <1>2, <2>1, <2>3 DEF LockTyped, Renewable
  <2>. QED BY <1>2, <2>1, <2>2, <2>3, <2>4, <2>5 DEF PutAt, SameRest
<1>. QED BY <1>1, <1>2 DEF MarkManagedCommitted

LEMMA RecoveryFields ==
    ASSUME ConstantAssumption, TypeOK, OpInv, NEW r \in Requests, BeginExpiredRecovery(r)
    PROVE  /\ \/ /\ SameLease(r) /\ lock.phase \notin {"released", "held"} /\ ~live
                 /\ PutAt(r, "reconcile") /\ req'[r].mode = "recover" /\ SameRest(r)
                 /\ lock'.op = lock.op /\ lock'.token = lock.token + 1 /\ lock'.phase = "recovering"
                 /\ lock'.action = RecoveryOf(lock.phase, lock.action)
              \/ Moved(r, "refused") /\ UNCHANGED <<lock, live>>
              \/ CompletedAt(r, "conflict", req[r].before, TRUE) /\ UNCHANGED <<lock, live>>
           /\ ReqTyped' /\ LockTyped'
<1>0. /\ ReqTyped /\ LockTyped /\ req[r] \in RequestRecord /\ lock \in LockRecord
      /\ req[r].before \in SUBSET Roles
  BY Values, TypeParts
<1>1. CASE Goto(r, "refused") /\ UNCHANGED <<lock, live>>
  BY <1>0, <1>1, GotoFields DEF LockTyped, PcLabel
<1>2. CASE Complete(r, "conflict", req[r].before, TRUE) /\ UNCHANGED <<lock, live>>
  BY <1>0, <1>2, CompleteFields DEF LockTyped, Result
<1>3. CASE /\ SameLease(r) /\ lock.phase \notin {"released", "held"} /\ ~live /\ lock.token < MaxToken
           /\ PutLock(r, [lock EXCEPT !.phase = "recovering", !.token = @ + 1,
                                      !.action = RecoveryOf(lock.phase, lock.action)],
                      [req[r] EXCEPT !.pc = "reconcile", !.mode = "recover"])
  <2>. DEFINE rec == [lock EXCEPT !.phase = "recovering", !.token = @ + 1,
                                      !.action = RecoveryOf(lock.phase, lock.action)]
              new == [[req[r] EXCEPT !.pc = "reconcile", !.mode = "recover"] EXCEPT !.lease = rec, !.unread = TRUE]
  <2>0. RecoveryOf(lock.phase, lock.action) \in RecoveryAction /\ lock.token + 1 \in 0..MaxToken
    BY <1>0, <1>3 DEF RecoveryOf, RecoveryAction, LockRecord, ConstantAssumption
  <2>1. rec \in LockRecord /\ rec.phase = "recovering" /\ rec.op = lock.op
        /\ rec.token = lock.token + 1 /\ rec.action = RecoveryOf(lock.phase, lock.action)
    BY <1>0, <1>3, <2>0 DEF LockRecord, Phase, ConstantAssumption
  <2>2. /\ new \in RequestRecord /\ new.lease = rec /\ new.unread = TRUE /\ new.before = req[r].before
        /\ new.pc = "reconcile" /\ new.mode = "recover"
        /\ new.rep = req[r].rep /\ new.due = req[r].due /\ new.keep = req[r].keep
    BY <1>0, <2>1, <2>0 DEF RequestRecord, PcLabel
  <2>3. lock' = rec /\ live' = (rec.phase # "released") /\ req' = [req EXCEPT ![r] = new]
    BY <1>3 DEF PutLock, BeginExpiredRecovery
  <2>. HIDE DEF rec, new
  <2>4. req'[r] = new /\ Others(r) /\ ReqTyped'
    BY <1>0, <2>2, <2>3, SetRecord
  <2>5. lock'.phase # "released" /\ live' /\ LockTyped'
    BY <1>3, <2>1, <2>3 DEF LockTyped, Renewable
  <2>. QED BY <1>3, <2>1, <2>2, <2>3, <2>4, <2>5 DEF PutAt, SameRest
<1>. QED BY <1>1, <1>2, <1>3 DEF BeginExpiredRecovery

LEMMA LoadFields ==
    ASSUME ConstantAssumption, TypeOK, OpInv, NEW r \in Requests, LoadLedger(r)
    PROVE  Moved(r, "prepare") /\ ReqTyped'
<1>. DEFINE new == [req[r] EXCEPT !.pc = "prepare", !.version = ledger.version]
<1>0. ReqTyped /\ req[r] \in RequestRecord /\ ledger.version \in 0..MaxLedger
  BY Values, TypeParts DEF LedgerTyped
<1>1. /\ new \in RequestRecord /\ new.pc = "prepare" /\ new.before = req[r].before /\ new.rep = req[r].rep
      /\ new.due = req[r].due /\ new.keep = req[r].keep /\ new.mode = req[r].mode
      /\ new.lease = req[r].lease /\ new.unread = req[r].unread /\ new.goal = req[r].goal
  BY <1>0 DEF RequestRecord, PcLabel
<1>2. req' = [req EXCEPT ![r] = new]
  BY <1>0 DEF LoadLedger, ReqTyped
<1>. HIDE DEF new
<1>. QED BY ZenonT(60), <1>0, <1>1, <1>2, SetRecord DEF Moved, SameRest, SameView

LEMMA PrepareFields ==
    ASSUME ConstantAssumption, TypeOK, OpInv, NEW r \in Requests, Prepare(r)
    PROVE  /\ \/ FinishedAt(r) /\ UNCHANGED audit
              \/ /\ audit' = [audit EXCEPT ![r].status = "pending"]
                 /\ req'[r].pc = "acquire" \/ (/\ req'[r].pc = "audit" /\ req'[r].keep = TRUE
                                              /\ req'[r].due.result = "denied")
                 /\ SameView(r) /\ Others(r)
           /\ ReqTyped'
<1>0. ReqTyped /\ req[r] \in RequestRecord /\ roles[Target[r]] \in SUBSET Roles
  BY Values, TypeParts
<1>1. CASE Finish(r) /\ UNCHANGED audit
  BY <1>0, <1>1, FinishFields
<1>. DEFINE prepared == [req[r] EXCEPT !.before = roles[Target[r]], !.pc = "acquire"]
            denied == [prepared EXCEPT !.pc = "audit", !.keep = TRUE,
                                       !.due = [result |-> "denied", after |-> roles[Target[r]]]]
            new == IF Authorized(r) THEN prepared ELSE denied
<1>2. CASE audit' = [audit EXCEPT ![r].status = "pending"] /\ req' = [req EXCEPT ![r] = new]
  <2>1. /\ prepared \in RequestRecord /\ prepared.pc = "acquire" /\ prepared.mode = req[r].mode
        /\ prepared.lease = req[r].lease /\ prepared.unread = req[r].unread /\ prepared.goal = req[r].goal
    BY <1>0 DEF RequestRecord, PcLabel
  <2>2. /\ denied \in RequestRecord /\ denied.pc = "audit" /\ denied.keep = TRUE /\ denied.due.result = "denied"
        /\ denied.mode = req[r].mode /\ denied.lease = req[r].lease /\ denied.unread = req[r].unread
        /\ denied.goal = req[r].goal
    BY <1>0 DEF RequestRecord, PcLabel
  <2>. HIDE DEF prepared, denied
  <2>3. /\ new \in RequestRecord
        /\ new.pc = "acquire" \/ (new.pc = "audit" /\ new.keep = TRUE /\ new.due.result = "denied")
        /\ new.mode = req[r].mode /\ new.lease = req[r].lease /\ new.unread = req[r].unread
        /\ new.goal = req[r].goal
    BY <2>1, <2>2
  <2>. HIDE DEF new
  <2>. QED BY ZenonT(60), <1>0, <1>2, <2>3, SetRecord DEF SameView
<1>. QED BY <1>1, <1>2 DEF Prepare

LEMMA StaleFields ==
    ASSUME ConstantAssumption, TypeOK, OpInv, NEW r \in Requests, AcquireStale(r)
    PROVE  /\ req'[r].pc = "recover" /\ req'[r].lease = lock /\ req'[r].mode = req[r].mode
           /\ req'[r].unread = req[r].unread /\ req'[r].goal = req[r].goal /\ SameRest(r) /\ Others(r)
           /\ ReqTyped'
<1>. DEFINE new == [req[r] EXCEPT !.pc = "recover", !.lease = lock]
<1>0. ReqTyped /\ req[r] \in RequestRecord /\ lock \in LockRecord
  BY Values, TypeParts
<1>1. /\ new \in RequestRecord /\ new.pc = "recover" /\ new.before = req[r].before /\ new.rep = req[r].rep
      /\ new.due = req[r].due /\ new.keep = req[r].keep /\ new.mode = req[r].mode
      /\ new.lease = lock /\ new.unread = req[r].unread /\ new.goal = req[r].goal
  BY <1>0 DEF RequestRecord, PcLabel
<1>2. req' = [req EXCEPT ![r] = new]
  BY <1>0 DEF AcquireStale, ReqTyped
<1>. HIDE DEF new
<1>. QED BY <1>0, <1>1, <1>2, SetRecord DEF SameRest

LEMMA RereadFields ==
    ASSUME ConstantAssumption, TypeOK, OpInv, NEW r \in Requests, Reread(r)
    PROVE  /\ req'[r].pc = req[r].pc /\ req'[r].lease = lock /\ req'[r].mode = req[r].mode
           /\ req'[r].unread = FALSE /\ req'[r].goal = req[r].goal /\ SameRest(r) /\ Others(r)
           /\ ReqTyped'
<1>. DEFINE new == [req[r] EXCEPT !.lease = lock, !.unread = FALSE]
<1>0. ReqTyped /\ req[r] \in RequestRecord /\ lock \in LockRecord
  BY Values, TypeParts
<1>1. /\ new \in RequestRecord /\ new.pc = req[r].pc /\ new.before = req[r].before /\ new.rep = req[r].rep
      /\ new.due = req[r].due /\ new.keep = req[r].keep /\ new.mode = req[r].mode
      /\ new.lease = lock /\ new.unread = FALSE /\ new.goal = req[r].goal
  BY <1>0 DEF RequestRecord
<1>2. req' = [req EXCEPT ![r] = new]
  BY <1>0 DEF Reread, ReqTyped
<1>. HIDE DEF new
<1>. QED BY <1>0, <1>1, <1>2, SetRecord DEF SameRest

LEMMA ShiftFields ==
    ASSUME ReqTyped, NEW r \in Requests, NEW p, NEW new \in RequestRecord, req' = [req EXCEPT ![r] = new],
           new.pc = p, new.before = req[r].before, new.due = req[r].due, new.keep = req[r].keep,
           new.mode = req[r].mode, new.lease = req[r].lease, new.unread = req[r].unread
    PROVE  Shifted(r, p) /\ req'[r].rep = new.rep /\ req'[r].goal = new.goal /\ ReqTyped'
BY SetRecord DEF Shifted

LEMMA ShiftPc ==
    ASSUME ReqTyped, NEW r \in Requests, NEW p \in PcLabel, NEW s \in RepairStatus,
           req' = [req EXCEPT ![r] = [req[r] EXCEPT !.pc = p, !.rep = s]]
    PROVE  Shifted(r, p) /\ req'[r].rep = s /\ req'[r].goal = req[r].goal /\ ReqTyped'
<1>. DEFINE new == [req[r] EXCEPT !.pc = p, !.rep = s]
<1>0. req[r] \in RequestRecord
  BY DEF ReqTyped
<1>1. /\ new \in RequestRecord /\ new.pc = p /\ new.before = req[r].before /\ new.due = req[r].due
      /\ new.keep = req[r].keep /\ new.mode = req[r].mode /\ new.lease = req[r].lease
      /\ new.unread = req[r].unread /\ new.rep = s /\ new.goal = req[r].goal
  BY <1>0 DEF RequestRecord
<1>2. req' = [req EXCEPT ![r] = new]
  OBVIOUS
<1>. HIDE DEF new
<1>. QED BY <1>1, <1>2, SetRecord DEF Shifted

LEMMA GuardFields ==
    ASSUME ConstantAssumption, TypeOK, OpInv, NEW r \in Requests, Guard(r)
    PROVE  /\ \/ CompletedAt(r, "conflict", req[r].before, FALSE)
              \/ /\ Shifted(r, "begin") /\ req'[r].rep = IF Removed(r) # {} THEN "prepared" ELSE "absent"
           /\ ReqTyped' /\ RepairTyped'
<1>0. ReqTyped /\ RepairTyped /\ req[r] \in RequestRecord /\ req[r].before \in SUBSET Roles
  BY Values, TypeParts
<1>1. CASE Complete(r, "conflict", req[r].before, FALSE) /\ UNCHANGED repair
  BY <1>0, <1>1, CompleteFields DEF Result, RepairTyped
<1>. DEFINE status == IF Removed(r) # {} THEN "prepared" ELSE "absent"
<1>2. CASE /\ repair' = [repair EXCEPT ![r] = status]
           /\ req' = [req EXCEPT ![r].pc = "begin", ![r].rep = status]
  <2>1. status \in RepairStatus
    BY DEF RepairStatus
  <2>. HIDE DEF status
  <2>. DEFINE new == [req[r] EXCEPT !.pc = "begin", !.rep = status]
  <2>2. req' = [req EXCEPT ![r] = new]
    BY <1>0, <1>2, <2>1 DEF ReqTyped, RequestRecord
  <2>3. Shifted(r, "begin") /\ req'[r].rep = status /\ ReqTyped'
    <3>1. /\ new \in RequestRecord /\ new.pc = "begin" /\ new.before = req[r].before /\ new.due = req[r].due
          /\ new.keep = req[r].keep /\ new.mode = req[r].mode /\ new.lease = req[r].lease
          /\ new.unread = req[r].unread /\ new.rep = status
      BY <1>0, <2>1 DEF RequestRecord, PcLabel
    <3>. HIDE DEF new
    <3>. QED BY <1>0, <2>2, <3>1, SetRecord DEF Shifted
  <2>4. RepairTyped'
    BY <1>0, <1>2, <2>1 DEF RepairTyped
  <2>. QED BY <2>3, <2>4 DEF status
<1>. QED BY <1>1, <1>2 DEF Guard

LEMMA TransitionTyped ==
    ASSUME RepairTyped, NEW o \in Requests, NEW next \in RepairStatus
    PROVE  Transitioned(o, next) \in RepairStatus /\ (Transition(o, next) => RepairTyped')
BY DEF Transitioned, Transition, RepairTyped

LEMMA DenyFields ==
    ASSUME ConstantAssumption, TypeOK, OpInv, NEW r \in Requests, MarkDenyCommitted(r)
    PROVE  Shifted(r, "register") /\ ReqTyped' /\ RepairTyped'
<1>0. ReqTyped /\ RepairTyped
  BY TypeParts
<1>1. Transitioned(r, "deny_committed") \in RepairStatus /\ RepairTyped'
  BY <1>0, TransitionTyped DEF MarkDenyCommitted, RepairStatus
<1>2. req' = [req EXCEPT ![r] = [req[r] EXCEPT !.pc = "register", !.rep = Transitioned(r, "deny_committed")]]
  BY <1>0 DEF MarkDenyCommitted, ReqTyped
<1>. QED BY <1>0, <1>1, <1>2, ShiftPc DEF PcLabel

LEMMA RegisteredFields ==
    ASSUME ConstantAssumption, TypeOK, OpInv, NEW r \in Requests, MarkCleanupRegistered(r)
    PROVE  Shifted(r, "managed") /\ ReqTyped' /\ RepairTyped'
<1>0. ReqTyped /\ RepairTyped
  BY TypeParts
<1>1. Transitioned(r, "cleanup_registered") \in RepairStatus /\ RepairTyped'
  BY <1>0, TransitionTyped DEF MarkCleanupRegistered, RepairStatus
<1>2. req' = [req EXCEPT ![r] = [req[r] EXCEPT !.pc = "managed", !.rep = Transitioned(r, "cleanup_registered")]]
  BY <1>0 DEF MarkCleanupRegistered, ReqTyped
<1>. QED BY <1>0, <1>1, <1>2, ShiftPc DEF PcLabel

(* The two records that set out to bring the roles back. *)
LEMMA AimFields ==
    ASSUME ReqTyped, NEW r \in Requests, NEW p \in PcLabel, NEW b \in SUBSET Roles, NEW g \in SUBSET Roles,
           req' = [req EXCEPT ![r] = [req[r] EXCEPT !.pc = p, !.base = b, !.goal = g, !.left = {}]]
    PROVE  Shifted(r, p) /\ req'[r].rep = req[r].rep /\ ReqTyped'
<1>. DEFINE new == [req[r] EXCEPT !.pc = p, !.base = b, !.goal = g, !.left = {}]
<1>0. req[r] \in RequestRecord
  BY DEF ReqTyped
<1>1. /\ new \in RequestRecord /\ new.pc = p /\ new.before = req[r].before /\ new.due = req[r].due
      /\ new.keep = req[r].keep /\ new.mode = req[r].mode /\ new.lease = req[r].lease
      /\ new.unread = req[r].unread /\ new.rep = req[r].rep
  BY <1>0 DEF RequestRecord
<1>2. req' = [req EXCEPT ![r] = new]
  OBVIOUS
<1>. HIDE DEF new
<1>. QED BY <1>1, <1>2, SetRecord DEF Shifted

LEMMA RollbackReadFields ==
    ASSUME ConstantAssumption, TypeOK, OpInv, NEW r \in Requests, RollbackRead(r)
    PROVE  (Shifted(r, "fence") \/ Shifted(r, "replace")) /\ req'[r].rep = req[r].rep /\ ReqTyped'
<1>0. ReqTyped /\ req[r] \in RequestRecord /\ req[r].before \in SUBSET Roles /\ roles[Target[r]] \in SUBSET Roles
  BY Values, TypeParts
<1>. DEFINE p == IF roles[Target[r]] = req[r].before THEN "fence" ELSE "replace"
<1>1. req' = [req EXCEPT ![r] = [req[r] EXCEPT !.pc = p, !.base = roles[Target[r]], !.goal = req[r].before, !.left = {}]]
  BY <1>0 DEF RollbackRead, ReqTyped
<1>2. p \in PcLabel /\ (p = "fence" \/ p = "replace")
  BY DEF PcLabel
<1>. HIDE DEF p
<1>3. Shifted(r, p) /\ req'[r].rep = req[r].rep /\ ReqTyped'
  BY <1>0, <1>1, <1>2, AimFields
<1>. QED BY <1>2, <1>3

LEMMA ReconcileFields ==
    ASSUME ConstantAssumption, TypeOK, OpInv, NEW r \in Requests, Reconcile(r)
    PROVE  /\ \/ Moved(r, "refused")
              \/ /\ CompletedAt(r, "success", roles[Subject(r)], FALSE)
                 /\ req[r].lease.action = "complete_managed"
              \/ (Shifted(r, "closing") \/ Shifted(r, "replace")) /\ req'[r].rep = req[r].rep
           /\ ReqTyped'
<1>0. /\ ReqTyped /\ req[r] \in RequestRecord /\ req[Op(r)].before \in SUBSET Roles
      /\ roles[Subject(r)] \in SUBSET Roles
  BY Values, TypeParts
<1>1. CASE Goto(r, "refused")
  BY <1>0, <1>1, GotoFields DEF PcLabel
<1>2. CASE req[r].lease.action = "complete_managed" /\ Complete(r, "success", roles[Subject(r)], FALSE)
  BY <1>0, <1>2, CompleteFields DEF Result
<1>. DEFINE p == IF roles[Subject(r)] = req[Op(r)].before THEN "closing" ELSE "replace"
<1>3. CASE req' = [req EXCEPT ![r] = [@ EXCEPT
                   !.pc = p, !.base = roles[Subject(r)], !.goal = req[Op(r)].before, !.left = {}]]
  <2>1. req' = [req EXCEPT ![r] = [req[r] EXCEPT
                   !.pc = p, !.base = roles[Subject(r)], !.goal = req[Op(r)].before, !.left = {}]]
    BY <1>0, <1>3 DEF ReqTyped
  <2>2. p \in PcLabel /\ (p = "closing" \/ p = "replace")
    BY DEF PcLabel
  <2>. HIDE DEF p
  <2>3. Shifted(r, p) /\ req'[r].rep = req[r].rep /\ ReqTyped'
    BY <1>0, <2>1, <2>2, AimFields
  <2>. QED BY <2>2, <2>3
<1>. QED BY <1>1, <1>2, <1>3 DEF Reconcile

LEMMA RefusedFields ==
    ASSUME ConstantAssumption, TypeOK, OpInv, NEW r \in Requests, RecoveryRefused(r)
    PROVE  /\ req'[r].pc = "audit" /\ req'[r].keep = TRUE /\ req'[r].due.result = "failed"
           /\ req'[r].before = req[r].before /\ req'[r].rep = req[r].rep /\ req'[r].mode = "mutate"
           /\ req'[r].lease = req[r].lease /\ req'[r].unread = req[r].unread /\ Others(r)
           /\ ReqTyped'
<1>. DEFINE c == Completion(r, "failed", req[r].before, TRUE)
            new == [c EXCEPT !.mode = "mutate"]
<1>0. ReqTyped /\ req[r].before \in SUBSET Roles
  BY Values, TypeParts
<1>1. /\ c.pc = "audit" /\ c.keep = TRUE /\ c.due.result = "failed"
      /\ c.before = req[r].before /\ c.rep = req[r].rep /\ c.lease = req[r].lease /\ c.unread = req[r].unread
      /\ c \in RequestRecord
  <2>1. req[r] \in RequestRecord
    BY <1>0 DEF ReqTyped
  <2>. QED BY <1>0, <2>1 DEF Completion, RequestRecord, PcLabel
<1>2. req' = [req EXCEPT ![r] = new]
  BY DEF RecoveryRefused
<1>. HIDE DEF c
<1>3. /\ new.pc = "audit" /\ new.keep = TRUE /\ new.due.result = "failed" /\ new.mode = "mutate"
      /\ new.before = req[r].before /\ new.rep = req[r].rep /\ new.lease = req[r].lease
      /\ new.unread = req[r].unread /\ new \in RequestRecord
  BY <1>1 DEF RequestRecord
<1>. HIDE DEF new
<1>. QED BY <1>0, <1>2, <1>3, SetRecord

(* A recovery that released goes back to acquiring the lock for itself. *)
ReleasedAt(r) ==
    /\ \/ req[r].mode = "recover" /\ req'[r].pc = "acquire"
       \/ req'[r].pc = "done"
    /\ req'[r].mode = "mutate" /\ req'[r].lease = NoLock /\ req'[r].unread = FALSE
    /\ req'[r].before = req[r].before /\ req'[r].due.result = "none" /\ req'[r].keep = FALSE
    /\ Others(r)

LEMMA ReleaseFields ==
    ASSUME ConstantAssumption, TypeOK, OpInv, NEW r \in Requests, Release(r)
    PROVE  /\ \/ SameLease(r) /\ lock' = [lock EXCEPT !.phase = "released"] /\ live' = FALSE /\ ReleasedAt(r)
              \/ UNCHANGED <<lock, live>> /\ (FinishedAt(r) \/ (req[r].mode = "recover" /\ Moved(r, "refused")))
           /\ ReqTyped' /\ LockTyped'
<1>0. ReqTyped /\ LockTyped /\ req[r] \in RequestRecord /\ lock \in LockRecord /\ req[r].before \in SUBSET Roles
  BY Values, TypeParts
<1>1. CASE Refuse(r) /\ UNCHANGED <<lock, live>>
  <2>1. CASE Finish(r)
    BY <1>0, <1>1, <2>1, FinishFields DEF LockTyped
  <2>2. CASE req[r].mode = "recover" /\ Goto(r, "refused")
    BY <1>0, <1>1, <2>2, GotoFields DEF LockTyped, PcLabel
  <2>. QED BY <1>1, <2>1, <2>2 DEF Refuse
<1>. DEFINE new == [NewRequest EXCEPT !.pc = "acquire", !.version = req[r].version, !.before = req[r].before]
<1>2. CASE /\ SameLease(r) /\ lock' = [lock EXCEPT !.phase = "released"] /\ live' = FALSE
           /\ IF req[r].mode = "recover" THEN req' = [req EXCEPT ![r] = new] ELSE Finish(r)
  <2>1. LockTyped'
    BY <1>0, <1>2 DEF LockTyped, LockRecord, Phase
  <2>2. CASE Finish(r)
    <3>1. FinishedAt(r) /\ ReqTyped'
      BY <1>0, <2>2, FinishFields
    <3>. QED BY <1>2, <2>1, <3>1 DEF FinishedAt, ReleasedAt
  <2>3. CASE req[r].mode = "recover" /\ req' = [req EXCEPT ![r] = new]
    <3>1. /\ new.pc = "acquire" /\ new.mode = "mutate" /\ new.lease = NoLock /\ new.unread = FALSE
          /\ new.before = req[r].before /\ new.due.result = "none" /\ new.keep = FALSE
      BY DEF NewRequest
    <3>2. new \in RequestRecord
      <4>1. NoLock \in LockRecord
        BY ConstantAssumption DEF NoLock, LockRecord, Phase, RecoveryAction
      <4>2. req[r].version \in 0..MaxLedger
        BY <1>0 DEF RequestRecord
      <4>. QED BY <1>0, <4>1, <4>2 DEF NewRequest, RequestRecord, PcLabel, RepairStatus
    <3>. HIDE DEF new
    <3>3. req'[r] = new /\ Others(r) /\ ReqTyped'
      BY <1>0, <2>3, <3>2, SetRecord
    <3>. QED BY <1>2, <2>1, <2>3, <3>1, <3>3 DEF ReleasedAt
  <2>. QED BY <1>2, <2>2, <2>3
<1>. QED BY <1>1, <1>2 DEF Release

(* What is left of the actions: each in one of the forms above. *)
LEMMA WriteFields ==
    ASSUME ConstantAssumption, TypeOK, OpInv, NEW r \in Requests, Write(r)
    PROVE  (Moved(r, "fence") \/ ThrownAt(r)) /\ ReqTyped'
<1>0. ReqTyped /\ req[r] \in RequestRecord
  BY Values, TypeParts
<1>1. CASE Throw(r)
  BY <1>0, <1>1, ThrowFields
<1>2. ASSUME NEW g, req' = [req EXCEPT ![r].pc = "fence", ![r].left = @ \ {g}]
      PROVE  Moved(r, "fence") /\ ReqTyped'
  <2>. DEFINE new == [req[r] EXCEPT !.pc = "fence", !.left = @ \ {g}]
  <2>1. /\ new \in RequestRecord /\ new.pc = "fence" /\ new.before = req[r].before /\ new.rep = req[r].rep
        /\ new.due = req[r].due /\ new.keep = req[r].keep /\ new.mode = req[r].mode
        /\ new.lease = req[r].lease /\ new.unread = req[r].unread /\ new.goal = req[r].goal
    BY <1>0 DEF RequestRecord, PcLabel
  <2>2. req' = [req EXCEPT ![r] = new]
    BY <1>0, <1>2 DEF ReqTyped, RequestRecord
  <2>. HIDE DEF new
  <2>. QED BY ZenonT(60), <1>0, <2>1, <2>2, SetRecord DEF Moved, SameRest, SameView
<1>. QED BY <1>1, <1>2 DEF Write

LEMMA AuditRequestFields ==
    ASSUME ConstantAssumption, TypeOK, OpInv, NEW r \in Requests, AuditRequest(r)
    PROVE  /\ \/ Moved(r, "audit_commit")
              \/ UNCHANGED audit /\ (FinishedAt(r) \/ (req[r].mode = "recover" /\ Moved(r, "refused")))
           /\ ReqTyped'
<1>0. ReqTyped
  BY TypeParts
<1>1. CASE Goto(r, "audit_commit")
  BY <1>0, <1>1, GotoFields DEF PcLabel
<1>2. CASE Finish(r) /\ UNCHANGED audit
  BY <1>0, <1>2, FinishFields
<1>3. CASE req[r].mode = "recover" /\ Goto(r, "refused") /\ UNCHANGED audit
  BY <1>0, <1>3, GotoFields DEF PcLabel
<1>. QED BY <1>1, <1>2, <1>3 DEF AuditRequest, Refuse

LEMMA AuditCommitFields ==
    ASSUME ConstantAssumption, TypeOK, OpInv, NEW r \in Requests, AuditCommit(r)
    PROVE  /\ FinishedAt(r) \/ (~req[r].keep /\ Moved(r, "release"))
           /\ ReqTyped'
<1>0. ReqTyped
  BY TypeParts
<1>1. CASE Finish(r)
  BY <1>0, <1>1, FinishFields
<1>2. CASE ~req[r].keep /\ Goto(r, "release")
  BY <1>0, <1>2, GotoFields DEF PcLabel
<1>. QED BY <1>1, <1>2 DEF AuditCommit, Settle

-----------------------------------------------------------------------------
(* Type correctness.                                                       *)

LEMMA ReqStep ==
    ASSUME ConstantAssumption, TypeOK, OpInv, NEW r \in Requests, Step(r)
    PROVE  ReqTyped' /\ LockTyped'
<1>0. ReqTyped /\ LockTyped
  BY TypeParts
<1>v. req[r].before \in SUBSET Roles /\ roles[Target[r]] \in SUBSET Roles /\ req[Op(r)].before \in SUBSET Roles
  BY Values
<1>. USE DEF LockTyped
<1>1. CASE LoadLedger(r)
  BY <1>0, <1>1, LoadFields DEF LoadLedger
<1>2. CASE Prepare(r)
  BY <1>0, <1>2, PrepareFields DEF Prepare
<1>3. CASE AcquireFree(r)
  BY <1>3, AcquireFreeFields
<1>4. CASE AcquireBusy(r)
  BY <1>0, <1>v, <1>4, CompleteFields DEF AcquireBusy, Result, PcLabel
<1>5. CASE AcquireStale(r)
  BY <1>0, <1>5, StaleFields DEF AcquireStale
<1>6. CASE Reread(r)
  BY <1>0, <1>6, RereadFields DEF Reread
<1>7. CASE CheckLocked(r)
  BY <1>0, <1>v, <1>7, CompleteFields, GotoFields DEF CheckLocked, Result, PcLabel
<1>8. CASE Guard(r)
  BY <1>0, <1>8, GuardFields DEF Guard
<1>9. CASE BeginIdentityMutation(r)
  BY <1>9, BeginFields
<1>10. CASE ReplaceStart(r)
  BY <1>10, ReplaceStartFields
<1>11. CASE Fence(r)
  BY <1>11, FenceFields
<1>12. CASE Write(r)
  BY <1>0, <1>12, WriteFields DEF Write
<1>13. CASE MarkDenyCommitted(r)
  BY <1>0, <1>13, DenyFields DEF MarkDenyCommitted
<1>14. CASE RegisterCleanup(r)
  BY <1>0, <1>v, <1>14, GotoFields DEF RegisterCleanup, Result, PcLabel
<1>15. CASE MarkCleanupRegistered(r)
  BY <1>0, <1>15, RegisteredFields DEF MarkCleanupRegistered
<1>16. CASE BeginManagedCommit(r)
  BY <1>16, ManagedFields
<1>17. CASE CommitManagedState(r)
  BY <1>0, <1>v, <1>17, GotoFields, FinishFields DEF CommitManagedState, Result, PcLabel
<1>18. CASE MarkManagedCommitted(r)
  BY <1>18, CommittedFields
<1>19. CASE RollbackRead(r)
  BY <1>0, <1>19, RollbackReadFields DEF RollbackRead
<1>20. CASE RollbackRestored(r)
  BY <1>0, <1>v, <1>20, CompleteFields DEF RollbackRestored, Result, PcLabel
<1>21. CASE RollbackFailed(r)
  BY <1>0, <1>v, <1>21, CompleteFields DEF RollbackFailed, Result, PcLabel
<1>22. CASE BeginExpiredRecovery(r)
  BY <1>22, RecoveryFields
<1>23. CASE Reconcile(r)
  BY <1>0, <1>23, ReconcileFields DEF Reconcile
<1>24. CASE CloseRecovery(r)
  BY <1>0, <1>v, <1>24, CompleteFields, GotoFields DEF CloseRecovery, Result, PcLabel
<1>25. CASE RecoveryRefused(r)
  BY <1>0, <1>25, RefusedFields DEF RecoveryRefused
<1>26. CASE AuditRequest(r)
  BY <1>0, <1>26, AuditRequestFields DEF AuditRequest
<1>27. CASE AuditCommit(r)
  BY <1>0, <1>27, AuditCommitFields DEF AuditCommit
<1>28. CASE Release(r)
  BY <1>28, ReleaseFields
<1>. QED BY <1>1, <1>2, <1>3, <1>4, <1>5, <1>6, <1>7, <1>8, <1>9, <1>10, <1>11, <1>12, <1>13, <1>14, <1>15, <1>16, <1>17, <1>18, <1>19, <1>20, <1>21, <1>22, <1>23, <1>24, <1>25, <1>26, <1>27, <1>28 DEF Step

LEMMA StepTypes ==
    ASSUME ConstantAssumption, TypeOK, OpInv, NEW r \in Requests, Step(r)
    PROVE  TypeOK'
<1>0. /\ RolesTyped /\ AuditTyped /\ RepairTyped /\ LedgerTyped /\ FaultsTyped
      /\ Op(r) \in Requests /\ Subject(r) \in Users
      /\ req[r] \in RequestRecord /\ roles[Subject(r)] \in SUBSET Roles
  BY TypeParts, Values
<1>1. RolesTyped'
  <2>1. CASE Write(r)
    <3>1. \A g \in NextGroups(r) : GroupApplied(r, g) \in [Users -> SUBSET Roles]
      BY <1>0 DEF NextGroups, GroupApplied, RolesTyped, RequestRecord
    <3>. QED BY <1>0, <2>1, <3>1 DEF Write, RolesTyped
  <2>2. CASE UNCHANGED roles
    BY <1>0, <2>2 DEF RolesTyped
  <2>. QED BY <2>1, <2>2 DEF Step, LoadLedger, Prepare, AcquireFree, AcquireBusy, AcquireStale, Reread, CheckLocked,
        Guard, BeginIdentityMutation, ReplaceStart, Fence, MarkDenyCommitted, RegisterCleanup, MarkCleanupRegistered,
        BeginManagedCommit, CommitManagedState, MarkManagedCommitted, RollbackRead, RollbackRestored, RollbackFailed,
        BeginExpiredRecovery, Reconcile, CloseRecovery, RecoveryRefused, AuditRequest, AuditCommit, Release
<1>2. AuditTyped'
  <2>1. CASE Prepare(r)
    <3>1. \A a \in AuditRecord : [a EXCEPT !.status = "pending"] \in AuditRecord
      BY DEF AuditRecord
    <3>. QED BY <1>0, <2>1, <3>1 DEF Prepare, AuditTyped
  <2>2. CASE AuditRequest(r)
    <3>1. [status |-> "finalization_pending", result |-> req[r].due.result, after |-> req[r].due.after] \in AuditRecord
      BY <1>0 DEF RequestRecord, AuditRecord
    <3>. QED BY <1>0, <2>2, <3>1 DEF AuditRequest, AuditTyped
  <2>3. CASE AuditCommit(r)
    <3>1. \A a \in AuditRecord : [a EXCEPT !.status = "completed"] \in AuditRecord
      BY DEF AuditRecord
    <3>. QED BY <1>0, <2>3, <3>1 DEF AuditCommit, AuditTyped
  <2>4. CASE UNCHANGED audit
    BY <1>0, <2>4 DEF AuditTyped
  <2>. QED BY <2>1, <2>2, <2>3, <2>4 DEF Step, LoadLedger, AcquireFree, AcquireBusy, AcquireStale, Reread, CheckLocked,
        Guard, BeginIdentityMutation, ReplaceStart, Fence, Write, MarkDenyCommitted, RegisterCleanup,
        MarkCleanupRegistered, BeginManagedCommit, CommitManagedState, MarkManagedCommitted, RollbackRead,
        RollbackRestored, RollbackFailed, BeginExpiredRecovery, Reconcile, CloseRecovery, RecoveryRefused, Release
<1>3. RepairTyped'
  <2>1. CASE \E o \in Requests, next \in RepairStatus : Transition(o, next)
    BY <1>0, <2>1, TransitionTyped
  <2>2. CASE Guard(r)
    BY <2>2, GuardFields
  <2>3. CASE UNCHANGED repair
    BY <1>0, <2>3 DEF RepairTyped
  <2>4. CASE MarkDenyCommitted(r)
    BY <2>4, DenyFields
  <2>5. CASE MarkCleanupRegistered(r)
    BY <2>5, RegisteredFields
  <2>6. CASE RollbackRestored(r)
    BY <2>1, <2>3, <2>6 DEF RollbackRestored, RepairStatus
  <2>7. CASE CloseRecovery(r)
    BY <1>0, <2>1, <2>3, <2>7 DEF CloseRecovery, RepairStatus
  <2>. QED BY <2>2, <2>3, <2>4, <2>5, <2>6, <2>7 DEF Step, LoadLedger, Prepare, AcquireFree, AcquireBusy, AcquireStale,
        Reread, CheckLocked, BeginIdentityMutation, ReplaceStart, Fence, Write, RegisterCleanup, BeginManagedCommit,
        CommitManagedState, MarkManagedCommitted, RollbackRead, RollbackFailed, BeginExpiredRecovery, Reconcile,
        RecoveryRefused, AuditRequest, AuditCommit, Release
<1>4. LedgerTyped'
  <2>1. CASE RegisterCleanup(r)
    BY <1>0, <2>1 DEF RegisterCleanup, LedgerTyped
  <2>2. CASE CommitManagedState(r)
    <3>1. ledger.version < MaxLedger => LedgerSaved(r) \in [version : 0..MaxLedger, saved : SUBSET Requests]
      BY <1>0 DEF LedgerTyped, LedgerSaved, ConstantAssumption
    <3>. QED BY <1>0, <2>2, <3>1 DEF CommitManagedState, LedgerTyped
  <2>3. CASE UNCHANGED <<manifests, ledger>>
    BY <1>0, <2>3 DEF LedgerTyped
  <2>. QED BY <2>1, <2>2, <2>3 DEF Step, LoadLedger, Prepare, AcquireFree, AcquireBusy, AcquireStale, Reread, CheckLocked,
        Guard, BeginIdentityMutation, ReplaceStart, Fence, Write, MarkDenyCommitted, MarkCleanupRegistered,
        BeginManagedCommit, MarkManagedCommitted, RollbackRead, RollbackRestored, RollbackFailed,
        BeginExpiredRecovery, Reconcile, CloseRecovery, RecoveryRefused, AuditRequest, AuditCommit, Release
<1>5. FaultsTyped'
  <2>1. CASE faults < MaxFaults /\ faults' = faults + 1
    BY <1>0, <2>1 DEF FaultsTyped, ConstantAssumption
  <2>2. CASE UNCHANGED faults
    BY <1>0, <2>2 DEF FaultsTyped
  <2>. QED BY <2>1, <2>2 DEF Step, LoadLedger, Prepare, AcquireFree, AcquireBusy, AcquireStale, Reread, CheckLocked,
        Guard, BeginIdentityMutation, ReplaceStart, Fence, Write, MarkDenyCommitted, RegisterCleanup,
        MarkCleanupRegistered, BeginManagedCommit, CommitManagedState, MarkManagedCommitted, RollbackRead,
        RollbackRestored, RollbackFailed, BeginExpiredRecovery, Reconcile, CloseRecovery, RecoveryRefused,
        AuditRequest, AuditCommit, Release
<1>. QED BY <1>1, <1>2, <1>3, <1>4, <1>5, ReqStep, TypeParts

-----------------------------------------------------------------------------
(* The five kinds of step, by what they do to the lock and the leases.     *)

Keeps(r) ==
    /\ lock' = lock /\ live' = live /\ Others(r)
    /\ req[r].unread = FALSE /\ req'[r].unread = FALSE /\ req'[r].pc # "write"
    /\ \/ req'[r].lease = req[r].lease /\ req'[r].pc # "recover" /\ (req'[r].mode = "recover" => req[r].mode = "recover")
       \/ req'[r].lease = NoLock /\ req'[r].mode = "mutate" /\ req'[r].pc = "done"
       \/ /\ req'[r].lease = lock /\ req'[r].mode = req[r].mode /\ req'[r].pc = "recover"
          /\ lock.phase # "released"
    /\ Owner(r)' => /\ Owner(r) /\ req'[r].lease = req[r].lease
                    /\ req'[r].mode = "recover" <=> req[r].mode = "recover"
    /\ InWork(r)' => InWork(r) \/ ~(SameLease(r) /\ lock.phase = "held")
    /\ Fresh(r)' => Fresh(r) /\ req'[r].mode = req[r].mode

Renews(r) ==
    /\ SameLease(r) /\ lock.phase # "released" /\ (InWork(r) \/ (req[r].pc = "begin" /\ lock.phase = "held"))
    /\ lock'.op = lock.op /\ lock'.token = lock.token /\ (lock'.phase \notin {"released", "held"} \/ (lock' = lock /\ InWork(r)))
    /\ lock'.phase # "released" /\ live' /\ Others(r)
    /\ req'[r].lease = lock' /\ req'[r].unread = TRUE /\ req'[r].mode = req[r].mode
    /\ Owner(r)' /\ req'[r].pc # "recover" /\ ~Fresh(r)' /\ ~Fresh(r)

Takes(r) ==
    /\ lock.phase = "released" \/ ~live
    /\ lock'.token = lock.token + 1 /\ live' /\ Others(r)
    /\ req'[r].lease = lock' /\ req'[r].unread = TRUE
    /\ Owner(r)' /\ req'[r].pc \notin {"recover", "write"} /\ ~Fresh(r)'
    /\ \/ /\ lock'.op = r /\ lock'.phase = "held" /\ lock'.action = "none"
          /\ req'[r].mode = "mutate" /\ ~InWork(r)' /\ req'[r].pc = "locked"
       \/ /\ lock'.op = lock.op /\ lock.phase \notin {"released", "held"} /\ lock'.phase = "recovering"
          /\ req'[r].mode = "recover" /\ req'[r].pc = "reconcile"

Rereads(r) ==
    /\ UNCHANGED <<lock, live>> /\ Others(r) /\ req[r].unread
    /\ req'[r].lease = lock /\ req'[r].unread = FALSE /\ req'[r].pc = req[r].pc
    /\ req'[r].mode = req[r].mode /\ req'[r].goal = req[r].goal /\ SameRest(r)

Releases(r) ==
    /\ SameLease(r) /\ req[r].pc = "release" /\ req[r].unread = FALSE
    /\ lock' = [lock EXCEPT !.phase = "released"] /\ live' = FALSE /\ Others(r)
    /\ req'[r].lease = NoLock /\ req'[r].mode = "mutate" /\ req'[r].unread = FALSE
    /\ req'[r].pc \in {"acquire", "done"}

LEMMA Kinds ==
    ASSUME ConstantAssumption, TypeOK, OpInv, ModeInv, NEW r \in Requests, Step(r)
    PROVE  /\ Keeps(r) \/ Renews(r) \/ Takes(r) \/ Rereads(r) \/ Releases(r)
           /\ InMode(r)'
           /\ ~Fresh(r) => req'[r].before = req[r].before
<1>0. ReqTyped /\ req[r] \in RequestRecord /\ lock \in LockRecord
  BY TypeParts, Values
<1>m. req[r].mode \in {"mutate", "rollback", "recover"} /\ req[r].keep \in BOOLEAN /\ req[r].unread \in BOOLEAN
  BY <1>0 DEF RequestRecord
<1>v. req[r].before \in SUBSET Roles /\ roles[Target[r]] \in SUBSET Roles /\ req[Op(r)].before \in SUBSET Roles
  BY Values
<1>i. InMode(r)
  BY DEF ModeInv
<1>1. CASE LoadLedger(r)
  BY <1>0, <1>m, <1>v, <1>i, <1>1, LoadFields
     DEF LoadLedger, At, Keeps, Moved, SameRest, SameView, Owner, InWork, Ending, Fresh, InMode, Mutates
<1>2. CASE Prepare(r)
  BY <1>0, <1>m, <1>v, <1>i, <1>2, PrepareFields
     DEF Prepare, At, Keeps, FinishedAt, SameView, Owner, InWork, Ending, Fresh, InMode, Mutates
<1>3. CASE AcquireFree(r)
  BY <1>0, <1>m, <1>v, <1>i, <1>3, AcquireFreeFields
     DEF AcquireFree, At, PutAt, SameRest, Takes, Owner, InWork, Ending, Fresh, InMode, Mutates
<1>4. CASE AcquireBusy(r)
  <2>1. CompletedAt(r, "conflict", req[r].before, TRUE)
    BY <1>0, <1>v, <1>4, CompleteFields DEF AcquireBusy, Result
  <2>2. UNCHANGED <<lock, live>> /\ req[r].pc = "acquire" /\ req[r].unread = FALSE
    BY <1>m, <1>4 DEF AcquireBusy, At
  <2>. QED BY <1>m, <1>i, <2>1, <2>2 DEF Keeps, CompletedAt, SameView, Owner, InWork, Ending, Fresh, InMode, Mutates
<1>5. CASE AcquireStale(r)
  BY <1>0, <1>m, <1>v, <1>i, <1>5, StaleFields
     DEF AcquireStale, At, Keeps, SameRest, Owner, InWork, Ending, Fresh, InMode, Mutates
<1>6. CASE Reread(r)
  BY <1>0, <1>m, <1>v, <1>i, <1>6, RereadFields
     DEF Reread, At, Rereads, SameRest, Owner, InWork, Ending, Fresh, InMode, Mutates
<1>7. CASE CheckLocked(r)
  <2>1. \/ \E x \in {"conflict", "denied"} : CompletedAt(r, x, req[r].before, FALSE)
        \/ Moved(r, "guard")
    BY <1>0, <1>v, <1>7, CompleteFields, GotoFields DEF CheckLocked, Result, PcLabel
  <2>2. UNCHANGED <<lock, live>> /\ At(r, req[r].pc) /\ req[r].pc = "locked"
    BY <1>7 DEF CheckLocked, At
  <2>. QED BY <1>0, <1>m, <1>i, <2>1, <2>2 DEF At, Keeps, CompletedAt, Moved, SameRest, SameView, Owner, InWork, Ending, Fresh, InMode, Mutates
<1>8. CASE Guard(r)
  BY <1>0, <1>m, <1>v, <1>i, <1>8, GuardFields
     DEF Guard, At, Keeps, CompletedAt, SameView, Shifted, Owner, InWork, Ending, Fresh, InMode, Mutates
<1>9. CASE BeginIdentityMutation(r)
  <2>1. req[r].pc = "begin" /\ req[r].unread = FALSE
    BY <1>9 DEF BeginIdentityMutation, At
  <2>2. CASE /\ SameLease(r) /\ lock.phase = "held" /\ PutAt(r, "replace") /\ req'[r].mode = req[r].mode
             /\ lock' = [lock EXCEPT !.phase = "identity_mutation"]
    <3>1. lock'.op = lock.op /\ lock'.token = lock.token /\ lock'.phase = "identity_mutation"
      BY <1>0, <2>2 DEF LockRecord
    <3>2. Renews(r)
      BY <1>m, <2>1, <2>2, <3>1 DEF Renews, PutAt, Owner, InWork, Ending, Fresh
    <3>3. InMode(r)'
      BY <1>i, <2>1, <2>2 DEF PutAt, SameRest, InMode, Mutates
    <3>. QED BY <2>2, <3>2, <3>3 DEF PutAt
  <2>3. CASE ThrownAt(r) /\ UNCHANGED <<lock, live>> /\ ~(SameLease(r) /\ lock.phase = "held")
    BY <1>0, <1>m, <1>i, <2>1, <2>3 DEF Keeps, ThrownAt, SameRest, Owner, InWork, Ending, Fresh, InMode, Mutates
  <2>. QED BY <1>0, <1>9, <2>2, <2>3, BeginFields
<1>10. CASE ReplaceStart(r)
  BY ZenonT(60), <1>0, <1>m, <1>v, <1>i, <1>10, ReplaceStartFields
     DEF ReplaceStart, At, Keeps, PutAt, SameRest, Renews, ThrownAt, Renewable, Owner, InWork, Ending, Fresh, InMode, Mutates
<1>11. CASE Fence(r)
  BY ZenonT(60), <1>0, <1>m, <1>v, <1>i, <1>11, FenceFields
     DEF Fence, At, Keeps, PutAt, SameRest, Renews, ThrownAt, Renewable, AfterReplace, Owner, InWork, Ending, Fresh, InMode, Mutates
<1>12. CASE Write(r)
  BY <1>0, <1>m, <1>v, <1>i, <1>12, WriteFields
     DEF Write, At, Keeps, Moved, SameRest, SameView, ThrownAt, Owner, InWork, Ending, Fresh, InMode, Mutates
<1>13. CASE MarkDenyCommitted(r)
  BY <1>0, <1>m, <1>v, <1>i, <1>13, DenyFields
     DEF MarkDenyCommitted, At, Keeps, Shifted, Owner, InWork, Ending, Fresh, InMode, Mutates
<1>14. CASE RegisterCleanup(r)
  BY <1>0, <1>m, <1>v, <1>i, <1>14, GotoFields
     DEF RegisterCleanup, At, Keeps, Moved, SameRest, SameView, Owner, InWork, Ending, Fresh, InMode, Mutates, Result, PcLabel
<1>15. CASE MarkCleanupRegistered(r)
  BY <1>0, <1>m, <1>v, <1>i, <1>15, RegisteredFields
     DEF MarkCleanupRegistered, At, Keeps, Shifted, Owner, InWork, Ending, Fresh, InMode, Mutates
<1>16. CASE BeginManagedCommit(r)
  <2>1. req[r].pc = "managed" /\ req[r].unread = FALSE
    BY <1>16 DEF BeginManagedCommit, At
  <2>2. CASE /\ SameLease(r) /\ lock.phase = "identity_mutation" /\ PutAt(r, "commit") /\ req'[r].mode = req[r].mode
             /\ lock' = [lock EXCEPT !.phase = "managed_commit"]
    <3>1. lock'.op = lock.op /\ lock'.token = lock.token /\ lock'.phase = "managed_commit"
      BY <1>0, <2>2 DEF LockRecord
    <3>2. Renews(r)
      BY <1>m, <2>1, <2>2, <3>1 DEF Renews, PutAt, Owner, InWork, Ending, Fresh
    <3>3. InMode(r)'
      BY <1>i, <2>1, <2>2 DEF PutAt, SameRest, InMode, Mutates
    <3>. QED BY <2>2, <3>2, <3>3 DEF PutAt
  <2>3. CASE ThrownAt(r) /\ UNCHANGED <<lock, live>>
    BY <1>0, <1>m, <1>i, <2>1, <2>3 DEF Keeps, ThrownAt, SameRest, Owner, InWork, Ending, Fresh, InMode, Mutates
  <2>. QED BY <1>0, <1>16, <2>2, <2>3, ManagedFields
<1>17. CASE CommitManagedState(r)
  <2>1. Moved(r, "committed") \/ FinishedAt(r)
    BY <1>0, <1>v, <1>17, GotoFields, FinishFields DEF CommitManagedState, PcLabel
  <2>2. UNCHANGED <<lock, live>> /\ At(r, req[r].pc) /\ req[r].pc = "commit"
    BY <1>17 DEF CommitManagedState, At
  <2>. QED BY <1>0, <1>m, <1>i, <2>1, <2>2 DEF At, Keeps, Moved, SameRest, SameView, FinishedAt, Owner, InWork, Ending, Fresh, InMode, Mutates
<1>18. CASE MarkManagedCommitted(r)
  <2>1. req[r].pc = "committed" /\ req[r].unread = FALSE
    BY <1>18 DEF MarkManagedCommitted, At
  <2>2. CASE /\ SameLease(r) /\ lock.phase = "managed_commit" /\ PutAt(r, "audit") /\ req'[r].mode = req[r].mode
             /\ req'[r].keep = FALSE
             /\ lock' = [lock EXCEPT !.phase = "managed_committed"]
    <3>1. lock'.op = lock.op /\ lock'.token = lock.token /\ lock'.phase = "managed_committed"
      BY <1>0, <2>2 DEF LockRecord
    <3>2. Renews(r)
      BY <1>m, <2>1, <2>2, <3>1 DEF Renews, PutAt, Owner, InWork, Ending, Fresh
    <3>3. InMode(r)'
      BY <1>i, <2>1, <2>2 DEF PutAt, SameRest, InMode, Mutates
    <3>. QED BY <2>2, <3>2, <3>3 DEF PutAt
  <2>3. CASE FinishedAt(r) /\ UNCHANGED <<lock, live>>
    BY <1>0, <1>m, <1>i, <2>1, <2>3 DEF Keeps, FinishedAt, Owner, InWork, Ending, Fresh, InMode, Mutates
  <2>. QED BY <1>0, <1>18, <2>2, <2>3, CommittedFields
<1>19. CASE RollbackRead(r)
  BY <1>0, <1>m, <1>v, <1>i, <1>19, RollbackReadFields
     DEF RollbackRead, At, Keeps, Shifted, Owner, InWork, Ending, Fresh, InMode, Mutates
<1>20. CASE RollbackRestored(r)
  BY ZenonT(60), <1>0, <1>m, <1>v, <1>i, <1>20, CompleteFields
     DEF RollbackRestored, At, Keeps, CompletedAt, SameView, Owner, InWork, Ending, Fresh, InMode, Mutates, Result, PcLabel
<1>21. CASE RollbackFailed(r)
  BY ZenonT(60), <1>0, <1>m, <1>v, <1>i, <1>21, CompleteFields
     DEF RollbackFailed, At, Keeps, CompletedAt, SameView, Owner, InWork, Ending, Fresh, InMode, Mutates, Result, PcLabel
<1>22. CASE BeginExpiredRecovery(r)
  BY ZenonT(60), <1>0, <1>m, <1>v, <1>i, <1>22, RecoveryFields
     DEF BeginExpiredRecovery, At, Keeps, PutAt, SameRest, Takes, Moved, SameView, CompletedAt, Owner, InWork, Ending, Fresh, InMode, Mutates
<1>23. CASE Reconcile(r)
  BY <1>0, <1>m, <1>v, <1>i, <1>23, ReconcileFields
     DEF Reconcile, At, Keeps, Moved, SameRest, SameView, CompletedAt, Shifted, Owner, InWork, Ending, Fresh, InMode, Mutates
<1>24. CASE CloseRecovery(r)
  <2>1. CompletedAt(r, "failed", req[Op(r)].before, FALSE) \/ Moved(r, "refused")
    BY <1>0, <1>v, <1>24, CompleteFields, GotoFields DEF CloseRecovery, Result, PcLabel
  <2>2. UNCHANGED <<lock, live>> /\ At(r, req[r].pc) /\ req[r].pc = "closing"
    BY <1>24 DEF CloseRecovery, At
  <2>. QED BY <1>0, <1>m, <1>i, <2>1, <2>2 DEF At, Keeps, CompletedAt, Moved, SameRest, SameView, Owner, InWork, Ending, Fresh, InMode, Mutates
<1>25. CASE RecoveryRefused(r)
  BY <1>0, <1>m, <1>v, <1>i, <1>25, RefusedFields
     DEF RecoveryRefused, At, Keeps, Owner, InWork, Ending, Fresh, InMode, Mutates
<1>26. CASE AuditRequest(r)
  BY ZenonT(60), <1>0, <1>m, <1>v, <1>i, <1>26, AuditRequestFields
     DEF AuditRequest, At, Keeps, Moved, SameRest, SameView, FinishedAt, Owner, InWork, Ending, Fresh, InMode, Mutates
<1>27. CASE AuditCommit(r)
  BY <1>0, <1>m, <1>v, <1>i, <1>27, AuditCommitFields
     DEF AuditCommit, At, Keeps, Moved, SameRest, SameView, FinishedAt, Owner, InWork, Ending, Fresh, InMode, Mutates
<1>28. CASE Release(r)
  BY ZenonT(60), <1>0, <1>m, <1>v, <1>i, <1>28, ReleaseFields
     DEF Release, At, Keeps, Releases, ReleasedAt, FinishedAt, Moved, SameRest, SameView, Owner, InWork, Ending, Fresh, InMode, Mutates
<1>. QED BY <1>1, <1>2, <1>3, <1>4, <1>5, <1>6, <1>7, <1>8, <1>9, <1>10, <1>11, <1>12, <1>13, <1>14, <1>15, <1>16, <1>17, <1>18, <1>19, <1>20, <1>21, <1>22, <1>23, <1>24, <1>25, <1>26, <1>27, <1>28 DEF Step

-----------------------------------------------------------------------------
(* The invariants that hold however calls stall.                           *)

LEMMA FreshResults ==
    ASSUME ConstantAssumption, TypeOK, WeakInv, NEW r \in Requests, Step(r), NEW q \in Requests, Fresh(q)
    PROVE  audit'[q].result = audit[q].result
<1>0. audit \in [Requests -> AuditRecord]
  BY DEF TypeOK
<1>1. Op(r) \in Requests
  BY Values DEF WeakInv
<1>2. CASE Prepare(r)
  BY <1>0, <1>2 DEF Prepare, AuditRecord
<1>3. CASE AuditRequest(r)
  <2>1. Op(r) # q
    BY <1>3 DEF AuditRequest, At, Op, WeakInv, FreshInv, OpInv, Fresh
  <2>. QED BY <1>0, <1>1, <1>3, <2>1 DEF AuditRequest
<1>4. CASE AuditCommit(r)
  <2>1. Op(r) # q
    BY <1>4 DEF AuditCommit, At, Op, WeakInv, FreshInv, OpInv, Fresh
  <2>. QED BY <1>0, <1>1, <1>4, <2>1 DEF AuditCommit
<1>5. CASE UNCHANGED audit
  BY <1>5
<1>. QED BY <1>2, <1>3, <1>4, <1>5 DEF Step, LoadLedger, AcquireFree, AcquireBusy, AcquireStale, Reread, CheckLocked,
        Guard, BeginIdentityMutation, ReplaceStart, Fence, Write, MarkDenyCommitted, RegisterCleanup,
        MarkCleanupRegistered, BeginManagedCommit, CommitManagedState, MarkManagedCommitted, RollbackRead,
        RollbackRestored, RollbackFailed, BeginExpiredRecovery, Reconcile, CloseRecovery, RecoveryRefused, Release

LEMMA WeakStep ==
    ASSUME ConstantAssumption, TypeOK, WeakInv, NEW r \in Requests, Step(r)
    PROVE  TypeOK' /\ WeakInv'
<1>0. OpInv /\ ModeInv /\ FreshInv
  BY DEF WeakInv
<1>t. TypeOK'
  BY <1>0, StepTypes
<1>l. /\ lock \in LockRecord /\ lock' \in LockRecord
      /\ \A q \in Requests : req[q] \in RequestRecord /\ req'[q] \in RequestRecord
  BY <1>t DEF TypeOK
<1>k. /\ Keeps(r) \/ Renews(r) \/ Takes(r) \/ Rereads(r) \/ Releases(r)
      /\ InMode(r)'
  BY <1>0, Kinds
<1>o. Others(r)
  BY <1>k DEF Keeps, Renews, Takes, Rereads, Releases
<1>1. ModeInv'
  BY <1>0, <1>k, <1>o DEF ModeInv, InMode, Others
<1>2. r # NoRequest /\ NoLock.op = NoRequest
  BY DEF ConstantAssumption, NoLock
<1>3. /\ lock'.op = NoRequest => lock'.phase = "released"
      /\ lock.op # NoRequest => lock'.op # NoRequest
  <2>1. CASE Releases(r)
    BY <1>l, <2>1 DEF Releases, LockRecord
  <2>. QED BY <1>0, <1>2, <1>k, <2>1 DEF OpInv, Keeps, Renews, Takes, Rereads
<1>4. OpInv'
  <2>1. \A q \in Requests \ {r} :
            /\ req'[q].lease.op # NoRequest => lock'.op # NoRequest
            /\ req'[q].pc = "recover" \/ req'[q].mode = "recover" => req'[q].lease.op # NoRequest
    BY <1>0, <1>3, <1>o DEF OpInv, Others
  <2>2. /\ req'[r].lease.op # NoRequest => lock'.op # NoRequest
        /\ req'[r].pc = "recover" \/ req'[r].mode = "recover" => req'[r].lease.op # NoRequest
    <3>1. CASE Keeps(r)
      BY <1>0, <1>2, <3>1 DEF OpInv, Keeps
    <3>2. CASE Renews(r)
      BY <1>0, <1>2, <3>2 DEF OpInv, Renews, SameLease
    <3>3. CASE Takes(r)
      BY <1>0, <1>2, <3>3 DEF OpInv, Takes
    <3>4. CASE Rereads(r)
      BY <1>0, <1>2, <3>4 DEF OpInv, Rereads
    <3>5. CASE Releases(r)
      BY <1>0, <1>2, <3>5 DEF OpInv, Releases
    <3>. QED BY <1>k, <3>1, <3>2, <3>3, <3>4, <3>5
  <2>. QED BY <1>3, <2>1, <2>2 DEF OpInv
<1>5. \A q \in Requests : Fresh(q)' => Fresh(q)
  <2>1. Fresh(r)' => Fresh(r)
    BY <1>k DEF Keeps, Renews, Takes, Rereads, Releases, Fresh
  <2>. QED BY <1>o, <2>1 DEF Others, Fresh
<1>6. Fresh(r)' => req'[r].mode = "mutate"
  BY <1>k DEF InMode, Mutates, Fresh
<1>7. FreshInv'
  <2>1. \A o \in Requests : lock'.op = o => ~Fresh(o)'
    <3>1. CASE lock'.op = lock.op
      BY <1>0, <1>2, <1>5, <3>1, ConstantAssumption DEF FreshInv, ConstantAssumption
    <3>2. CASE Takes(r) /\ lock'.op = r
      BY <3>2 DEF Takes
    <3>3. lock'.op = lock.op \/ (Takes(r) /\ lock'.op = r)
      BY <1>k, <1>l DEF Keeps, Renews, Takes, Rereads, Releases, LockRecord
    <3>. QED BY <3>1, <3>2, <3>3
  <2>2. \A o, q \in Requests : req'[q].lease.op = o => ~Fresh(o)'
    <3>1. \A o, q \in Requests : req[q].lease.op = o => ~Fresh(o)'
      BY <1>0, <1>5, ConstantAssumption DEF FreshInv, ConstantAssumption
    <3>2. req'[r].lease.op = req[r].lease.op \/ req'[r].lease.op = NoRequest \/ req'[r].lease.op = lock'.op
      BY <1>2, <1>k DEF Keeps, Renews, Takes, Rereads, Releases
    <3>3. \A o \in Requests : req'[r].lease.op = o => ~Fresh(o)'
      BY <2>1, <3>1, <3>2, ConstantAssumption DEF ConstantAssumption
    <3>. QED BY <1>o, <3>1, <3>3 DEF Others
  <2>3. \A q \in Requests : Fresh(q)' => req'[q].mode = "mutate" /\ audit'[q].result = "none"
    <3>1. \A q \in Requests : Fresh(q)' => audit'[q].result = "none"
      BY <1>0, <1>5, FreshResults DEF FreshInv
    <3>2. \A q \in Requests \ {r} : Fresh(q)' => req'[q].mode = "mutate"
      BY <1>0, <1>o DEF FreshInv, Others, Fresh
    <3>. QED BY <1>6, <3>1, <3>2
  <2>4. /\ lock'.op # NoRequest => lock'.op \in Requests
        /\ \A q \in Requests : req'[q].lease.op # NoRequest => req'[q].lease.op \in Requests
    BY <1>l DEF RequestRecord, LockRecord
  <2>. QED BY <2>1, <2>2, <2>3, <2>4 DEF FreshInv, Fresh
<1>. QED BY <1>t, <1>1, <1>4, <1>7 DEF WeakInv

LEMMA EnvironmentTypes ==
    ASSUME ConstantAssumption, TypeOK, Expire \/ OtherLedgerWrite \/ UNCHANGED vars
    PROVE  TypeOK'
<1>0. LedgerTyped
  BY TypeParts
<1>1. LedgerTyped'
  <2>1. CASE OtherLedgerWrite
    BY <1>0, <2>1 DEF OtherLedgerWrite, LedgerTyped, ConstantAssumption
  <2>. QED BY <1>0, <2>1 DEF Expire, vars, LedgerTyped
<1>2. live' \in BOOLEAN
  BY DEF TypeOK, Expire, OtherLedgerWrite, vars
<1>. QED BY <1>1, <1>2 DEF TypeOK, LedgerTyped, Expire, OtherLedgerWrite, vars

LEMMA WeakNext ==
    ASSUME ConstantAssumption, TypeOK, WeakInv, [Next]_vars
    PROVE  TypeOK' /\ WeakInv'
<1>1. CASE \E r \in Requests : Step(r)
  BY <1>1, WeakStep
<1>2. CASE Expire \/ OtherLedgerWrite \/ UNCHANGED vars
  <2>1. TypeOK'
    BY <1>2, EnvironmentTypes
  <2>. QED BY <1>2, <2>1 DEF WeakInv, OpInv, ModeInv, InMode, FreshInv, Fresh, Expire, OtherLedgerWrite, vars
<1>. QED BY <1>1, <1>2 DEF Next

LEMMA WeakStart ==
    ASSUME ConstantAssumption, Init
    PROVE  TypeOK /\ WeakInv
<1>1. 0 \in 0..MaxToken /\ 0 \in 0..MaxFaults /\ 0 \in 0..MaxLedger
  BY DEF ConstantAssumption
<1>2. NoLock \in LockRecord /\ NoLock.op = NoRequest /\ NoLock.phase = "released"
  BY <1>1 DEF NoLock, LockRecord, Phase, RecoveryAction
<1>3. /\ NewRequest \in RequestRecord /\ NewRequest.lease = NoLock /\ NewRequest.pc = "load"
      /\ NewRequest.mode = "mutate"
  BY <1>1, <1>2 DEF NewRequest, RequestRecord, PcLabel, RepairStatus
<1>4. NoAudit \in AuditRecord /\ NoAudit.result = "none"
  BY DEF NoAudit, AuditRecord
<1>5. TypeOK
  BY <1>1, <1>2, <1>3, <1>4 DEF Init, TypeOK, RepairStatus, ConstantAssumption
<1>6. \A r \in Requests : req[r] = NewRequest /\ audit[r] = NoAudit
  BY DEF Init
<1>. QED BY <1>2, <1>3, <1>4, <1>5, <1>6 DEF Init, WeakInv, OpInv, ModeInv, InMode, Mutates, FreshInv, Fresh

(* Every state of the mutations is well typed. *)
THEOREM TypeCorrect == Spec => []TypeOK
<1>1. Init => TypeOK /\ WeakInv
  BY ConstantAssumption, WeakStart
<1>2. TypeOK /\ WeakInv /\ [Next]_vars => (TypeOK /\ WeakInv)'
  BY ConstantAssumption, WeakNext
<1>. QED BY <1>1, <1>2, PTL DEF Spec

-----------------------------------------------------------------------------
(* One request acts under a lease.                                         *)

(* A request that acts under the lock's lease excludes every other. *)
LEMMA Excluded ==
    ASSUME Sole, NEW q \in Requests, NEW r \in Requests, q # r, Owner(q), SameLease(q), Owner(r)
    PROVE  ~SameLease(r)
BY DEF Sole, SameLease

LEMMA LeaseStep ==
    ASSUME ConstantAssumption, TypeOK, WeakInv, LeaseInv, NEW r \in Requests, Step(r)
    PROVE  LeaseInv'
<1>0. /\ OpInv /\ ModeInv /\ TypeOK' /\ WeakInv'
      /\ Leased(r) /\ Sole
  BY WeakStep DEF WeakInv, LeaseInv
<1>l. /\ lock \in LockRecord /\ lock.token \in Nat /\ lock'.token \in Nat
      /\ \A q \in Requests : req[q].lease.token \in Nat /\ req'[q].lease.token \in Nat
  BY <1>0 DEF TypeOK, RequestRecord, LockRecord
<1>k. Keeps(r) \/ Renews(r) \/ Takes(r) \/ Rereads(r) \/ Releases(r)
  BY <1>0, Kinds
<1>o. \A q \in Requests \ {r} : req'[q] = req[q]
  BY <1>k DEF Others, Keeps, Renews, Takes, Rereads, Releases
<1>n. NoLock.token = 0 /\ NoLock.op = NoRequest /\ r # NoRequest
  BY DEF NoLock, ConstantAssumption
<1>1. Leased(r)'
  <2>1. CASE Keeps(r)
    BY <1>0, <1>l, <1>n, <2>1 DEF Leased, Keeps, SameLease, InWork, Owner, Ending
  <2>2. CASE Renews(r)
    <3>1. Owner(r)
      BY <1>0, <2>2 DEF Renews, Owner
    <3>2. lock'.phase # "held" \/ ~InWork(r)'
      BY <1>0, <2>2 DEF Renews, Leased
    <3>. QED BY <1>0, <1>l, <2>2, <3>1, <3>2 DEF Leased, Renews, SameLease
  <2>3. CASE Takes(r)
    BY <1>0, <1>l, <1>n, <2>3 DEF Leased, Takes, SameLease
  <2>4. CASE Rereads(r)
    BY <1>0, <1>l, <2>4 DEF Leased, Rereads, SameRest, SameLease, Owner, InWork, Ending
  <2>5. CASE Releases(r)
    BY <1>0, <1>l, <1>n, <2>5 DEF Leased, Releases, SameLease, Owner, InWork, Ending
  <2>. QED BY <1>k, <2>1, <2>2, <2>3, <2>4, <2>5
<1>2. ASSUME NEW q \in Requests, q # r PROVE Leased(q)'
  <2>0. Leased(q) /\ req'[q] = req[q] /\ (Owner(q)' <=> Owner(q)) /\ (InWork(q)' <=> InWork(q))
    BY <1>2, <1>o DEF LeaseInv, Owner, InWork, Ending
  <2>1. CASE Keeps(r)
    BY <2>0, <2>1 DEF Leased, Keeps, SameLease
  <2>2. CASE Renews(r)
    <3>1. Owner(r) /\ SameLease(r)
      BY <2>2 DEF Renews, Owner
    <3>2. Owner(q) => ~SameLease(q)
      BY <1>0, <1>2, <3>1, Excluded
    <3>3. InWork(q) => Owner(q)
      BY DEF Owner
    <3>. QED BY <1>l, <2>0, <2>2, <3>2, <3>3 DEF Leased, Renews, SameLease
  <2>3. CASE Takes(r)
    BY <1>l, <2>0, <2>3 DEF Leased, Takes, SameLease
  <2>4. CASE Rereads(r)
    BY <2>0, <2>4 DEF Leased, Rereads, SameLease
  <2>5. CASE Releases(r)
    <3>1. Owner(r) /\ SameLease(r)
      BY <1>0, <2>5 DEF Releases, Owner, Ending, ModeInv, InMode
    <3>2. Owner(q) => ~SameLease(q)
      BY <1>0, <1>2, <3>1, Excluded
    <3>3. lock'.op = lock.op /\ lock'.token = lock.token /\ lock'.phase = "released"
      BY <1>l, <2>5 DEF Releases, LockRecord
    <3>. QED BY <2>0, <2>5, <3>2, <3>3 DEF Leased, SameLease
  <2>. QED BY <1>k, <2>1, <2>2, <2>3, <2>4, <2>5
<1>3. Sole'
  <2>1. ASSUME NEW q \in Requests, q # r, Owner(q)', Owner(r)'
        PROVE  req'[q].lease.token # req'[r].lease.token
    <3>0. Leased(q) /\ req'[q] = req[q] /\ Owner(q)
      BY <1>o, <2>1 DEF LeaseInv, Owner, InWork, Ending
    <3>1. CASE Takes(r)
      BY <1>l, <3>0, <3>1 DEF Leased, Takes
    <3>2. CASE Owner(r) /\ req'[r].lease.token = req[r].lease.token
      BY <1>0, <2>1, <3>0, <3>2 DEF Sole
    <3>3. CASE Renews(r)
      BY <3>2, <3>3 DEF Renews, Owner, SameLease
    <3>4. CASE Rereads(r)
      BY <1>0, <3>2, <3>4 DEF Rereads, Leased
    <3>5. CASE Keeps(r)
      BY <2>1, <3>2, <3>5 DEF Keeps
    <3>6. ~Releases(r)
      BY <2>1 DEF Releases, Owner, InWork, Ending
    <3>. QED BY <1>k, <3>1, <3>3, <3>4, <3>5, <3>6
  <2>2. ASSUME NEW q \in Requests, NEW p \in Requests, q # r, p # r, p # q, Owner(q)', Owner(p)'
        PROVE  req'[q].lease.token # req'[p].lease.token
    BY <1>0, <1>o, <2>2 DEF Sole, Owner, InWork, Ending
  <2>. QED BY <2>1, <2>2 DEF Sole
<1>. QED BY <1>1, <1>2, <1>3 DEF LeaseInv

-----------------------------------------------------------------------------
(* Where a request may have come from, for the places where something is   *)
(* known of it.                                                            *)

Replacing == {"replace", "fence", "write"}
Managing == {"deny", "register", "registered", "managed", "commit", "committed"}

Cleared(r) ==
    /\ req[r].pc = "locked" /\ roles[Target[r]] = req[r].before
    /\ Authorized(r) /\ RecoveryPrincipalRemains(r)

(* The roles that a place vouches for. *)
RolesMark(r) ==
    /\ req'[r].pc \in {"guard", "begin"} => req[r].pc \in {"guard", "begin"} \/ Cleared(r)
    /\ req'[r].pc \in Replacing /\ req'[r].mode = "mutate" =>
          \/ req[r].pc \in Replacing /\ req[r].mode = "mutate" /\ req'[r].goal = req[r].goal
          \/ req'[r].goal = Desired[r]
    /\ req'[r].pc \in Managing =>
          req[r].pc \in Managing \/ (req[r].pc = "fence" /\ req[r].mode = "mutate" /\ roles[Target[r]] = req[r].goal)

OutcomeMark(r) ==
    (Ending(r)' /\ req'[r].due.result \in {"success", "failed"}) =>
        /\ req'[r].mode = req[r].mode
        /\ \/ Ending(r) /\ req'[r].due = req[r].due
           \/ req'[r].due.after = roles[Subject(r)]
           \/ req[r].pc = "committed" /\ req'[r].due.after = Desired[r]

(* The records that a place vouches for. *)
RecordMark(r) ==
    /\ req'[r].pc \in {"begin", "replace", "fence", "write"} /\ req'[r].mode = "mutate" =>
          \/ req[r].pc \in {"begin", "replace", "fence", "write"} /\ req[r].mode = "mutate" /\ req'[r].rep = req[r].rep
          \/ req'[r].rep = "absent" => Removed(r) = {}
    /\ req'[r].pc \in {"registered", "managed", "commit", "committed"} =>
          \/ req[r].pc \in {"registered", "managed", "commit", "committed"}
          \/ r \in manifests'
          \/ req[r].pc = "fence" /\ req[r].mode = "mutate" /\ req[r].rep = "absent"
    /\ req'[r].pc = "committed" => req[r].pc = "committed" \/ r \in ledger'.saved

SuccessMark(r) ==
    (req'[r].pc = "audit" /\ req'[r].due.result = "success") =>
        /\ req'[r].mode = req[r].mode
        /\ \/ req[r].pc = "audit" /\ req'[r].due = req[r].due
           \/ req[r].pc = "committed" /\ req[r].mode = "mutate"
           \/ /\ req[r].pc = "reconcile" /\ req[r].mode = "recover" /\ req[r].lease.action = "complete_managed"
              /\ req'[r].unread = FALSE

AuditMark(r) ==
    /\ req'[r].pc \in {"audit_commit", "release"} =>
          /\ req'[r].mode = req[r].mode /\ req'[r].due = req[r].due
          /\ req[r].pc \in {"audit", "audit_commit", "release"}
          /\ req[r].pc = "audit" => AuditRequest(r) /\ (audit' # audit \/ Requested(Op(r), req[r].due))
    /\ req'[r].pc = "release" => req[r].pc = "release" \/ AuditCommit(r)

LEMMA Marks ==
    ASSUME ConstantAssumption, TypeOK, OpInv, ModeInv, NEW r \in Requests, Step(r)
    PROVE  RolesMark(r) /\ OutcomeMark(r) /\ RecordMark(r) /\ SuccessMark(r) /\ AuditMark(r)
<1>0. ReqTyped /\ req[r] \in RequestRecord /\ lock \in LockRecord
  BY TypeParts, Values
<1>m. req[r].mode \in {"mutate", "rollback", "recover"} /\ req[r].keep \in BOOLEAN /\ req[r].unread \in BOOLEAN
  BY <1>0 DEF RequestRecord
<1>v. req[r].before \in SUBSET Roles /\ roles[Target[r]] \in SUBSET Roles /\ req[Op(r)].before \in SUBSET Roles
  BY Values
<1>i. InMode(r) /\ (req[r].mode # "recover" => Op(r) = r /\ Subject(r) = Target[r])
  BY DEF ModeInv, Op, Subject
<1>1. CASE LoadLedger(r)
  <2>1. Moved(r, "prepare")
    BY <1>0, <1>v, <1>i, <1>1, LoadFields
  <2>2. req[r].pc = "load" /\ req[r].unread = FALSE
    BY <1>1 DEF LoadLedger, At
  <2>. QED BY <1>m, <1>i, <2>1, <2>2 DEF RolesMark, OutcomeMark, RecordMark, SuccessMark, AuditMark, Replacing, Managing, Ending, InMode, Mutates, Moved, SameView
<1>2. CASE Prepare(r)
  <2>1. \/ FinishedAt(r)
        \/ req'[r].pc = "acquire"
        \/ req'[r].pc = "audit" /\ req'[r].keep = TRUE /\ req'[r].due.result = "denied"
    BY <1>0, <1>v, <1>i, <1>2, PrepareFields
  <2>2. req[r].pc = "prepare" /\ req[r].unread = FALSE
    BY <1>2 DEF Prepare, At
  <2>. QED BY <1>m, <1>i, <2>1, <2>2 DEF RolesMark, OutcomeMark, RecordMark, SuccessMark, AuditMark, Replacing, Managing, Ending, InMode, Mutates, FinishedAt
<1>3. CASE AcquireFree(r)
  <2>1. PutAt(r, "locked")
    BY <1>0, <1>v, <1>i, <1>3, AcquireFreeFields
  <2>2. req[r].pc = "acquire" /\ req[r].unread = FALSE
    BY <1>3 DEF AcquireFree, At
  <2>. QED BY <1>m, <1>i, <2>1, <2>2 DEF RolesMark, OutcomeMark, RecordMark, SuccessMark, AuditMark, Replacing, Managing, Ending, InMode, Mutates, PutAt
<1>4. CASE AcquireBusy(r)
  <2>1. CompletedAt(r, "conflict", req[r].before, TRUE)
    BY <1>0, <1>v, <1>i, <1>4, CompleteFields DEF AcquireBusy, Result
  <2>2. req[r].pc = "acquire" /\ req[r].unread = FALSE
    BY <1>4 DEF AcquireBusy, At
  <2>. QED BY <1>m, <1>i, <2>1, <2>2 DEF RolesMark, OutcomeMark, RecordMark, SuccessMark, AuditMark, Replacing, Managing, Ending, InMode, Mutates, CompletedAt
<1>5. CASE AcquireStale(r)
  <2>1. req'[r].pc = "recover"
    BY <1>0, <1>v, <1>i, <1>5, StaleFields
  <2>2. req[r].pc = "acquire" /\ req[r].unread = FALSE
    BY <1>5 DEF AcquireStale, At
  <2>. QED BY <1>m, <1>i, <2>1, <2>2 DEF RolesMark, OutcomeMark, RecordMark, SuccessMark, AuditMark, Replacing, Managing, Ending, InMode, Mutates
<1>6. CASE Reread(r)
  <2>1. /\ req'[r].pc = req[r].pc /\ req'[r].mode = req[r].mode /\ req'[r].unread = FALSE
        /\ req'[r].goal = req[r].goal /\ SameRest(r)
    BY <1>0, <1>v, <1>i, <1>6, RereadFields
  <2>. QED BY <1>m, <1>i, <2>1 DEF RolesMark, OutcomeMark, RecordMark, SuccessMark, AuditMark, Replacing, Managing, Ending, InMode, Mutates, SameRest
<1>7. CASE CheckLocked(r)
  <2>1. \/ CompletedAt(r, "conflict", req[r].before, FALSE)
        \/ CompletedAt(r, "denied", req[r].before, FALSE)
        \/ Moved(r, "guard") /\ Cleared(r)
    BY <1>0, <1>v, <1>i, <1>7, CompleteFields, GotoFields DEF CheckLocked, Cleared, At, Result, PcLabel
  <2>2. req[r].pc = "locked" /\ req[r].unread = FALSE
    BY <1>7 DEF CheckLocked, At
  <2>. QED BY <1>m, <1>i, <2>1, <2>2 DEF RolesMark, OutcomeMark, RecordMark, SuccessMark, AuditMark, Replacing, Managing, Ending, InMode, Mutates, CompletedAt, Moved
<1>8. CASE Guard(r)
  <2>1. \/ CompletedAt(r, "conflict", req[r].before, FALSE)
        \/ Shifted(r, "begin") /\ (req'[r].rep = "absent" => Removed(r) = {})
    BY <1>0, <1>v, <1>i, <1>8, GuardFields
  <2>2. req[r].pc = "guard" /\ req[r].unread = FALSE
    BY <1>8 DEF Guard, At
  <2>. QED BY <1>m, <1>i, <2>1, <2>2 DEF RolesMark, OutcomeMark, RecordMark, SuccessMark, AuditMark, Replacing, Managing, Ending, InMode, Mutates, CompletedAt, Shifted
<1>9. CASE BeginIdentityMutation(r)
  <2>1. \/ PutAt(r, "replace") /\ req'[r].mode = req[r].mode /\ SameRest(r) /\ req'[r].goal = Desired[r]
        \/ ThrownAt(r)
    BY <1>0, <1>v, <1>i, <1>9, BeginFields
  <2>2. req[r].pc = "begin" /\ req[r].unread = FALSE
    BY <1>9 DEF BeginIdentityMutation, At
  <2>. QED BY <1>m, <1>i, <2>1, <2>2 DEF RolesMark, OutcomeMark, RecordMark, SuccessMark, AuditMark, Replacing, Managing, Ending, InMode, Mutates, PutAt, SameRest, ThrownAt
<1>10. CASE ReplaceStart(r)
  <2>1. \/ PutAt(r, "fence") /\ req'[r].mode = req[r].mode /\ SameRest(r) /\ req'[r].goal = req[r].goal
        \/ ThrownAt(r)
    BY <1>0, <1>v, <1>i, <1>10, ReplaceStartFields
  <2>2. req[r].pc = "replace" /\ req[r].unread = FALSE
    BY <1>10 DEF ReplaceStart, At
  <2>. QED BY <1>m, <1>i, <2>1, <2>2 DEF RolesMark, OutcomeMark, RecordMark, SuccessMark, AuditMark, Replacing, Managing, Ending, InMode, Mutates, PutAt, SameRest, ThrownAt
<1>11. CASE Fence(r)
  <2>1. \/ PutAt(r, "write") /\ req'[r].mode = req[r].mode /\ SameRest(r) /\ req'[r].goal = req[r].goal
        \/ PutAt(r, AfterReplace(r)) /\ req'[r].mode = req[r].mode /\ roles[Subject(r)] = req[r].goal
        \/ ThrownAt(r)
    BY <1>0, <1>v, <1>i, <1>11, FenceFields
  <2>2. req[r].pc = "fence" /\ req[r].unread = FALSE
    BY <1>11 DEF Fence, At
  <2>. QED BY <1>m, <1>i, <2>1, <2>2 DEF RolesMark, OutcomeMark, RecordMark, SuccessMark, AuditMark, Replacing, Managing, Ending, InMode, Mutates, PutAt, SameRest, ThrownAt, AfterReplace
<1>12. CASE Write(r)
  <2>1. Moved(r, "fence") \/ ThrownAt(r)
    BY <1>0, <1>v, <1>i, <1>12, WriteFields
  <2>2. req[r].pc = "write" /\ req[r].unread = FALSE
    BY <1>12 DEF Write, At
  <2>. QED BY <1>m, <1>i, <2>1, <2>2 DEF RolesMark, OutcomeMark, RecordMark, SuccessMark, AuditMark, Replacing, Managing, Ending, InMode, Mutates, Moved, SameRest, SameView, ThrownAt
<1>13. CASE MarkDenyCommitted(r)
  <2>1. Shifted(r, "register")
    BY <1>0, <1>v, <1>i, <1>13, DenyFields
  <2>2. req[r].pc = "deny" /\ req[r].unread = FALSE
    BY <1>13 DEF MarkDenyCommitted, At
  <2>. QED BY <1>m, <1>i, <2>1, <2>2 DEF RolesMark, OutcomeMark, RecordMark, SuccessMark, AuditMark, Replacing, Managing, Ending, InMode, Mutates, Shifted
<1>14. CASE RegisterCleanup(r)
  <2>1. Moved(r, "registered") /\ r \in manifests'
    BY <1>0, <1>v, <1>i, <1>14, GotoFields DEF RegisterCleanup, PcLabel
  <2>2. req[r].pc = "register" /\ req[r].unread = FALSE
    BY <1>14 DEF RegisterCleanup, At
  <2>. QED BY <1>m, <1>i, <2>1, <2>2 DEF RolesMark, OutcomeMark, RecordMark, SuccessMark, AuditMark, Replacing, Managing, Ending, InMode, Mutates, Moved
<1>15. CASE MarkCleanupRegistered(r)
  <2>1. Shifted(r, "managed")
    BY <1>0, <1>v, <1>i, <1>15, RegisteredFields
  <2>2. req[r].pc = "registered" /\ req[r].unread = FALSE
    BY <1>15 DEF MarkCleanupRegistered, At
  <2>. QED BY <1>m, <1>i, <2>1, <2>2 DEF RolesMark, OutcomeMark, RecordMark, SuccessMark, AuditMark, Replacing, Managing, Ending, InMode, Mutates, Shifted
<1>16. CASE BeginManagedCommit(r)
  <2>1. PutAt(r, "commit") \/ ThrownAt(r)
    BY <1>0, <1>v, <1>i, <1>16, ManagedFields
  <2>2. req[r].pc = "managed" /\ req[r].unread = FALSE
    BY <1>16 DEF BeginManagedCommit, At
  <2>. QED BY <1>m, <1>i, <2>1, <2>2 DEF RolesMark, OutcomeMark, RecordMark, SuccessMark, AuditMark, Replacing, Managing, Ending, InMode, Mutates, PutAt, ThrownAt
<1>17. CASE CommitManagedState(r)
  <2>1. \/ Moved(r, "committed") /\ r \in ledger'.saved
        \/ FinishedAt(r)
    BY <1>0, <1>v, <1>i, <1>17, GotoFields, FinishFields DEF CommitManagedState, LedgerSaved, PcLabel
  <2>2. req[r].pc = "commit" /\ req[r].unread = FALSE
    BY <1>17 DEF CommitManagedState, At
  <2>. QED BY <1>m, <1>i, <2>1, <2>2 DEF RolesMark, OutcomeMark, RecordMark, SuccessMark, AuditMark, Replacing, Managing, Ending, InMode, Mutates, Moved, FinishedAt
<1>18. CASE MarkManagedCommitted(r)
  <2>1. \/ PutAt(r, "audit") /\ req'[r].mode = req[r].mode /\ req'[r].due.after = Desired[r]
        \/ FinishedAt(r)
    BY <1>0, <1>v, <1>i, <1>18, CommittedFields
  <2>2. req[r].pc = "committed" /\ req[r].unread = FALSE
    BY <1>18 DEF MarkManagedCommitted, At
  <2>. QED BY <1>m, <1>i, <2>1, <2>2 DEF RolesMark, OutcomeMark, RecordMark, SuccessMark, AuditMark, Replacing, Managing, Ending, InMode, Mutates, PutAt, FinishedAt
<1>19. CASE RollbackRead(r)
  <2>1. (Shifted(r, "fence") \/ Shifted(r, "replace")) /\ req'[r].rep = req[r].rep
    BY <1>0, <1>v, <1>i, <1>19, RollbackReadFields
  <2>2. req[r].pc = "rb_read" /\ req[r].unread = FALSE
    BY <1>19 DEF RollbackRead, At
  <2>. QED BY <1>m, <1>i, <2>1, <2>2 DEF RolesMark, OutcomeMark, RecordMark, SuccessMark, AuditMark, Replacing, Managing, Ending, InMode, Mutates, Shifted
<1>20. CASE RollbackRestored(r)
  <2>1. CompletedAt(r, "failed", roles[Target[r]], FALSE)
    BY <1>0, <1>v, <1>i, <1>20, CompleteFields DEF RollbackRestored, Result
  <2>2. req[r].pc = "rb_restored" /\ req[r].unread = FALSE
    BY <1>20 DEF RollbackRestored, At
  <2>. QED BY <1>m, <1>i, <2>1, <2>2 DEF RolesMark, OutcomeMark, RecordMark, SuccessMark, AuditMark, Replacing, Managing, Ending, InMode, Mutates, CompletedAt, SameView
<1>21. CASE RollbackFailed(r)
  <2>1. CompletedAt(r, "failed", roles[Target[r]], TRUE)
    BY <1>0, <1>v, <1>i, <1>21, CompleteFields DEF RollbackFailed, Result
  <2>2. req[r].pc = "rb_failed" /\ req[r].unread = FALSE
    BY <1>21 DEF RollbackFailed, At
  <2>. QED BY <1>m, <1>i, <2>1, <2>2 DEF RolesMark, OutcomeMark, RecordMark, SuccessMark, AuditMark, Replacing, Managing, Ending, InMode, Mutates, CompletedAt
<1>22. CASE BeginExpiredRecovery(r)
  <2>1. \/ PutAt(r, "reconcile")
        \/ Moved(r, "refused")
        \/ CompletedAt(r, "conflict", req[r].before, TRUE)
    BY <1>0, <1>v, <1>i, <1>22, RecoveryFields
  <2>2. req[r].pc = "recover" /\ req[r].unread = FALSE
    BY <1>22 DEF BeginExpiredRecovery, At
  <2>. QED BY <1>m, <1>i, <2>1, <2>2 DEF RolesMark, OutcomeMark, RecordMark, SuccessMark, AuditMark, Replacing, Managing, Ending, InMode, Mutates, PutAt, Moved, CompletedAt
<1>23. CASE Reconcile(r)
  <2>1. \/ Moved(r, "refused")
        \/ CompletedAt(r, "success", roles[Subject(r)], FALSE) /\ req[r].lease.action = "complete_managed"
        \/ Shifted(r, "closing") \/ Shifted(r, "replace")
    BY <1>0, <1>v, <1>i, <1>23, ReconcileFields
  <2>2. req[r].pc = "reconcile" /\ req[r].unread = FALSE
    BY <1>23 DEF Reconcile, At
  <2>. QED BY <1>m, <1>i, <2>1, <2>2 DEF RolesMark, OutcomeMark, RecordMark, SuccessMark, AuditMark, Replacing, Managing, Ending, InMode, Mutates, Moved, CompletedAt, Shifted, SameView
<1>24. CASE CloseRecovery(r)
  <2>1. \/ CompletedAt(r, "failed", roles[Subject(r)], FALSE)
        \/ Moved(r, "refused")
    BY <1>0, <1>v, <1>i, <1>24, CompleteFields, GotoFields DEF CloseRecovery, Result, PcLabel
  <2>2. req[r].pc = "closing" /\ req[r].unread = FALSE
    BY <1>24 DEF CloseRecovery, At
  <2>. QED BY <1>m, <1>i, <2>1, <2>2 DEF RolesMark, OutcomeMark, RecordMark, SuccessMark, AuditMark, Replacing, Managing, Ending, InMode, Mutates, CompletedAt, SameView, Moved
<1>25. CASE RecoveryRefused(r)
  <2>1. req'[r].pc = "audit" /\ req'[r].keep = TRUE /\ req'[r].due.result = "failed"
    BY <1>0, <1>v, <1>i, <1>25, RefusedFields
  <2>2. req[r].pc = "refused" /\ req[r].unread = FALSE
    BY <1>25 DEF RecoveryRefused, At
  <2>. QED BY <1>m, <1>i, <2>1, <2>2 DEF RolesMark, OutcomeMark, RecordMark, SuccessMark, AuditMark, Replacing, Managing, Ending, InMode, Mutates
<1>26. CASE AuditRequest(r)
  <2>1. \/ Moved(r, "audit_commit") /\ (audit' # audit \/ Requested(Op(r), req[r].due))
        \/ FinishedAt(r) \/ Moved(r, "refused")
    <3>1. CASE Goto(r, "audit_commit") /\ (audit[Op(r)].status = "pending" \/ Requested(Op(r), req[r].due))
      <4>1. Moved(r, "audit_commit")
        BY <1>0, <3>1, GotoFields DEF PcLabel
      <4>2. audit[Op(r)].status = "pending" => audit' # audit
        <5>1. Op(r) \in Requests /\ audit \in [Requests -> AuditRecord]
          BY Values DEF TypeOK
        <5>2. audit[Op(r)].status = "pending" => audit'[Op(r)].status = "finalization_pending"
          BY <1>26, <5>1 DEF AuditRequest, Requested
        <5>3. audit[Op(r)].status = "pending" => audit'[Op(r)] # audit[Op(r)]
          BY <5>2
        <5>. QED BY <5>3
      <4>. QED BY <3>1, <4>1, <4>2
    <3>2. CASE Refuse(r)
      BY <1>0, <3>2, FinishFields, GotoFields DEF Refuse, PcLabel
    <3>. QED BY <1>26, <3>1, <3>2 DEF AuditRequest
  <2>2. req[r].pc = "audit" /\ req[r].unread = FALSE
    BY <1>26 DEF AuditRequest, At
  <2>. QED BY <1>m, <1>i, <2>1, <1>26, <2>2 DEF RolesMark, OutcomeMark, RecordMark, SuccessMark, AuditMark, Replacing, Managing, Ending, InMode, Mutates, Moved, SameRest, SameView, FinishedAt
<1>27. CASE AuditCommit(r)
  <2>1. FinishedAt(r) \/ (~req[r].keep /\ Moved(r, "release"))
    BY <1>0, <1>v, <1>i, <1>27, AuditCommitFields
  <2>2. req[r].pc = "audit_commit" /\ req[r].unread = FALSE
    BY <1>27 DEF AuditCommit, At
  <2>. QED BY <1>m, <1>i, <2>1, <1>27, <2>2 DEF RolesMark, OutcomeMark, RecordMark, SuccessMark, AuditMark, Replacing, Managing, Ending, InMode, Mutates, Moved, SameRest, SameView, FinishedAt
<1>28. CASE Release(r)
  <2>1. ReleasedAt(r) \/ FinishedAt(r) \/ Moved(r, "refused")
    BY <1>0, <1>v, <1>i, <1>28, ReleaseFields
  <2>2. req[r].pc = "release" /\ req[r].unread = FALSE
    BY <1>28 DEF Release, At
  <2>. QED BY <1>m, <1>i, <2>1, <2>2 DEF RolesMark, OutcomeMark, RecordMark, SuccessMark, AuditMark, Replacing, Managing, Ending, InMode, Mutates, ReleasedAt, FinishedAt, Moved
<1>. QED BY <1>1, <1>2, <1>3, <1>4, <1>5, <1>6, <1>7, <1>8, <1>9, <1>10, <1>11, <1>12, <1>13, <1>14, <1>15, <1>16, <1>17, <1>18, <1>19, <1>20, <1>21, <1>22, <1>23, <1>24, <1>25, <1>26, <1>27, <1>28 DEF Step

-----------------------------------------------------------------------------
(* A recorded success is complete.                                         *)

LEMMA Grows ==
    ASSUME ConstantAssumption, TypeOK, OpInv, ModeInv, NEW r \in Requests, Step(r)
    PROVE  /\ ledger.saved \subseteq ledger'.saved /\ manifests \subseteq manifests'
           /\ \A q \in Requests : ~Fresh(q) => req'[q].before = req[q].before
           /\ \A o \in Requests : Done(o) /\ ~Fresh(o) => Done(o)'
<1>1. ledger.saved \subseteq ledger'.saved
  <2>1. CASE CommitManagedState(r)
    BY <2>1 DEF CommitManagedState, LedgerSaved
  <2>2. CASE UNCHANGED ledger
    BY <2>2
  <2>. QED BY <2>1, <2>2 DEF Step, LoadLedger, Prepare, AcquireFree, AcquireBusy, AcquireStale, Reread, CheckLocked, Guard,
        BeginIdentityMutation, ReplaceStart, Fence, Write, MarkDenyCommitted, RegisterCleanup,
        MarkCleanupRegistered, BeginManagedCommit, MarkManagedCommitted, RollbackRead,
        RollbackRestored, RollbackFailed, BeginExpiredRecovery, Reconcile, CloseRecovery,
        RecoveryRefused, AuditRequest, AuditCommit, Release
<1>2. manifests \subseteq manifests'
  <2>1. CASE RegisterCleanup(r)
    BY <2>1 DEF RegisterCleanup
  <2>2. CASE UNCHANGED manifests
    BY <2>2
  <2>. QED BY <2>1, <2>2 DEF Step, LoadLedger, Prepare, AcquireFree, AcquireBusy, AcquireStale, Reread, CheckLocked, Guard,
        BeginIdentityMutation, ReplaceStart, Fence, Write, MarkDenyCommitted, MarkCleanupRegistered,
        BeginManagedCommit, CommitManagedState, MarkManagedCommitted, RollbackRead,
        RollbackRestored, RollbackFailed, BeginExpiredRecovery, Reconcile, CloseRecovery,
        RecoveryRefused, AuditRequest, AuditCommit, Release
<1>3. \A q \in Requests : ~Fresh(q) => req'[q].before = req[q].before
  BY Kinds DEF Keeps, Renews, Takes, Rereads, Releases, Others
<1>. QED BY <1>1, <1>2, <1>3 DEF Done, Removed

(* How the lock comes to speak of a completed managed commit. *)
LockMark(r) ==
    lock'.phase = "managed_committed" \/ lock'.action = "complete_managed" =>
        /\ lock'.op = lock.op
        /\ \/ lock.phase = "managed_committed" \/ lock.action = "complete_managed"
           \/ req[r].pc = "committed" /\ SameLease(r)

LEMMA LockMarks ==
    ASSUME ConstantAssumption, TypeOK, OpInv, NEW r \in Requests, Step(r)
    PROVE  LockMark(r)
<1>0. lock \in LockRecord
  BY DEF TypeOK
<1>1. CASE AcquireFree(r)
  BY <1>1, AcquireFreeFields DEF LockMark
<1>2. CASE BeginIdentityMutation(r)
  <2>1. \/ lock' = [lock EXCEPT !.phase = "identity_mutation"]
        \/ lock' = lock
    BY <1>2, BeginFields
  <2>. QED BY <1>0, <2>1 DEF LockMark, LockRecord
<1>3. CASE BeginManagedCommit(r)
  <2>1. \/ lock' = [lock EXCEPT !.phase = "managed_commit"]
        \/ lock' = lock
    BY <1>3, ManagedFields
  <2>. QED BY <1>0, <2>1 DEF LockMark, LockRecord
<1>4. CASE MarkManagedCommitted(r)
  <2>1. \/ lock' = [lock EXCEPT !.phase = "managed_committed"] /\ SameLease(r)
        \/ lock' = lock
    BY <1>4, CommittedFields
  <2>2. req[r].pc = "committed"
    BY <1>4 DEF MarkManagedCommitted, At
  <2>. QED BY <1>0, <2>1, <2>2 DEF LockMark, LockRecord
<1>5. CASE BeginExpiredRecovery(r)
  <2>1. \/ /\ lock'.op = lock.op /\ lock'.phase = "recovering"
           /\ lock'.action = RecoveryOf(lock.phase, lock.action)
        \/ lock' = lock
    BY <1>5, RecoveryFields
  <2>. QED BY <1>0, <2>1 DEF LockMark, LockRecord, RecoveryAction, RecoveryOf
<1>6. CASE Release(r)
  <2>1. \/ lock' = [lock EXCEPT !.phase = "released"]
        \/ lock' = lock
    BY <1>6, ReleaseFields
  <2>. QED BY <1>0, <2>1 DEF LockMark, LockRecord
<1>7. CASE UNCHANGED lock
  BY <1>7 DEF LockMark
<1>8. CASE ReplaceStart(r)
  BY <1>7, <1>8, ReplaceStartFields
<1>9. CASE Fence(r)
  BY <1>7, <1>9, FenceFields
<1>. QED BY <1>1, <1>2, <1>3, <1>4, <1>5, <1>6, <1>7, <1>8, <1>9
     DEF Step, LoadLedger, Prepare, AcquireBusy, AcquireStale, Reread, CheckLocked, Guard, Write,
        MarkDenyCommitted, RegisterCleanup, MarkCleanupRegistered, CommitManagedState, RollbackRead,
        RollbackRestored, RollbackFailed, Reconcile, CloseRecovery, RecoveryRefused, AuditRequest,
        AuditCommit

Vouched(l) == l.phase = "managed_committed" \/ l.action = "complete_managed"

LEMMA OwnOp ==
    ASSUME LeaseInv, NEW r \in Requests, Owner(r)
    PROVE  Op(r) = req[r].lease.op
BY DEF LeaseInv, Leased, Op

(* What a step does to the audit intents. *)
LEMMA AuditChange ==
    ASSUME ConstantAssumption, TypeOK, WeakInv, NEW r \in Requests, Step(r)
    PROVE  \A o \in Requests :
              \/ audit'[o] = audit[o]
              \/ Fresh(o) /\ o = r /\ audit'[o].result = audit[o].result
              \/ /\ AuditRequest(r) /\ o = Op(r) /\ audit[o].status = "pending"
                 /\ audit'[o].status = "finalization_pending"
                 /\ audit'[o].result = req[r].due.result /\ audit'[o].after = req[r].due.after
              \/ /\ AuditCommit(r) /\ o = Op(r) /\ audit'[o].status = "completed"
                 /\ audit'[o].result = audit[o].result /\ audit'[o].after = audit[o].after
<1>0. audit \in [Requests -> AuditRecord] /\ Op(r) \in Requests
  BY Values DEF TypeOK, WeakInv
<1>1. CASE Prepare(r)
  BY <1>0, <1>1 DEF Prepare, At, Fresh, AuditRecord
<1>2. CASE AuditRequest(r)
  BY <1>0, <1>2 DEF AuditRequest
<1>3. CASE AuditCommit(r)
  <2>1. \A o \in Requests : audit[o] \in AuditRecord
    BY <1>0
  <2>2. audit' = [audit EXCEPT ![Op(r)].status = "completed"]
    BY <1>3 DEF AuditCommit
  <2>. QED BY <1>0, <1>3, <2>1, <2>2 DEF AuditRecord
<1>4. CASE UNCHANGED audit
  BY <1>4
<1>. QED BY <1>1, <1>2, <1>3, <1>4 DEF Step, LoadLedger, AcquireFree, AcquireBusy, AcquireStale, Reread, CheckLocked, Guard,
        BeginIdentityMutation, ReplaceStart, Fence, Write, MarkDenyCommitted, RegisterCleanup,
        MarkCleanupRegistered, BeginManagedCommit, CommitManagedState, MarkManagedCommitted,
        RollbackRead, RollbackRestored, RollbackFailed, BeginExpiredRecovery, Reconcile,
        CloseRecovery, RecoveryRefused, Release

LEMMA CompleteStep ==
    ASSUME ConstantAssumption, TypeOK, WeakInv, LeaseInv, CompleteInv, NEW r \in Requests, Step(r)
    PROVE  CompleteInv'
<1>0. /\ OpInv /\ ModeInv /\ FreshInv /\ TypeOK' /\ InMode(r) /\ Leased(r)
  BY WeakStep DEF WeakInv, LeaseInv, ModeInv
<1>k. Keeps(r) \/ Renews(r) \/ Takes(r) \/ Rereads(r) \/ Releases(r)
  BY <1>0, Kinds
<1>o. \A q \in Requests \ {r} : req'[q] = req[q]
  BY <1>k DEF Others, Keeps, Renews, Takes, Rereads, Releases
<1>g. /\ ledger.saved \subseteq ledger'.saved /\ manifests \subseteq manifests'
      /\ \A o \in Requests : Done(o) /\ ~Fresh(o) => Done(o)'
      /\ ~Fresh(r) => req'[r].before = req[r].before
  BY <1>0, Grows
<1>m. RecordMark(r) /\ SuccessMark(r)
  BY <1>0, Marks
<1>l. /\ lock.op # NoRequest => lock.op \in Requests
      /\ \A q \in Requests : req[q].lease.op # NoRequest => req[q].lease.op \in Requests
      /\ \A q \in Requests : req[q].mode \in {"mutate", "rollback", "recover"}
      /\ lock.action # "complete_managed" \/ lock.action = "complete_managed"
  BY DEF TypeOK, RequestRecord, LockRecord
<1>n. r # NoRequest /\ ~Vouched(NoLock)
  BY DEF NoLock, Vouched, ConstantAssumption
<1>f. \A o \in Requests : lock.op = o \/ (\E q \in Requests : req[q].lease.op = o) => ~Fresh(o)
  BY <1>0, ConstantAssumption DEF FreshInv, ConstantAssumption
<1>c. req[r].pc = "committed" => Done(r)
  BY <1>0 DEF CompleteInv, Done, InMode, Mutates
<1>1. Vouched(lock)' => \E o \in Requests : lock'.op = o /\ Done(o)'
  <2>1. LockMark(r)
    BY <1>0, LockMarks
  <2>2. CASE Vouched(lock) /\ lock'.op = lock.op
    <3>1. lock.op \in Requests /\ Done(lock.op)
      BY <1>l, <2>2 DEF CompleteInv, Vouches, Vouched
    <3>. QED BY <1>f, <1>g, <2>2, <3>1
  <2>3. CASE req[r].pc = "committed" /\ SameLease(r) /\ lock'.op = lock.op
    <3>1. lock.op = r
      BY <1>0, <2>3 DEF Leased, SameLease, Owner, InWork, InMode, Mutates
    <3>. QED BY <1>c, <1>f, <1>g, <2>3, <3>1
  <2>. QED BY <2>1, <2>2, <2>3 DEF LockMark, Vouched
<1>2. \A q \in Requests : Vouched(req[q].lease) => \E o \in Requests : req[q].lease.op = o /\ Done(o)'
  <2>1. \A q \in Requests : Vouched(req[q].lease) => req[q].lease.op \in Requests /\ Done(req[q].lease.op)
    BY <1>l DEF CompleteInv, Vouches, Vouched
  <2>. QED BY <1>f, <1>g, <2>1
<1>3. \A q \in Requests : Vouched(req[q].lease)' => \E o \in Requests : req'[q].lease.op = o /\ Done(o)'
  <2>1. \A q \in Requests \ {r} : Vouched(req[q].lease)' => \E o \in Requests : req'[q].lease.op = o /\ Done(o)'
    BY <1>2, <1>o DEF Vouched
  <2>2. req'[r].lease = req[r].lease \/ req'[r].lease = NoLock \/ req'[r].lease = lock'
    BY <1>k DEF Keeps, Renews, Takes, Rereads, Releases
  <2>3. Vouched(req[r].lease)' => \E o \in Requests : req'[r].lease.op = o /\ Done(o)'
    BY <1>1, <1>2, <1>n, <2>2 DEF Vouched
  <2>. QED BY <2>1, <2>3
<1>4. Vouches(lock)' /\ \A q \in Requests : Vouches(req[q].lease)'
  BY ZenonT(60), <1>1, <1>3, ConstantAssumption DEF Vouches, Vouched, Done, Removed, ConstantAssumption
<1>5. \A q \in Requests : req'[q].mode = "mutate" =>
          /\ req'[q].pc \in {"begin", "replace", "fence", "write"} => (req'[q].rep = "absent" => Removed(q)' = {})
          /\ req'[q].pc \in {"registered", "managed", "commit", "committed"} => (Removed(q)' # {} => q \in manifests')
          /\ req'[q].pc = "committed" => q \in ledger'.saved
  <2>1. \A q \in Requests \ {r} : req'[q].mode = "mutate" =>
          /\ req'[q].pc \in {"begin", "replace", "fence", "write"} => (req'[q].rep = "absent" => Removed(q)' = {})
          /\ req'[q].pc \in {"registered", "managed", "commit", "committed"} => (Removed(q)' # {} => q \in manifests')
          /\ req'[q].pc = "committed" => q \in ledger'.saved
    BY <1>g, <1>o DEF CompleteInv, Removed
  <2>2. ASSUME req'[r].pc \in {"begin", "replace", "fence", "write", "registered", "managed", "commit", "committed"}
        PROVE  Removed(r)' = Removed(r)
    <3>1. ~Fresh(r)
      BY <1>k, <1>m, <2>2 DEF Keeps, Renews, Takes, Rereads, Releases, Owner, InWork, Ending, Fresh
    <3>. QED BY <1>g, <3>1 DEF Removed
  <2>3. ASSUME req'[r].mode = "mutate"
        PROVE  /\ req'[r].pc \in {"begin", "replace", "fence", "write"} => (req'[r].rep = "absent" => Removed(r)' = {})
               /\ req'[r].pc \in {"registered", "managed", "commit", "committed"} => (Removed(r)' # {} => r \in manifests')
               /\ req'[r].pc = "committed" => r \in ledger'.saved
    <3>1. req'[r].pc \in {"begin", "replace", "fence", "write"} /\ req'[r].rep = "absent" => Removed(r) = {}
      BY <1>m, <2>3 DEF RecordMark, CompleteInv
    <3>2. /\ req[r].pc \in {"registered", "managed", "commit", "committed"} => req[r].mode = "mutate"
      BY <1>0 DEF InMode, Mutates
    <3>3. req'[r].pc \in {"registered", "managed", "commit", "committed"} => (Removed(r) # {} => r \in manifests')
      BY <1>g, <1>m, <3>2 DEF RecordMark, CompleteInv
    <3>4. req'[r].pc = "committed" => r \in ledger'.saved
      BY <1>g, <1>m, <3>2 DEF RecordMark, CompleteInv
    <3>. QED BY <2>2, <3>1, <3>3, <3>4
  <2>. QED BY <2>1, <2>3
<1>6. \A q \in Requests : req[q].pc = "audit" /\ req[q].due.result = "success" =>
          /\ req[q].mode = "recover" => ~req[q].unread /\ (\E o \in Requests : req[q].lease.op = o /\ Done(o)')
          /\ req[q].mode # "recover" => Done(q)'
  <2>1. \A q \in Requests : req[q].mode = "recover" => req[q].lease.op \in Requests
    BY <1>0, <1>l DEF OpInv
  <2>2. \A q \in Requests : req[q].pc = "audit" => ~Fresh(q)
    BY DEF Fresh
  <2>. QED BY <1>f, <1>g, <2>1, <2>2 DEF CompleteInv, Op
<1>7. \A q \in Requests : req'[q].pc = "audit" /\ req'[q].due.result = "success" =>
          /\ req'[q].mode = "recover" => ~req'[q].unread /\ (\E o \in Requests : req'[q].lease.op = o /\ Done(o)')
          /\ req'[q].mode # "recover" => Done(q)'
  <2>1. \A q \in Requests \ {r} : req'[q].pc = "audit" /\ req'[q].due.result = "success" =>
          /\ req'[q].mode = "recover" => ~req'[q].unread /\ (\E o \in Requests : req'[q].lease.op = o /\ Done(o)')
          /\ req'[q].mode # "recover" => Done(q)'
    BY <1>6, <1>o
  <2>2. ASSUME req'[r].pc = "audit", req'[r].due.result = "success"
        PROVE  /\ req'[r].mode = "recover" => ~req'[r].unread /\ (\E o \in Requests : req'[r].lease.op = o /\ Done(o)')
               /\ req'[r].mode # "recover" => Done(r)'
    <3>1. CASE req[r].pc = "audit" /\ req'[r].due = req[r].due
      <4>1. req[r].mode = "recover" => req'[r].lease = req[r].lease /\ req'[r].unread = FALSE
        BY <1>6, <1>k, <2>2, <3>1 DEF Keeps, Renews, Takes, Rereads, Releases, InWork
      <4>2. req'[r].mode = req[r].mode
        BY <1>m, <2>2 DEF SuccessMark
      <4>. QED BY <1>6, <2>2, <3>1, <4>1, <4>2
    <3>2. CASE req[r].pc = "committed" /\ req[r].mode = "mutate"
      <4>1. req'[r].mode = "mutate" /\ ~Fresh(r)
        BY <1>m, <2>2, <3>2 DEF SuccessMark, Fresh
      <4>. QED BY <1>c, <1>g, <3>2, <4>1
    <3>3. CASE /\ req[r].pc = "reconcile" /\ req[r].mode = "recover" /\ req[r].lease.action = "complete_managed"
               /\ req'[r].unread = FALSE
      <4>1. req'[r].mode = "recover"
        BY <1>m, <2>2, <3>3 DEF SuccessMark
      <4>2. req'[r].lease = req[r].lease
        BY <1>k, <2>2, <3>3 DEF Keeps, Renews, Takes, Rereads, Releases
      <4>. QED BY <1>2, <3>3, <4>1, <4>2 DEF Vouched
    <3>. QED BY <1>m, <2>2, <3>1, <3>2, <3>3 DEF SuccessMark
  <2>. QED BY <2>1, <2>2
<1>8. \A o \in Requests : audit'[o].result = "success" => Done(o)'
  <2>1. \A o \in Requests : audit[o].result = "success" => Done(o) /\ ~Fresh(o)
    BY <1>0 DEF CompleteInv, FreshInv
  <2>2. ASSUME NEW o \in Requests, AuditRequest(r), o = Op(r), audit'[o].result = req[r].due.result,
               audit'[o].result = "success"
        PROVE  Done(o)'
    BY <1>6, <2>2 DEF AuditRequest, At, Op
  <2>. QED BY <1>g, <2>1, <2>2, AuditChange
<1>9. \A q \in Requests : req'[q].pc = "audit" /\ req'[q].due.result = "success" =>
          Done(Op(q))' /\ (req'[q].mode = "recover" => ~req'[q].unread)
  BY ZenonT(60), <1>7 DEF Op, Done, Removed
<1>. QED BY <1>4, <1>5, <1>8, <1>9 DEF CompleteInv

-----------------------------------------------------------------------------
(* Only the request that holds the lock's lease changes roles, and only    *)
(* those of the lock's target.                                             *)

LEMMA WriteEffect ==
    ASSUME ConstantAssumption, TypeOK, OpInv, LeaseInv, NEW r \in Requests, Step(r)
    PROVE  \/ UNCHANGED roles
           \/ /\ req[r].pc = "write" /\ Owner(r) /\ SameLease(r) /\ lock.phase \notin {"released", "held"}
              /\ lock' = lock /\ ~Ending(r)' /\ req'[r].pc \notin {"guard", "begin"}
              /\ \A u \in Users \ {Target[lock.op]} : roles'[u] = roles[u]
<1>1. CASE Write(r)
  <2>1. req[r].pc = "write" /\ lock' = lock
    BY <1>1 DEF Write, At
  <2>2. Owner(r) /\ SameLease(r) /\ lock.phase \notin {"released", "held"}
    BY <2>1 DEF LeaseInv, Leased, InWork
  <2>3. ~Ending(r)' /\ req'[r].pc \notin {"guard", "begin"}
    BY <1>1, WriteFields DEF Moved, ThrownAt, Ending
  <2>4. Subject(r) = Target[lock.op]
    BY <2>2, OwnOp DEF SameLease, Subject
  <2>5. \A g : \A u \in Users \ {Target[lock.op]} : GroupApplied(r, g)[u] = roles[u]
    BY <2>4 DEF GroupApplied, TypeOK
  <2>6. \A u \in Users \ {Target[lock.op]} : roles'[u] = roles[u]
    BY <1>1, <2>5 DEF Write
  <2>. QED BY <2>1, <2>2, <2>3, <2>6
<1>2. CASE UNCHANGED roles
  BY <1>2
<1>. QED BY <1>1, <1>2 DEF Step, LoadLedger, Prepare, AcquireFree, AcquireBusy, AcquireStale, Reread, CheckLocked, Guard,
        BeginIdentityMutation, ReplaceStart, Fence, MarkDenyCommitted, RegisterCleanup,
        MarkCleanupRegistered, BeginManagedCommit, CommitManagedState, MarkManagedCommitted,
        RollbackRead, RollbackRestored, RollbackFailed, BeginExpiredRecovery, Reconcile,
        CloseRecovery, RecoveryRefused, AuditRequest, AuditCommit, Release

(* A request that has the lock's lease after a step has had it before, or  *)
(* has just taken it.                                                      *)
LEMMA LeaseBack ==
    ASSUME ConstantAssumption, TypeOK, WeakInv, LeaseInv, NEW r \in Requests, Step(r)
    PROVE  /\ \A q \in Requests \ {r} : req'[q] = req[q] /\ (SameLease(q)' => SameLease(q))
           /\ Owner(r)' /\ req'[r].pc \notin {"locked", "reconcile"} =>
                 req'[r].lease.op = req[r].lease.op /\ (SameLease(r)' => SameLease(r))
           /\ \A q \in Requests \ {r} : (SameLease(q)' /\ lock'.phase = "held") => lock.phase = "held"
<1>0. OpInv /\ ModeInv /\ TypeOK' /\ Leased(r)
  BY WeakStep DEF WeakInv, LeaseInv
<1>k. Keeps(r) \/ Renews(r) \/ Takes(r) \/ Rereads(r) \/ Releases(r)
  BY <1>0, Kinds
<1>l. /\ lock \in LockRecord /\ lock.token \in Nat
      /\ \A q \in Requests : req[q].lease.token \in Nat /\ req[q].lease.token <= lock.token
  BY <1>0 DEF TypeOK, RequestRecord, LockRecord, LeaseInv, Leased
<1>1. CASE Keeps(r)
  BY <1>1 DEF Keeps, Others, SameLease
<1>2. CASE Renews(r)
  BY <1>0, <1>2 DEF Renews, Others, SameLease
<1>3. CASE Takes(r)
  BY <1>l, <1>3 DEF Takes, Others, SameLease
<1>4. CASE Rereads(r)
  BY <1>0, <1>4 DEF Rereads, Others, SameLease, Leased
<1>5. CASE Releases(r)
  BY <1>l, <1>5 DEF Releases, Others, SameLease, LockRecord, Owner, InWork, Ending
<1>. QED BY <1>k, <1>1, <1>2, <1>3, <1>4, <1>5

-----------------------------------------------------------------------------
(* Somebody can still recover the tenant.                                  *)

(* The check under the lock establishes that somebody else remains. *)
LEMMA ClearedCovers ==
    ASSUME ConstantAssumption, TypeOK, AlwaysARecoveryPrincipal, NEW r \in Requests, Cleared(r)
    PROVE  Covered(r)
<1>1. Actor[r] \in Users \ {Target[r]}
  BY DEF ConstantAssumption
<1>2. CASE SystemAdmin \in Desired[r]
  BY <1>1, <1>2 DEF Cleared, Authorized, Covered
<1>3. CASE SystemAdmin \notin Desired[r] /\ SystemAdmin \in req[r].before
  BY <1>3 DEF Cleared, RecoveryPrincipalRemains, Removed, Covered
<1>4. CASE SystemAdmin \notin req[r].before
  BY <1>4 DEF Cleared, AlwaysARecoveryPrincipal, Covered
<1>. QED BY <1>2, <1>3, <1>4

LEMMA CoverStep ==
    ASSUME ConstantAssumption, TypeOK, WeakInv, LeaseInv, CoverInv, NEW r \in Requests, Step(r)
    PROVE  CoverInv'
<1>0. /\ OpInv /\ ModeInv /\ InMode(r) /\ Leased(r)
  BY DEF WeakInv, LeaseInv, ModeInv
<1>k. Keeps(r) \/ Renews(r) \/ Takes(r) \/ Rereads(r) \/ Releases(r)
  BY <1>0, Kinds
<1>b. /\ \A q \in Requests \ {r} : req'[q] = req[q] /\ (SameLease(q)' => SameLease(q))
      /\ Owner(r)' /\ req'[r].pc \notin {"locked", "reconcile"} => (SameLease(r)' => SameLease(r))
      /\ \A q \in Requests \ {r} : (SameLease(q)' /\ lock'.phase = "held") => lock.phase = "held"
  BY LeaseBack
<1>m. RolesMark(r)
  BY <1>0, Marks
<1>1. CASE /\ req[r].pc = "write" /\ SameLease(r) /\ lock.phase \notin {"released", "held"} /\ lock' = lock
           /\ \A u \in Users \ {Target[lock.op]} : roles'[u] = roles[u]
  <2>1. \E u \in Users \ {Target[lock.op]} : SystemAdmin \in roles[u]
    BY <1>1 DEF CoverInv, Covered
  <2>2. PICK u \in Users \ {Target[lock.op]} : SystemAdmin \in roles[u]
    BY <2>1
  <2>3. SystemAdmin \in roles'[u] /\ u \in Users \ {Target[lock'.op]}
    BY <1>1, <2>2
  <2>. QED BY <1>1, <2>3 DEF CoverInv, Covered, AlwaysARecoveryPrincipal
<1>2. CASE UNCHANGED roles
  <2>1. AlwaysARecoveryPrincipal'
    BY <1>2 DEF CoverInv, AlwaysARecoveryPrincipal
  <2>2. lock'.phase \notin {"released", "held"} =>
            lock'.op = lock.op /\ (lock.phase \notin {"released", "held"} \/ (req[r].pc = "begin" /\ SameLease(r) /\ lock.phase = "held"))
    <3>1. CASE Renews(r)
      BY <1>0, <3>1 DEF Renews, Leased
    <3>2. CASE Releases(r)
      BY <3>2 DEF Releases, TypeOK, LockRecord
    <3>. QED BY <1>k, <3>1, <3>2 DEF Keeps, Takes, Rereads
  <2>3. req[r].pc = "begin" /\ SameLease(r) => lock.op = r
    BY <1>0 DEF Leased, Owner, InMode, Mutates, SameLease
  <2>4. lock'.phase \notin {"released", "held"} => \E u \in Users \ {Target[lock'.op]} : SystemAdmin \in roles'[u]
    BY <1>2, <2>2, <2>3 DEF CoverInv, Covered
  <2>5. ASSUME NEW q \in Requests, req'[q].pc \in {"guard", "begin"}, SameLease(q)', lock'.phase = "held"
        PROVE  Covered(q)'
    <3>1. CASE q # r
      BY <1>2, <1>b, <2>5, <3>1 DEF CoverInv, Covered
    <3>2. CASE q = r
      <4>1. CASE Cleared(r)
        BY <1>2, <3>2, <4>1, ClearedCovers DEF CoverInv, Covered
      <4>2. CASE req[r].pc \in {"guard", "begin"}
        <5>1. SameLease(r)
          BY <1>b, <2>5, <3>2 DEF Owner
        <5>2. lock.phase = "held"
          BY <1>k, <2>5, <3>2, <4>2 DEF Keeps, Renews, Takes, Rereads, Releases
        <5>. QED BY <1>2, <3>2, <4>2, <5>1, <5>2 DEF CoverInv, Covered
      <4>. QED BY <1>m, <2>5, <3>2, <4>1, <4>2 DEF RolesMark
    <3>. QED BY <3>1, <3>2
  <2>. QED BY <2>1, <2>4, <2>5 DEF CoverInv, Covered
<1>. QED BY <1>0, <1>1, <1>2, WriteEffect

-----------------------------------------------------------------------------
(* Under its lease a request's view of the roles stays true.               *)

LEMMA RolesStep ==
    ASSUME ConstantAssumption, TypeOK, WeakInv, LeaseInv, RolesInv, NEW r \in Requests, Step(r)
    PROVE  RolesInv'
<1>0. /\ OpInv /\ ModeInv /\ InMode(r) /\ InMode(r)' /\ Sole
      /\ \A q \in Requests : req[q].mode \in {"mutate", "rollback", "recover"}
  BY WeakStep DEF WeakInv, LeaseInv, ModeInv, TypeOK, RequestRecord
<1>k. Keeps(r) \/ Renews(r) \/ Takes(r) \/ Rereads(r) \/ Releases(r)
  BY <1>0, Kinds
<1>b. /\ \A q \in Requests \ {r} : req'[q] = req[q] /\ (SameLease(q)' => SameLease(q))
      /\ Owner(r)' /\ req'[r].pc \notin {"locked", "reconcile"} =>
            req'[r].lease.op = req[r].lease.op /\ (SameLease(r)' => SameLease(r))
  BY LeaseBack
<1>m. RolesMark(r) /\ OutcomeMark(r)
  BY <1>0, Marks
<1>w. \/ UNCHANGED roles
      \/ req[r].pc = "write" /\ Owner(r) /\ SameLease(r) /\ ~Ending(r)'
  BY <1>0, WriteEffect
<1>1. ASSUME NEW q \in Requests, q # r
      PROVE  /\ req'[q].pc \in Replacing /\ req'[q].mode = "mutate" => req'[q].goal = Desired[q]
             /\ req'[q].pc \in Managing => (SameLease(q)' => roles'[Target[q]] = Desired[q])
             /\ Ending(q)' /\ SameLease(q)' /\ req'[q].due.result \in {"success", "failed"} =>
                   roles'[Subject(q)'] = req'[q].due.after
  <2>1. req'[q] = req[q] /\ Subject(q)' = Subject(q) /\ (Ending(q)' <=> Ending(q)) /\ (SameLease(q)' => SameLease(q))
    BY <1>1, <1>b DEF Subject, Op, Ending
  <2>2. SameLease(q)' /\ (req[q].pc \in Managing \/ Ending(q)) => UNCHANGED roles
    BY <1>0, <1>1, <1>w, <2>1, Excluded DEF Owner, InWork, Managing
  <2>. QED BY <2>1, <2>2 DEF RolesInv, Replacing, Managing
<1>2. req'[r].pc \in Replacing /\ req'[r].mode = "mutate" => req'[r].goal = Desired[r]
  BY <1>m DEF RolesMark, RolesInv, Replacing
<1>3. ASSUME req'[r].pc \in Managing, SameLease(r)'
      PROVE  roles'[Target[r]] = Desired[r]
  <2>1. SameLease(r)
    BY <1>b, <1>3 DEF Managing, Owner, InWork
  <2>2. UNCHANGED roles
    BY <1>m, <1>w, <1>3 DEF RolesMark, Managing
  <2>. QED BY <1>m, <1>3, <2>1, <2>2 DEF RolesMark, RolesInv, Managing
<1>4. ASSUME Ending(r)', SameLease(r)', req'[r].due.result \in {"success", "failed"}
      PROVE  roles'[Subject(r)'] = req'[r].due.after
  <2>1. SameLease(r) /\ req'[r].lease.op = req[r].lease.op
    BY <1>b, <1>4 DEF Ending, Owner
  <2>2. UNCHANGED roles
    BY <1>w, <1>4
  <2>3. req'[r].mode = req[r].mode
    BY <1>m, <1>4 DEF OutcomeMark
  <2>4. Subject(r)' = Subject(r)
    BY <2>1, <2>3 DEF Subject, Op
  <2>5. CASE Ending(r) /\ req'[r].due = req[r].due
    BY <1>4, <2>1, <2>2, <2>4, <2>5 DEF RolesInv
  <2>6. CASE req'[r].due.after = roles[Subject(r)]
    BY <2>2, <2>4, <2>6
  <2>7. CASE req[r].pc = "committed" /\ req'[r].due.after = Desired[r]
    <3>1. Subject(r) = Target[r]
      BY <1>0, <2>7 DEF InMode, Mutates, Subject, Op
    <3>2. roles[Target[r]] = Desired[r]
      BY <2>1, <2>7 DEF RolesInv
    <3>. QED BY <2>2, <2>4, <2>7, <3>1, <3>2
  <2>. QED BY <1>m, <1>4, <2>5, <2>6, <2>7 DEF OutcomeMark
<1>5. \A q \in Requests :
          /\ req'[q].pc \in Replacing /\ req'[q].mode = "mutate" => req'[q].goal = Desired[q]
          /\ req'[q].pc \in Managing => (SameLease(q)' => roles'[Target[q]] = Desired[q])
          /\ Ending(q)' /\ SameLease(q)' /\ req'[q].due.result \in {"success", "failed"} =>
                roles'[Subject(q)'] = req'[q].due.after
  BY <1>1, <1>2, <1>3, <1>4
<1>. QED BY <1>5 DEF RolesInv, Replacing, Managing, Subject, Op

-----------------------------------------------------------------------------
(* A released lock leaves what its outcome names.                          *)

LEMMA AuditCommitted ==
    ASSUME ConstantAssumption, TypeOK, OpInv, NEW r \in Requests, AuditCommit(r)
    PROVE  audit'[Op(r)].status = "completed"
<1>1. Op(r) \in Requests /\ audit \in [Requests -> AuditRecord] /\ audit[Op(r)] \in AuditRecord
  BY Values DEF TypeOK
<1>2. audit' = [audit EXCEPT ![Op(r)].status = "completed"]
  BY DEF AuditCommit
<1>. QED BY <1>1, <1>2 DEF AuditRecord

LEMMA AuditStep ==
    ASSUME ConstantAssumption, TypeOK, WeakInv, LeaseInv, RolesInv, AuditInv, NEW r \in Requests, Step(r)
    PROVE  AuditInv'
<1>0. /\ OpInv /\ ModeInv /\ FreshInv /\ InMode(r) /\ lock \in LockRecord
      /\ \A q \in Requests : Op(q) \in Requests
  BY Values DEF WeakInv, ModeInv, TypeOK
<1>k. Keeps(r) \/ Renews(r) \/ Takes(r) \/ Rereads(r) \/ Releases(r)
  BY <1>0, Kinds
<1>b. /\ \A q \in Requests \ {r} : req'[q] = req[q]
      /\ Owner(r)' /\ req'[r].pc \notin {"locked", "reconcile"} => req'[r].lease.op = req[r].lease.op
  BY LeaseBack
<1>m. AuditMark(r)
  BY <1>0, Marks
<1>w. \/ UNCHANGED roles
      \/ req[r].pc = "write" /\ lock.phase # "released" /\ lock' = lock
  BY <1>0, WriteEffect DEF WeakInv
<1>f. \A q \in Requests : req[q].pc \in {"audit", "audit_commit", "release"} => ~Fresh(Op(q))
  BY <1>0 DEF FreshInv, OpInv, Op, Fresh
<1>c. \A o \in Requests :
          /\ \A due : Recorded(o, due) /\ ~Fresh(o) => Recorded(o, due)'
          /\ audit[o].status = "completed" /\ ~Fresh(o) =>
                /\ audit'[o].status = "completed" /\ audit'[o].result = audit[o].result
                /\ audit'[o].after = audit[o].after
  BY AuditChange DEF Recorded
<1>1. ASSUME NEW q \in Requests, q # r
      PROVE  /\ req'[q].pc \in {"audit_commit", "release"} => Recorded(Op(q), req[q].due)'
             /\ req'[q].pc = "release" => audit'[Op(q)'].status = "completed"
  <2>1. req'[q] = req[q] /\ Op(q)' = Op(q)
    BY <1>1, <1>b DEF Op
  <2>2. PICK o \in Requests : o = Op(q)
    BY <1>0
  <2>3. req[q].pc \in {"audit_commit", "release"} => ~Fresh(o)
    BY <1>f, <2>2
  <2>4. req[q].pc \in {"audit_commit", "release"} =>
            audit'[o].status # "pending" /\ audit'[o].result = req[q].due.result /\ audit'[o].after = req[q].due.after
    BY <1>c, <2>2, <2>3 DEF AuditInv, Recorded
  <2>5. req[q].pc = "release" => audit'[o].status = "completed"
    BY <1>c, <2>2, <2>3 DEF AuditInv
  <2>. QED BY <2>1, <2>2, <2>4, <2>5 DEF Recorded
<1>2. ASSUME req'[r].pc \in {"audit_commit", "release"}
      PROVE  /\ Recorded(Op(r), req[r].due)'
             /\ req'[r].pc = "release" => audit'[Op(r)'].status = "completed"
  <2>1. /\ req'[r].mode = req[r].mode /\ req'[r].due = req[r].due
        /\ req[r].pc \in {"audit", "audit_commit", "release"}
    BY <1>m, <1>2 DEF AuditMark
  <2>2. PICK o \in Requests : o = Op(r)
    BY <1>0
  <2>3. req'[r].lease.op = req[r].lease.op
    BY <1>k, <1>2, <2>1 DEF Keeps, Renews, Takes, Rereads, Releases, InWork, LeaseInv, Leased
  <2>4. Op(r)' = o
    BY <2>1, <2>2, <2>3 DEF Op
  <2>5. ~Fresh(o)
    BY <1>f, <2>1, <2>2
  <2>6. audit'[o].status # "pending" /\ audit'[o].result = req[r].due.result /\ audit'[o].after = req[r].due.after
    <3>1. CASE req[r].pc # "audit"
      BY <1>c, <2>1, <2>2, <2>5, <3>1 DEF AuditInv, Recorded
    <3>2. CASE req[r].pc = "audit" /\ Requested(o, req[r].due)
      BY <1>c, <2>5, <3>2 DEF Requested, Recorded
    <3>3. CASE AuditRequest(r) /\ audit' # audit
      BY <2>2, <3>3 DEF AuditRequest, TypeOK
    <3>. QED BY <1>m, <1>2, <2>2, <3>1, <3>2, <3>3 DEF AuditMark
  <2>7. req'[r].pc = "release" => audit'[o].status = "completed"
    <3>1. CASE req[r].pc = "release"
      BY <1>c, <2>2, <2>5, <3>1 DEF AuditInv
    <3>2. CASE AuditCommit(r)
      BY <1>0, <2>2, <3>2, AuditCommitted
    <3>. QED BY <1>m, <3>1, <3>2 DEF AuditMark
  <2>. QED BY <2>1, <2>4, <2>6, <2>7 DEF Recorded
<1>3. ReleasedAsRecorded'
  <2>1. SUFFICES ASSUME lock'.phase = "released", lock'.op # NoRequest
                 PROVE  /\ audit'[lock'.op].status = "completed"
                        /\ audit'[lock'.op].result \in {"success", "failed"} =>
                              roles'[Target[lock'.op]] = audit'[lock'.op].after
    BY DEF ReleasedAsRecorded
  <2>2. CASE lock' = lock
    <3>1. lock.op \in Requests /\ ~Fresh(lock.op)
      BY <1>0, <2>1, <2>2 DEF FreshInv, LockRecord
    <3>2. UNCHANGED roles
      BY <1>w, <2>1, <2>2
    <3>. QED BY <1>c, <2>1, <2>2, <3>1, <3>2 DEF AuditInv, ReleasedAsRecorded
  <2>3. CASE Releases(r)
    <3>1. lock'.op = lock.op /\ SameLease(r) /\ req[r].pc = "release" /\ Ending(r)
      BY <1>0, <2>3 DEF Releases, LockRecord, Ending, InMode
    <3>2. lock'.op = Op(r) /\ ~Fresh(Op(r))
      BY <1>f, <3>1, OwnOp DEF Owner, SameLease
    <3>3. UNCHANGED roles
      BY <1>w, <3>1
    <3>4. /\ audit[Op(r)].status = "completed" /\ audit[Op(r)].result = req[r].due.result
          /\ audit[Op(r)].after = req[r].due.after
      BY <3>1 DEF AuditInv, Recorded
    <3>5. /\ audit'[Op(r)].status = "completed" /\ audit'[Op(r)].result = audit[Op(r)].result
          /\ audit'[Op(r)].after = audit[Op(r)].after
      BY <1>0, <1>c, <3>2, <3>4
    <3>6. req[r].due.result \in {"success", "failed"} => roles[Target[Op(r)]] = req[r].due.after
      BY <3>1 DEF RolesInv, Subject
    <3>. QED BY <3>2, <3>3, <3>4, <3>5, <3>6
  <2>. QED BY <1>k, <2>1, <2>2, <2>3 DEF Keeps, Renews, Takes, Rereads
<1>. QED BY <1>1, <1>2, <1>3 DEF AuditInv

-----------------------------------------------------------------------------
(* No role is granted to an account whose cleanup is owed.                 *)

(* A request that has not acquired the lock for itself. *)
Waiting(r) == req[r].pc \in {"load", "prepare", "acquire", "recover"} \/ req[r].mode = "recover"
Checking == {"locked", "guard", "begin"}

(* What the lock record says of the request it names. *)
StageInv ==
    /\ lock.phase \in {"held", "identity_mutation"} => lock.action = "none"
    /\ \A r \in Requests :
          /\ Waiting(r) => lock.op # r
          /\ req[r].pc \in Checking /\ lock.op = r => lock.phase = "held"
          /\ Owner(r) /\ SameLease(r) =>
                /\ req[r].lease.action = lock.action
                /\ req[r].mode = "recover" => lock.phase # "held"

Denying == {"replace", "fence", "write", "deny"}

(* A mutation whose removal can still be committed has the lock's record,  *)
(* and a recovery that ends has closed the removal it took back.           *)
RepairInv ==
    \A r \in Requests :
        /\ req[r].pc \in Denying /\ req[r].mode = "mutate" /\ repair[r] = "prepared" =>
              /\ lock.op = r
              /\ lock.phase = "identity_mutation" \/ (lock.phase = "recovering" /\ lock.action = "rollback_identity")
        /\ Ending(r) /\ req[r].mode = "recover" /\ SameLease(r) /\ lock.action # "complete_managed" =>
              repair[lock.op] \notin OpenRepair

Granting == {"begin", "replace", "fence", "write"}

(* While a mutation may add a role under its lease, no other mutation's    *)
(* removal from the same account has been committed and is still owed.     *)
GrantInv ==
    \A r \in Requests :
        (req[r].pc \in Granting /\ req[r].mode = "mutate" /\ Added(r) # {} /\ SameLease(r)) =>
            \A o \in Requests \ {r} :
                Target[o] = Target[r] => repair[o] \notin {"deny_committed", "cleanup_registered"}

(* A mutation adds only roles that the account did not have. *)
LeftOf(r) ==
    req[r].mode = "mutate" =>
        /\ req[r].pc = "replace" => req[r].base = req[r].before
        /\ req[r].pc \in {"fence", "write"} => req[r].left \cap req[r].goal \cap req[r].before = {}
LeftInv == \A r \in Requests : LeftOf(r)

OwedInv == StageInv /\ RepairInv /\ GrantInv /\ LeftInv

(* How a step moves the lock record. *)
LockMoves(r) ==
    \/ lock' = lock
    \/ /\ req[r].pc = "acquire" /\ lock.phase \in {"released", "held"}
       /\ lock'.op = r /\ lock'.token = lock.token + 1 /\ lock'.phase = "held" /\ lock'.action = "none"
       /\ req'[r].pc = "locked" /\ req'[r].mode = req[r].mode
    \/ /\ req[r].pc = "recover" /\ lock.phase \notin {"released", "held"}
       /\ lock'.op = lock.op /\ lock'.token = lock.token + 1 /\ lock'.phase = "recovering"
       /\ lock'.action = RecoveryOf(lock.phase, lock.action)
       /\ req'[r].pc = "reconcile"
    \/ /\ SameLease(r) /\ lock'.op = lock.op /\ lock'.token = lock.token /\ lock'.action = lock.action
       /\ \/ /\ req[r].pc = "begin" /\ lock.phase = "held"
             /\ lock'.phase = "identity_mutation" /\ req'[r].pc = "replace"
          \/ req[r].pc = "managed" /\ lock.phase = "identity_mutation" /\ lock'.phase = "managed_commit"
          \/ req[r].pc = "committed" /\ lock.phase = "managed_commit" /\ lock'.phase = "managed_committed"
          \/ req[r].pc = "release" /\ lock'.phase = "released" /\ req'[r].pc \in {"acquire", "done"}

LEMMA LockMoved ==
    ASSUME ConstantAssumption, TypeOK, OpInv, NEW r \in Requests, Step(r)
    PROVE  LockMoves(r)
<1>0. lock \in LockRecord
  BY DEF TypeOK
<1>1. CASE AcquireFree(r)
  <2>1. req[r].pc = "acquire" /\ lock.phase \in {"released", "held"}
    BY <1>1 DEF AcquireFree, At
  <2>. QED BY <1>1, <2>1, AcquireFreeFields DEF LockMoves, PutAt
<1>2. CASE BeginIdentityMutation(r)
  <2>1. req[r].pc = "begin"
    BY <1>2 DEF BeginIdentityMutation, At
  <2>2. \/ lock' = lock
        \/ /\ SameLease(r) /\ lock.phase = "held" /\ lock' = [lock EXCEPT !.phase = "identity_mutation"]
           /\ req'[r].pc = "replace"
    BY <1>2, BeginFields DEF PutAt
  <2>. QED BY <1>0, <2>1, <2>2 DEF LockMoves, LockRecord
<1>3. CASE BeginManagedCommit(r)
  <2>1. req[r].pc = "managed"
    BY <1>3 DEF BeginManagedCommit, At
  <2>2. \/ lock' = lock
        \/ SameLease(r) /\ lock.phase = "identity_mutation" /\ lock' = [lock EXCEPT !.phase = "managed_commit"]
    BY <1>3, ManagedFields
  <2>. QED BY <1>0, <2>1, <2>2 DEF LockMoves, LockRecord
<1>4. CASE MarkManagedCommitted(r)
  <2>1. req[r].pc = "committed"
    BY <1>4 DEF MarkManagedCommitted, At
  <2>2. \/ lock' = lock
        \/ SameLease(r) /\ lock.phase = "managed_commit" /\ lock' = [lock EXCEPT !.phase = "managed_committed"]
    BY <1>4, CommittedFields
  <2>. QED BY <1>0, <2>1, <2>2 DEF LockMoves, LockRecord
<1>5. CASE BeginExpiredRecovery(r)
  <2>1. req[r].pc = "recover"
    BY <1>5 DEF BeginExpiredRecovery, At
  <2>. QED BY <1>5, <2>1, RecoveryFields DEF LockMoves, PutAt
<1>6. CASE Release(r)
  <2>1. req[r].pc = "release"
    BY <1>6 DEF Release, At
  <2>2. \/ lock' = lock
        \/ SameLease(r) /\ lock' = [lock EXCEPT !.phase = "released"] /\ req'[r].pc \in {"acquire", "done"}
    BY <1>6, ReleaseFields DEF ReleasedAt
  <2>. QED BY <1>0, <2>1, <2>2 DEF LockMoves, LockRecord
<1>7. CASE UNCHANGED lock
  BY <1>7 DEF LockMoves
<1>8. CASE ReplaceStart(r)
  BY <1>7, <1>8, ReplaceStartFields
<1>9. CASE Fence(r)
  BY <1>7, <1>9, FenceFields
<1>. QED BY <1>1, <1>2, <1>3, <1>4, <1>5, <1>6, <1>7, <1>8, <1>9
     DEF Step, LoadLedger, Prepare, AcquireBusy, AcquireStale, Reread, CheckLocked, Guard, Write,
        MarkDenyCommitted, RegisterCleanup, MarkCleanupRegistered, CommitManagedState, RollbackRead,
        RollbackRestored, RollbackFailed, Reconcile, CloseRecovery, RecoveryRefused, AuditRequest,
        AuditCommit

(* How a step moves a repair record. *)
RepairMoves(r, o) ==
    \/ repair'[o] = repair[o]
    \/ repair'[o] \notin OpenRepair
    \/ o = r /\ req[r].pc = "guard" /\ req'[r].pc \in {"begin", "audit"} /\ repair'[o] = "prepared"
    \/ o = r /\ req[r].pc = "deny" /\ repair[o] = "prepared" /\ repair'[o] = "deny_committed"
    \/ o = r /\ req[r].pc = "registered" /\ repair[o] = "deny_committed" /\ repair'[o] = "cleanup_registered"

LEMMA RepairMoved ==
    ASSUME ConstantAssumption, TypeOK, OpInv, NEW r \in Requests, Step(r)
    PROVE  /\ \A o \in Requests : RepairMoves(r, o)
           /\ req[r].pc = "guard" => \A o \in Requests \ {r} : repair'[o] = repair[o]
<1>0. repair \in [Requests -> RepairStatus] /\ Op(r) \in Requests
  BY Values DEF TypeOK
<1>s. \A o \in Requests, close \in {"cleanup_completed", "abandoned"} :
          Transition(o, close) => repair'[o] \notin OpenRepair /\ \A p \in Requests \ {o} : repair'[p] = repair[p]
  BY <1>0 DEF Transition, Transitioned, Settled, OpenRepair
<1>1. CASE Guard(r)
  <2>1. req[r].pc = "guard" /\ \A o \in Requests \ {r} : repair'[o] = repair[o]
    BY <1>0, <1>1 DEF Guard, At
  <2>2. repair'[r] = repair[r] \/ repair'[r] = "absent" \/ repair'[r] = "prepared"
    BY <1>0, <1>1 DEF Guard
  <2>3. req'[r].pc \in {"begin", "audit"}
    BY <1>1, GuardFields DEF Shifted, CompletedAt
  <2>. QED BY <2>1, <2>2, <2>3 DEF RepairMoves, OpenRepair
<1>2. CASE MarkDenyCommitted(r)
  BY <1>0, <1>2 DEF MarkDenyCommitted, At, RepairMoves, Transition, Transitioned, Settled, TransitionAllowed
<1>3. CASE MarkCleanupRegistered(r)
  BY <1>0, <1>3 DEF MarkCleanupRegistered, At, RepairMoves, Transition, Transitioned, Settled, TransitionAllowed
<1>4. CASE RollbackRestored(r)
  <2>1. req[r].pc = "rb_restored"
    BY <1>4 DEF RollbackRestored, At
  <2>2. UNCHANGED repair \/ \E close \in {"cleanup_completed", "abandoned"} : Transition(r, close)
    BY <1>4 DEF RollbackRestored
  <2>. QED BY <1>s, <2>1, <2>2 DEF RepairMoves
<1>5. CASE CloseRecovery(r)
  <2>1. req[r].pc = "closing"
    BY <1>5 DEF CloseRecovery, At
  <2>2. UNCHANGED repair \/ \E close \in {"cleanup_completed", "abandoned"} : Transition(Op(r), close)
    BY <1>5 DEF CloseRecovery
  <2>. QED BY <1>0, <1>s, <2>1, <2>2 DEF RepairMoves
<1>6. CASE UNCHANGED repair
  BY <1>6 DEF RepairMoves
<1>. QED BY <1>1, <1>2, <1>3, <1>4, <1>5, <1>6
     DEF Step, LoadLedger, Prepare, AcquireFree, AcquireBusy, AcquireStale, Reread, CheckLocked,
        BeginIdentityMutation, ReplaceStart, Fence, Write, RegisterCleanup, BeginManagedCommit,
        CommitManagedState, MarkManagedCommitted, RollbackRead, RollbackFailed, BeginExpiredRecovery,
        Reconcile, RecoveryRefused, AuditRequest, AuditCommit, Release

(* Where a request that works on its own mutation, or ends a recovery, has *)
(* come from.                                                              *)
PlaceMark(r) ==
    /\ Waiting(r)' => Waiting(r) /\ req'[r].pc # "locked"
    /\ req'[r].pc \in Checking =>
          req[r].pc \in Checking \/ (req[r].pc = "acquire" /\ req'[r].pc = "locked" /\ lock'.phase = "held")
    /\ req'[r].pc \in Denying /\ req'[r].mode = "mutate" =>
          /\ req[r].mode = "mutate"
          /\ \/ req[r].pc \in Denying
             \/ req[r].pc = "begin" /\ SameLease(r) /\ lock.phase = "held" /\ lock'.phase = "identity_mutation"
    /\ req'[r].pc \in Granting /\ req'[r].mode = "mutate" =>
          /\ req[r].mode = "mutate"
          /\ \/ req[r].pc \in Granting
             \/ req[r].pc = "guard" /\ (Added(r) = {} \/ FenceReleased(Target[r]))
    /\ Ending(r)' /\ req'[r].mode = "recover" =>
          /\ req[r].mode = "recover"
          /\ \/ Ending(r)
             \/ req[r].pc = "reconcile" /\ req[r].lease.action = "complete_managed"
             \/ req[r].pc = "closing" /\ repair'[Op(r)] \notin OpenRepair

LEMMA Placed ==
    ASSUME ConstantAssumption, TypeOK, OpInv, ModeInv, NEW r \in Requests, Step(r)
    PROVE  PlaceMark(r)
<1>0. ReqTyped /\ req[r] \in RequestRecord /\ lock \in LockRecord
  BY TypeParts, Values
<1>m. req[r].mode \in {"mutate", "rollback", "recover"} /\ req[r].keep \in BOOLEAN /\ req[r].unread \in BOOLEAN
  BY <1>0 DEF RequestRecord
<1>v. req[r].before \in SUBSET Roles /\ roles[Target[r]] \in SUBSET Roles /\ req[Op(r)].before \in SUBSET Roles
  BY Values
<1>i. InMode(r)
  BY DEF ModeInv
<1>1. CASE LoadLedger(r)
  <2>1. Moved(r, "prepare")
    BY <1>0, <1>v, <1>i, <1>1, LoadFields
  <2>2. req[r].pc = "load" /\ req[r].unread = FALSE
    BY <1>1 DEF LoadLedger, At
  <2>. QED BY <1>m, <1>i, <2>1, <2>2 DEF PlaceMark, Waiting, Checking, Denying, Granting, Ending, InMode, Mutates, Moved, SameView
<1>2. CASE Prepare(r)
  <2>1. \/ FinishedAt(r)
        \/ req'[r].pc = "acquire" /\ req'[r].mode = req[r].mode
        \/ req'[r].pc = "audit" /\ req'[r].keep = TRUE /\ req'[r].mode = req[r].mode
    BY <1>0, <1>v, <1>i, <1>2, PrepareFields DEF SameView
  <2>2. req[r].pc = "prepare" /\ req[r].unread = FALSE
    BY <1>2 DEF Prepare, At
  <2>. QED BY <1>m, <1>i, <2>1, <2>2 DEF PlaceMark, Waiting, Checking, Denying, Granting, Ending, InMode, Mutates, FinishedAt
<1>3. CASE AcquireFree(r)
  <2>1. PutAt(r, "locked") /\ req'[r].mode = req[r].mode /\ lock'.phase = "held"
    BY <1>0, <1>v, <1>i, <1>3, AcquireFreeFields
  <2>2. req[r].pc = "acquire" /\ req[r].unread = FALSE
    BY <1>3 DEF AcquireFree, At
  <2>. QED BY <1>m, <1>i, <2>1, <2>2 DEF PlaceMark, Waiting, Checking, Denying, Granting, Ending, InMode, Mutates, PutAt
<1>4. CASE AcquireBusy(r)
  <2>1. CompletedAt(r, "conflict", req[r].before, TRUE)
    BY <1>0, <1>v, <1>i, <1>4, CompleteFields DEF AcquireBusy, Result
  <2>2. req[r].pc = "acquire" /\ req[r].unread = FALSE
    BY <1>4 DEF AcquireBusy, At
  <2>. QED BY <1>m, <1>i, <2>1, <2>2 DEF PlaceMark, Waiting, Checking, Denying, Granting, Ending, InMode, Mutates, CompletedAt, SameView
<1>5. CASE AcquireStale(r)
  <2>1. req'[r].pc = "recover" /\ req'[r].mode = req[r].mode
    BY <1>0, <1>v, <1>i, <1>5, StaleFields
  <2>2. req[r].pc = "acquire" /\ req[r].unread = FALSE
    BY <1>5 DEF AcquireStale, At
  <2>. QED BY <1>m, <1>i, <2>1, <2>2 DEF PlaceMark, Waiting, Checking, Denying, Granting, Ending, InMode, Mutates
<1>6. CASE Reread(r)
  <2>1. req'[r].pc = req[r].pc /\ req'[r].mode = req[r].mode /\ req'[r].keep = req[r].keep
    BY <1>0, <1>v, <1>i, <1>6, RereadFields DEF SameRest
  <2>. QED BY <1>m, <1>i, <2>1 DEF PlaceMark, Waiting, Checking, Denying, Granting, Ending, InMode, Mutates
<1>7. CASE CheckLocked(r)
  <2>1. \/ CompletedAt(r, "conflict", req[r].before, FALSE)
        \/ CompletedAt(r, "denied", req[r].before, FALSE)
        \/ Moved(r, "guard")
    BY <1>0, <1>v, <1>i, <1>7, CompleteFields, GotoFields DEF CheckLocked, Result, PcLabel
  <2>2. req[r].pc = "locked" /\ req[r].unread = FALSE
    BY <1>7 DEF CheckLocked, At
  <2>. QED BY <1>m, <1>i, <2>1, <2>2 DEF PlaceMark, Waiting, Checking, Denying, Granting, Ending, InMode, Mutates, CompletedAt, Moved, SameView
<1>8. CASE Guard(r)
  <2>1. \/ CompletedAt(r, "conflict", req[r].before, FALSE)
        \/ Shifted(r, "begin") /\ (Added(r) = {} \/ FenceReleased(Target[r]))
    <3>1. CASE Added(r) = {} \/ FenceReleased(Target[r])
      BY <1>8, <3>1, GuardFields
    <3>2. CASE Complete(r, "conflict", req[r].before, FALSE)
      BY <1>0, <1>v, <3>2, CompleteFields DEF Result
    <3>. QED BY <1>8, <3>1, <3>2 DEF Guard
  <2>2. req[r].pc = "guard" /\ req[r].unread = FALSE
    BY <1>8 DEF Guard, At
  <2>. QED BY <1>m, <1>i, <2>1, <2>2 DEF PlaceMark, Waiting, Checking, Denying, Granting, Ending, InMode, Mutates, CompletedAt, SameView, Shifted
<1>9. CASE BeginIdentityMutation(r)
  <2>1. \/ /\ PutAt(r, "replace") /\ req'[r].mode = req[r].mode
           /\ SameLease(r) /\ lock.phase = "held" /\ lock'.phase = "identity_mutation"
        \/ ThrownAt(r)
    BY <1>0, <1>v, <1>i, <1>9, BeginFields DEF LockRecord
  <2>2. req[r].pc = "begin" /\ req[r].unread = FALSE
    BY <1>9 DEF BeginIdentityMutation, At
  <2>. QED BY <1>m, <1>i, <2>1, <2>2 DEF PlaceMark, Waiting, Checking, Denying, Granting, Ending, InMode, Mutates, PutAt, ThrownAt
<1>10. CASE ReplaceStart(r)
  <2>1. \/ PutAt(r, "fence") /\ req'[r].mode = req[r].mode
        \/ ThrownAt(r)
    BY <1>0, <1>v, <1>i, <1>10, ReplaceStartFields
  <2>2. req[r].pc = "replace" /\ req[r].unread = FALSE
    BY <1>10 DEF ReplaceStart, At
  <2>. QED BY <1>m, <1>i, <2>1, <2>2 DEF PlaceMark, Waiting, Checking, Denying, Granting, Ending, InMode, Mutates, PutAt, ThrownAt
<1>11. CASE Fence(r)
  <2>1. \/ PutAt(r, "write") /\ req'[r].mode = req[r].mode
        \/ PutAt(r, AfterReplace(r)) /\ req'[r].mode = req[r].mode
        \/ ThrownAt(r)
    BY <1>0, <1>v, <1>i, <1>11, FenceFields
  <2>2. req[r].pc = "fence" /\ req[r].unread = FALSE
    BY <1>11 DEF Fence, At
  <2>. QED BY <1>m, <1>i, <2>1, <2>2 DEF PlaceMark, Waiting, Checking, Denying, Granting, Ending, InMode, Mutates, PutAt, ThrownAt, AfterReplace
<1>12. CASE Write(r)
  <2>1. Moved(r, "fence") \/ ThrownAt(r)
    BY <1>0, <1>v, <1>i, <1>12, WriteFields
  <2>2. req[r].pc = "write" /\ req[r].unread = FALSE
    BY <1>12 DEF Write, At
  <2>. QED BY <1>m, <1>i, <2>1, <2>2 DEF PlaceMark, Waiting, Checking, Denying, Granting, Ending, InMode, Mutates, Moved, SameView, ThrownAt
<1>13. CASE MarkDenyCommitted(r)
  <2>1. Shifted(r, "register")
    BY <1>0, <1>v, <1>i, <1>13, DenyFields
  <2>2. req[r].pc = "deny" /\ req[r].unread = FALSE
    BY <1>13 DEF MarkDenyCommitted, At
  <2>. QED BY <1>m, <1>i, <2>1, <2>2 DEF PlaceMark, Waiting, Checking, Denying, Granting, Ending, InMode, Mutates, Shifted
<1>14. CASE RegisterCleanup(r)
  <2>1. Moved(r, "registered")
    BY <1>0, <1>v, <1>i, <1>14, GotoFields DEF RegisterCleanup, PcLabel
  <2>2. req[r].pc = "register" /\ req[r].unread = FALSE
    BY <1>14 DEF RegisterCleanup, At
  <2>. QED BY <1>m, <1>i, <2>1, <2>2 DEF PlaceMark, Waiting, Checking, Denying, Granting, Ending, InMode, Mutates, Moved, SameView
<1>15. CASE MarkCleanupRegistered(r)
  <2>1. Shifted(r, "managed")
    BY <1>0, <1>v, <1>i, <1>15, RegisteredFields
  <2>2. req[r].pc = "registered" /\ req[r].unread = FALSE
    BY <1>15 DEF MarkCleanupRegistered, At
  <2>. QED BY <1>m, <1>i, <2>1, <2>2 DEF PlaceMark, Waiting, Checking, Denying, Granting, Ending, InMode, Mutates, Shifted
<1>16. CASE BeginManagedCommit(r)
  <2>1. (PutAt(r, "commit") /\ req'[r].mode = req[r].mode) \/ ThrownAt(r)
    BY <1>0, <1>v, <1>i, <1>16, ManagedFields
  <2>2. req[r].pc = "managed" /\ req[r].unread = FALSE
    BY <1>16 DEF BeginManagedCommit, At
  <2>. QED BY <1>m, <1>i, <2>1, <2>2 DEF PlaceMark, Waiting, Checking, Denying, Granting, Ending, InMode, Mutates, PutAt, ThrownAt
<1>17. CASE CommitManagedState(r)
  <2>1. Moved(r, "committed") \/ FinishedAt(r)
    BY <1>0, <1>v, <1>i, <1>17, GotoFields, FinishFields DEF CommitManagedState, PcLabel
  <2>2. req[r].pc = "commit" /\ req[r].unread = FALSE
    BY <1>17 DEF CommitManagedState, At
  <2>. QED BY <1>m, <1>i, <2>1, <2>2 DEF PlaceMark, Waiting, Checking, Denying, Granting, Ending, InMode, Mutates, Moved, SameView, FinishedAt
<1>18. CASE MarkManagedCommitted(r)
  <2>1. \/ PutAt(r, "audit") /\ req'[r].mode = req[r].mode
        \/ FinishedAt(r)
    BY <1>0, <1>v, <1>i, <1>18, CommittedFields
  <2>2. req[r].pc = "committed" /\ req[r].unread = FALSE
    BY <1>18 DEF MarkManagedCommitted, At
  <2>. QED BY <1>m, <1>i, <2>1, <2>2 DEF PlaceMark, Waiting, Checking, Denying, Granting, Ending, InMode, Mutates, PutAt, FinishedAt
<1>19. CASE RollbackRead(r)
  <2>1. Shifted(r, "fence") \/ Shifted(r, "replace")
    BY <1>0, <1>v, <1>i, <1>19, RollbackReadFields
  <2>2. req[r].pc = "rb_read" /\ req[r].unread = FALSE
    BY <1>19 DEF RollbackRead, At
  <2>. QED BY <1>m, <1>i, <2>1, <2>2 DEF PlaceMark, Waiting, Checking, Denying, Granting, Ending, InMode, Mutates, Shifted
<1>20. CASE RollbackRestored(r)
  <2>1. CompletedAt(r, "failed", roles[Target[r]], FALSE)
    BY <1>0, <1>v, <1>i, <1>20, CompleteFields DEF RollbackRestored, Result
  <2>2. req[r].pc = "rb_restored" /\ req[r].unread = FALSE
    BY <1>20 DEF RollbackRestored, At
  <2>. QED BY <1>m, <1>i, <2>1, <2>2 DEF PlaceMark, Waiting, Checking, Denying, Granting, Ending, InMode, Mutates, CompletedAt, SameView
<1>21. CASE RollbackFailed(r)
  <2>1. CompletedAt(r, "failed", roles[Target[r]], TRUE)
    BY <1>0, <1>v, <1>i, <1>21, CompleteFields DEF RollbackFailed, Result
  <2>2. req[r].pc = "rb_failed" /\ req[r].unread = FALSE
    BY <1>21 DEF RollbackFailed, At
  <2>. QED BY <1>m, <1>i, <2>1, <2>2 DEF PlaceMark, Waiting, Checking, Denying, Granting, Ending, InMode, Mutates, CompletedAt, SameView
<1>22. CASE BeginExpiredRecovery(r)
  <2>1. \/ PutAt(r, "reconcile") /\ req'[r].mode = "recover"
        \/ Moved(r, "refused")
        \/ CompletedAt(r, "conflict", req[r].before, TRUE)
    BY <1>0, <1>v, <1>i, <1>22, RecoveryFields
  <2>2. req[r].pc = "recover" /\ req[r].unread = FALSE
    BY <1>22 DEF BeginExpiredRecovery, At
  <2>. QED BY <1>m, <1>i, <2>1, <2>2 DEF PlaceMark, Waiting, Checking, Denying, Granting, Ending, InMode, Mutates, PutAt, Moved, CompletedAt, SameView
<1>23. CASE Reconcile(r)
  <2>1. \/ Moved(r, "refused")
        \/ CompletedAt(r, "success", roles[Subject(r)], FALSE) /\ req[r].lease.action = "complete_managed"
        \/ Shifted(r, "closing") \/ Shifted(r, "replace")
    BY <1>0, <1>v, <1>i, <1>23, ReconcileFields
  <2>2. req[r].pc = "reconcile" /\ req[r].unread = FALSE
    BY <1>23 DEF Reconcile, At
  <2>. QED BY <1>m, <1>i, <2>1, <2>2 DEF PlaceMark, Waiting, Checking, Denying, Granting, Ending, InMode, Mutates, Moved, CompletedAt, Shifted, SameView
<1>24. CASE CloseRecovery(r)
  <2>1. \/ CompletedAt(r, "failed", req[Op(r)].before, FALSE) /\ repair'[Op(r)] \notin OpenRepair
        \/ Moved(r, "refused")
    <3>1. CASE Goto(r, "refused")
      BY <1>0, <3>1, GotoFields DEF PcLabel
    <3>2. CASE /\ Complete(r, "failed", req[Op(r)].before, FALSE)
               /\ IF repair[Op(r)] \in OpenRepair
                  THEN Transition(Op(r), IF repair[Op(r)] = "cleanup_registered" THEN "cleanup_completed" ELSE "abandoned")
                  ELSE UNCHANGED repair
      <4>1. Op(r) \in Requests /\ repair \in [Requests -> RepairStatus]
        BY Values DEF TypeOK
      <4>2. repair'[Op(r)] \notin OpenRepair
        BY <3>2, <4>1 DEF Transition, Transitioned, Settled, OpenRepair
      <4>. QED BY <1>0, <1>v, <3>2, <4>2, CompleteFields DEF Result
    <3>. QED BY <1>24, <3>1, <3>2 DEF CloseRecovery
  <2>2. req[r].pc = "closing" /\ req[r].unread = FALSE
    BY <1>24 DEF CloseRecovery, At
  <2>. QED BY <1>m, <1>i, <2>1, <2>2 DEF PlaceMark, Waiting, Checking, Denying, Granting, Ending, InMode, Mutates, Moved, CompletedAt, SameView
<1>25. CASE RecoveryRefused(r)
  <2>1. req'[r].pc = "audit" /\ req'[r].keep = TRUE /\ req'[r].mode = "mutate"
    BY <1>0, <1>v, <1>i, <1>25, RefusedFields
  <2>2. req[r].pc = "refused" /\ req[r].unread = FALSE
    BY <1>25 DEF RecoveryRefused, At
  <2>. QED BY <1>m, <1>i, <2>1, <2>2 DEF PlaceMark, Waiting, Checking, Denying, Granting, Ending, InMode, Mutates
<1>26. CASE AuditRequest(r)
  <2>1. \/ Moved(r, "audit_commit")
        \/ FinishedAt(r) \/ Moved(r, "refused")
    BY <1>0, <1>v, <1>i, <1>26, AuditRequestFields
  <2>2. req[r].pc = "audit" /\ req[r].unread = FALSE
    BY <1>26 DEF AuditRequest, At
  <2>. QED BY <1>m, <1>i, <2>1, <2>2 DEF PlaceMark, Waiting, Checking, Denying, Granting, Ending, InMode, Mutates, Moved, SameView, SameRest, FinishedAt
<1>27. CASE AuditCommit(r)
  <2>1. FinishedAt(r) \/ (~req[r].keep /\ Moved(r, "release"))
    BY <1>0, <1>v, <1>i, <1>27, AuditCommitFields
  <2>2. req[r].pc = "audit_commit" /\ req[r].unread = FALSE
    BY <1>27 DEF AuditCommit, At
  <2>. QED BY <1>m, <1>i, <2>1, <2>2 DEF PlaceMark, Waiting, Checking, Denying, Granting, Ending, InMode, Mutates, Moved, SameView, SameRest, FinishedAt
<1>28. CASE Release(r)
  <2>1. \/ ReleasedAt(r)
        \/ FinishedAt(r) \/ Moved(r, "refused")
    BY <1>0, <1>v, <1>i, <1>28, ReleaseFields
  <2>2. req[r].pc = "release" /\ req[r].unread = FALSE
    BY <1>28 DEF Release, At
  <2>. QED BY <1>m, <1>i, <2>1, <2>2 DEF PlaceMark, Waiting, Checking, Denying, Granting, Ending, InMode, Mutates, ReleasedAt, FinishedAt, Moved, SameView
<1>. QED BY <1>1, <1>2, <1>3, <1>4, <1>5, <1>6, <1>7, <1>8, <1>9, <1>10, <1>11, <1>12, <1>13, <1>14, <1>15, <1>16, <1>17, <1>18, <1>19, <1>20, <1>21, <1>22, <1>23, <1>24, <1>25, <1>26, <1>27, <1>28 DEF Step

(* A step by another request moves the lock away from a lease, or leaves   *)
(* what the lock says of the lease's mutation alone.                       *)
LEMMA OthersLock ==
    ASSUME ConstantAssumption, TypeOK, WeakInv, LeaseInv, NEW r \in Requests, Step(r),
           NEW q \in Requests, q # r, Owner(q), SameLease(q)'
    PROVE  lock' = lock
<1>0. OpInv /\ ModeInv /\ Sole /\ lock \in LockRecord
  BY DEF WeakInv, LeaseInv, TypeOK
<1>1. req'[q] = req[q] /\ SameLease(q)
  BY LeaseBack
<1>2. lock'.token = lock.token /\ lock.token \in Nat
  BY <1>0, <1>1 DEF SameLease, LockRecord
<1>3. ~(SameLease(r) /\ req[r].pc \in {"begin", "managed", "committed", "release"})
  BY <1>0, <1>1, Excluded DEF Owner, InWork, Ending, ModeInv, InMode
<1>4. LockMoves(r)
  BY <1>0, LockMoved
<1>. QED BY <1>2, <1>3, <1>4 DEF LockMoves

LEMMA StageStep ==
    ASSUME ConstantAssumption, TypeOK, WeakInv, LeaseInv, StageInv, NEW r \in Requests, Step(r)
    PROVE  StageInv'
<1>0. /\ OpInv /\ ModeInv /\ InMode(r) /\ InMode(r)' /\ Leased(r) /\ Sole /\ lock \in LockRecord /\ lock.token \in Nat
      /\ \A q \in Requests : req[q].lease.token \in Nat
  BY WeakStep DEF WeakInv, LeaseInv, ModeInv, TypeOK, LockRecord, RequestRecord
<1>k. Keeps(r) \/ Renews(r) \/ Takes(r) \/ Rereads(r) \/ Releases(r)
  BY <1>0, Kinds
<1>o. \A q \in Requests \ {r} : req'[q] = req[q]
  BY LeaseBack
<1>l. LockMoves(r)
  BY <1>0, LockMoved
<1>p. PlaceMark(r)
  BY <1>0, Placed
<1>1. lock'.phase \in {"held", "identity_mutation"} => lock'.action = "none"
  BY <1>l DEF LockMoves, StageInv
<1>2. ASSUME NEW q \in Requests, Waiting(q)'
      PROVE  lock'.op # q
  <2>1. Waiting(q) /\ (q = r => req'[r].pc # "locked")
    BY <1>o, <1>p, <1>2 DEF PlaceMark, Waiting
  <2>. QED BY <1>l, <2>1 DEF LockMoves, StageInv
<1>3. ASSUME NEW q \in Requests, req'[q].pc \in Checking, lock'.op = q
      PROVE  lock'.phase = "held"
  <2>1. CASE q = r
    <3>1. CASE req[r].pc \in Checking
      <4>1. lock' = lock
        BY <1>l, <1>3, <2>1, <3>1 DEF LockMoves, Checking
      <4>. QED BY <1>3, <2>1, <3>1, <4>1 DEF StageInv
    <3>. QED BY <1>p, <1>3, <2>1, <3>1 DEF PlaceMark
  <2>2. CASE q # r
    <3>1. req[q].pc \in Checking /\ Owner(q) /\ req[q].mode = "mutate"
      BY <1>0, <1>o, <1>3, <2>2 DEF Checking, Owner, ModeInv, InMode, Mutates
    <3>2. lock.op = q
      BY <1>l, <1>3, <2>2 DEF LockMoves
    <3>3. lock.phase = "held"
      BY <3>1, <3>2 DEF StageInv
    <3>4. ~(SameLease(r) /\ req[r].pc \in {"begin", "managed", "committed", "release"})
      <4>1. SUFFICES ASSUME SameLease(r), req[r].pc \in {"begin", "managed", "committed", "release"}
                     PROVE  FALSE
        OBVIOUS
      <4>2. Owner(r) /\ (req[r].mode = "recover" => req[r].pc = "release")
        BY <1>0, <4>1 DEF Owner, InWork, Ending, InMode, Mutates
      <4>3. req[r].mode # "recover"
        BY <3>3, <4>1, <4>2 DEF StageInv
      <4>4. req[r].lease.op = r
        BY <1>0, <4>2, <4>3 DEF Leased
      <4>. QED BY <2>2, <3>2, <4>1, <4>4 DEF SameLease
    <3>. QED BY <1>l, <1>3, <2>2, <3>3, <3>4 DEF LockMoves
  <2>. QED BY <2>1, <2>2
<1>4. ASSUME NEW q \in Requests, Owner(q)', SameLease(q)'
      PROVE  req'[q].lease.action = lock'.action /\ (req'[q].mode = "recover" => lock'.phase # "held")
  <2>1. CASE q # r
    <3>1. Owner(q) /\ req'[q] = req[q] /\ SameLease(q)
      BY <1>o, <1>4, <2>1, LeaseBack DEF Owner, InWork, Ending
    <3>2. lock' = lock
      BY <1>4, <2>1, <3>1, OthersLock
    <3>. QED BY <3>1, <3>2 DEF StageInv
  <2>2. CASE q = r
    <3>1. CASE Keeps(r)
      <4>1. /\ Owner(r) /\ req'[r].lease = req[r].lease /\ lock' = lock
            /\ req'[r].mode = "recover" => req[r].mode = "recover"
        BY <1>4, <2>2, <3>1 DEF Keeps
      <4>2. SameLease(r)
        BY <1>4, <2>2, <4>1 DEF SameLease
      <4>. QED BY <2>2, <4>1, <4>2 DEF StageInv
    <3>2. CASE Renews(r)
      <4>1. /\ req'[r].lease = lock' /\ req'[r].mode = req[r].mode /\ SameLease(r)
            /\ lock'.phase \notin {"released", "held"} \/ (lock' = lock /\ InWork(r))
        BY <3>2 DEF Renews
      <4>. QED BY <1>0, <2>2, <4>1 DEF Leased
    <3>3. CASE Takes(r)
      BY <2>2, <3>3 DEF Takes
    <3>4. CASE Rereads(r)
      <4>1. /\ req'[r].lease = lock /\ lock' = lock /\ req[r].lease = lock
            /\ req'[r].mode = req[r].mode /\ Owner(r) /\ SameLease(r)
        BY <1>0, <3>4 DEF Rereads, Leased
      <4>. QED BY <2>2, <4>1 DEF StageInv
    <3>5. CASE Releases(r)
      BY <1>4, <2>2, <3>5 DEF Releases, Owner, InWork, Ending
    <3>. QED BY <1>k, <3>1, <3>2, <3>3, <3>4, <3>5
  <2>. QED BY <2>1, <2>2
<1>. QED BY <1>1, <1>2, <1>3, <1>4 DEF StageInv

(* Nothing is owed again once a recovery has taken the removal back. *)
LEMMA StaysClosed ==
    ASSUME ConstantAssumption, TypeOK, WeakInv, LeaseInv, StageInv, NEW r \in Requests, Step(r),
           NEW q \in Requests, Ending(q), req[q].mode = "recover", SameLease(q),
           repair[lock.op] \notin OpenRepair
    PROVE  repair'[lock.op] \notin OpenRepair
<1>1. Owner(q) /\ lock.phase # "held" /\ OpInv /\ ModeInv /\ lock \in LockRecord
  BY DEF Owner, StageInv, WeakInv, TypeOK
<1>2. lock.op \in Requests
  BY <1>1 DEF OpInv, SameLease, LockRecord
<1>3. ~(lock.op = r /\ req[r].pc = "guard")
  BY <1>1 DEF StageInv, Checking
<1>4. RepairMoves(r, lock.op)
  BY <1>1, <1>2, RepairMoved
<1>. QED BY <1>3, <1>4 DEF RepairMoves, OpenRepair

LEMMA RepairStep ==
    ASSUME ConstantAssumption, TypeOK, WeakInv, LeaseInv, StageInv, RepairInv, NEW r \in Requests, Step(r)
    PROVE  RepairInv'
<1>0. /\ OpInv /\ ModeInv /\ InMode(r) /\ Leased(r) /\ Sole
  BY DEF WeakInv, LeaseInv, ModeInv
<1>b. /\ \A q \in Requests \ {r} : req'[q] = req[q] /\ (SameLease(q)' => SameLease(q))
      /\ Owner(r)' /\ req'[r].pc \notin {"locked", "reconcile"} =>
            req'[r].lease.op = req[r].lease.op /\ (SameLease(r)' => SameLease(r))
  BY LeaseBack
<1>l. LockMoves(r)
  BY <1>0, LockMoved
<1>p. PlaceMark(r)
  BY <1>0, Placed
<1>r. \A o \in Requests : RepairMoves(r, o)
  BY <1>0, RepairMoved
<1>1. ASSUME NEW q \in Requests, req'[q].pc \in Denying, req'[q].mode = "mutate", repair'[q] = "prepared"
      PROVE  /\ lock'.op = q
             /\ lock'.phase = "identity_mutation" \/ (lock'.phase = "recovering" /\ lock'.action = "rollback_identity")
  <2>1. CASE q # r
    <3>1. req'[q] = req[q] /\ repair[q] = "prepared"
      BY <1>b, <1>r, <1>1, <2>1 DEF RepairMoves, OpenRepair
    <3>2. /\ lock.op = q
          /\ lock.phase = "identity_mutation" \/ (lock.phase = "recovering" /\ lock.action = "rollback_identity")
      BY <1>1, <3>1 DEF RepairInv
    <3>3. ~(SameLease(r) /\ req[r].pc \in {"begin", "managed", "committed", "release"})
      <4>1. SUFFICES ASSUME SameLease(r), req[r].pc \in {"begin", "managed", "committed", "release"}
                     PROVE  FALSE
        OBVIOUS
      <4>2. Owner(r) /\ (req[r].mode = "recover" => req[r].pc = "release" /\ Ending(r))
        BY <1>0, <4>1 DEF Owner, InWork, Ending, InMode, Mutates
      <4>3. req[r].mode # "recover"
        <5>1. lock.action # "complete_managed"
          BY <3>2 DEF StageInv
        <5>. QED BY <3>1, <3>2, <4>1, <4>2, <5>1 DEF RepairInv, OpenRepair
      <4>4. req[r].lease.op = r
        BY <1>0, <4>2, <4>3 DEF Leased
      <4>. QED BY <2>1, <3>2, <4>1, <4>4 DEF SameLease
    <3>4. lock.phase = "identity_mutation" => lock.action = "none"
      BY DEF StageInv
    <3>. QED BY <1>l, <3>2, <3>3, <3>4 DEF LockMoves, RecoveryOf
  <2>2. CASE q = r
    <3>1. CASE req[r].pc \in Denying /\ req[r].mode = "mutate"
      <4>1. repair[r] = "prepared"
        BY <1>r, <1>1, <2>2, <3>1 DEF RepairMoves, OpenRepair, Denying
      <4>2. lock' = lock
        BY <1>l, <3>1 DEF LockMoves, Denying
      <4>. QED BY <2>2, <3>1, <4>1, <4>2 DEF RepairInv
    <3>2. CASE req[r].pc = "begin" /\ req[r].mode = "mutate" /\ SameLease(r) /\ lock.phase = "held" /\ lock'.phase = "identity_mutation"
      <4>1. req[r].lease.op = r
        BY <1>0, <3>2 DEF Leased, Owner
      <4>2. lock'.op = lock.op
        BY <1>l, <3>2 DEF LockMoves
      <4>. QED BY <2>2, <3>2, <4>1, <4>2 DEF SameLease
    <3>. QED BY <1>p, <1>1, <2>2, <3>1, <3>2 DEF PlaceMark
  <2>. QED BY <2>1, <2>2
<1>2. ASSUME NEW q \in Requests, Ending(q)', req'[q].mode = "recover", SameLease(q)', lock'.action # "complete_managed"
      PROVE  repair'[lock'.op] \notin OpenRepair
  <2>1. CASE q # r
    <3>1. req'[q] = req[q] /\ Ending(q) /\ Owner(q) /\ SameLease(q)
      BY <1>b, <1>2, <2>1 DEF Ending, Owner
    <3>2. lock' = lock
      BY <1>2, <2>1, <3>1, OthersLock
    <3>3. repair[lock.op] \notin OpenRepair
      BY <1>2, <3>1, <3>2 DEF RepairInv
    <3>. QED BY <1>2, <3>1, <3>2, <3>3, StaysClosed
  <2>2. CASE q = r
    <3>1. SameLease(r) /\ req[r].mode = "recover"
      BY <1>b, <1>p, <1>2, <2>2 DEF Ending, Owner, PlaceMark
    <3>2. CASE Ending(r)
      <4>1. lock' = lock
        BY <1>l, <1>2, <2>2, <3>2 DEF LockMoves, Ending
      <4>2. repair[lock.op] \notin OpenRepair
        BY <1>2, <2>2, <3>1, <3>2, <4>1 DEF RepairInv
      <4>. QED BY <3>1, <3>2, <4>1, <4>2, StaysClosed
    <3>3. CASE req[r].pc = "reconcile" /\ req[r].lease.action = "complete_managed"
      <4>1. lock' = lock
        BY <1>l, <3>3 DEF LockMoves
      <4>2. lock.action = "complete_managed"
        BY <3>1, <3>3 DEF StageInv, Owner, InWork
      <4>. QED BY <1>2, <4>1, <4>2
    <3>4. CASE req[r].pc = "closing" /\ repair'[Op(r)] \notin OpenRepair
      <4>1. lock' = lock
        BY <1>l, <3>4 DEF LockMoves
      <4>. QED BY <3>1, <3>4, <4>1 DEF Op, SameLease
    <3>. QED BY <1>p, <1>2, <2>2, <3>2, <3>3, <3>4 DEF PlaceMark
  <2>. QED BY <2>1, <2>2
<1>. QED BY <1>1, <1>2 DEF RepairInv

LEMMA GrantStep ==
    ASSUME ConstantAssumption, TypeOK, WeakInv, LeaseInv, RepairInv, GrantInv, NEW r \in Requests, Step(r)
    PROVE  GrantInv'
<1>0. /\ OpInv /\ ModeInv /\ InMode(r) /\ \A q \in Requests : Leased(q)
  BY DEF WeakInv, LeaseInv, ModeInv
<1>b. /\ \A q \in Requests \ {r} : req'[q] = req[q] /\ (SameLease(q)' => SameLease(q))
      /\ Owner(r)' /\ req'[r].pc \notin {"locked", "reconcile"} => (SameLease(r)' => SameLease(r))
  BY LeaseBack
<1>p. PlaceMark(r)
  BY <1>0, Placed
<1>r. /\ \A o \in Requests : RepairMoves(r, o)
      /\ req[r].pc = "guard" => \A o \in Requests \ {r} : repair'[o] = repair[o]
  BY <1>0, RepairMoved
<1>1. SUFFICES ASSUME NEW q \in Requests, req'[q].pc \in Granting, req'[q].mode = "mutate", Added(q)' # {},
                      SameLease(q)', NEW o \in Requests \ {q}, Target[o] = Target[q]
               PROVE  repair'[o] \notin {"deny_committed", "cleanup_registered"}
  BY DEF GrantInv
<1>2. SameLease(q) /\ req[q].mode = "mutate"
  BY <1>b, <1>p, <1>1 DEF Granting, Owner, InWork, PlaceMark
<1>3. CASE req[q].pc \in Granting
  <2>1. Owner(q) /\ lock.op = q
    BY <1>0, <1>2, <1>3 DEF Granting, Owner, InWork, Leased, SameLease
  <2>2. Added(q) # {}
    <3>1. req'[q].before = req[q].before
      BY <1>0, <1>3, Kinds, <1>b DEF Granting, Fresh
    <3>. QED BY <1>1, <3>1 DEF Added
  <2>3. repair[o] \notin {"deny_committed", "cleanup_registered"}
    BY <1>1, <1>2, <1>3, <2>2 DEF GrantInv
  <2>4. ~(o = r /\ req[r].pc = "deny" /\ repair[o] = "prepared")
    BY <1>0, <1>1, <2>1 DEF RepairInv, Denying, InMode, Mutates
  <2>. QED BY <1>r, <2>3, <2>4 DEF RepairMoves, OpenRepair
<1>4. CASE q = r /\ req[r].pc = "guard" /\ (Added(r) = {} \/ FenceReleased(Target[r]))
  <2>1. req'[r].before = req[r].before
    BY <1>0, <1>4, Kinds DEF Fresh
  <2>2. FenceReleased(Target[r])
    BY <1>1, <1>4, <2>1 DEF Added
  <2>. QED BY <1>r, <1>1, <1>4, <2>2 DEF FenceReleased, OpenRepair
<1>. QED BY <1>b, <1>p, <1>1, <1>3, <1>4 DEF PlaceMark

(* What is left to add or remove, step by step. *)
LEMMA LeftMoves ==
    ASSUME ConstantAssumption, TypeOK, OpInv, NEW r \in Requests
    PROVE  /\ BeginIdentityMutation(r) /\ req'[r].pc = "replace" => req'[r].base = req[r].before
           /\ ReplaceStart(r) /\ req'[r].pc = "fence" =>
                 /\ req'[r].goal = req[r].goal
                 /\ req'[r].left = (req[r].base \ req[r].goal) \cup (req[r].goal \ req[r].base)
           /\ Fence(r) /\ req'[r].pc = "write" => req'[r].goal = req[r].goal /\ req'[r].left = req[r].left
           /\ Write(r) /\ req'[r].pc = "fence" => req'[r].goal = req[r].goal /\ req'[r].left \subseteq req[r].left
           /\ Reread(r) => /\ req'[r].goal = req[r].goal /\ req'[r].left = req[r].left
                           /\ req'[r].base = req[r].base
<1>0. req[r] \in RequestRecord /\ req \in [Requests -> RequestRecord]
  BY Values DEF TypeOK
<1>t. ASSUME Throw(r) PROVE req'[r].pc \notin {"replace", "fence", "write"}
  BY <1>t, TypeParts, ThrowFields DEF ThrownAt
<1>1. ASSUME BeginIdentityMutation(r), req'[r].pc = "replace" PROVE req'[r].base = req[r].before
  <2>. DEFINE new == [[req[r] EXCEPT !.pc = "replace", !.base = req[r].before, !.goal = Desired[r]]
                         EXCEPT !.lease = [lock EXCEPT !.phase = "identity_mutation"], !.unread = TRUE]
  <2>1. req' = [req EXCEPT ![r] = new]
    BY <1>t, <1>1 DEF BeginIdentityMutation, PutLock
  <2>2. new.base = req[r].before
    BY <1>0 DEF RequestRecord
  <2>. HIDE DEF new
  <2>. QED BY <1>0, <2>1, <2>2
<1>2. ASSUME ReplaceStart(r), req'[r].pc = "fence"
      PROVE  /\ req'[r].goal = req[r].goal
             /\ req'[r].left = (req[r].base \ req[r].goal) \cup (req[r].goal \ req[r].base)
  <2>. DEFINE new == [[req[r] EXCEPT !.pc = "fence",
                        !.left = (req[r].base \ req[r].goal) \cup (req[r].goal \ req[r].base)] EXCEPT !.lease = lock, !.unread = TRUE]
  <2>1. req' = [req EXCEPT ![r] = new]
    BY <1>t, <1>2 DEF ReplaceStart, PutLock
  <2>2. new.goal = req[r].goal /\ new.left = (req[r].base \ req[r].goal) \cup (req[r].goal \ req[r].base)
    BY <1>0 DEF RequestRecord
  <2>. HIDE DEF new
  <2>. QED BY <1>0, <2>1, <2>2
<1>3. ASSUME Fence(r), req'[r].pc = "write"
      PROVE  req'[r].goal = req[r].goal /\ req'[r].left = req[r].left
  <2>. DEFINE new == [[req[r] EXCEPT !.pc = "write"] EXCEPT !.lease = lock, !.unread = TRUE]
              old == [[req[r] EXCEPT !.pc = AfterReplace(r), !.base = {}, !.goal = {}] EXCEPT !.lease = lock, !.unread = TRUE]
  <2>1. new.goal = req[r].goal /\ new.left = req[r].left /\ old.pc # "write"
    BY <1>0 DEF RequestRecord, AfterReplace
  <2>2. req' = [req EXCEPT ![r] = new] \/ req' = [req EXCEPT ![r] = old]
    BY <1>t, <1>3 DEF Fence, PutLock
  <2>. HIDE DEF new, old
  <2>. QED BY <1>0, <1>3, <2>1, <2>2
<1>4. ASSUME Write(r), req'[r].pc = "fence"
      PROVE  req'[r].goal = req[r].goal /\ req'[r].left \subseteq req[r].left
  <2>1. PICK g : req' = [req EXCEPT ![r].pc = "fence", ![r].left = @ \ {g}]
    BY <1>t, <1>4 DEF Write
  <2>. DEFINE new == [req[r] EXCEPT !.pc = "fence", !.left = @ \ {g}]
  <2>2. req' = [req EXCEPT ![r] = new]
    BY <1>0, <2>1 DEF RequestRecord
  <2>3. new.goal = req[r].goal /\ new.left = req[r].left \ {g}
    BY <1>0 DEF RequestRecord
  <2>. HIDE DEF new
  <2>. QED BY <1>0, <2>2, <2>3
<1>5. ASSUME Reread(r)
      PROVE  req'[r].goal = req[r].goal /\ req'[r].left = req[r].left /\ req'[r].base = req[r].base
  <2>. DEFINE new == [req[r] EXCEPT !.lease = lock, !.unread = FALSE]
  <2>1. req' = [req EXCEPT ![r] = new]
    BY <1>0, <1>5 DEF Reread
  <2>2. new.goal = req[r].goal /\ new.left = req[r].left /\ new.base = req[r].base
    BY <1>0 DEF RequestRecord
  <2>. HIDE DEF new
  <2>. QED BY <1>0, <2>1, <2>2
<1>. QED BY <1>1, <1>2, <1>3, <1>4, <1>5

(* Which action takes a mutation to the next place of its replacement. *)
LEMMA LeftPlaces ==
    ASSUME ConstantAssumption, TypeOK, OpInv, ModeInv, NEW r \in Requests, Step(r), req'[r].mode = "mutate",
           req'[r].pc \in {"replace", "fence", "write"}
    PROVE  /\ req[r].mode = "mutate"
           /\ \/ BeginIdentityMutation(r) /\ req'[r].pc = "replace"
              \/ ReplaceStart(r) /\ req[r].pc = "replace" /\ req'[r].pc = "fence"
              \/ Fence(r) /\ req[r].pc = "fence" /\ req'[r].pc = "write"
              \/ Write(r) /\ req[r].pc = "write" /\ req'[r].pc = "fence"
              \/ Reread(r) /\ req'[r].pc = req[r].pc
<1>1. /\ req[r].mode = "mutate"
      /\ req[r].pc \in {"begin", "replace", "fence", "write", "deny"}
  BY Placed DEF PlaceMark, Denying
<1>2. CASE BeginIdentityMutation(r)
  BY <1>1, <1>2, BeginFields DEF PutAt, ThrownAt
<1>3. CASE ReplaceStart(r)
  BY <1>1, <1>3, ReplaceStartFields DEF ReplaceStart, At, PutAt, ThrownAt
<1>4. CASE Fence(r)
  BY <1>1, <1>4, FenceFields DEF Fence, At, PutAt, ThrownAt, AfterReplace
<1>5. CASE Write(r)
  BY <1>1, <1>5, WriteFields DEF Write, At, Moved, ThrownAt
<1>6. CASE Reread(r)
  BY <1>1, <1>6, RereadFields
<1>7. CASE MarkDenyCommitted(r)
  BY <1>7, DenyFields DEF Shifted
<1>. QED BY <1>1, <1>2, <1>3, <1>4, <1>5, <1>6, <1>7
     DEF Step, At, LoadLedger, Prepare, AcquireFree, AcquireBusy, AcquireStale, CheckLocked, Guard, RegisterCleanup,
        MarkCleanupRegistered, BeginManagedCommit, CommitManagedState, MarkManagedCommitted, RollbackRead,
        RollbackRestored, RollbackFailed, BeginExpiredRecovery, Reconcile, CloseRecovery, RecoveryRefused,
        AuditRequest, AuditCommit, Release

LEMMA LeftStep ==
    ASSUME ConstantAssumption, TypeOK, WeakInv, LeaseInv, LeftInv, NEW r \in Requests, Step(r)
    PROVE  LeftInv'
<1>0. OpInv /\ ModeInv /\ LeftOf(r)
  BY DEF WeakInv, LeftInv
<1>1. ASSUME NEW q \in Requests, q # r PROVE LeftOf(q)'
  <2>1. req'[q] = req[q] /\ LeftOf(q)
    BY <1>1, LeaseBack DEF LeftInv
  <2>. QED BY <2>1 DEF LeftOf
<1>2. LeftOf(r)'
  <2>1. SUFFICES ASSUME req'[r].mode = "mutate", req'[r].pc \in {"replace", "fence", "write"}
                 PROVE  /\ req'[r].pc = "replace" => req'[r].base = req'[r].before
                        /\ req'[r].pc \in {"fence", "write"} =>
                              req'[r].left \cap req'[r].goal \cap req'[r].before = {}
    BY DEF LeftOf
  <2>2. req[r].pc \in {"begin", "replace", "fence", "write"} => req'[r].before = req[r].before
    BY <1>0, Kinds DEF Fresh
  <2>3. CASE BeginIdentityMutation(r) /\ req'[r].pc = "replace"
    BY <1>0, <2>2, <2>3, LeftMoves DEF BeginIdentityMutation, At
  <2>4. CASE ReplaceStart(r) /\ req[r].pc = "replace" /\ req'[r].pc = "fence" /\ req[r].mode = "mutate"
    <3>1. /\ req'[r].goal = req[r].goal
          /\ req'[r].left = (req[r].base \ req[r].goal) \cup (req[r].goal \ req[r].base)
          /\ req[r].base = req[r].before
      BY <1>0, <2>4, LeftMoves DEF LeftOf
    <3>. QED BY <2>2, <2>4, <3>1
  <2>5. CASE Fence(r) /\ req[r].pc = "fence" /\ req'[r].pc = "write" /\ req[r].mode = "mutate"
    BY <1>0, <2>2, <2>5, LeftMoves DEF LeftOf
  <2>6. CASE Write(r) /\ req[r].pc = "write" /\ req'[r].pc = "fence" /\ req[r].mode = "mutate"
    <3>1. /\ req'[r].goal = req[r].goal /\ req'[r].left \subseteq req[r].left
          /\ req[r].left \cap req[r].goal \cap req[r].before = {}
      BY <1>0, <2>6, LeftMoves DEF LeftOf
    <3>. QED BY <2>2, <2>6, <3>1
  <2>7. CASE Reread(r) /\ req'[r].pc = req[r].pc /\ req[r].mode = "mutate"
    BY <1>0, <2>1, <2>2, <2>7, LeftMoves DEF LeftOf
  <2>. QED BY <1>0, <2>1, <2>3, <2>4, <2>5, <2>6, <2>7, LeftPlaces
<1>. QED BY <1>1, <1>2 DEF LeftInv

LEMMA OwedNext ==
    ASSUME ConstantAssumption, TypeOK, WeakInv, LeaseInv, OwedInv, [Next]_vars
    PROVE  OwedInv'
<1>0. StageInv /\ RepairInv /\ GrantInv /\ LeftInv
  BY DEF OwedInv
<1>1. CASE \E r \in Requests : Step(r)
  BY <1>0, <1>1, StageStep, RepairStep, GrantStep, LeftStep DEF OwedInv
<1>2. CASE UNCHANGED <<lock, repair, req>>
  <2>1. StageInv'
    BY <1>0, <1>2 DEF StageInv, Waiting, Owner, InWork, Ending, SameLease
  <2>2. RepairInv'
    BY <1>0, <1>2 DEF RepairInv, Ending, SameLease
  <2>3. GrantInv'
    BY <1>0, <1>2 DEF GrantInv, Added, SameLease
  <2>4. LeftInv'
    BY <1>0, <1>2 DEF LeftInv, LeftOf
  <2>. QED BY <2>1, <2>2, <2>3, <2>4 DEF OwedInv
<1>. QED BY <1>1, <1>2 DEF Next, Expire, OtherLedgerWrite, vars

LEMMA OwedStart ==
    ASSUME ConstantAssumption, Init
    PROVE  OwedInv
<1>1. \A r \in Requests : req[r] = NewRequest /\ r # NoRequest
  BY DEF Init, ConstantAssumption
<1>2. /\ NewRequest.pc = "load" /\ NewRequest.mode = "mutate" /\ lock = NoLock
      /\ NoLock.op = NoRequest /\ NoLock.phase = "released" /\ NoLock.action = "none"
  BY DEF NewRequest, NoLock, Init
<1>. QED BY <1>1, <1>2 DEF OwedInv, StageInv, RepairInv, GrantInv, LeftInv, LeftOf, Waiting, Checking, Denying,
        Granting, Owner, InWork, Ending

(* Only a group call changes roles, and it grants nothing under cleanup. *)
LEMMA NoGrant ==
    ASSUME ConstantAssumption, TypeOK, WeakInv, LeaseInv, RolesInv, OwedInv, [Next]_vars,
           NEW r \in Requests, req[r].pc = "write", req[r].mode = "mutate", req'[r] # req[r],
           NEW o \in Requests \ {r}, Target[o] = Target[r], repair[o] \in {"deny_committed", "cleanup_registered"}
    PROVE  roles'[Target[r]] \subseteq roles[Target[r]]
<1>0. OpInv /\ ModeInv /\ Leased(r) /\ LeftOf(r) /\ GrantInv
  BY DEF WeakInv, LeaseInv, OwedInv, LeftInv
<1>1. Step(r)
  <2>1. CASE \E q \in Requests : Step(q)
    <3>1. PICK q \in Requests : Step(q)
      BY <2>1
    <3>2. q = r
      BY <3>1, LeaseBack
    <3>. QED BY <3>1, <3>2
  <2>. QED BY <2>1 DEF Next, Expire, OtherLedgerWrite, vars
<1>2. Added(r) = {}
  BY <1>0 DEF GrantInv, Granting, Leased
<1>3. req[r].goal = Desired[r] /\ Subject(r) = Target[r]
  BY DEF RolesInv, Subject, Op
<1>4. req[r].left \cap req[r].goal = {}
  BY <1>0, <1>2, <1>3 DEF LeftOf, Added
<1>5. CASE Write(r)
  <2>1. PICK g \in NextGroups(r) : roles' \in {roles, GroupApplied(r, g)}
    BY <1>5 DEF Write
  <2>2. g \in req[r].left
    BY DEF NextGroups
  <2>3. GroupApplied(r, g)[Target[r]] \subseteq roles[Target[r]]
    <3>1. Target[r] \in Users /\ roles \in [Users -> SUBSET Roles]
      BY DEF ConstantAssumption, TypeOK
    <3>2. GroupApplied(r, g)[Target[r]] = roles[Target[r]] \ {g}
      BY <1>3, <1>4, <2>2, <3>1 DEF GroupApplied
    <3>. QED BY <3>2
  <2>. QED BY <2>1, <2>3
<1>6. CASE ~Write(r)
  <2>1. UNCHANGED roles
    BY <1>1, <1>6 DEF Step, LoadLedger, Prepare, AcquireFree, AcquireBusy, AcquireStale, Reread, CheckLocked, Guard,
        BeginIdentityMutation, ReplaceStart, Fence, MarkDenyCommitted, RegisterCleanup,
        MarkCleanupRegistered, BeginManagedCommit, CommitManagedState, MarkManagedCommitted,
        RollbackRead, RollbackRestored, RollbackFailed, BeginExpiredRecovery, Reconcile,
        CloseRecovery, RecoveryRefused, AuditRequest, AuditCommit, Release
  <2>. QED BY <2>1
<1>. QED BY <1>5, <1>6

-----------------------------------------------------------------------------
(* The theorems.                                                           *)

(* What the environment leaves alone. *)
LEMMA Unmoved ==
    ASSUME UNCHANGED <<lock, roles, audit, manifests, req>>, ledger'.saved = ledger.saved,
           CompleteInv, CoverInv, RolesInv, AuditInv
    PROVE  CompleteInv' /\ CoverInv' /\ RolesInv' /\ AuditInv'
<1>1. CompleteInv'
  BY DEF CompleteInv, Vouches, Done, Removed, Op
<1>2. CoverInv' /\ RolesInv'
  BY DEF CoverInv, AlwaysARecoveryPrincipal, Covered, SameLease, RolesInv, Subject, Op, Ending
<1>3. AuditInv'
  BY DEF AuditInv, Recorded, Op, ReleasedAsRecorded
<1>. QED BY <1>1, <1>2, <1>3

LEMMA StrongNext ==
    ASSUME ConstantAssumption, StallInCall = FALSE, TypeOK, WeakInv, StrongInv, [Next]_vars
    PROVE  StrongInv'
<1>0. LeaseInv /\ CompleteInv /\ CoverInv /\ RolesInv /\ AuditInv
  BY DEF StrongInv
<1>1. CASE \E r \in Requests : Step(r)
  BY <1>0, <1>1, LeaseStep, CompleteStep, CoverStep, RolesStep, AuditStep DEF StrongInv
<1>2. CASE Expire
  <2>1. \A r \in Requests : ~(req[r].pc = "write" \/ req[r].unread)
    BY <1>0, <1>2 DEF Expire, LeaseInv, Leased
  <2>2. LeaseInv'
    BY <1>0, <1>2, <2>1 DEF Expire, LeaseInv, Leased, Sole, Owner, InWork, Ending, SameLease
  <2>. QED BY <1>0, <1>2, <2>2, Unmoved DEF Expire, StrongInv
<1>3. CASE OtherLedgerWrite \/ UNCHANGED vars
  <2>1. LeaseInv'
    BY <1>0, <1>3 DEF OtherLedgerWrite, vars, LeaseInv, Leased, Sole, Owner, InWork, Ending, SameLease
  <2>2. ledger'.saved = ledger.saved
    BY <1>3 DEF OtherLedgerWrite, vars, TypeOK
  <2>. QED BY <1>0, <1>3, <2>1, <2>2, Unmoved DEF OtherLedgerWrite, vars, StrongInv
<1>. QED BY <1>1, <1>2, <1>3 DEF Next

LEMMA StrongStart ==
    ASSUME ConstantAssumption, Init, \E u \in Users : SystemAdmin \in InitialRoles[u]
    PROVE  StrongInv
<1>1. \A r \in Requests : req[r] = NewRequest /\ audit[r] = NoAudit
  BY DEF Init
<1>2. /\ NewRequest.pc = "load" /\ NewRequest.mode = "mutate" /\ NewRequest.lease = NoLock
      /\ NewRequest.unread = FALSE /\ NoAudit.result = "none" /\ lock = NoLock
      /\ NoLock.op = NoRequest /\ NoLock.phase = "released" /\ NoLock.action = "none" /\ NoLock.token = 0
  BY DEF NewRequest, NoAudit, NoLock, Init
<1>3. LeaseInv
  BY <1>1, <1>2 DEF LeaseInv, Leased, Sole, Owner, InWork, Ending
<1>4. CompleteInv
  BY <1>1, <1>2 DEF CompleteInv, Vouches
<1>5. CoverInv
  BY <1>1, <1>2 DEF CoverInv, AlwaysARecoveryPrincipal, Init
<1>6. RolesInv /\ AuditInv
  BY <1>1, <1>2 DEF RolesInv, AuditInv, ReleasedAsRecorded, Ending
<1>. QED BY <1>3, <1>4, <1>5, <1>6 DEF StrongInv

(* What the theorems below are about: the lease outlives the call it       *)
(* guards, and the tenant has a recovery principal to begin with.          *)
Premises == StallInCall = FALSE /\ \E u \in Users : SystemAdmin \in InitialRoles[u]

(* The inductive invariant. *)
THEOREM MutationInvariant ==
    ASSUME Premises
    PROVE  Spec => [](TypeOK /\ WeakInv /\ StrongInv)
<1>1. Init => TypeOK /\ WeakInv /\ StrongInv
  BY ConstantAssumption, WeakStart, StrongStart DEF Premises
<1>2. TypeOK /\ WeakInv /\ StrongInv /\ [Next]_vars => (TypeOK /\ WeakInv /\ StrongInv)'
  BY ConstantAssumption, WeakNext, StrongNext DEF Premises
<1>. QED BY <1>1, <1>2, PTL DEF Spec

(* The tenant never loses its last recovery principal, however the         *)
(* mutations that demote each other's actors interleave, expire and are    *)
(* recovered (validate under the lock).                                    *)
THEOREM RecoveryPrincipalKept ==
    ASSUME Premises
    PROVE  Spec => []AlwaysARecoveryPrincipal
<1>1. StrongInv => AlwaysARecoveryPrincipal
  BY DEF StrongInv, CoverInv
<1>. QED BY <1>1, MutationInvariant, PTL

(* A lock that a success or a failure released leaves the provider with    *)
(* exactly the roles the audit outcome names.                              *)
THEOREM ReleaseIsTrue ==
    ASSUME Premises
    PROVE  Spec => []ReleasedAsRecorded
<1>1. StrongInv => ReleasedAsRecorded
  BY DEF StrongInv, AuditInv
<1>. QED BY <1>1, MutationInvariant, PTL

(* A mutation recorded as a success is in the admin ledger, and the roles  *)
(* it removed were handed to the revocation cleanup, whoever recorded it.  *)
THEOREM RecordedSuccessIsComplete ==
    ASSUME Premises
    PROVE  Spec => []SuccessIsComplete
<1>1. StrongInv => SuccessIsComplete
  BY DEF StrongInv, CompleteInv, Done, SuccessIsComplete
<1>. QED BY <1>1, MutationInvariant, PTL

(* No step grants a mutation's new role to an account whose revocation     *)
(* cleanup another mutation owes, although the repair fence is read only   *)
(* once, several calls before the group is added                           *)
(* (assertResourceFenceReleased under the lock).                           *)
THEOREM NothingGrantedUnderCleanup ==
    ASSUME Premises
    PROVE  Spec => NoGrantUnderCleanup
<1>. DEFINE Inv == TypeOK /\ WeakInv /\ StrongInv
            Step1 == \A r \in Requests :
                (req[r].pc = "write" /\ req[r].mode = "mutate" /\ req'[r] # req[r]) =>
                    \A o \in Requests \ {r} :
                        (Target[o] = Target[r] /\ repair[o] \in {"deny_committed", "cleanup_registered"}) =>
                            roles'[Target[r]] \subseteq roles[Target[r]]
<1>1. Init => OwedInv
  BY ConstantAssumption, OwedStart
<1>2. Inv /\ OwedInv /\ [Next]_vars => OwedInv'
  BY ConstantAssumption, OwedNext DEF StrongInv
<1>3. Inv /\ OwedInv /\ [Next]_vars => [Step1]_vars
  BY ConstantAssumption, NoGrant DEF StrongInv
<1>. QED BY <1>1, <1>2, <1>3, MutationInvariant, PTL DEF Spec, NoGrantUnderCleanup
=============================================================================
