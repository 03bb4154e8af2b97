-------------------------- MODULE FolderMoveProofs --------------------------
(***************************************************************************)
(* Proofs about the move of a folder.                                      *)
(***************************************************************************)
EXTENDS FolderMove, TLAPS, WellFoundedInduction

-----------------------------------------------------------------------------
(* The next document of a move is one of those that are left.              *)
LEMMA FirstIsLeft ==
    ASSUME NEW S, S \subseteq Nat, S # {}
    PROVE  First(S) \in S
<1>1. PICK d \in S : \A e \in S : ~(<<e, d>> \in OpToRel(<, Nat))
  BY NatLessThanWellFounded, WFMin
<1>2. \A e \in S : d <= e
  <2>1. SUFFICES ASSUME NEW e \in S, ~(d <= e) PROVE FALSE
    OBVIOUS
  <2>2. d \in Nat /\ e \in Nat /\ e < d
    BY <2>1
  <2>3. <<e, d>> \in OpToRel(<, Nat)
    BY <2>2 DEF OpToRel
  <2>4. QED
    BY <1>1, <2>3
<1>3. QED
  BY <1>2 DEF First

-----------------------------------------------------------------------------
(* Type correctness, by the parts of the state that a step writes.  What   *)
(* was edited is counted, so that no revision leaves its range.            *)

(* An operation is numbered when it begins.                                *)
StoredTyped ==
    /\ state \in [op : 0..MaxOps, status : Statuses]
    /\ current \subseteq Clients
    /\ IF state.status = "none" THEN state.op = 0 /\ current = {} ELSE state.op \in Ops

RecordTyped(r) ==
    /\ r \in [folders : [Folders -> FolderRecord], docs : [Docs -> ManifestRecord]]
    /\ \A f \in Folders : r.folders[f].rev <= edits
    /\ \A d \in Docs : r.docs[d].rev <= edits

IntentTyped ==
    /\ intent \in [Ops -> [folders : [Folders -> FolderRecord], docs : [Docs -> ManifestRecord]]]
    /\ \A o \in Ops : RecordTyped(intent[o])

FolderTyped ==
    /\ folder \in [Folders -> FolderRecord]
    /\ \A f \in Folders : folder[f].rev <= edits

ManifestTyped ==
    /\ manifest \in [Docs -> ManifestRecord]
    /\ \A d \in Docs : manifest[d].rev <= edits

VectorsTyped == vectors \in [Docs -> [op : 0..MaxOps, mode : {"active", "staging"}]]
AuditTyped == audit \in [Ops -> {"none", "open", "success", "failure"}]

ClientTyped ==
    /\ client \in [Clients -> ClientRecord]
    /\ \A c \in Clients : client[c].pc # "idle" => client[c].op \in Ops

BoundsTyped == edits \in 0..MaxEdits /\ faults \in 0..MaxFaults /\ crashes \in 0..MaxCrashes

TypeInv ==
    /\ StoredTyped /\ IntentTyped /\ FolderTyped /\ ManifestTyped /\ VectorsTyped
    /\ AuditTyped /\ ClientTyped /\ BoundsTyped

(* A step that leaves a part alone, and does not take edits back, keeps    *)
(* its type.                                                               *)
LEMMA UnchangedTyped ==
    ASSUME TypeInv, edits' \in Nat, edits <= edits'
    PROVE  /\ UNCHANGED <<state, current>> => StoredTyped'
           /\ UNCHANGED intent => IntentTyped'
           /\ UNCHANGED folder => FolderTyped'
           /\ UNCHANGED manifest => ManifestTyped'
           /\ UNCHANGED vectors => VectorsTyped'
           /\ UNCHANGED audit => AuditTyped'
           /\ UNCHANGED client => ClientTyped'
<1>1. edits \in Nat
  BY DEF TypeInv, BoundsTyped
<1>2. UNCHANGED intent => IntentTyped'
  <2>1. SUFFICES ASSUME UNCHANGED intent, NEW o \in Ops PROVE RecordTyped(intent[o])'
    BY DEF TypeInv, IntentTyped
  <2>2. RecordTyped(intent[o])
    BY DEF TypeInv, IntentTyped
  <2>3. intent[o] = intent'[o]
    BY <2>1
  <2>4. \A f \in Folders : intent[o].folders[f].rev \in Nat
    BY <2>2 DEF RecordTyped, FolderRecord
  <2>5. \A d \in Docs : intent[o].docs[d].rev \in Nat
    BY <2>2 DEF RecordTyped, ManifestRecord
  <2>6. QED
    BY <2>2, <2>3, <2>4, <2>5, <1>1 DEF RecordTyped
<1>3. UNCHANGED folder => FolderTyped'
  BY <1>1 DEF TypeInv, FolderTyped, FolderRecord
<1>4. UNCHANGED manifest => ManifestTyped'
  BY <1>1 DEF TypeInv, ManifestTyped, ManifestRecord
<1>5. QED
  BY <1>2, <1>3, <1>4 DEF TypeInv, StoredTyped, VectorsTyped, AuditTyped, ClientTyped

(* What a client is written to be, by the label it goes to.                *)
LEMMA StepTyped ==
    ASSUME TypeInv, NEW c \in Clients, NEW rec \in ClientRecord, Step(c, rec),
           rec.pc # "idle" => rec.op \in Ops
    PROVE  /\ ClientTyped'
           /\ client'[c] = rec
BY DEF TypeInv, ClientTyped, Step

(* To another label.                                                       *)
LEMMA ToTyped ==
    ASSUME TypeInv, NEW c \in Clients, client[c].pc # "idle", NEW pc, To(c, pc),
           pc \in {"run", "stage", "stage_vectors", "assert", "write", "caught", "committed",
                   "converge", "converge_manifest", "postpone", "recorded", "mark_rollback",
                   "rollback", "restore", "restore_manifest", "restored"}
    PROVE  /\ ClientTyped'
           /\ client'[c] = [client[c] EXCEPT !.pc = pc]
           /\ client'[c].pc = pc /\ client'[c].op = client[c].op
           /\ client'[c].status = client[c].status /\ client'[c].todo = client[c].todo
<1>1. client[c] \in ClientRecord /\ client[c].op \in Ops
  BY DEF TypeInv, ClientTyped
<1>2. [client[c] EXCEPT !.pc = pc] \in ClientRecord
  BY <1>1 DEF ClientRecord
<1>3. [client[c] EXCEPT !.pc = pc].op = client[c].op /\ [client[c] EXCEPT !.pc = pc].pc = pc
  BY <1>1 DEF ClientRecord
<1>4. QED
  BY <1>1, <1>2, <1>3, StepTyped DEF To, ClientRecord

(* To another label, with the documents that are left to do.               *)
LEMMA TodoTyped ==
    ASSUME TypeInv, NEW c \in Clients, client[c].pc # "idle", NEW todo \in SUBSET Docs,
           NEW pc \in {"stage", "converge", "restore"},
           Step(c, [client[c] EXCEPT !.pc = pc, !.todo = todo])
    PROVE  /\ ClientTyped'
           /\ client'[c].pc = pc /\ client'[c].op = client[c].op
           /\ client'[c].status = client[c].status /\ client'[c].todo = todo
<1> DEFINE rec == [client[c] EXCEPT !.pc = pc, !.todo = todo]
<1>1. client[c] \in ClientRecord /\ client[c].op \in Ops
  BY DEF TypeInv, ClientTyped
<1>2. rec \in ClientRecord /\ rec.op = client[c].op /\ rec.pc = pc
      /\ rec.status = client[c].status /\ rec.todo = todo
  BY <1>1 DEF ClientRecord
<1>3. QED
  BY <1>1, <1>2, StepTyped

(* The end of a request.                                                   *)
LEMMA EndTyped ==
    ASSUME TypeInv, NEW c \in Clients, End(c)
    PROVE  ClientTyped' /\ client'[c] = Idle
<1>1. Idle \in ClientRecord /\ Idle.pc = "idle"
  BY ConstantAssumption DEF Idle, ClientRecord, Statuses
<1>2. QED
  BY <1>1, StepTyped DEF End

(* What an advance of the stored state may do.                             *)
LEMMA AdvanceTyped ==
    ASSUME TypeInv, NEW c \in Clients, client[c].pc # "idle", NEW status \in Statuses \ {"none"},
           NEW pc \in {"run", "rollback"}, Advance(c, status, pc)
    PROVE  StoredTyped' /\ ClientTyped'
<1>1. client[c] \in ClientRecord /\ client[c].op \in Ops /\ Ops \subseteq 0..MaxOps
  BY ConstantAssumption DEF TypeInv, ClientTyped, Ops
<1>2. CASE c \in current
  <2> DEFINE rec == [client[c] EXCEPT !.status = status, !.pc = pc]
  <2>1. rec \in ClientRecord /\ rec.op = client[c].op
    BY <1>1 DEF ClientRecord
  <2>2. ClientTyped'
    BY <1>1, <1>2, <2>1, StepTyped DEF Advance
  <2>3. state' = [op |-> client[c].op, status |-> status] /\ current' = {c}
    BY <1>2 DEF Advance
  <2>4. QED
    BY <1>1, <2>2, <2>3 DEF StoredTyped
<1>3. CASE c \notin current /\ state.op = client[c].op
  <2> DEFINE rec == [client[c] EXCEPT !.status = state.status, !.pc = pc]
  <2>1. rec \in ClientRecord /\ rec.op = client[c].op
    BY <1>1 DEF ClientRecord, TypeInv, StoredTyped
  <2>2. ClientTyped'
    BY <1>1, <1>3, <2>1, StepTyped DEF Advance
  <2>3. state' = state /\ current' = current \cup {c}
    BY <1>3 DEF Advance
  <2>4. state.op # 0 /\ (state.status = "none" => state.op = 0)
    BY <1>1, <1>3 DEF TypeInv, StoredTyped, Ops
  <2>5. QED
    BY <1>1, <1>3, <2>2, <2>3, <2>4 DEF StoredTyped, TypeInv
<1>4. CASE c \notin current /\ state.op # client[c].op
  <2>1. ClientTyped' /\ UNCHANGED <<state, current>>
    BY <1>4, EndTyped DEF Advance
  <2>2. QED
    BY <2>1 DEF StoredTyped, TypeInv
<1>5. QED
  BY <1>2, <1>3, <1>4

-----------------------------------------------------------------------------
(* Every step keeps the types.                                             *)

(* A fault is counted within its bound.                                    *)
LEMMA FaultTyped ==
    ASSUME TypeInv, UNCHANGED <<edits, crashes>>, UNCHANGED faults \/ Fault
    PROVE  BoundsTyped' /\ edits' \in Nat /\ edits <= edits'
BY ConstantAssumption DEF TypeInv, BoundsTyped, Fault

(* A client of a move reads what was recorded of a document.               *)
LEMMA DocumentRecorded ==
    ASSUME TypeInv, NEW o \in Ops, NEW d \in Docs
    PROVE  intent[o].docs[d] \in ManifestRecord /\ intent[o].docs[d].rev <= edits
BY DEF TypeInv, IntentTyped, RecordTyped

(* A manifest that is written keeps or takes back a revision.              *)
LEMMA ManifestWritten ==
    ASSUME TypeInv, UNCHANGED edits, NEW d, NEW m \in ManifestRecord, m.rev <= edits,
           manifest' = [manifest EXCEPT ![d] = m]
    PROVE  ManifestTyped'
BY DEF TypeInv, ManifestTyped

(* Steps that move the client on and write nothing.                        *)
LEMMA ClientOnlyTyped ==
    ASSUME TypeInv, NEW c \in Clients,
           \/ BeginStaging(c) \/ CheckCommit(c) \/ AssertHidden(c) \/ Caught(c) \/ BeginConverging(c)
           \/ Return(c) \/ BeginRollback(c) \/ Crash(c)
    PROVE  TypeInv'
<1>1. UNCHANGED <<state, current, intent, folder, manifest, vectors, audit, edits>>
  BY DEF BeginStaging, CheckCommit, AssertHidden, Caught, BeginConverging, Return, BeginRollback,
         Crash, stored, tree, bounds
<1>2. BoundsTyped' /\ edits' \in Nat /\ edits <= edits'
  <2>1. CASE Crash(c)
    BY <2>1, ConstantAssumption DEF Crash, TypeInv, BoundsTyped
  <2>2. CASE ~Crash(c)
    <3>1. UNCHANGED <<edits, crashes>> /\ (UNCHANGED faults \/ Fault)
      BY <2>2 DEF BeginStaging, CheckCommit, AssertHidden, Caught, BeginConverging, Return,
                  BeginRollback, bounds
    <3>2. QED
      BY <3>1, FaultTyped
  <2>3. QED
    BY <2>1, <2>2
<1>3. \A o \in Ops : Covered(o) \in SUBSET Docs
  BY DEF Covered
<1>4. client[c].pc # "idle" => client[c].op \in Ops
  BY DEF TypeInv, ClientTyped
<1>5. ClientTyped'
  <2>1. CASE BeginStaging(c)
    BY <1>3, <1>4, <2>1, TodoTyped DEF BeginStaging
  <2>2. CASE CheckCommit(c)
    BY <2>2, ToTyped DEF CheckCommit
  <2>3. CASE AssertHidden(c)
    BY <2>3, ToTyped DEF AssertHidden
  <2>4. CASE Caught(c)
    BY <2>4, ToTyped DEF Caught
  <2>5. CASE BeginConverging(c)
    BY <1>3, <1>4, <2>5, TodoTyped, ToTyped DEF BeginConverging
  <2>6. CASE Return(c)
    BY <2>6, EndTyped DEF Return
  <2>7. CASE BeginRollback(c)
    BY <1>3, <1>4, <2>7, TodoTyped, ToTyped DEF BeginRollback
  <2>8. CASE Crash(c)
    BY <2>8, EndTyped DEF Crash
  <2>9. QED
    BY <2>1, <2>2, <2>3, <2>4, <2>5, <2>6, <2>7, <2>8
<1>6. QED
  BY <1>1, <1>2, <1>5, UnchangedTyped DEF TypeInv

(* Steps that write the stored state, and at most the audit besides.       *)
LEMMA AdvancesTyped ==
    ASSUME TypeInv, NEW c \in Clients,
           \/ Prepare(c) \/ Staged(c) \/ Committed(c) \/ Converged(c) \/ Finish(c) \/ MarkRollback(c)
           \/ RolledBack(c)
    PROVE  TypeInv'
<1>1. UNCHANGED <<intent, folder, manifest, vectors, edits, faults, crashes>>
  BY DEF Prepare, Staged, Committed, Converged, Finish, MarkRollback, RolledBack, tree, bounds
<1>2. BoundsTyped' /\ edits' \in Nat /\ edits <= edits'
  BY <1>1, FaultTyped
<1>3. StoredTyped' /\ ClientTyped'
  <2>1. CASE Prepare(c)
    BY <2>1, AdvanceTyped DEF Prepare, Statuses
  <2>2. CASE Staged(c)
    BY <2>2, AdvanceTyped DEF Staged, Statuses
  <2>3. CASE Committed(c)
    BY <2>3, AdvanceTyped DEF Committed, Statuses
  <2>4. CASE Converged(c)
    BY <2>4, AdvanceTyped DEF Converged, Statuses
  <2>5. CASE Finish(c)
    BY <2>5, AdvanceTyped DEF Finish, Statuses
  <2>6. CASE MarkRollback(c)
    BY <2>6, AdvanceTyped DEF MarkRollback, Statuses
  <2>7. CASE RolledBack(c)
    BY <2>7, AdvanceTyped DEF RolledBack, Statuses
  <2>8. QED
    BY <2>1, <2>2, <2>3, <2>4, <2>5, <2>6, <2>7
<1>4. AuditTyped'
  <2>1. UNCHANGED audit \/ audit' = [audit EXCEPT ![client[c].op] = "open"]
    BY DEF Prepare, Staged, Committed, Converged, Finish, MarkRollback, RolledBack
  <2>2. QED
    BY <2>1 DEF TypeInv, AuditTyped
<1>5. QED
  BY <1>1, <1>2, <1>3, <1>4, UnchangedTyped DEF TypeInv

(* Steps that write a document or its index records.                       *)
LEMMA DocumentStepTyped ==
    ASSUME TypeInv, NEW c \in Clients,
           \/ Stage(c) \/ StageVectors(c) \/ Converge(c) \/ ConvergeManifest(c)
           \/ RestoreVectors(c) \/ RestoreManifest(c)
    PROVE  TypeInv'
<1> DEFINE d == First(client[c].todo)
<1>1. UNCHANGED <<state, current, intent, folder, audit, edits, crashes>>
      /\ (UNCHANGED faults \/ Fault)
  BY DEF Stage, StageVectors, Converge, ConvergeManifest, RestoreVectors, RestoreManifest, stored
<1>2. BoundsTyped' /\ edits' \in Nat /\ edits <= edits'
  BY <1>1, FaultTyped
<1>3. client[c].pc # "idle" /\ client[c].op \in Ops /\ client[c].todo \subseteq Docs
  BY DEF TypeInv, ClientTyped, ClientRecord, Stage, StageVectors, Converge, ConvergeManifest,
         RestoreVectors, RestoreManifest
<1>4. ClientTyped'
  <2>1. client[c].todo \ {d} \in SUBSET Docs
    BY <1>3
  <2>2. CASE Stage(c)
    BY <1>3, <2>2, ToTyped DEF Stage
  <2>3. CASE StageVectors(c)
    <3>1. \/ Step(c, [client[c] EXCEPT !.pc = "stage", !.todo = client[c].todo \ {d}])
          \/ To(c, "mark_rollback")
      BY <2>3 DEF StageVectors
    <3>2. QED
      BY <1>3, <2>1, <3>1, ToTyped, TodoTyped
  <2>4. CASE Converge(c)
    BY <1>3, <2>4, ToTyped DEF Converge
  <2>5. CASE ConvergeManifest(c)
    <3>1. \/ Step(c, [client[c] EXCEPT !.pc = "converge", !.todo = client[c].todo \ {d}])
          \/ To(c, "postpone")
      BY <2>5 DEF ConvergeManifest
    <3>2. QED
      BY <1>3, <2>1, <3>1, ToTyped, TodoTyped
  <2>6. CASE RestoreVectors(c)
    BY <1>3, <2>6, ToTyped, EndTyped DEF RestoreVectors
  <2>7. CASE RestoreManifest(c)
    <3>1. \/ Step(c, [client[c] EXCEPT !.pc = "restore", !.todo = client[c].todo \ {d}])
          \/ End(c)
      BY <2>7 DEF RestoreManifest
    <3>2. QED
      BY <1>3, <2>1, <3>1, EndTyped, TodoTyped
  <2>8. QED
    BY <2>2, <2>3, <2>4, <2>5, <2>6, <2>7
<1>5. ManifestTyped' /\ VectorsTyped'
  <2>1. CASE d \in Docs
    <3>1. intent[client[c].op].docs[d] \in ManifestRecord /\ intent[client[c].op].docs[d].rev <= edits
      BY <1>3, <2>1, DocumentRecorded
    <3>2. manifest[d] \in ManifestRecord /\ manifest[d].rev <= edits
      BY <2>1 DEF TypeInv, ManifestTyped
    <3>3. client[c].op \in 0..MaxOps /\ Ops \subseteq 0..MaxOps
      BY <1>3, ConstantAssumption DEF Ops
    <3> DEFINE source == intent[client[c].op].docs[d]
               hidden == [source EXCEPT !.op = client[c].op, !.mode = "staging"]
               target == [source EXCEPT !.op = client[c].op]
    <3>4. hidden \in ManifestRecord /\ hidden.rev <= edits
      BY <3>1, <3>3 DEF ManifestRecord
    <3>5. target \in ManifestRecord /\ target.rev <= edits
      BY <3>1, <3>3 DEF ManifestRecord
    <3>6. PICK m \in ManifestRecord : m.rev <= edits /\ (UNCHANGED manifest \/ manifest' = [manifest EXCEPT ![d] = m])
      <4>1. UNCHANGED manifest \/ \E m \in {hidden, target, source, manifest[d]} : manifest' = [manifest EXCEPT ![d] = m]
        BY DEF Stage, StageVectors, Converge, ConvergeManifest, RestoreVectors, RestoreManifest
      <4>2. QED
        BY <3>1, <3>2, <3>4, <3>5, <4>1
    <3>7. ManifestTyped'
      BY <1>1, <1>2, <3>6, ManifestWritten, UnchangedTyped
    <3>8. UNCHANGED vectors \/ \E v \in [op : 0..MaxOps, mode : {"active", "staging"}] : vectors' = [vectors EXCEPT ![d] = v]
      <4>1. source.op \in 0..MaxOps
        BY <3>1 DEF ManifestRecord
      <4>2. QED
        BY <3>3, <4>1 DEF Stage, StageVectors, Converge, ConvergeManifest, RestoreVectors, RestoreManifest
    <3>9. QED
      BY <3>7, <3>8 DEF TypeInv, VectorsTyped
  <2>2. CASE d \notin Docs
    <3>1. UNCHANGED manifest \/ \E m : manifest' = [manifest EXCEPT ![d] = m]
      BY DEF Stage, StageVectors, Converge, ConvergeManifest, RestoreVectors, RestoreManifest
    <3>2. UNCHANGED vectors \/ \E v : vectors' = [vectors EXCEPT ![d] = v]
      BY DEF Stage, StageVectors, Converge, ConvergeManifest, RestoreVectors, RestoreManifest
    <3>3. manifest' = manifest /\ vectors' = vectors
      BY <2>2, <3>1, <3>2 DEF TypeInv, ManifestTyped, VectorsTyped
    <3>4. QED
      BY <1>2, <3>3, UnchangedTyped
  <2>3. QED
    BY <2>1, <2>2
<1>6. QED
  BY <1>1, <1>2, <1>4, <1>5, UnchangedTyped DEF TypeInv

(* A request that begins a move, or takes the stored one up.               *)
LEMMA OpenTyped ==
    ASSUME TypeInv, NEW c \in Clients, Open(c)
    PROVE  TypeInv'
<1>1. UNCHANGED <<folder, manifest, vectors, audit, edits, faults, crashes>>
  BY DEF Open, tree, bounds
<1>2. BoundsTyped' /\ edits' \in Nat /\ edits <= edits'
  BY <1>1, FaultTyped
<1>3. CASE state.status \in Terminal
  <2> DEFINE o == state.op + 1
             rec == [Idle EXCEPT !.pc = "run", !.op = o, !.status = "initialized"]
  <2>1. o \in Ops /\ Ops \subseteq 0..MaxOps
    BY <1>3, ConstantAssumption DEF Open, TypeInv, StoredTyped, Ops
  <2>2. /\ state' = [op |-> o, status |-> "initialized"] /\ current' = {c}
        /\ intent' = [intent EXCEPT ![o] = Snapshot] /\ Step(c, rec)
    BY <1>3 DEF Open
  <2>3. StoredTyped' /\ state'.op \in Ops
    BY <2>1, <2>2 DEF StoredTyped, Statuses
  <2>4. ClientTyped'
    <3>1. rec \in ClientRecord /\ rec.op = o
      BY <2>1 DEF Idle, ClientRecord, Statuses
    <3>2. QED
      BY <2>1, <2>2, <3>1, StepTyped
  <2>5. IntentTyped'
    <3>1. Snapshot \in [folders : [Folders -> FolderRecord], docs : [Docs -> ManifestRecord]]
          /\ Snapshot.folders = folder /\ Snapshot.docs = manifest
      BY DEF Snapshot, TypeInv, FolderTyped, ManifestTyped
    <3>2. RecordTyped(Snapshot)
      BY <3>1 DEF RecordTyped, TypeInv, FolderTyped, ManifestTyped
    <3>3. \A p \in Ops : RecordTyped(intent'[p])
      BY <2>1, <2>2, <3>2 DEF TypeInv, IntentTyped
    <3>4. \A p \in Ops : RecordTyped(intent[p])'
      BY <1>1, <3>3 DEF RecordTyped
    <3>5. QED
      BY <2>2, <3>1, <3>4 DEF TypeInv, IntentTyped
  <2>6. QED
    BY <1>1, <1>2, <2>3, <2>4, <2>5, UnchangedTyped DEF TypeInv
<1>4. CASE state.status \notin Terminal
  <2> DEFINE rec == [Idle EXCEPT !.pc = "run", !.op = state.op, !.status = state.status]
  <2>1. UNCHANGED <<state, intent>> /\ current' = current \cup {c} /\ Step(c, rec)
    BY <1>4 DEF Open
  <2>2. state.op \in Ops /\ Ops \subseteq 0..MaxOps /\ state.status \in Statuses
    BY <1>4, ConstantAssumption DEF Terminal, TypeInv, StoredTyped, Ops
  <2>3. rec \in ClientRecord /\ rec.op = state.op
    BY <2>2 DEF Idle, ClientRecord, Statuses
  <2>4. ClientTyped'
    BY <2>1, <2>2, <2>3, StepTyped
  <2>5. StoredTyped'
    BY <1>4, <2>1 DEF StoredTyped, TypeInv, Terminal
  <2>6. QED
    BY <1>1, <1>2, <2>1, <2>4, <2>5, UnchangedTyped DEF TypeInv
<1>5. QED
  BY <1>3, <1>4

(* The one transaction on the folders.                                     *)
LEMMA CommitSubtreeTyped ==
    ASSUME TypeInv, NEW c \in Clients, CommitSubtree(c)
    PROVE  TypeInv'
<1>1. UNCHANGED <<state, current, intent, manifest, vectors, audit, edits, crashes>>
      /\ (UNCHANGED faults \/ Fault)
  BY DEF CommitSubtree, stored
<1>2. BoundsTyped' /\ edits' \in Nat /\ edits <= edits'
  BY <1>1, FaultTyped
<1>3. ClientTyped'
  BY ToTyped DEF CommitSubtree
<1>4. FolderTyped'
  <2>1. client[c].op \in Ops /\ Ops \subseteq 0..MaxOps /\ MaxEdits \in Nat /\ edits \in Nat
    BY ConstantAssumption DEF TypeInv, ClientTyped, BoundsTyped, CommitSubtree, Ops
  <2>2. CASE Placed(client[c].op)
    <3> DEFINE place == [op |-> client[c].op, rev |-> 0]
    <3>1. 0 \in 0..MaxEdits
      BY <2>1
    <3>2. client[c].op \in 0..MaxOps
      BY <2>1
    <3>3. place \in FolderRecord /\ place.rev = 0
      BY <3>1, <3>2 DEF FolderRecord
    <3>4. folder' = [f \in Folders |-> place]
      BY <2>2 DEF Placed
    <3> HIDE DEF place
    <3>5. folder' \in [Folders -> FolderRecord] /\ \A f \in Folders : folder'[f].rev = 0
      BY <3>3, <3>4
    <3>6. 0 <= edits'
      BY <1>2
    <3>7. QED
      BY <3>5, <3>6 DEF FolderTyped
  <2>3. CASE UNCHANGED folder
    BY <1>2, <2>3, UnchangedTyped
  <2>4. Placed(client[c].op) \/ UNCHANGED folder
    BY DEF CommitSubtree
  <2>5. QED
    BY <2>2, <2>3, <2>4
<1>5. QED
  BY <1>1, <1>2, <1>3, <1>4, UnchangedTyped DEF TypeInv

(* The steps that end a request or record its outcome.                     *)
LEMMA RecordStepTyped ==
    ASSUME TypeInv, NEW c \in Clients, Postpone(c) \/ Record(c) \/ RecordRollback(c)
    PROVE  TypeInv'
<1>1. UNCHANGED <<intent, folder, manifest, vectors, edits, faults, crashes>>
  BY DEF Postpone, Record, RecordRollback, stored, tree, bounds
<1>2. BoundsTyped' /\ edits' \in Nat /\ edits <= edits'
  BY <1>1, FaultTyped
<1>3. ClientTyped'
  BY EndTyped, ToTyped DEF Postpone, Record, RecordRollback
<1>4. StoredTyped' /\ AuditTyped'
  <2>1. CASE Postpone(c) /\ c \in current
    <3>1. state' = [state EXCEPT !.status = "reconciliation_pending"] /\ current' = {} /\ audit' = audit
      BY <2>1 DEF Postpone
    <3>2. state.status # "none"
      BY <2>1 DEF TypeInv, StoredTyped
    <3>3. QED
      BY <2>1, <3>1, <3>2 DEF TypeInv, StoredTyped, AuditTyped, Statuses
  <2>2. CASE Postpone(c) /\ c \notin current
    BY <2>2 DEF Postpone, TypeInv, StoredTyped, AuditTyped
  <2>3. CASE Record(c) \/ RecordRollback(c)
    <3>1. UNCHANGED <<state, current>>
      BY <2>3 DEF Record, RecordRollback, stored
    <3>2. AuditTyped'
      BY <2>3 DEF Record, RecordRollback, Complete, TypeInv, AuditTyped
    <3>3. QED
      BY <3>1, <3>2 DEF TypeInv, StoredTyped
  <2>4. QED
    BY <2>1, <2>2, <2>3
<1>5. QED
  BY <1>1, <1>2, <1>3, <1>4, UnchangedTyped DEF TypeInv

(* The edits of other actors.                                              *)
LEMMA EditTyped ==
    ASSUME TypeInv, (\E d \in Docs : EditDocument(d)) \/ (\E f \in Folders : EditFolder(f))
    PROVE  TypeInv'
<1>1. UNCHANGED <<state, current, intent, vectors, audit, client, faults, crashes>>
  BY DEF EditDocument, EditFolder, stored
<1>2. edits < MaxEdits /\ edits' = edits + 1
  BY DEF EditDocument, EditFolder
<1>3. BoundsTyped' /\ edits' \in Nat /\ edits <= edits'
  BY <1>1, <1>2, ConstantAssumption DEF TypeInv, BoundsTyped
<1>4. ManifestTyped'
  <2>1. CASE UNCHANGED manifest
    BY <1>3, <2>1, UnchangedTyped
  <2>2. ASSUME NEW d \in Docs, EditDocument(d) PROVE ManifestTyped'
    <3>1. manifest' = [manifest EXCEPT ![d].rev = @ + 1]
      BY <2>2 DEF EditDocument
    <3>2. \A e \in Docs : manifest[e] \in ManifestRecord /\ manifest[e].rev <= edits
                          /\ manifest[e].rev \in Nat /\ edits \in Nat /\ MaxEdits \in Nat
      BY ConstantAssumption DEF TypeInv, ManifestTyped, ManifestRecord, BoundsTyped
    <3> DEFINE next == [manifest[d] EXCEPT !.rev = @ + 1]
    <3>3. next \in ManifestRecord /\ next.rev <= edits'
      BY <1>2, <3>2 DEF ManifestRecord
    <3>4. manifest' = [manifest EXCEPT ![d] = next]
      BY <3>1
    <3> HIDE DEF next
    <3>5. QED
      BY <1>2, <3>2, <3>3, <3>4 DEF TypeInv, ManifestTyped
  <2>3. QED
    BY <2>1, <2>2 DEF EditFolder
<1>5. FolderTyped'
  <2>1. CASE UNCHANGED folder
    BY <1>3, <2>1, UnchangedTyped
  <2>2. ASSUME NEW f \in Folders, EditFolder(f) PROVE FolderTyped'
    <3>1. folder' = [folder EXCEPT ![f].rev = @ + 1]
      BY <2>2 DEF EditFolder
    <3>2. \A e \in Folders : folder[e] \in FolderRecord /\ folder[e].rev <= edits
                             /\ folder[e].rev \in Nat /\ edits \in Nat /\ MaxEdits \in Nat
      BY ConstantAssumption DEF TypeInv, FolderTyped, FolderRecord, BoundsTyped
    <3> DEFINE next == [folder[f] EXCEPT !.rev = @ + 1]
    <3>3. next \in FolderRecord /\ next.rev <= edits'
      BY <1>2, <3>2 DEF FolderRecord
    <3>4. folder' = [folder EXCEPT ![f] = next]
      BY <3>1
    <3> HIDE DEF next
    <3>5. QED
      BY <1>2, <3>2, <3>3, <3>4 DEF TypeInv, FolderTyped
  <2>3. QED
    BY <2>1, <2>2 DEF EditDocument
<1>6. QED
  BY <1>1, <1>3, <1>4, <1>5, UnchangedTyped DEF TypeInv

(* A step of the specification keeps the types.                            *)
LEMMA TypeStep ==
    ASSUME TypeInv, [Next]_vars
    PROVE  TypeInv'
<1>1. ASSUME NEW c \in Clients, ClientStep(c) \/ Crash(c) PROVE TypeInv'
  BY <1>1, ClientOnlyTyped, AdvancesTyped, DocumentStepTyped, OpenTyped, CommitSubtreeTyped,
     RecordStepTyped DEF ClientStep
<1>2. CASE UNCHANGED vars
  <2>1. UNCHANGED <<state, current, intent, folder, manifest, vectors, audit, client, edits, faults, crashes>>
    BY <1>2 DEF vars
  <2>2. BoundsTyped' /\ edits' \in Nat /\ edits <= edits'
    BY <2>1, FaultTyped
  <2>3. QED
    BY <2>1, <2>2, UnchangedTyped DEF TypeInv
<1>3. QED
  BY <1>1, <1>2, EditTyped DEF Next

(* The initial states are typed.                                           *)
LEMMA TypeInit == Init => TypeInv
<1> SUFFICES ASSUME Init PROVE TypeInv
  OBVIOUS
<1>1. Original \in FolderRecord /\ Untouched \in ManifestRecord /\ Idle \in ClientRecord
      /\ Original.rev = 0 /\ Untouched.rev = 0 /\ Idle.pc = "idle"
  BY ConstantAssumption DEF Original, Untouched, Idle, FolderRecord, ManifestRecord, ClientRecord, Statuses
<1> HIDE DEF Original, Untouched, Idle
<1>2. StoredTyped /\ AuditTyped /\ BoundsTyped /\ state.status = "none"
  BY ConstantAssumption DEF Init, StoredTyped, AuditTyped, BoundsTyped, Statuses
<1>3. FolderTyped /\ ManifestTyped /\ VectorsTyped /\ ClientTyped
  BY <1>1, ConstantAssumption DEF Init, FolderTyped, ManifestTyped, VectorsTyped, ClientTyped
<1>4. IntentTyped
  <2> DEFINE r == [folders |-> [f \in Folders |-> Original], docs |-> [d \in Docs |-> Untouched]]
  <2>1. r \in [folders : [Folders -> FolderRecord], docs : [Docs -> ManifestRecord]]
        /\ r.folders = [f \in Folders |-> Original] /\ r.docs = [d \in Docs |-> Untouched]
    BY <1>1
  <2>2. RecordTyped(r)
    BY <1>1, <2>1 DEF RecordTyped, Init
  <2>3. intent = [o \in Ops |-> r]
    BY DEF Init
  <2>4. QED
    BY <2>1, <2>2, <2>3 DEF IntentTyped
<1>5. QED
  BY <1>2, <1>3, <1>4 DEF TypeInv

(* Every variable of a move keeps its type, whatever is edited, and        *)
(* however many clients serve the request.                                 *)
THEOREM TypeCorrect == Spec => []TypeOK
<1>1. TypeInv => TypeOK
  BY DEF TypeInv, TypeOK, StoredTyped, IntentTyped, FolderTyped, ManifestTyped, VectorsTyped, AuditTyped,
         ClientTyped, BoundsTyped
<1>2. QED
  BY <1>1, TypeInit, TypeStep, PTL DEF Spec

-----------------------------------------------------------------------------
(* The folders of a committed move, for any clients that repeat, take over *)
(* and resume it with whatever copies, and whatever is edited.             *)

CommittedStatuses == {"subtree_committed", "reconciliation_pending", "projections_converged", "completed"}
CommittedLabels == {"committed", "converge", "converge_manifest", "postpone", "recorded"}

(* Every operation found the root at the version its request names.        *)
FromOriginal == \A o \in Ops : intent[o].folders[Root] = Original

StoredTrue == state.status \in CommittedStatuses => Moved(state.op)
AuditTrue == \A o \in Ops : audit[o] = "success" => Moved(o)

(* Where a client stands, and the status it carries, are as true as what   *)
(* is stored: its copy may be old, but a commit is not undone.             *)
ClientTrue(c) ==
    /\ client[c].pc # "idle" /\ c \in current => client[c].op = state.op
    /\ client[c].pc \in CommittedLabels => Moved(client[c].op)
    /\ client[c].pc # "idle" /\ client[c].status \in CommittedStatuses => Moved(client[c].op)

CommitInv ==
    /\ TypeInv /\ FromOriginal /\ StoredTrue /\ AuditTrue
    /\ \A c \in Clients : ClientTrue(c)

(* What the exact contents of the folders say of a commit.                 *)
LEMMA CommitIsSeen ==
    ASSUME NEW o, CommitState(o) = "after"
    PROVE  Moved(o)
BY DEF CommitState, Moved

(* The folders are placed once: a commit needs the root where the request  *)
(* found it, and no operation takes it back there.                         *)
LEMMA PlacedOnce ==
    ASSUME CommitInv, NEW o \in Ops, Moved(o), [Next]_vars
    PROVE  Moved(o)'
<1>1. o # 0 /\ Root \in Folders
  BY ConstantAssumption DEF Ops
<1>2. folder \in [Folders -> FolderRecord]
  BY DEF CommitInv, TypeInv, FolderTyped
<1>3. ASSUME NEW c \in Clients, CommitSubtree(c) PROVE Moved(o)'
  <2>1. CASE UNCHANGED folder
    BY <2>1 DEF Moved
  <2>2. CASE folder' # folder
    <3>1. folder[Root] = intent[client[c].op].folders[Root]
      BY <1>1, <1>3, <2>2 DEF CommitSubtree
    <3>2. client[c].op \in Ops
      BY <1>3 DEF CommitSubtree, CommitInv, TypeInv, ClientTyped
    <3>3. folder[Root].op = 0
      BY <3>1, <3>2 DEF CommitInv, FromOriginal, Original
    <3>4. QED
      BY <1>1, <3>3 DEF Moved
  <2>3. QED
    BY <2>1, <2>2
<1>4. ASSUME NEW f \in Folders, EditFolder(f) PROVE Moved(o)'
  <2>1. folder' = [folder EXCEPT ![f].rev = @ + 1]
    BY <1>4 DEF EditFolder
  <2>2. \A g \in Folders : folder'[g].op = folder[g].op
    BY <1>2, <2>1 DEF FolderRecord
  <2>3. QED
    BY <2>2 DEF Moved
<1>5. CASE UNCHANGED folder
  BY <1>5 DEF Moved
<1>6. ASSUME NEW c \in Clients, ClientStep(c) \/ Crash(c), ~CommitSubtree(c) PROVE UNCHANGED folder
  BY <1>6 DEF ClientStep, Crash, tree, Open, Prepare, BeginStaging, Stage, StageVectors, Staged,
     CheckCommit, AssertHidden, Caught, Committed, BeginConverging, Converge, ConvergeManifest, Converged,
     Postpone, Record, Finish, Return, MarkRollback, BeginRollback, RestoreVectors, RestoreManifest,
     RecordRollback, RolledBack
<1>7. ASSUME NEW d \in Docs, EditDocument(d) PROVE UNCHANGED folder
  BY <1>7 DEF EditDocument
<1>8. QED
  BY <1>3, <1>4, <1>5, <1>6, <1>7 DEF Next, vars

(* Clients that a step leaves alone, when it leaves the current copies and *)
(* the operation alone.                                                    *)
LEMMA OthersKept ==
    ASSUME CommitInv, [Next]_vars, NEW b \in Clients, client'[b] = client[b],
           b \in current' => b \in current /\ state'.op = state.op
    PROVE  ClientTrue(b)'
<1>1. ClientTrue(b)
  BY DEF CommitInv
<1>2. client[b].pc # "idle" => client[b].op \in Ops
  BY DEF CommitInv, TypeInv, ClientTyped
<1>3. PICK o : o = client[b].op
  OBVIOUS
<1>4. client'[b].op = o
  BY <1>3
<1>5. client[b].pc # "idle" /\ Moved(o) => Moved(o)'
  BY <1>2, <1>3, PlacedOnce
<1>6. client[b].pc \in CommittedLabels => client[b].pc # "idle"
  BY DEF CommittedLabels
<1>7. QED
  BY <1>1, <1>3, <1>4, <1>5, <1>6 DEF ClientTrue

-----------------------------------------------------------------------------
(* The invariant is kept.                                                  *)

(* A step that leaves the stored state alone leaves it true.               *)
LEMMA StoredKept ==
    ASSUME CommitInv, [Next]_vars, UNCHANGED state
    PROVE  StoredTrue'
<1>1. SUFFICES ASSUME state.status \in CommittedStatuses PROVE Moved(state.op)'
  BY DEF StoredTrue
<1>2. PICK p : p = state.op
  OBVIOUS
<1>3. p \in Ops /\ Moved(p)
  BY <1>1, <1>2 DEF CommitInv, StoredTrue, TypeInv, StoredTyped, CommittedStatuses
<1>4. Moved(p)'
  BY <1>3, PlacedOnce
<1>5. QED
  BY <1>2, <1>4

(* A client that goes on with its operation as it knew it.                 *)
LEMMA OnwardKeeps ==
    ASSUME CommitInv, [Next]_vars, NEW c \in Clients, NEW o, o = client[c].op, client[c].pc # "idle",
           \A b \in Clients : b # c => client'[b] = client[b],
           client'[c].op = o, client'[c].status = client[c].status,
           client'[c].pc \in CommittedLabels => Moved(o)', UNCHANGED <<state, current>>
    PROVE  StoredTrue' /\ \A b \in Clients : ClientTrue(b)'
<1>1. o \in Ops
  BY DEF CommitInv, TypeInv, ClientTyped
<1>2. ClientTrue(c)
  BY DEF CommitInv
<1>3. Moved(o) => Moved(o)'
  BY <1>1, PlacedOnce
<1>4. ClientTrue(c)'
  BY <1>2, <1>3 DEF ClientTrue
<1>5. ASSUME NEW b \in Clients, b # c PROVE ClientTrue(b)'
  BY <1>5, OthersKept
<1>6. StoredTrue'
  BY StoredKept
<1>7. QED
  BY <1>4, <1>5, <1>6

(* A client whose request ends.                                            *)
LEMMA EndKeeps ==
    ASSUME CommitInv, [Next]_vars, NEW c \in Clients, End(c), UNCHANGED <<state, current>>
    PROVE  StoredTrue' /\ \A b \in Clients : ClientTrue(b)'
<1>1. client'[c] = Idle /\ \A b \in Clients : b # c => client'[b] = client[b]
  BY DEF End, Step, CommitInv, TypeInv, ClientTyped
<1>2. ClientTrue(c)'
  BY <1>1 DEF ClientTrue, Idle, CommittedLabels
<1>3. ASSUME NEW b \in Clients, b # c PROVE ClientTrue(b)'
  BY <1>1, <1>3, OthersKept
<1>4. StoredTrue'
  BY StoredKept
<1>5. QED
  BY <1>2, <1>3, <1>4

(* A client that writes the stored state, or adopts the one it finds.      *)
LEMMA AdvanceKeeps ==
    ASSUME CommitInv, [Next]_vars, NEW c \in Clients, client[c].pc # "idle", UNCHANGED folder,
           NEW status, NEW pc \in {"run", "rollback"}, Advance(c, status, pc),
           status \in CommittedStatuses => Moved(client[c].op)
    PROVE  StoredTrue' /\ \A b \in Clients : ClientTrue(b)'
<1> DEFINE o == client[c].op
<1>1. client \in [Clients -> ClientRecord] /\ ClientTrue(c) /\ pc \notin CommittedLabels
  BY DEF CommitInv, TypeInv, ClientTyped, CommittedLabels
<1>2. CASE c \in current
  <2>1. /\ state' = [op |-> o, status |-> status] /\ current' = {c}
        /\ client' = [client EXCEPT ![c] = [client[c] EXCEPT !.status = status, !.pc = pc]]
    BY <1>2 DEF Advance, Step
  <2>2. client'[c].op = o /\ client'[c].status = status /\ client'[c].pc = pc
        /\ \A b \in Clients : b # c => client'[b] = client[b]
    BY <1>1, <2>1 DEF ClientRecord
  <2>3. StoredTrue' /\ ClientTrue(c)'
    BY <1>1, <2>1, <2>2 DEF StoredTrue, ClientTrue, Moved
  <2>4. ASSUME NEW b \in Clients, b # c PROVE ClientTrue(b)'
    BY <2>1, <2>2, <2>4, OthersKept
  <2>5. QED
    BY <2>3, <2>4
<1>3. CASE c \notin current /\ state.op = o
  <2>1. /\ state' = state /\ current' = current \cup {c}
        /\ client' = [client EXCEPT ![c] = [client[c] EXCEPT !.status = state.status, !.pc = pc]]
    BY <1>3 DEF Advance, Step
  <2>2. client'[c].op = o /\ client'[c].status = state.status /\ client'[c].pc = pc
        /\ \A b \in Clients : b # c => client'[b] = client[b]
    BY <1>1, <2>1 DEF ClientRecord
  <2>3. StoredTrue
    BY DEF CommitInv
  <2>4. StoredTrue' /\ ClientTrue(c)'
    BY <1>1, <1>3, <2>1, <2>2, <2>3 DEF StoredTrue, ClientTrue, Moved
  <2>5. ASSUME NEW b \in Clients, b # c PROVE ClientTrue(b)'
    BY <2>1, <2>2, <2>5, OthersKept
  <2>6. QED
    BY <2>4, <2>5
<1>4. CASE c \notin current /\ state.op # o
  BY <1>4, EndKeeps DEF Advance
<1>5. QED
  BY <1>2, <1>3, <1>4

(* A request begins or resumes a move.                                     *)
LEMMA OpenKeeps ==
    ASSUME CommitInv, [Next]_vars, NEW c \in Clients, Open(c)
    PROVE  /\ FromOriginal' /\ StoredTrue'
           /\ \A b \in Clients : ClientTrue(b)'
<1>1. UNCHANGED folder /\ client \in [Clients -> ClientRecord]
  BY DEF Open, tree, CommitInv, TypeInv, ClientTyped
<1>2. CASE state.status \in Terminal
  <2> DEFINE o == state.op + 1
             rec == [Idle EXCEPT !.pc = "run", !.op = o, !.status = "initialized"]
  <2>1. /\ state' = [op |-> o, status |-> "initialized"] /\ current' = {c} /\ folder[Root] = Original
        /\ intent' = [intent EXCEPT ![o] = Snapshot] /\ client' = [client EXCEPT ![c] = rec]
    BY <1>2 DEF Open, Step
  <2>2. client'[c].pc = "run" /\ client'[c].op = o /\ client'[c].status = "initialized"
        /\ \A b \in Clients : b # c => client'[b] = client[b]
    BY <1>1, <2>1 DEF Idle
  <2>3. StoredTrue' /\ ClientTrue(c)'
    BY <2>1, <2>2 DEF StoredTrue, ClientTrue, CommittedStatuses, CommittedLabels
  <2>4. FromOriginal'
    <3>1. \A p \in Ops : intent'[p] = IF p = o THEN Snapshot ELSE intent[p]
      BY <2>1 DEF CommitInv, TypeInv, IntentTyped
    <3>2. Snapshot.folders[Root] = Original
      BY <2>1 DEF Snapshot
    <3>3. QED
      BY <3>1, <3>2 DEF CommitInv, FromOriginal, Original
  <2>5. ASSUME NEW b \in Clients, b # c PROVE ClientTrue(b)'
    BY <2>1, <2>2, <2>5, OthersKept
  <2>6. QED
    BY <2>3, <2>4, <2>5
<1>3. CASE state.status \notin Terminal
  <2> DEFINE rec == [Idle EXCEPT !.pc = "run", !.op = state.op, !.status = state.status]
  <2>1. UNCHANGED <<state, intent>> /\ current' = current \cup {c} /\ client' = [client EXCEPT ![c] = rec]
    BY <1>3 DEF Open, Step
  <2>2. client'[c].pc = "run" /\ client'[c].op = state.op /\ client'[c].status = state.status
        /\ \A b \in Clients : b # c => client'[b] = client[b]
    BY <1>1, <2>1 DEF Idle
  <2>3. StoredTrue /\ FromOriginal
    BY DEF CommitInv
  <2>4. StoredTrue' /\ FromOriginal' /\ ClientTrue(c)'
    BY <1>1, <2>1, <2>2, <2>3 DEF StoredTrue, FromOriginal, Original, ClientTrue, CommittedLabels, Moved
  <2>5. ASSUME NEW b \in Clients, b # c PROVE ClientTrue(b)'
    BY <2>1, <2>2, <2>5, OthersKept
  <2>6. QED
    BY <2>4, <2>5
<1>4. QED
  BY <1>2, <1>3

(* Steps that write the stored state.                                      *)
LEMMA AdvancesKeep ==
    ASSUME CommitInv, [Next]_vars, NEW c \in Clients,
           \/ Prepare(c) \/ Staged(c) \/ Committed(c) \/ Converged(c) \/ Finish(c) \/ MarkRollback(c)
           \/ RolledBack(c)
    PROVE  StoredTrue' /\ \A b \in Clients : ClientTrue(b)'
<1>1. UNCHANGED folder /\ client[c].pc # "idle"
  BY DEF Prepare, Staged, Committed, Converged, Finish, MarkRollback, RolledBack, tree
<1>2. PICK status \in Statuses, pc \in {"run", "rollback"} :
        Advance(c, status, pc) /\ (status \in CommittedStatuses => client[c].pc \in CommittedLabels)
  BY DEF Prepare, Staged, Committed, Converged, Finish, MarkRollback, RolledBack, Statuses,
         CommittedStatuses, CommittedLabels
<1>3. ClientTrue(c)
  BY DEF CommitInv
<1>4. status \in CommittedStatuses => Moved(client[c].op)
  BY <1>2, <1>3 DEF ClientTrue
<1>5. QED
  BY <1>1, <1>2, <1>4, AdvanceKeeps

(* Steps on documents, and those that look at folders, audit or manifests. *)
OnwardStep(c) ==
    \/ BeginStaging(c) \/ Stage(c) \/ StageVectors(c) \/ CheckCommit(c) \/ AssertHidden(c)
    \/ CommitSubtree(c) \/ Caught(c) \/ BeginConverging(c) \/ Converge(c) \/ ConvergeManifest(c)
    \/ Record(c) \/ Return(c) \/ BeginRollback(c) \/ RestoreVectors(c) \/ RestoreManifest(c)
    \/ RecordRollback(c) \/ Crash(c)

(* Such a step ends the request or goes to another label; to one of a      *)
(* commit only where there is one.                                         *)
LEMMA OnwardStepMoves ==
    ASSUME CommitInv, NEW c \in Clients, OnwardStep(c), NEW o, o = client[c].op
    PROVE  /\ client[c].pc # "idle" /\ UNCHANGED <<state, current, intent>>
           /\ \/ End(c)
              \/ \E pc, todo :
                    /\ Step(c, [client[c] EXCEPT !.pc = pc, !.todo = todo])
                    /\ pc \in CommittedLabels => Moved(o)'
<1>1. client[c].pc # "idle" /\ UNCHANGED <<state, current, intent>>
  BY DEF OnwardStep, BeginStaging, Stage, StageVectors, CheckCommit, AssertHidden, CommitSubtree, Caught,
         BeginConverging, Converge, ConvergeManifest, Record, Return, BeginRollback, RestoreVectors,
         RestoreManifest, RecordRollback, Crash, stored
<1> DEFINE Onward(pc) == To(c, pc) /\ (pc \in CommittedLabels => Moved(o)')
           OnwardTo(pc, todo) == Step(c, [client[c] EXCEPT !.pc = pc, !.todo = todo])
                                 /\ (pc \in CommittedLabels => Moved(o)')
<1>2. client[c] \in ClientRecord
  BY DEF CommitInv, TypeInv, ClientTyped
<1>3. \A pc : [client[c] EXCEPT !.pc = pc] = [client[c] EXCEPT !.pc = pc, !.todo = client[c].todo]
  BY <1>2 DEF ClientRecord
<1>4. \A pc : Onward(pc) => OnwardTo(pc, client[c].todo)
  <2>1. SUFFICES ASSUME NEW pc, Onward(pc) PROVE OnwardTo(pc, client[c].todo)
    OBVIOUS
  <2>2. [client[c] EXCEPT !.pc = pc] = [client[c] EXCEPT !.pc = pc, !.todo = client[c].todo]
    BY <1>3
  <2>3. Step(c, [client[c] EXCEPT !.pc = pc, !.todo = client[c].todo])
    BY <2>1, <2>2 DEF To
  <2>4. QED
    BY <2>1, <2>3
<1>5. UNCHANGED folder => (Moved(o) => Moved(o)')
  BY DEF Moved
<1>6. client[c].pc \in CommittedLabels => Moved(o)
  BY DEF CommitInv, ClientTrue
<1>7. client[c].pc # "idle" /\ client[c].status \in CommittedStatuses => Moved(o)
  BY DEF CommitInv, ClientTrue
<1>8. CASE BeginStaging(c)
  <2>1. OnwardTo("stage", Covered(o))
    BY <1>8 DEF BeginStaging, CommittedLabels
  <2>2. QED
    BY <1>1, <2>1
<1>9. CASE Stage(c) \/ StageVectors(c)
  <2>1. Onward("stage_vectors") \/ Onward("mark_rollback") \/ OnwardTo("stage", client[c].todo \ {First(client[c].todo)})
    BY <1>9 DEF Stage, StageVectors, CommittedLabels
  <2>2. QED
    BY <1>1, <1>4, <2>1
<1>10. CASE CheckCommit(c)
  <2>1. UNCHANGED folder /\ (CommitState(o) = "after" => Moved(o))
    BY <1>10, CommitIsSeen DEF CheckCommit, tree
  <2>2. Onward("committed") \/ Onward("assert") \/ Onward("mark_rollback")
    BY <1>5, <1>10, <2>1 DEF CheckCommit, CommittedLabels
  <2>3. QED
    BY <1>1, <1>4, <2>2
<1>11. CASE AssertHidden(c)
  <2>1. Onward("write") \/ Onward("caught")
    BY <1>11 DEF AssertHidden, CommittedLabels
  <2>2. QED
    BY <1>1, <1>4, <2>1
<1>12. CASE CommitSubtree(c)
  <2>1. Placed(o) => Moved(o)'
    BY DEF Placed, Moved
  <2>2. Onward("committed") \/ Onward("caught")
    BY <1>12, <2>1 DEF CommitSubtree, CommittedLabels
  <2>3. QED
    BY <1>1, <1>4, <2>2
<1>13. CASE Caught(c)
  <2>1. UNCHANGED folder /\ (CommitState(o) = "after" => Moved(o))
    BY <1>13, CommitIsSeen DEF Caught, tree
  <2>2. Onward("committed") \/ Onward("mark_rollback")
    BY <1>5, <1>13, <2>1 DEF Caught, CommittedLabels
  <2>3. QED
    BY <1>1, <1>4, <2>2
<1>14. CASE BeginConverging(c)
  <2>1. UNCHANGED folder /\ Moved(o)
    BY <1>1, <1>7, <1>14 DEF BeginConverging, tree, CommittedStatuses
  <2>2. Onward("postpone") \/ OnwardTo("converge", Covered(o))
    BY <1>5, <1>14, <2>1 DEF BeginConverging, CommittedLabels
  <2>3. QED
    BY <1>1, <1>4, <2>2
<1>15. CASE Converge(c) \/ ConvergeManifest(c)
  <2>1. UNCHANGED folder /\ Moved(o)
    BY <1>6, <1>15 DEF Converge, ConvergeManifest, CommittedLabels
  <2>2. \/ Onward("postpone") \/ Onward("converge_manifest")
        \/ OnwardTo("converge", client[c].todo \ {First(client[c].todo)})
    BY <1>5, <1>15, <2>1 DEF Converge, ConvergeManifest, CommittedLabels
  <2>3. QED
    BY <1>1, <1>4, <2>2
<1>16. CASE Record(c)
  <2>1. UNCHANGED folder /\ Moved(o)
    BY <1>1, <1>7, <1>16 DEF Record, tree, CommittedStatuses
  <2>2. Onward("recorded") \/ End(c)
    BY <1>5, <1>16, <2>1 DEF Record, CommittedLabels
  <2>3. QED
    BY <1>1, <1>4, <2>2
<1>17. CASE Return(c) \/ Crash(c)
  BY <1>1, <1>17 DEF Return, Crash
<1>18. CASE BeginRollback(c)
  <2>1. UNCHANGED folder /\ (CommitState(o) = "after" => Moved(o))
    BY <1>18, CommitIsSeen DEF BeginRollback, tree
  <2>2. Onward("postpone") \/ OnwardTo("restore", Covered(o))
    BY <1>5, <1>18, <2>1 DEF BeginRollback, CommittedLabels
  <2>3. QED
    BY <1>1, <1>4, <2>2
<1>19. CASE RestoreVectors(c) \/ RestoreManifest(c) \/ RecordRollback(c)
  <2>1. \/ End(c) \/ Onward("restore_manifest") \/ Onward("restored")
        \/ OnwardTo("restore", client[c].todo \ {First(client[c].todo)})
    BY <1>19 DEF RestoreVectors, RestoreManifest, RecordRollback, CommittedLabels
  <2>2. QED
    BY <1>1, <1>4, <2>1
<1>20. QED
  BY <1>8, <1>9, <1>10, <1>11, <1>12, <1>13, <1>14, <1>15, <1>16, <1>17, <1>18, <1>19 DEF OnwardStep

(* Documents, checks and records of a step keep the invariant.             *)
LEMMA OnwardStepKeeps ==
    ASSUME CommitInv, [Next]_vars, NEW c \in Clients, OnwardStep(c)
    PROVE  StoredTrue' /\ \A b \in Clients : ClientTrue(b)'
<1>1. PICK o : o = client[c].op
  OBVIOUS
<1>2. client[c].pc # "idle" /\ UNCHANGED <<state, current>>
  BY <1>1, OnwardStepMoves
<1>3. CASE End(c)
  BY <1>2, <1>3, EndKeeps
<1>4. ASSUME NEW pc, NEW todo, Step(c, [client[c] EXCEPT !.pc = pc, !.todo = todo]),
             pc \in CommittedLabels => Moved(o)'
      PROVE  StoredTrue' /\ \A b \in Clients : ClientTrue(b)'
  <2>1. client \in [Clients -> ClientRecord] /\ client[c] \in ClientRecord
    BY DEF CommitInv, TypeInv, ClientTyped
  <2>2. /\ client'[c].op = o /\ client'[c].status = client[c].status /\ client'[c].pc = pc
        /\ \A b \in Clients : b # c => client'[b] = client[b]
    BY <1>1, <1>4, <2>1 DEF Step, ClientRecord
  <2>3. QED
    BY <1>1, <1>2, <1>4, <2>2, OnwardKeeps
<1>5. QED
  BY <1>1, <1>3, <1>4, OnwardStepMoves

(* Postponing a commit that is not finished.                               *)
LEMMA PostponeKeeps ==
    ASSUME CommitInv, [Next]_vars, NEW c \in Clients, Postpone(c)
    PROVE  StoredTrue' /\ \A b \in Clients : ClientTrue(b)'
<1>1. End(c) /\ UNCHANGED folder /\ client[c].pc = "postpone"
  BY DEF Postpone, tree
<1>2. CASE c \notin current
  BY <1>1, <1>2, EndKeeps DEF Postpone
<1>3. CASE c \in current
  <2>1. state' = [state EXCEPT !.status = "reconciliation_pending"] /\ current' = {}
    BY <1>3 DEF Postpone
  <2>2. Moved(state.op) /\ client[c].op = state.op
    BY <1>1, <1>3 DEF CommitInv, ClientTrue, CommittedLabels
  <2>3. state'.op = state.op
    BY <2>1 DEF CommitInv, TypeInv, StoredTyped
  <2>4. StoredTrue'
    BY <1>1, <2>2, <2>3 DEF StoredTrue, Moved
  <2>5. client'[c] = Idle /\ \A b \in Clients : b # c => client'[b] = client[b]
    BY <1>1 DEF End, Step, CommitInv, TypeInv, ClientTyped
  <2>6. ClientTrue(c)'
    BY <2>5 DEF ClientTrue, Idle, CommittedLabels
  <2>7. ASSUME NEW b \in Clients, b # c PROVE ClientTrue(b)'
    BY <2>1, <2>5, <2>7, OthersKept
  <2>8. QED
    BY <2>4, <2>6, <2>7
<1>4. QED
  BY <1>2, <1>3

(* A success is recorded of a move that has taken the folders.             *)
LEMMA AuditKept ==
    ASSUME CommitInv, [Next]_vars
    PROVE  AuditTrue'
<1>1. SUFFICES ASSUME NEW o \in Ops, audit'[o] = "success", audit[o] # "success" PROVE Moved(o)
  BY PlacedOnce DEF CommitInv, AuditTrue
<1>2. audit \in [Ops -> {"none", "open", "success", "failure"}]
  BY DEF CommitInv, TypeInv, AuditTyped
<1>3. PICK c \in Clients : Record(c) \/ RecordRollback(c) \/ Prepare(c)
  BY <1>1 DEF Next, vars, ClientStep, Crash, Open, BeginStaging, Stage, StageVectors, Staged, CheckCommit,
     AssertHidden, CommitSubtree, Caught, Committed, BeginConverging, Converge, ConvergeManifest, Converged,
     Postpone, Finish, Return, MarkRollback, BeginRollback, RestoreVectors, RestoreManifest, RolledBack,
     EditDocument, EditFolder
<1>4. CASE Record(c)
  <2>1. client[c].status = "projections_converged" /\ client[c].pc = "run" /\ client[c].op = o
    BY <1>1, <1>2, <1>4 DEF Record, Complete
  <2>2. QED
    BY <2>1 DEF CommitInv, ClientTrue, CommittedStatuses
<1>5. CASE RecordRollback(c) \/ Prepare(c)
  BY <1>1, <1>2, <1>5 DEF RecordRollback, Complete, Prepare
<1>6. QED
  BY <1>3, <1>4, <1>5

(* A step of the specification keeps the invariant.                        *)
LEMMA CommitStep ==
    ASSUME CommitInv, [Next]_vars
    PROVE  CommitInv'
<1>1. TypeInv' /\ AuditTrue'
  BY TypeStep, AuditKept DEF CommitInv
<1>2. UNCHANGED intent => FromOriginal'
  BY DEF CommitInv, FromOriginal, Original
<1>3. ASSUME NEW c \in Clients, ClientStep(c) \/ Crash(c) PROVE CommitInv'
  <2>1. StoredTrue' /\ \A b \in Clients : ClientTrue(b)'
    BY <1>3, OpenKeeps, AdvancesKeep, OnwardStepKeeps, PostponeKeeps DEF ClientStep, OnwardStep
  <2>2. FromOriginal'
    <3>1. CASE Open(c)
      BY <3>1, OpenKeeps
    <3>2. CASE ~Open(c)
      <4>1. UNCHANGED intent
        BY <1>3, <3>2 DEF ClientStep, Crash, stored, Prepare, BeginStaging, Stage, StageVectors, Staged,
           CheckCommit, AssertHidden, CommitSubtree, Caught, Committed, BeginConverging, Converge,
           ConvergeManifest, Converged, Postpone, Record, Finish, Return, MarkRollback, BeginRollback,
           RestoreVectors, RestoreManifest, RecordRollback, RolledBack
      <4>2. QED
        BY <1>2, <4>1
    <3>3. QED
      BY <3>1, <3>2
  <2>3. QED
    BY <1>1, <2>1, <2>2 DEF CommitInv
<1>4. CASE (\E d \in Docs : EditDocument(d)) \/ (\E f \in Folders : EditFolder(f)) \/ UNCHANGED vars
  <2>1. UNCHANGED <<state, current, intent, client>>
    BY <1>4 DEF EditDocument, EditFolder, stored, vars
  <2>2. StoredTrue' /\ \A b \in Clients : ClientTrue(b)'
    BY <2>1, StoredKept, OthersKept
  <2>3. QED
    BY <1>1, <1>2, <2>1, <2>2 DEF CommitInv
<1>5. QED
  BY <1>3, <1>4 DEF Next

(* The invariant holds before anything is moved.                           *)
LEMMA CommitInit == Init => CommitInv
<1> SUFFICES ASSUME Init PROVE CommitInv
  OBVIOUS
<1>1. FromOriginal
  BY ConstantAssumption DEF Init, FromOriginal
<1>2. StoredTrue /\ AuditTrue /\ \A c \in Clients : ClientTrue(c)
  BY DEF Init, StoredTrue, AuditTrue, ClientTrue, Idle, CommittedStatuses, CommittedLabels
<1>3. QED
  BY <1>1, <1>2, TypeInit DEF CommitInv

(* A move that the stored state calls committed, or whose success is       *)
(* recorded, has taken every folder of the subtree, whichever of any       *)
(* number of clients wrote that, on whatever copy, after whatever lost     *)
(* answers, deaths and edits of documents and folders.                     *)
THEOREM CommitsTakeEffect == Spec => [](StoredTrue /\ AuditTrue)
<1>1. CommitInv => StoredTrue /\ AuditTrue
  BY DEF CommitInv
<1>2. CommitInv /\ [Next]_vars => CommitInv'
  BY CommitStep
<1>3. QED
  BY <1>1, <1>2, CommitInit, PTL DEF Spec

PlacedForGood == \A o \in Ops : Moved(o) => Moved(o)'

(* The folders are placed by one operation, for good: no request that is   *)
(* late, repeated or carried on from an old copy commits over it, and no   *)
(* rollback takes a committed subtree back.                                *)
THEOREM CommitsStand == Spec => [][PlacedForGood]_vars
<1>1. CommitInv /\ [Next]_vars => [PlacedForGood]_vars
  BY PlacedOnce DEF PlacedForGood
<1>2. CommitInv /\ [Next]_vars => CommitInv'
  BY CommitStep
<1>3. QED
  BY <1>1, <1>2, CommitInit, PTL DEF Spec

=============================================================================
