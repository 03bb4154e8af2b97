----------------------------- MODULE FolderMove -----------------------------
(***************************************************************************)
(* Moving a folder subtree (FolderLifecycleMutationCoordinator.moveFolder) *)
(*                                                                         *)
(* A move is a durable state machine: hide every document of the subtree,  *)
(* commit the paths of all its folders in one transaction, give the        *)
(* documents their new projection and show them again; a failure before    *)
(* the commit takes the documents back to what they were.  Clients repeat  *)
(* the request and carry the stored state on from wherever it stopped.     *)
(*                                                                         *)
(* One root folder and one request, repeated; other actors edit documents  *)
(* that are not hidden, and folders.  Object versions are content hashes,  *)
(* so a put that expects what was just compared is one step.  The version  *)
(* of the stored state is kept as the set of clients whose copy is current.*)
(***************************************************************************)
EXTENDS Naturals

CONSTANTS
    Clients,    \* processes that serve the request
    Folders,    \* the subtree
    Root,       \* its root, whose version the request names
    Docs,       \* documents in the order of their manifest keys
    EditMoved,  \* may a folder be edited after an unfinished move committed it?
    MaxOps, MaxEdits, MaxFaults, MaxCrashes

ASSUME ConstantAssumption ==
    /\ Root \in Folders
    /\ Docs \subseteq Nat
    /\ EditMoved \in BOOLEAN
    /\ MaxOps \in Nat /\ MaxEdits \in Nat /\ MaxFaults \in Nat /\ MaxCrashes \in Nat

VARIABLES
    state,    \* the stored intent: the operation and how far it got
    current,  \* clients whose copy of it is current
    intent,   \* what each operation recorded before it began
    folder,   \* the operation that last placed a folder, and the edits since
    manifest, \* the projection of a document's manifest and its lifecycle
    vectors,  \* the same of its index records
    audit,    \* the outcome recorded for each operation
    client,   \* progress of each client
    edits, faults, crashes

stored == <<state, current, intent>>
tree == <<folder, manifest, vectors>>
bounds == <<edits, faults, crashes>>
vars == <<state, current, intent, folder, manifest, vectors, audit, client, edits, faults, crashes>>

Ops == 1..MaxOps
Statuses == {"none", "initialized", "prepared", "documents_staging", "documents_staged",
             "subtree_committed", "reconciliation_pending", "projections_converged",
             "rollback_pending", "rolled_back", "completed"}
Terminal == {"none", "rolled_back", "completed"}

Original == [op |-> 0, rev |-> 0]
Untouched == [op |-> 0, mode |-> "active", rev |-> 0]
Idle == [pc |-> "idle", op |-> 0, status |-> "none", todo |-> {}]

Init ==
    /\ state = [op |-> 0, status |-> "none"] /\ current = {}
    /\ intent = [o \in Ops |-> [folders |-> [f \in Folders |-> Original],
                                docs |-> [d \in Docs |-> Untouched]]]
    /\ folder = [f \in Folders |-> Original]
    /\ manifest = [d \in Docs |-> Untouched]
    /\ vectors = [d \in Docs |-> [op |-> 0, mode |-> "active"]]
    /\ audit = [o \in Ops |-> "none"]
    /\ client = [c \in Clients |-> Idle]
    /\ edits = 0 /\ faults = 0 /\ crashes = 0

-----------------------------------------------------------------------------
Fault == faults < MaxFaults /\ faults' = faults + 1
Step(c, rec) == client' = [client EXCEPT ![c] = rec]
To(c, pc) == Step(c, [client[c] EXCEPT !.pc = pc])
End(c) == Step(c, Idle)

(* The documents of a move are those that were visible when it began. *)
Covered(o) == {d \in Docs : intent[o].docs[d].mode = "active"}
First(todo) == CHOOSE d \in todo : \A e \in todo : d <= e

CommitState(o) ==
    IF \A f \in Folders : folder[f] = intent[o].folders[f] THEN "before"
    ELSE IF \A f \in Folders : folder[f] = [op |-> o, rev |-> 0] THEN "after"
    ELSE "conflict"

(* Writes the state a client's copy of which is current; otherwise it goes *)
(* on from the state it finds, as long as that is of the same operation.   *)
Advance(c, status, pc) ==
    LET o == client[c].op IN
    IF c \in current
      THEN /\ state' = [op |-> o, status |-> status] /\ current' = {c}
           /\ Step(c, [client[c] EXCEPT !.status = status, !.pc = pc])
      ELSE /\ UNCHANGED state
           /\ IF state.op = o
                THEN /\ current' = current \cup {c}
                     /\ Step(c, [client[c] EXCEPT !.status = state.status, !.pc = pc])
                ELSE End(c) /\ UNCHANGED current

(* The record of a completed audit intent is not changed any more. *)
Complete(o, outcome) ==
    audit' = [audit EXCEPT ![o] = IF @ = "open" THEN outcome ELSE @]
Completes(o, outcome) == audit[o] \in {"open", outcome}

-----------------------------------------------------------------------------
(* A request resumes the move that is stored, returns the completed one,   *)
(* or begins a new one if the root has the version it names.               *)
Snapshot == [folders |-> folder, docs |-> manifest]

OpenFresh(c) ==
    /\ client[c].pc = "idle"
    /\ state.status \in {"none", "rolled_back"} /\ state.op < MaxOps
    /\ folder[Root] = Original
    /\ state' = [op |-> state.op + 1, status |-> "initialized"]
    /\ current' = {c}
    /\ intent' = [intent EXCEPT ![state.op + 1] = Snapshot]
    /\ Step(c, [Idle EXCEPT !.pc = "run", !.op = state.op + 1, !.status = "initialized"])
    /\ UNCHANGED <<tree, audit, bounds>>

Open(c) ==
    /\ client[c].pc = "idle"
    /\ IF state.status \in Terminal
         THEN /\ state.status # "completed" /\ state.op < MaxOps
              /\ folder[Root] = Original
              /\ state' = [op |-> state.op + 1, status |-> "initialized"]
              /\ current' = {c}
              /\ intent' = [intent EXCEPT ![state.op + 1] = Snapshot]
              /\ Step(c, [Idle EXCEPT !.pc = "run", !.op = state.op + 1, !.status = "initialized"])
         ELSE /\ current' = current \cup {c}
              /\ Step(c, [Idle EXCEPT !.pc = "run", !.op = state.op, !.status = state.status])
              /\ UNCHANGED <<state, intent>>
    /\ UNCHANGED <<tree, audit, bounds>>

(* The audit intent is prepared, then named by the stored state; one that  *)
(* is not named by it stays pending.                                       *)
Prepare(c) ==
    LET me == client[c] IN
    /\ me.pc = "run" /\ me.status \in {"initialized", "prepared"}
    /\ Advance(c, IF me.status = "initialized" THEN "prepared" ELSE "documents_staging", "run")
    /\ audit' = IF me.status = "initialized" /\ c \in current
                  THEN [audit EXCEPT ![me.op] = "open"] ELSE audit
    /\ UNCHANGED <<intent, tree, bounds>>

-----------------------------------------------------------------------------
BeginStaging(c) ==
    /\ client[c].pc = "run" /\ client[c].status = "documents_staging"
    /\ Step(c, [client[c] EXCEPT !.pc = "stage", !.todo = Covered(client[c].op)])
    /\ UNCHANGED <<stored, tree, audit, bounds>>

StageVisible(c) ==
    LET me == client[c]
        d == First(me.todo) IN
    /\ me.pc = "stage" /\ me.todo # {}
    /\ manifest' = [manifest EXCEPT ![d].op = me.op]
    /\ To(c, "stage_vectors")
    /\ UNCHANGED <<stored, folder, vectors, audit, bounds>>

(* Hides the next document unless it changed since the move began. *)
Stage(c) ==
    LET me == client[c]
        d == First(me.todo)
        source == intent[me.op].docs[d] IN
    /\ me.pc = "stage" /\ me.todo # {}
    /\ \/ /\ IF manifest[d].op = me.op THEN manifest[d].mode = "staging" ELSE manifest[d] = source
          /\ manifest' = [manifest EXCEPT ![d] = [source EXCEPT !.op = me.op, !.mode = "staging"]]
          /\ To(c, "stage_vectors") /\ UNCHANGED faults
       \/ /\ IF manifest[d].op = me.op THEN manifest[d].mode # "staging" ELSE manifest[d] # source
          /\ To(c, "mark_rollback") /\ UNCHANGED <<manifest, faults>>
       \/ Fault /\ To(c, "mark_rollback") /\ UNCHANGED manifest
    /\ UNCHANGED <<stored, folder, vectors, audit, edits, crashes>>

StageVectors(c) ==
    LET me == client[c]
        d == First(me.todo) IN
    /\ me.pc = "stage_vectors"
    /\ \/ /\ vectors' = [vectors EXCEPT ![d] = [op |-> me.op, mode |-> "staging"]]
          /\ Step(c, [me EXCEPT !.pc = "stage", !.todo = @ \ {d}]) /\ UNCHANGED faults
       \/ Fault /\ To(c, "mark_rollback") /\ UNCHANGED vectors
    /\ UNCHANGED <<stored, folder, manifest, audit, edits, crashes>>

Staged(c) ==
    /\ client[c].pc = "stage" /\ client[c].todo = {}
    /\ Advance(c, "documents_staged", "run")
    /\ UNCHANGED <<intent, tree, audit, bounds>>

-----------------------------------------------------------------------------
(* A commit whose answer was lost is recognised in the folders. *)
CheckCommit(c) ==
    /\ client[c].pc = "run" /\ client[c].status = "documents_staged"
    /\ To(c, CASE CommitState(client[c].op) = "after" -> "committed"
               [] CommitState(client[c].op) = "before" -> "assert"
               [] OTHER -> "mark_rollback")
    /\ UNCHANGED <<stored, tree, audit, bounds>>

(* Authorization and local policies are checked with it. *)
AssertHidden(c) ==
    LET o == client[c].op IN
    /\ client[c].pc = "assert"
    /\ \/ /\ \A d \in Covered(o) : manifest[d].op = o /\ manifest[d].mode = "staging"
          /\ To(c, "write") /\ UNCHANGED faults
       \/ /\ \E d \in Covered(o) : manifest[d].op # o \/ manifest[d].mode # "staging"
          /\ To(c, "caught") /\ UNCHANGED faults
       \/ Fault /\ To(c, "caught")
    /\ UNCHANGED <<stored, tree, audit, edits, crashes>>

Placed(o) == folder' = [f \in Folders |-> [op |-> o, rev |-> 0]]

CommitSubtree(c) ==
    LET o == client[c].op
        unchanged == \A f \in Folders : folder[f] = intent[o].folders[f] IN
    /\ client[c].pc = "write"
    /\ \/ unchanged /\ Placed(o) /\ To(c, "committed") /\ UNCHANGED faults
       \/ ~unchanged /\ To(c, "caught") /\ UNCHANGED <<folder, faults>>
       \/ /\ Fault /\ To(c, "caught")
          /\ UNCHANGED folder \/ (unchanged /\ Placed(o))
    /\ UNCHANGED <<stored, manifest, vectors, audit, edits, crashes>>

Caught(c) ==
    /\ client[c].pc = "caught"
    /\ To(c, IF CommitState(client[c].op) = "after" THEN "committed" ELSE "mark_rollback")
    /\ UNCHANGED <<stored, tree, audit, bounds>>

Committed(c) ==
    /\ client[c].pc = "committed"
    /\ Advance(c, "subtree_committed", "run")
    /\ UNCHANGED <<intent, tree, audit, bounds>>

-----------------------------------------------------------------------------
BeginConverging(c) ==
    LET me == client[c] IN
    /\ me.pc = "run" /\ me.status \in {"subtree_committed", "reconciliation_pending"}
    /\ \/ /\ CommitState(me.op) = "after" /\ UNCHANGED faults
          /\ Step(c, [me EXCEPT !.pc = "converge", !.todo = Covered(me.op)])
       \/ CommitState(me.op) # "after" /\ To(c, "postpone") /\ UNCHANGED faults
       \/ Fault /\ To(c, "postpone")
    /\ UNCHANGED <<stored, tree, audit, edits, crashes>>

Converge(c) ==
    LET me == client[c]
        d == First(me.todo) IN
    /\ me.pc = "converge" /\ me.todo # {}
    /\ \/ /\ vectors' = [vectors EXCEPT ![d] = [op |-> me.op, mode |-> "active"]]
          /\ To(c, "converge_manifest") /\ UNCHANGED faults
       \/ Fault /\ To(c, "postpone") /\ UNCHANGED vectors
    /\ UNCHANGED <<stored, folder, manifest, audit, edits, crashes>>

ConvergeManifest(c) ==
    LET me == client[c]
        d == First(me.todo)
        target == [intent[me.op].docs[d] EXCEPT !.op = me.op] IN
    /\ me.pc = "converge_manifest"
    /\ \/ /\ manifest[d].op = me.op
          /\ manifest' = [manifest EXCEPT ![d] = IF @.mode = "active" THEN @ ELSE target]
          /\ Step(c, [me EXCEPT !.pc = "converge", !.todo = @ \ {d}]) /\ UNCHANGED faults
       \/ manifest[d].op # me.op /\ To(c, "postpone") /\ UNCHANGED <<manifest, faults>>
       \/ Fault /\ To(c, "postpone") /\ UNCHANGED manifest
    /\ UNCHANGED <<stored, folder, vectors, audit, edits, crashes>>

Converged(c) ==
    /\ client[c].pc = "converge" /\ client[c].todo = {}
    /\ Advance(c, "projections_converged", "run")
    /\ UNCHANGED <<intent, tree, audit, bounds>>

Postpone(c) ==
    /\ client[c].pc = "postpone"
    /\ End(c)
    /\ IF c \in current
         THEN state' = [state EXCEPT !.status = "reconciliation_pending"] /\ current' = {}
         ELSE UNCHANGED <<state, current>>
    /\ UNCHANGED <<intent, tree, audit, bounds>>

Record(c) ==
    LET me == client[c] IN
    /\ me.pc = "run" /\ me.status = "projections_converged"
    /\ Complete(me.op, "success")
    /\ IF Completes(me.op, "success") THEN To(c, "recorded") ELSE End(c)
    /\ UNCHANGED <<stored, tree, bounds>>

Finish(c) ==
    /\ client[c].pc = "recorded"
    /\ Advance(c, "completed", "run")
    /\ UNCHANGED <<intent, tree, audit, bounds>>

Return(c) ==
    /\ client[c].pc = "run" /\ client[c].status \in {"completed", "rolled_back"}
    /\ End(c)
    /\ UNCHANGED <<stored, tree, audit, bounds>>

-----------------------------------------------------------------------------
MarkRollback(c) ==
    /\ client[c].pc = "mark_rollback"
    /\ Advance(c, "rollback_pending", "rollback")
    /\ UNCHANGED <<intent, tree, audit, bounds>>

(* Documents are not taken back once the subtree is committed. *)
BeginRollback(c) ==
    LET me == client[c] IN
    /\ me.pc = "rollback" \/ (me.pc = "run" /\ me.status = "rollback_pending")
    /\ IF CommitState(me.op) = "after"
         THEN To(c, "postpone")
         ELSE Step(c, [me EXCEPT !.pc = "restore", !.todo = Covered(me.op)])
    /\ UNCHANGED <<stored, tree, audit, bounds>>

RestoreVectors(c) ==
    LET me == client[c]
        d == First(me.todo)
        source == intent[me.op].docs[d] IN
    /\ me.pc = "restore" /\ me.todo # {}
    /\ \/ /\ manifest[d].op = me.op \/ manifest[d] = source
          /\ vectors' = [vectors EXCEPT ![d] = [op |-> source.op, mode |-> "active"]]
          /\ To(c, "restore_manifest") /\ UNCHANGED faults
       \/ manifest[d].op # me.op /\ manifest[d] # source /\ End(c) /\ UNCHANGED <<vectors, faults>>
       \/ Fault /\ End(c) /\ UNCHANGED vectors
    /\ UNCHANGED <<stored, folder, manifest, audit, edits, crashes>>

RestoreNothing(c) ==
    LET d == First(client[c].todo) IN
    /\ client[c].pc = "restore_manifest"
    /\ Step(c, [client[c] EXCEPT !.pc = "restore", !.todo = @ \ {d}])
    /\ UNCHANGED <<stored, tree, audit, bounds>>

RestoreManifest(c) ==
    LET me == client[c]
        d == First(me.todo) IN
    /\ me.pc = "restore_manifest"
    /\ \/ /\ manifest' = [manifest EXCEPT ![d] = IF @.op = me.op THEN intent[me.op].docs[d] ELSE @]
          /\ Step(c, [me EXCEPT !.pc = "restore", !.todo = @ \ {d}]) /\ UNCHANGED faults
       \/ Fault /\ End(c) /\ UNCHANGED manifest
    /\ UNCHANGED <<stored, folder, vectors, audit, edits, crashes>>

RecordRollback(c) ==
    LET me == client[c] IN
    /\ me.pc = "restore" /\ me.todo = {}
    /\ Complete(me.op, "failure")
    /\ IF Completes(me.op, "failure") THEN To(c, "restored") ELSE End(c)
    /\ UNCHANGED <<stored, tree, bounds>>

RolledBack(c) ==
    /\ client[c].pc = "restored"
    /\ Advance(c, "rolled_back", "run")
    /\ UNCHANGED <<intent, tree, audit, bounds>>

-----------------------------------------------------------------------------
Crash(c) ==
    /\ client[c].pc # "idle"
    /\ crashes < MaxCrashes /\ crashes' = crashes + 1
    /\ End(c)
    /\ UNCHANGED <<stored, tree, audit, edits, faults>>

(* Editing a document needs it visible; editing a folder asks no move. *)
EditDocument(d) ==
    /\ manifest[d].mode = "active"
    /\ edits < MaxEdits /\ edits' = edits + 1
    /\ manifest' = [manifest EXCEPT ![d].rev = @ + 1]
    /\ UNCHANGED <<stored, folder, vectors, audit, client, faults, crashes>>

EditFolder(f) ==
    /\ state.status \notin Terminal => (EditMoved \/ folder[f].op # state.op)
    /\ edits < MaxEdits /\ edits' = edits + 1
    /\ folder' = [folder EXCEPT ![f].rev = @ + 1]
    /\ UNCHANGED <<stored, manifest, vectors, audit, client, faults, crashes>>

ClientStep(c) ==
    \/ Open(c) \/ Prepare(c) \/ BeginStaging(c) \/ Stage(c) \/ StageVectors(c) \/ Staged(c)
    \/ CheckCommit(c) \/ AssertHidden(c) \/ CommitSubtree(c) \/ Caught(c) \/ Committed(c)
    \/ BeginConverging(c) \/ Converge(c) \/ ConvergeManifest(c) \/ Converged(c) \/ Postpone(c)
    \/ Record(c) \/ Finish(c) \/ Return(c)
    \/ MarkRollback(c) \/ BeginRollback(c) \/ RestoreVectors(c) \/ RestoreManifest(c)
    \/ RecordRollback(c) \/ RolledBack(c)

Next ==
    \/ \E c \in Clients : ClientStep(c) \/ Crash(c)
    \/ \E d \in Docs : EditDocument(d)
    \/ \E f \in Folders : EditFolder(f)

Spec == Init /\ [][Next]_vars

(* The request is served to its end and repeated until it is answered. *)
Fairness == \A c \in Clients : WF_vars(ClientStep(c))
FairSpec == Spec /\ Fairness

-----------------------------------------------------------------------------
FolderRecord == [op : 0..MaxOps, rev : 0..MaxEdits]
ManifestRecord == [op : 0..MaxOps, mode : {"active", "staging"}, rev : 0..MaxEdits]
ClientRecord ==
    [pc : {"idle", "run", "stage", "stage_vectors", "assert", "write", "caught", "committed",
           "converge", "converge_manifest", "postpone", "recorded", "mark_rollback", "rollback",
           "restore", "restore_manifest", "restored"},
     op : 0..MaxOps, status : Statuses, todo : SUBSET Docs]

TypeOK ==
    /\ state \in [op : 0..MaxOps, status : Statuses]
    /\ current \subseteq Clients
    /\ intent \in [Ops -> [folders : [Folders -> FolderRecord], docs : [Docs -> ManifestRecord]]]
    /\ folder \in [Folders -> FolderRecord]
    /\ manifest \in [Docs -> ManifestRecord]
    /\ vectors \in [Docs -> [op : 0..MaxOps, mode : {"active", "staging"}]]
    /\ audit \in [Ops -> {"none", "open", "success", "failure"}]
    /\ client \in [Clients -> ClientRecord]
    /\ edits \in 0..MaxEdits /\ faults \in 0..MaxFaults /\ crashes \in 0..MaxCrashes

Moved(o) == \A f \in Folders : folder[f].op = o
Hidden(d) == manifest[d].mode = "staging"

(* A document is never shown under a place its folder has not taken, nor   *)
(* after the commit under the place it left.                               *)
ShownWhereItIs ==
    state.op # 0 =>
        \A d \in Covered(state.op), f \in Folders : Hidden(d) \/ manifest[d].op = folder[f].op

(* A move reported as completed took the whole subtree and every document, *)
(* index records included; one reported as rolled back took nothing.       *)
SettledMoveIsWhole ==
    /\ state.status = "completed" =>
         /\ Moved(state.op)
         /\ \A d \in Covered(state.op) :
              ~Hidden(d) /\ manifest[d].op = state.op /\ vectors[d] = [op |-> state.op, mode |-> "active"]
    /\ state.status = "rolled_back" =>
         /\ \A f \in Folders : folder[f].op # state.op
         /\ \A d \in Covered(state.op) :
              /\ ~Hidden(d) /\ manifest[d].op # state.op
              /\ vectors[d] = [op |-> intent[state.op].docs[d].op, mode |-> "active"]

(* Hidden documents are shown again, wherever the request died or failed,  *)
(* as long as nobody edits what the move has recorded.                     *)
HiddenDocumentsReturn == \A d \in Docs : Hidden(d) ~> (~Hidden(d) \/ edits > 0)

(* A committed move is brought to its end by repeating the request.  It is *)
(* not when a folder of the subtree is edited in between: the subtree is   *)
(* recognised by its exact content.                                        *)
RetryConverges ==
    state.status \in {"subtree_committed", "reconciliation_pending"} ~> state.status = "completed"
=============================================================================
