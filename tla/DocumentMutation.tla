--------------------------- MODULE DocumentMutation ---------------------------
(***************************************************************************)
(* Moving and deleting one document                                        *)
(* (DocumentLifecycleMutationCoordinator.moveDocument and deleteDocument). *)
(*                                                                         *)
(* A move hides the index records, commits the manifest by its version and *)
(* shows the records again.  A deletion leaves a repair intent, commits a  *)
(* tombstone by the manifest's version and removes what the document owns. *)
(* Each is a stored state machine of its own key; the manifest is where    *)
(* they meet.  The common cleanup batch may finish a deletion first, the   *)
(* tombstone included.                                                     *)
(*                                                                         *)
(* Object versions are content hashes and every change of a manifest is    *)
(* new content, so a conditional put compares contents; the version of a   *)
(* stored state is kept as the set of clients whose copy is current.       *)
(***************************************************************************)
EXTENDS Naturals

CONSTANTS
    Movers, Deleters,  \* processes that serve the requests
    MaxMoves, MaxDeletes, MaxEdits, MaxFaults, MaxCrashes

ASSUME ConstantAssumption ==
    /\ Movers \cap Deleters = {}
    /\ MaxMoves \in Nat /\ MaxDeletes \in Nat
    /\ MaxEdits \in Nat /\ MaxFaults \in Nat /\ MaxCrashes \in Nat

VARIABLES
    manifest,  \* lifecycle, the move that placed it, the deletion that revoked it
    vectors,   \* the index records: there or not, where and how they show
    move,      \* the stored move, and what each move recorded
    deletion,  \* the stored deletion, and what each deletion recorded
    current,   \* clients whose copy of their stored state is current
    repair,    \* the repair intent of each deletion
    audit,     \* for each move and deletion: what was recorded, and of which manifest
    client,    \* progress of each client
    edits, faults, crashes

bounds == <<edits, faults, crashes>>
document == <<manifest, vectors>>
vars == <<manifest, vectors, move, deletion, current, repair, audit, client, edits, faults, crashes>>

Clients == Movers \cup Deleters
Moves == 1..MaxMoves
Deletes == 1..MaxDeletes
MoveTerminal == {"none", "rolled_back", "completed"}

New == [kind |-> "active", move |-> 0, deletion |-> 0, rev |-> 0]
Idle == [pc |-> "idle", op |-> 0, status |-> "none", goal |-> [place |-> 0, mode |-> "active"], then |-> "run",
         seen |-> New]
Recorded(result, after) == [result |-> result, after |-> after]
Nothing == Recorded("none", New)
Open == Recorded("open", New)

Init ==
    /\ manifest = New
    /\ vectors = [there |-> TRUE, place |-> 0, mode |-> "active"]
    /\ move = [op |-> 0, status |-> "none", source |-> [o \in Moves |-> New]]
    /\ deletion = [op |-> 0, status |-> "none", source |-> [o \in Deletes |-> New]]
    /\ current = {}
    /\ repair = [o \in Deletes |-> "none"]
    /\ audit = [moves |-> [o \in Moves |-> Nothing], deletes |-> [o \in Deletes |-> Nothing]]
    /\ client = [c \in Clients |-> Idle]
    /\ edits = 0 /\ faults = 0 /\ crashes = 0

-----------------------------------------------------------------------------
Fault == faults < MaxFaults /\ faults' = faults + 1
Step(c, rec) == client' = [client EXCEPT ![c] = rec]
To(c, pc) == Step(c, [client[c] EXCEPT !.pc = pc])
End(c) == Step(c, Idle)
Same(c) == IF c \in Movers THEN Movers ELSE Deleters

(* Writes a stored state a client's copy of which is current; otherwise it *)
(* goes on from the state it finds, if that is of the same operation.      *)
Took(c, status, pc) == current' = (current \ Same(c)) \cup {c}
                       /\ Step(c, [client[c] EXCEPT !.status = status, !.pc = pc])
Reread(c, now, pc) ==
    IF now.op = client[c].op
      THEN current' = current \cup {c} /\ Step(c, [client[c] EXCEPT !.status = now.status, !.pc = pc])
      ELSE UNCHANGED current /\ End(c)

AdvanceMove(c, status, pc) ==
    IF c \in current THEN move' = [move EXCEPT !.status = status] /\ Took(c, status, pc)
                     ELSE UNCHANGED move /\ Reread(c, move, pc)
AdvanceDelete(c, status, pc) ==
    IF c \in current THEN deletion' = [deletion EXCEPT !.status = status] /\ Took(c, status, pc)
                     ELSE UNCHANGED deletion /\ Reread(c, deletion, pc)

(* A completed audit record is not changed.  Completing it again with      *)
(* another outcome, or of another manifest, is refused.                    *)
Accepts(old, entry) == old \in {Open, entry}
RecordMove(o, entry) ==
    audit' = [audit EXCEPT !.moves[o] = IF @ = Open THEN entry ELSE @]
RecordDelete(o, entry) ==
    audit' = [audit EXCEPT !.deletes[o] = IF @ = Open THEN entry ELSE @]

Transition(o, from, to) == repair' = [repair EXCEPT ![o] = IF @ \in from THEN to ELSE @]
FenceReleased == \A o \in Deletes : repair[o] \notin {"prepared", "deny_committed", "cleanup_registered"}

(* Index records are read, and written back by their keys: also when they  *)
(* were deleted in between.  What is not complete is not rewritten.        *)
Rewrite(c, place, mode, then) ==
    Step(c, [client[c] EXCEPT !.pc = "rewrite", !.then = then, !.seen = manifest,
                              !.goal = [place |-> place, mode |-> mode]])
RewriteFailed(c) == IF client[c].then = "staged" THEN To(c, "mark_rollback") ELSE End(c)

ReadVectors(c) ==
    /\ client[c].pc = "rewrite"
    /\ \/ vectors.there /\ To(c, "put_vectors") /\ UNCHANGED faults
       \/ ~vectors.there /\ RewriteFailed(c) /\ UNCHANGED faults
       \/ Fault /\ RewriteFailed(c)
    /\ UNCHANGED <<document, move, deletion, current, repair, audit, edits, crashes>>

PutVectors(c) ==
    LET goal == client[c].goal IN
    /\ client[c].pc = "put_vectors"
    /\ \/ /\ vectors' = [there |-> TRUE, place |-> goal.place, mode |-> goal.mode]
          /\ To(c, client[c].then) /\ UNCHANGED faults
       \/ Fault /\ RewriteFailed(c) /\ UNCHANGED vectors
    /\ UNCHANGED <<manifest, move, deletion, current, repair, audit, edits, crashes>>

-----------------------------------------------------------------------------
(* A request resumes the stored move or begins one on an active document.  *)
OpenAnew(c) ==
    /\ client[c].pc = "idle" /\ manifest.kind = "active" /\ FenceReleased
    /\ move.status \in MoveTerminal /\ move.op < MaxMoves
    /\ move' = [op |-> move.op + 1, status |-> "initialized",
                source |-> [move.source EXCEPT ![move.op + 1] = manifest]]
    /\ current' = (current \ Movers) \cup {c}
    /\ Step(c, [Idle EXCEPT !.pc = "run", !.op = move.op + 1, !.status = "initialized"])
    /\ UNCHANGED <<document, deletion, repair, audit, bounds>>

OpenMove(c) ==
    /\ client[c].pc = "idle" /\ manifest.kind # "gone"
    /\ IF move.status \in MoveTerminal
         THEN /\ move.op < MaxMoves /\ manifest.kind = "active" /\ FenceReleased
              /\ move' = [op |-> move.op + 1, status |-> "initialized",
                          source |-> [move.source EXCEPT ![move.op + 1] = manifest]]
              /\ current' = (current \ Movers) \cup {c}
              /\ Step(c, [Idle EXCEPT !.pc = "run", !.op = move.op + 1, !.status = "initialized"])
         ELSE /\ UNCHANGED move /\ current' = current \cup {c}
              /\ Step(c, [Idle EXCEPT !.pc = "run", !.op = move.op, !.status = move.status])
    /\ UNCHANGED <<document, deletion, repair, audit, bounds>>

PrepareMove(c) ==
    LET me == client[c] IN
    /\ me.pc = "run" /\ me.status \in {"initialized", "prepared"}
    /\ AdvanceMove(c, IF me.status = "initialized" THEN "prepared" ELSE "projections_staging", "run")
    /\ audit' = IF me.status = "initialized" /\ c \in current
                  THEN [audit EXCEPT !.moves[me.op] = Open] ELSE audit
    /\ UNCHANGED <<document, deletion, repair, bounds>>

StageActive(c) ==
    /\ client[c].pc = "run" /\ client[c].status = "projections_staging"
    /\ Rewrite(c, client[c].op, "active", "staged")
    /\ UNCHANGED <<document, move, deletion, current, repair, audit, bounds>>

Stage(c) ==
    /\ client[c].pc = "run" /\ client[c].status = "projections_staging"
    /\ Rewrite(c, client[c].op, "staging", "staged")
    /\ UNCHANGED <<document, move, deletion, current, repair, audit, bounds>>

Staged(c) ==
    /\ client[c].pc = "staged"
    /\ AdvanceMove(c, "projections_staged", "run")
    /\ UNCHANGED <<document, deletion, repair, audit, bounds>>

(* Authorization is checked once more; what has changed meanwhile wins.    *)
Target(o) == [move.source[o] EXCEPT !.move = o]
Converge(c) == Rewrite(c, manifest.move, IF manifest.kind = "active" THEN "active" ELSE "superseded", "conflict")

CommitMove(c) ==
    LET o == client[c].op IN
    /\ client[c].pc = "run" /\ client[c].status = "projections_staged"
    /\ \/ manifest.kind = "gone" /\ End(c) /\ UNCHANGED <<manifest, faults>>
       \/ /\ manifest.kind # "gone" /\ manifest.move = o
          /\ To(c, "moved") /\ UNCHANGED <<manifest, faults>>
       \/ /\ manifest.kind # "gone" /\ manifest.move # o /\ manifest # move.source[o]
          /\ Converge(c) /\ UNCHANGED <<manifest, faults>>
       \/ /\ manifest = move.source[o]
          /\ manifest' = Target(o) /\ To(c, "moved") /\ UNCHANGED faults
       \/ /\ manifest = move.source[o] /\ Fault
          /\ manifest' \in {manifest, Target(o)} /\ To(c, "mark_rollback")
    /\ UNCHANGED <<vectors, move, deletion, current, repair, audit, edits, crashes>>

Moved(c) ==
    /\ client[c].pc = "moved"
    /\ AdvanceMove(c, "manifest_committed", "run")
    /\ UNCHANGED <<document, deletion, repair, audit, bounds>>

Show(c) ==
    /\ client[c].pc = "run" /\ client[c].status = "manifest_committed"
    /\ Rewrite(c, client[c].op, "active", "shown")
    /\ UNCHANGED <<document, move, deletion, current, repair, audit, bounds>>

(* A success names the manifest the move was to make, a conflict or a      *)
(* failure the one that was found in its place.                            *)
MoveEntry(me) ==
    CASE me.pc = "shown" -> Recorded("success", Target(me.op))
      [] me.pc = "conflict" -> Recorded("conflict", me.seen)
      [] me.pc = "restored" -> Recorded("failed", me.seen)

Record(c) ==
    LET me == client[c] IN
    /\ me.pc \in {"shown", "conflict", "restored"}
    /\ RecordMove(me.op, MoveEntry(me))
    /\ IF Accepts(audit.moves[me.op], MoveEntry(me))
         THEN To(c, IF me.pc = "shown" THEN "success" ELSE "failure") ELSE End(c)
    /\ UNCHANGED <<document, move, deletion, current, repair, bounds>>

FinishMove(c) ==
    /\ client[c].pc \in {"success", "failure"}
    /\ AdvanceMove(c, IF client[c].pc = "success" THEN "completed" ELSE "rolled_back", "end")
    /\ UNCHANGED <<document, deletion, repair, audit, bounds>>

ReturnMove(c) ==
    /\ client[c].pc = "end" \/ (client[c].pc = "run" /\ client[c].status \in MoveTerminal)
    /\ End(c)
    /\ UNCHANGED <<document, move, deletion, current, repair, audit, bounds>>

MarkRollback(c) ==
    /\ client[c].pc = "mark_rollback"
    /\ AdvanceMove(c, "rollback_pending", "rollback")
    /\ UNCHANGED <<document, deletion, repair, audit, bounds>>

(* A move that has taken effect after all is completed instead.            *)
RollbackAnyway(c) ==
    LET me == client[c] IN
    /\ me.pc = "rollback" \/ (me.pc = "run" /\ me.status = "rollback_pending")
    /\ Rewrite(c, move.source[me.op].move, "active", "restored")
    /\ UNCHANGED <<document, move, deletion, current, repair, audit, bounds>>

Rollback(c) ==
    LET me == client[c] IN
    /\ me.pc = "rollback" \/ (me.pc = "run" /\ me.status = "rollback_pending")
    /\ IF manifest.kind = "gone" THEN End(c)
       ELSE IF manifest.move = me.op THEN Rewrite(c, me.op, "active", "shown")
       ELSE Rewrite(c, move.source[me.op].move, "active", "restored")
    /\ UNCHANGED <<document, move, deletion, current, repair, audit, bounds>>

-----------------------------------------------------------------------------
OpenDelete(c) ==
    /\ client[c].pc = "idle"
    /\ IF deletion.status \in {"none", "completed"}
         THEN /\ deletion.op < MaxDeletes /\ manifest.kind = "active" /\ FenceReleased
              /\ deletion' = [op |-> deletion.op + 1, status |-> "initialized",
                              source |-> [deletion.source EXCEPT ![deletion.op + 1] = manifest]]
              /\ current' = (current \ Deleters) \cup {c}
              /\ Step(c, [Idle EXCEPT !.pc = "run", !.op = deletion.op + 1, !.status = "initialized"])
         ELSE /\ UNCHANGED deletion /\ current' = current \cup {c}
              /\ Step(c, [Idle EXCEPT !.pc = "run", !.op = deletion.op, !.status = deletion.status])
    /\ UNCHANGED <<document, move, repair, audit, bounds>>

(* The intent is there before the tombstone is.                            *)
PrepareDelete(c) ==
    LET o == client[c].op IN
    /\ client[c].pc = "run" /\ client[c].status = "initialized"
    /\ Transition(o, {"none"}, "prepared")
    /\ To(c, "prepared")
    /\ UNCHANGED <<document, move, deletion, current, audit, bounds>>

PreparedDelete(c) ==
    /\ client[c].pc = "prepared"
    /\ AdvanceDelete(c, "prepared", "run")
    /\ audit' = IF c \in current THEN [audit EXCEPT !.deletes[client[c].op] = Open] ELSE audit
    /\ UNCHANGED <<document, move, repair, bounds>>

Revoked(o) == manifest.kind = "revoked" /\ manifest.deletion = o
Tombstone(o) == [deletion.source[o] EXCEPT !.kind = "revoked", !.deletion = o]

TombstoneFound(c) ==
    LET o == client[c].op IN
    /\ client[c].pc = "run" /\ client[c].status = "prepared"
    /\ \/ manifest = deletion.source[o] /\ manifest' = Tombstone(o) /\ To(c, "tombstoned")
       \/ Revoked(o) /\ To(c, "tombstoned") /\ UNCHANGED manifest
       \/ manifest.kind = "gone" /\ End(c) /\ UNCHANGED manifest
    /\ UNCHANGED <<vectors, move, deletion, current, repair, audit, bounds>>

(* The tombstone is a conditional put; when it is gone already, the intent *)
(* shows that the cleanup has seen it.                                     *)
PutTombstone(c) ==
    LET o == client[c].op IN
    /\ client[c].pc = "run" /\ client[c].status = "prepared"
    /\ \/ manifest = deletion.source[o] /\ manifest' = Tombstone(o) /\ To(c, "tombstoned") /\ UNCHANGED faults
       \/ Revoked(o) /\ To(c, "tombstoned") /\ UNCHANGED <<manifest, faults>>
       \/ /\ manifest # deletion.source[o] /\ ~Revoked(o) /\ manifest.kind # "gone"
          /\ Step(c, [client[c] EXCEPT !.pc = "refuse", !.seen = manifest]) /\ UNCHANGED <<manifest, faults>>
       \/ /\ manifest.kind = "gone" /\ UNCHANGED <<manifest, faults>>
          /\ IF repair[o] \in {"none", "prepared", "abandoned"} THEN End(c) ELSE To(c, "tombstoned")
       \/ /\ manifest = deletion.source[o] /\ Fault /\ End(c)
          /\ manifest' \in {manifest, Tombstone(o)}
    /\ UNCHANGED <<vectors, move, deletion, current, repair, audit, edits, crashes>>

Refuse(c) ==
    LET o == client[c].op
        entry == Recorded("conflict", client[c].seen)
    IN
    /\ client[c].pc = "refuse"
    /\ RecordDelete(o, entry)
    /\ IF Accepts(audit.deletes[o], entry) THEN To(c, "abandon") ELSE End(c)
    /\ UNCHANGED <<document, move, deletion, current, repair, bounds>>

Abandon(c) ==
    /\ client[c].pc = "abandon" /\ End(c)
    /\ Transition(client[c].op, {"prepared", "deny_committed"}, "abandoned")
    /\ UNCHANGED <<document, move, deletion, current, audit, bounds>>

Tombstoned(c) ==
    /\ client[c].pc = "tombstoned"
    /\ AdvanceDelete(c, "tombstoned", "run")
    /\ UNCHANGED <<document, move, repair, audit, bounds>>

(* The cleanup is registered, unless a batch is ahead: then the step it    *)
(* took makes this one fail, or there is nothing left to do.               *)
RegisterDelete(c) ==
    LET o == client[c].op IN
    /\ client[c].pc = "run" /\ client[c].status \in {"tombstoned", "cleanup_pending"}
    /\ \/ repair[o] = "abandoned" /\ To(c, "pending") /\ UNCHANGED <<repair, faults>>
       \/ repair[o] = "prepared" /\ Transition(o, {"prepared"}, "deny_committed")
          /\ To(c, "register") /\ UNCHANGED faults
       \/ repair[o] = "deny_committed" /\ To(c, "register") /\ UNCHANGED <<repair, faults>>
       \/ repair[o] \in {"cleanup_registered", "cleanup_completed"}
          /\ To(c, "clean") /\ UNCHANGED <<repair, faults>>
       \/ Fault /\ To(c, "pending") /\ UNCHANGED repair
    /\ UNCHANGED <<document, move, deletion, current, audit, edits, crashes>>

RegisteredDelete(c) ==
    /\ client[c].pc = "register"
    /\ Transition(client[c].op, {"deny_committed"}, "cleanup_registered")
    /\ To(c, "clean")
    /\ UNCHANGED <<document, move, deletion, current, audit, bounds>>

CleanDeleted(c) ==
    /\ client[c].pc = "clean"
    /\ \/ vectors' = [vectors EXCEPT !.there = FALSE] /\ To(c, "cleaned") /\ UNCHANGED faults
       \/ Fault /\ To(c, "pending") /\ vectors' \in {vectors, [vectors EXCEPT !.there = FALSE]}
    /\ UNCHANGED <<manifest, move, deletion, current, repair, audit, edits, crashes>>

PendingDelete(c) ==
    /\ client[c].pc = "pending" /\ End(c)
    /\ IF c \in current
         THEN deletion' = [deletion EXCEPT !.status = "cleanup_pending"] /\ current' = current \ Deleters
         ELSE UNCHANGED <<deletion, current>>
    /\ UNCHANGED <<document, move, repair, audit, bounds>>

RecordDeleted(c) ==
    LET o == client[c].op
        entry == Recorded("success", Tombstone(o))
    IN
    /\ client[c].pc = "cleaned"
    /\ RecordDelete(o, entry)
    /\ IF Accepts(audit.deletes[o], entry) THEN To(c, "recorded") ELSE End(c)
    /\ UNCHANGED <<document, move, deletion, current, repair, bounds>>

FinishDelete(c) ==
    /\ client[c].pc = "recorded"
    /\ AdvanceDelete(c, "completed", "run")
    /\ UNCHANGED <<document, move, repair, audit, bounds>>

ReturnDelete(c) ==
    /\ client[c].pc = "run" /\ client[c].status = "completed"
    /\ End(c)
    /\ UNCHANGED <<document, move, deletion, current, repair, audit, bounds>>

-----------------------------------------------------------------------------
(* The common cleanup batch, step by step, once the tombstone is there.    *)
Batch(o) ==
    /\ Revoked(o) \/ (manifest.kind = "gone" /\ manifest.deletion = o)
    /\ \/ repair[o] = "prepared" /\ Transition(o, {"prepared"}, "deny_committed") /\ UNCHANGED document
       \/ repair[o] = "deny_committed" /\ Transition(o, {"deny_committed"}, "cleanup_registered")
          /\ UNCHANGED document
       \/ /\ repair[o] = "cleanup_registered" /\ UNCHANGED repair
          /\ \/ manifest' = [manifest EXCEPT !.kind = "gone"] /\ UNCHANGED vectors
             \/ vectors' = [vectors EXCEPT !.there = FALSE] /\ UNCHANGED manifest
       \/ /\ repair[o] = "cleanup_registered" /\ manifest.kind = "gone" /\ ~vectors.there
          /\ Transition(o, {"cleanup_registered"}, "cleanup_completed") /\ UNCHANGED document
    /\ UNCHANGED <<move, deletion, current, audit, client, bounds>>

(* Whoever else writes the manifest, such as a transfer of its ownership,  *)
(* puts it by the version it has read: it is as it was read.               *)
Edit ==
    /\ manifest.kind = "active"
    /\ edits < MaxEdits /\ edits' = edits + 1
    /\ manifest' = [manifest EXCEPT !.rev = @ + 1]
    /\ UNCHANGED <<vectors, move, deletion, current, repair, audit, client, faults, crashes>>

Crash(c) ==
    /\ client[c].pc # "idle"
    /\ crashes < MaxCrashes /\ crashes' = crashes + 1
    /\ End(c)
    /\ UNCHANGED <<document, move, deletion, current, repair, audit, edits, faults>>

MoverStep(c) ==
    \/ OpenMove(c) \/ PrepareMove(c) \/ Stage(c) \/ ReadVectors(c) \/ PutVectors(c) \/ Staged(c)
    \/ CommitMove(c) \/ Moved(c) \/ Show(c) \/ Record(c) \/ FinishMove(c) \/ ReturnMove(c)
    \/ MarkRollback(c) \/ Rollback(c)

DeleterStep(c) ==
    \/ OpenDelete(c) \/ PrepareDelete(c) \/ PreparedDelete(c) \/ PutTombstone(c) \/ Refuse(c)
    \/ Abandon(c) \/ Tombstoned(c) \/ RegisterDelete(c) \/ RegisteredDelete(c) \/ CleanDeleted(c)
    \/ PendingDelete(c) \/ RecordDeleted(c) \/ FinishDelete(c) \/ ReturnDelete(c)

Next ==
    \/ \E c \in Movers : MoverStep(c)
    \/ \E c \in Deleters : DeleterStep(c)
    \/ \E c \in Clients : Crash(c)
    \/ \E o \in Deletes : Batch(o)
    \/ Edit

Spec == Init /\ [][Next]_vars

(* Requests are served to their end and repeated until they are answered.  *)
(* Nothing is assumed of the batch.                                        *)
Fairness ==
    /\ \A c \in Movers : WF_vars(MoverStep(c))
    /\ \A c \in Deleters : WF_vars(DeleterStep(c))
FairSpec == Spec /\ Fairness

-----------------------------------------------------------------------------
ManifestRecord ==
    [kind : {"active", "revoked", "gone"}, move : 0..MaxMoves, deletion : 0..MaxDeletes, rev : 0..MaxEdits]
MoveStatus ==
    {"none", "initialized", "prepared", "projections_staging", "projections_staged",
     "manifest_committed", "rollback_pending", "rolled_back", "completed"}
DeleteStatus == {"none", "initialized", "prepared", "tombstoned", "cleanup_pending", "completed"}
Modes == {"active", "staging", "superseded"}
AuditRecord == [result : {"none", "open", "success", "conflict", "failed"}, after : ManifestRecord]
ClientRecord ==
    [pc : {"idle", "run", "rewrite", "put_vectors", "staged", "moved", "shown", "conflict", "restored",
           "success", "failure", "end", "mark_rollback", "rollback", "prepared", "refuse", "abandon",
           "tombstoned", "register", "clean", "cleaned", "pending", "recorded"},
     op : Nat, status : MoveStatus \cup DeleteStatus,
     goal : [place : 0..MaxMoves, mode : Modes], seen : ManifestRecord,
     then : {"run", "staged", "shown", "conflict", "restored"}]

TypeOK ==
    /\ manifest \in ManifestRecord
    /\ vectors \in [there : BOOLEAN, place : 0..MaxMoves, mode : Modes]
    /\ move \in [op : 0..MaxMoves, status : MoveStatus, source : [Moves -> ManifestRecord]]
    /\ deletion \in [op : 0..MaxDeletes, status : DeleteStatus, source : [Deletes -> ManifestRecord]]
    /\ current \subseteq Clients
    /\ repair \in [Deletes -> {"none", "prepared", "deny_committed", "cleanup_registered",
                               "cleanup_completed", "abandoned"}]
    /\ audit \in [moves : [Moves -> AuditRecord], deletes : [Deletes -> AuditRecord]]
    /\ client \in [Clients -> ClientRecord]
    /\ edits \in 0..MaxEdits /\ faults \in 0..MaxFaults /\ crashes \in 0..MaxCrashes

(* A search finds the document only where its manifest says it is, and,    *)
(* once no move is under way, finds it again.                              *)
FoundWhereItIs ==
    manifest.kind = "active" /\ vectors.there =>
        /\ vectors.mode = "active" => vectors.place = manifest.move
        /\ move.status \in MoveTerminal => vectors.mode = "active"

(* The recorded outcome of a move or deletion is what became of the        *)
(* manifest, whoever recorded it and however often it was resumed.         *)
Refusals == {"conflict", "failed"}
OutcomesAreTrue ==
    /\ \A o \in Moves : /\ audit.moves[o].result = "success" => manifest.move >= o
                        /\ audit.moves[o].result \in Refusals => manifest.move # o
    /\ \A o \in Deletes : /\ audit.deletes[o].result = "success" => manifest.deletion = o
                          /\ audit.deletes[o].result \in Refusals => manifest.deletion # o

(* A tombstoned document's deletion comes to its end, also when the batch  *)
(* has removed the tombstone before the request saw it.                    *)
DeletionCompletes == manifest.kind # "active" ~> deletion.status = "completed"

(* A move settles while its document lives.  One whose failure was         *)
(* recorded, but not the end of it, before the document changed once more  *)
(* does not: every repetition records the changed document, and throws.    *)
Contradicted ==
    LET recorded == audit.moves[move.op] IN
    move.op # 0 /\ recorded.result \in Refusals /\ recorded.after # manifest
MoveSettles ==
    move.status \notin MoveTerminal ~>
        (move.status \in MoveTerminal \/ manifest.kind # "active" \/ Contradicted)

(* A deletion is decided, one way or the other.  It is not: one that meets *)
(* an edited document stays prepared, is refused again and again, and      *)
(* keeps every other deletion of the document out.                         *)
DeletionIsDecided == deletion.status = "prepared" ~> deletion.status # "prepared"
=============================================================================
