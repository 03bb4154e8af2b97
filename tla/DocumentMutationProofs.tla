----------------------- MODULE DocumentMutationProofs -----------------------
(***************************************************************************)
(* Proofs about moving and deleting a document, for any number of movers   *)
(* and deleters that serve the same requests at once, and any number of    *)
(* requests, edits, failures and deaths.                                   *)
(***************************************************************************)
EXTENDS DocumentMutation, TLAPS

-----------------------------------------------------------------------------
(* The inductive invariant of deletions.                                   *)

(* A manifest only moves on: to a higher revision, a later move, or out of *)
(* "active", so what has moved beyond a snapshot never equals it again.    *)
Beyond(s) == manifest.kind # "active" \/ manifest.rev > s.rev \/ manifest.move > s.move

Snapshot(s) ==
    /\ s.kind = "active" /\ s.deletion = 0
    /\ s.rev <= manifest.rev /\ s.move <= manifest.move

ManifestInv ==
    /\ manifest.kind = "active" <=> manifest.deletion = 0
    /\ manifest.move <= move.op /\ manifest.rev <= edits
    /\ \A o \in Moves : Snapshot(move.source[o]) /\ move.source[o].move < o
    /\ \A o \in Deletes : Snapshot(deletion.source[o])

(* A client serves a request that was stored; a current copy is a copy.    *)
CopyOf(c, stored) ==
    /\ client[c].op <= stored.op
    /\ client[c].pc # "idle" => client[c].op >= 1
    /\ client[c].pc # "idle" /\ c \in current => client[c].op = stored.op /\ client[c].status = stored.status

CopyInv ==
    /\ move.op = 0 => move.status = "none"
    /\ deletion.op = 0 => deletion.status = "none"
    /\ \A c \in Movers : CopyOf(c, move)
    /\ \A c \in Deleters : CopyOf(c, deletion)

(* From here on a deletion has revoked the document.                       *)
RevokedStatus == {"tombstoned", "cleanup_pending", "completed"}
Revoking(c) ==
    \/ client[c].pc \in {"tombstoned", "register", "clean", "cleaned", "pending", "recorded"}
    \/ client[c].pc = "run" /\ client[c].status \in RevokedStatus

(* A deletion that has missed the document it was asked for.               *)
Missed(o) == manifest.deletion # o /\ Beyond(deletion.source[o])

DeleterFits(c) ==
    /\ Revoking(c) => manifest.deletion = client[c].op
    /\ client[c].pc = "refuse" => Missed(client[c].op)

Handed == {"deny_committed", "cleanup_registered", "cleanup_completed"}

DeletionInv ==
    /\ deletion.status \in RevokedStatus => manifest.deletion = deletion.op
    /\ \A c \in Deleters : DeleterFits(c)
    /\ \A o \in Deletes :
         /\ repair[o] \in Handed => manifest.deletion = o
         /\ audit.deletes[o].result = "success" => manifest.deletion = o
         /\ audit.deletes[o].result \in Refusals => Missed(o)
         /\ o > deletion.op => audit.deletes[o].result = "none"

(* Index records go only with a deleted document.                          *)
RecordsInv == manifest.kind = "active" => vectors.there

DeleteInv == ManifestInv /\ CopyInv /\ DeletionInv /\ RecordsInv

-----------------------------------------------------------------------------
(* The inductive invariant of moves.                                       *)

(* A client that takes its move for done.                                  *)
Placed(me) ==
    \/ me.pc \in {"moved", "shown", "success"}
    \/ me.pc \in {"rewrite", "put_vectors"} /\ me.then = "shown"
    \/ me.pc = "run" /\ me.status = "manifest_committed"

MoveInv ==
    /\ move.status \in {"manifest_committed", "completed"} => manifest.move >= move.op
    /\ \A c \in Movers : /\ Placed(client[c]) => manifest.move >= client[c].op
                         /\ client[c].pc \in {"rewrite", "put_vectors"} => client[c].then # "run"
    /\ \A o \in Moves : audit.moves[o].result = "success" => manifest.move >= o

-----------------------------------------------------------------------------
(* What the helpers do, in terms of fields.                                *)

Labels ==
    {"idle", "run", "rewrite", "put_vectors", "staged", "moved", "shown", "conflict", "restored",
     "success", "failure", "end", "mark_rollback", "rollback", "prepared", "refuse", "abandon",
     "tombstoned", "register", "clean", "cleaned", "pending", "recorded"}
Thens == {"run", "staged", "shown", "conflict", "restored"}

ClientTyped == client \in [Clients -> ClientRecord]
Others(c) == \A b \in Clients \ {c} : client'[b] = client[b]
Ends(c) == client'[c].pc = "idle" /\ client'[c].op = 0 /\ client'[c].status = "none"
Keeps(c) == client'[c].op = client[c].op /\ client'[c].status = client[c].status
Goes(c, pc) ==
    /\ Keeps(c) /\ client'[c].pc = pc
    /\ client'[c].goal = client[c].goal /\ client'[c].then = client[c].then
Rewrites(c, place, mode, then) ==
    /\ Keeps(c) /\ client'[c].pc = "rewrite" /\ client'[c].then = then
    /\ client'[c].goal.place = place /\ client'[c].goal.mode = mode
Takes(c, status, pc) ==
    /\ client'[c].op = client[c].op /\ client'[c].status = status /\ client'[c].pc = pc

(* The record of a client, field by field.                                 *)
LEMMA RecordFields ==
    ASSUME NEW me \in ClientRecord
    PROVE  /\ me.pc \in Labels /\ me.op \in Nat /\ me.status \in MoveStatus \cup DeleteStatus
           /\ me.goal.place \in 0..MaxMoves /\ me.goal.mode \in Modes /\ me.then \in Thens
BY DEF ClientRecord, Labels, Thens

(* A step of one client leaves the others alone.                           *)
LEMMA StepFields ==
    ASSUME ClientTyped, NEW c \in Clients, NEW rec \in ClientRecord, Step(c, rec)
    PROVE  ClientTyped' /\ client'[c] = rec /\ Others(c)
BY DEF ClientTyped, Step, Others

(* Going to another label.                                                 *)
LEMMA ToFields ==
    ASSUME ClientTyped, NEW c \in Clients, NEW pc \in Labels, To(c, pc)
    PROVE  ClientTyped' /\ Others(c) /\ Goes(c, pc)
<1>1. [client[c] EXCEPT !.pc = pc] \in ClientRecord
  BY DEF ClientTyped, ClientRecord, Labels
<1>2. ClientTyped' /\ client'[c] = [client[c] EXCEPT !.pc = pc] /\ Others(c)
  BY <1>1, StepFields DEF To
<1>3. client[c] \in ClientRecord
  BY DEF ClientTyped
<1>. QED BY <1>2, <1>3 DEF Goes, Keeps, ClientRecord

(* The end of a request.                                                   *)
LEMMA EndFields ==
    ASSUME ClientTyped, NEW c \in Clients, End(c)
    PROVE  ClientTyped' /\ Others(c) /\ Ends(c)
<1>1. Idle \in ClientRecord
  BY ConstantAssumption DEF Idle, New, ClientRecord, ManifestRecord, MoveStatus, Modes
<1>2. ClientTyped' /\ client'[c] = Idle /\ Others(c)
  BY <1>1, StepFields DEF End
<1>. QED BY <1>2 DEF Ends, Idle

(* The beginning of a rewrite of the index records.                        *)
LEMMA RewriteFields ==
    ASSUME ClientTyped, manifest \in ManifestRecord, NEW c \in Clients, NEW place \in 0..MaxMoves, NEW mode \in Modes,
           NEW then \in Thens, Rewrite(c, place, mode, then)
    PROVE  ClientTyped' /\ Others(c) /\ Rewrites(c, place, mode, then)
<1>. DEFINE rec == [client[c] EXCEPT !.pc = "rewrite", !.then = then, !.seen = manifest,
                                     !.goal = [place |-> place, mode |-> mode]]
<1>0. client[c] \in ClientRecord
  BY DEF ClientTyped
<1>1. rec \in ClientRecord
  BY <1>0 DEF ClientRecord, Thens
<1>2. ClientTyped' /\ client'[c] = rec /\ Others(c)
  BY <1>1, StepFields DEF Rewrite
<1>. QED BY <1>0, <1>2 DEF Rewrites, Keeps, ClientRecord

(* A rewrite that fails takes the move back, or the request ends.          *)
LEMMA RewriteFailedFields ==
    ASSUME ClientTyped, NEW c \in Clients, RewriteFailed(c)
    PROVE  /\ ClientTyped' /\ Others(c)
           /\ Ends(c) \/ (Goes(c, "mark_rollback") /\ client[c].then = "staged")
BY ToFields, EndFields DEF RewriteFailed, Labels

(* A client that takes over a status.                                      *)
LEMMA TakeFields ==
    ASSUME ClientTyped, NEW c \in Clients, NEW status \in MoveStatus \cup DeleteStatus,
           NEW pc \in Labels, Step(c, [client[c] EXCEPT !.status = status, !.pc = pc])
    PROVE  ClientTyped' /\ Others(c) /\ Takes(c, status, pc)
<1>. DEFINE rec == [client[c] EXCEPT !.status = status, !.pc = pc]
<1>0. client[c] \in ClientRecord
  BY DEF ClientTyped
<1>1. rec \in ClientRecord
  BY <1>0 DEF ClientRecord, Labels
<1>2. ClientTyped' /\ client'[c] = rec /\ Others(c)
  BY <1>1, StepFields
<1>. QED BY <1>0, <1>2 DEF Takes, ClientRecord

(* A client that begins or resumes a request.                              *)
LEMMA OpenFields ==
    ASSUME ClientTyped, NEW c \in Clients, NEW status \in MoveStatus \cup DeleteStatus,
           NEW op \in Nat, Step(c, [Idle EXCEPT !.pc = "run", !.op = op, !.status = status])
    PROVE  /\ ClientTyped' /\ Others(c)
           /\ client'[c].op = op /\ client'[c].status = status /\ client'[c].pc = "run"
<1>. DEFINE rec == [Idle EXCEPT !.pc = "run", !.op = op, !.status = status]
<1>0. Idle \in ClientRecord
  BY ConstantAssumption DEF Idle, New, ClientRecord, ManifestRecord, MoveStatus, Modes
<1>1. rec \in ClientRecord
  BY <1>0 DEF ClientRecord
<1>2. ClientTyped' /\ client'[c] = rec /\ Others(c)
  BY <1>1, StepFields
<1>. QED BY <1>0, <1>2 DEF ClientRecord

-----------------------------------------------------------------------------
(* Types, by the parts of the state that a step writes.                    *)

DocumentTyped ==
    /\ manifest \in ManifestRecord
    /\ vectors \in [there : BOOLEAN, place : 0..MaxMoves, mode : Modes]
MoveTyped == move \in [op : 0..MaxMoves, status : MoveStatus, source : [Moves -> ManifestRecord]]
DeletionTyped ==
    deletion \in [op : 0..MaxDeletes, status : DeleteStatus, source : [Deletes -> ManifestRecord]]
CurrentTyped == current \subseteq Clients
RepairTyped ==
    repair \in [Deletes -> {"none", "prepared", "deny_committed", "cleanup_registered",
                            "cleanup_completed", "abandoned"}]
AuditTyped ==
    audit \in [moves : [Moves -> AuditRecord], deletes : [Deletes -> AuditRecord]]
BoundsTyped == edits \in 0..MaxEdits /\ faults \in 0..MaxFaults /\ crashes \in 0..MaxCrashes

(* The record of a request that has not been decided.                      *)
LEMMA OpenEntry == Open \in AuditRecord /\ Open.result = "open" /\ Nothing \in AuditRecord
                   /\ Nothing.result = "none"
BY ConstantAssumption DEF Open, Nothing, Recorded, New, AuditRecord, ManifestRecord

(* The parts are the type invariant.                                       *)
LEMMA TypeParts ==
    /\ TypeOK <=> /\ DocumentTyped /\ MoveTyped /\ DeletionTyped /\ CurrentTyped
                  /\ RepairTyped /\ AuditTyped /\ ClientTyped /\ BoundsTyped
    /\ TypeOK' <=> /\ DocumentTyped' /\ MoveTyped' /\ DeletionTyped' /\ CurrentTyped'
                   /\ RepairTyped' /\ AuditTyped' /\ ClientTyped' /\ BoundsTyped'
BY DEF TypeOK, DocumentTyped, MoveTyped, DeletionTyped, CurrentTyped, RepairTyped, AuditTyped,
       ClientTyped, BoundsTyped

(* What is left alone keeps its type.                                      *)
LEMMA UnchangedTyped ==
    /\ DocumentTyped /\ UNCHANGED document => DocumentTyped'
    /\ MoveTyped /\ UNCHANGED move => MoveTyped'
    /\ DeletionTyped /\ UNCHANGED deletion => DeletionTyped'
    /\ CurrentTyped /\ UNCHANGED current => CurrentTyped'
    /\ RepairTyped /\ UNCHANGED repair => RepairTyped'
    /\ AuditTyped /\ UNCHANGED audit => AuditTyped'
    /\ BoundsTyped /\ UNCHANGED bounds => BoundsTyped'
BY DEF DocumentTyped, MoveTyped, DeletionTyped, CurrentTyped, RepairTyped, AuditTyped, BoundsTyped,
       document, bounds

(* A failing call counts.                                                  *)
LEMMA FaultTyped ==
    ASSUME BoundsTyped, UNCHANGED <<edits, crashes>>, Fault \/ UNCHANGED faults
    PROVE  BoundsTyped'
BY ConstantAssumption DEF BoundsTyped, Fault

(* A step that writes nothing but its client's progress.                   *)
LEMMA OnlyClientTyped ==
    ASSUME TypeOK, ClientTyped', BoundsTyped',
           UNCHANGED <<document, move, deletion, current, repair, audit>>
    PROVE  TypeOK'
BY TypeParts, UnchangedTyped

(* The values the fields of the state range over.                          *)
LEMMA Values ==
    ASSUME TypeOK
    PROVE  /\ manifest.kind \in {"active", "revoked", "gone"} /\ manifest.move \in 0..MaxMoves
           /\ manifest.deletion \in 0..MaxDeletes /\ manifest.rev \in 0..MaxEdits
           /\ vectors.there \in BOOLEAN /\ vectors.place \in 0..MaxMoves /\ vectors.mode \in Modes
           /\ move.op \in 0..MaxMoves /\ move.status \in MoveStatus
           /\ \A o \in Moves : move.source[o] \in ManifestRecord
           /\ deletion.op \in 0..MaxDeletes /\ deletion.status \in DeleteStatus
           /\ \A o \in Deletes : deletion.source[o] \in ManifestRecord
           /\ \A c \in Clients : client[c] \in ClientRecord
BY DEF TypeOK, ManifestRecord

(* A client that serves a request serves one that was begun.               *)
LEMMA Served ==
    ASSUME TypeOK, CopyInv
    PROVE  /\ Movers \subseteq Clients /\ Deleters \subseteq Clients
           /\ \A c \in Movers : client[c].op \in 0..MaxMoves
           /\ \A c \in Movers : client[c].pc # "idle" => client[c].op \in Moves
           /\ \A c \in Deleters : client[c].op \in 0..MaxDeletes
           /\ \A c \in Deleters : client[c].pc # "idle" => client[c].op \in Deletes
<1>1. Movers \subseteq Clients /\ Deleters \subseteq Clients
  BY DEF Clients
<1>2. \A c \in Clients : client[c].op \in Nat
  BY Values, RecordFields
<1>. QED BY <1>1, <1>2, Values, ConstantAssumption DEF CopyInv, CopyOf, Moves, Deletes

-----------------------------------------------------------------------------
(* Advancing a stored state.                                               *)

(* Writing the stored move, or going on from the one that is found.        *)
LEMMA AdvanceMoveFields ==
    ASSUME TypeOK, CopyInv, NEW c \in Movers, client[c].pc # "idle",
           NEW status \in MoveStatus, NEW pc \in Labels \ {"idle"}, AdvanceMove(c, status, pc)
    PROVE  /\ ClientTyped' /\ MoveTyped' /\ CurrentTyped' /\ Others(c)
           /\ move'.op = move.op /\ move'.source = move.source
           /\ \A b \in Deleters : b \in current' <=> b \in current
           /\ \A b \in Movers : CopyOf(b, move)'
           /\ \/ /\ c \in current /\ c \in current' /\ client[c].op = move.op
                 /\ move'.status = status /\ Takes(c, status, pc)
              \/ /\ c \notin current /\ c \in current' /\ client[c].op = move.op
                 /\ move' = move /\ Takes(c, move.status, pc)
              \/ c \notin current /\ move' = move /\ Ends(c)
<1>0. /\ c \in Clients /\ ClientTyped /\ MoveTyped /\ CurrentTyped
      /\ client[c].op \in Moves /\ move.op \in 0..MaxMoves /\ move.status \in MoveStatus
  BY TypeParts, Served, Values
<1>1. CASE c \in current
  <2>1. move' = [move EXCEPT !.status = status] /\ Took(c, status, pc)
    BY <1>1 DEF AdvanceMove
  <2>2. ClientTyped' /\ Others(c) /\ Takes(c, status, pc)
    BY <1>0, <2>1, TakeFields DEF Took
  <2>3. current' = (current \ Movers) \cup {c}
    BY <2>1 DEF Took, Same
  <2>4. MoveTyped' /\ move'.op = move.op /\ move'.source = move.source /\ move'.status = status
    BY <1>0, <2>1 DEF MoveTyped
  <2>5. client[c].op = move.op
    BY <1>1 DEF CopyInv, CopyOf
  <2>6. \A b \in Movers : CopyOf(b, move)'
    BY <2>2, <2>3, <2>4, <2>5, <1>0, Served DEF CopyInv, CopyOf, Others, Takes, Moves
  <2>. QED BY <1>0, <1>1, <2>2, <2>3, <2>4, <2>5, <2>6, ConstantAssumption DEF CurrentTyped
<1>2. CASE c \notin current /\ move.op = client[c].op
  <2>1. move' = move /\ current' = current \cup {c}
        /\ Step(c, [client[c] EXCEPT !.status = move.status, !.pc = pc])
    BY <1>2 DEF AdvanceMove, Reread
  <2>2. ClientTyped' /\ Others(c) /\ Takes(c, move.status, pc)
    BY <1>0, <2>1, TakeFields
  <2>6. \A b \in Movers : CopyOf(b, move)'
    BY <2>2, <2>1, <1>2, <1>0, Served DEF CopyInv, CopyOf, Others, Takes, Moves
  <2>. QED BY <1>0, <1>2, <2>1, <2>2, <2>6, ConstantAssumption DEF CurrentTyped, MoveTyped
<1>3. CASE c \notin current /\ move.op # client[c].op
  <2>1. move' = move /\ current' = current /\ End(c)
    BY <1>3 DEF AdvanceMove, Reread
  <2>2. ClientTyped' /\ Others(c) /\ Ends(c)
    BY <1>0, <2>1, EndFields
  <2>6. \A b \in Movers : CopyOf(b, move)'
    BY <2>2, <2>1, <1>0, Served DEF CopyInv, CopyOf, Others, Ends
  <2>. QED BY <1>0, <1>3, <2>1, <2>2, <2>6 DEF CurrentTyped, MoveTyped
<1>. QED BY <1>1, <1>2, <1>3

(* The same for a deletion.                                                *)
LEMMA AdvanceDeleteFields ==
    ASSUME TypeOK, CopyInv, NEW c \in Deleters, client[c].pc # "idle",
           NEW status \in DeleteStatus, NEW pc \in Labels \ {"idle"}, AdvanceDelete(c, status, pc)
    PROVE  /\ ClientTyped' /\ DeletionTyped' /\ CurrentTyped' /\ Others(c)
           /\ deletion'.op = deletion.op /\ deletion'.source = deletion.source
           /\ \A b \in Movers : b \in current' <=> b \in current
           /\ \A b \in Deleters : CopyOf(b, deletion)'
           /\ \/ /\ c \in current /\ client[c].op = deletion.op
                 /\ deletion'.status = status /\ Takes(c, status, pc)
              \/ /\ client[c].op = deletion.op
                 /\ deletion' = deletion /\ Takes(c, deletion.status, pc)
              \/ deletion' = deletion /\ Ends(c)
<1>0. /\ c \in Clients /\ ClientTyped /\ DeletionTyped /\ CurrentTyped /\ c \notin Movers
      /\ client[c].op \in Deletes /\ deletion.op \in 0..MaxDeletes /\ deletion.status \in DeleteStatus
  BY TypeParts, Served, Values, ConstantAssumption
<1>1. CASE c \in current
  <2>1. deletion' = [deletion EXCEPT !.status = status] /\ Took(c, status, pc)
    BY <1>1 DEF AdvanceDelete
  <2>2. ClientTyped' /\ Others(c) /\ Takes(c, status, pc)
    BY <1>0, <2>1, TakeFields DEF Took
  <2>3. current' = (current \ Deleters) \cup {c}
    BY <1>0, <2>1 DEF Took, Same
  <2>4. /\ DeletionTyped' /\ deletion'.op = deletion.op
        /\ deletion'.source = deletion.source /\ deletion'.status = status
    BY <1>0, <2>1 DEF DeletionTyped
  <2>5. client[c].op = deletion.op
    BY <1>1 DEF CopyInv, CopyOf
  <2>6. \A b \in Deleters : CopyOf(b, deletion)'
    BY <2>2, <2>3, <2>4, <2>5, <1>0, Served DEF CopyInv, CopyOf, Others, Takes, Deletes
  <2>. QED BY <1>0, <1>1, <2>2, <2>3, <2>4, <2>5, <2>6, ConstantAssumption DEF CurrentTyped
<1>2. CASE c \notin current /\ deletion.op = client[c].op
  <2>1. deletion' = deletion /\ current' = current \cup {c}
        /\ Step(c, [client[c] EXCEPT !.status = deletion.status, !.pc = pc])
    BY <1>2 DEF AdvanceDelete, Reread
  <2>2. ClientTyped' /\ Others(c) /\ Takes(c, deletion.status, pc)
    BY <1>0, <2>1, TakeFields
  <2>6. \A b \in Deleters : CopyOf(b, deletion)'
    BY <2>2, <2>1, <1>2, <1>0, Served DEF CopyInv, CopyOf, Others, Takes, Deletes
  <2>. QED BY <1>0, <1>2, <2>1, <2>2, <2>6, ConstantAssumption DEF CurrentTyped, DeletionTyped
<1>3. CASE c \notin current /\ deletion.op # client[c].op
  <2>1. deletion' = deletion /\ current' = current /\ End(c)
    BY <1>3 DEF AdvanceDelete, Reread
  <2>2. ClientTyped' /\ Others(c) /\ Ends(c)
    BY <1>0, <2>1, EndFields
  <2>6. \A b \in Deleters : CopyOf(b, deletion)'
    BY <2>2, <2>1, <1>0, Served DEF CopyInv, CopyOf, Others, Ends
  <2>. QED BY <1>0, <1>3, <2>1, <2>2, <2>6 DEF CurrentTyped, DeletionTyped
<1>. QED BY <1>1, <1>2, <1>3

(* A step that leaves the stored states alone leaves copies what they are. *)
LEMMA CopyKept ==
    ASSUME TypeOK, CopyInv, NEW c \in Clients, Others(c), client[c].pc # "idle",
           Keeps(c) \/ Ends(c), UNCHANGED <<move, deletion, current>>
    PROVE  CopyInv'
<1>1. ASSUME NEW b \in Movers PROVE CopyOf(b, move)'
  BY <1>1, Served, Values DEF CopyInv, CopyOf, Others, Keeps, Ends
<1>2. ASSUME NEW b \in Deleters PROVE CopyOf(b, deletion)'
  BY <1>2, Served, Values DEF CopyInv, CopyOf, Others, Keeps, Ends
<1>. QED BY <1>1, <1>2 DEF CopyInv

(* Nor does a step that advances the other stored state.                   *)
LEMMA OtherCopies ==
    ASSUME CopyInv, NEW c \in Clients, Others(c)
    PROVE  /\ c \in Movers /\ deletion'.op = deletion.op /\ deletion'.status = deletion.status
               /\ (\A b \in Deleters : b \in current' <=> b \in current)
               => \A b \in Deleters : CopyOf(b, deletion)'
           /\ c \in Deleters /\ move'.op = move.op /\ move'.status = move.status
               /\ (\A b \in Movers : b \in current' <=> b \in current)
               => \A b \in Movers : CopyOf(b, move)'
BY ConstantAssumption DEF CopyInv, CopyOf, Others, Clients

-----------------------------------------------------------------------------
(* What each step of a mover does.                                         *)

(* A request for a move resumes the stored one or begins another.          *)
LEMMA OpenMoveEffect ==
    ASSUME TypeOK, ManifestInv, CopyInv, NEW c \in Movers, OpenMove(c)
    PROVE  /\ TypeOK' /\ CopyInv' /\ Others(c) /\ client[c].pc = "idle" /\ client'[c].pc = "run"
           /\ UNCHANGED <<document, deletion, repair, audit>>
           /\ c \in current' /\ client'[c].op = move'.op /\ client'[c].status = move'.status
           /\ \/ /\ move.status \in MoveTerminal /\ manifest.kind = "active"
                 /\ move'.op = move.op + 1 /\ move'.status = "initialized"
                 /\ move'.op \in Moves /\ move'.source[move'.op] = manifest
                 /\ \A o \in Moves \ {move'.op} : move'.source[o] = move.source[o]
              \/ move.status \notin MoveTerminal /\ move' = move
<1>0. /\ c \in Clients /\ c \notin Deleters /\ move.op \in 0..MaxMoves /\ client[c].pc = "idle"
      /\ UNCHANGED <<document, deletion, repair, audit, bounds>>
      /\ DocumentTyped /\ MoveTyped /\ CurrentTyped /\ ClientTyped /\ manifest \in ManifestRecord
  BY TypeParts, Served, Values, ConstantAssumption DEF OpenMove, DocumentTyped
<1>1. CASE move.status \in MoveTerminal
  <2>1. /\ manifest.kind = "active" /\ move.op + 1 \in Moves
        /\ move' = [op |-> move.op + 1, status |-> "initialized",
                     source |-> [move.source EXCEPT ![move.op + 1] = manifest]]
        /\ current' = (current \ Movers) \cup {c}
        /\ Step(c, [Idle EXCEPT !.pc = "run", !.op = move.op + 1, !.status = "initialized"])
    BY <1>0, <1>1, ConstantAssumption DEF OpenMove, Moves
  <2>2. /\ ClientTyped' /\ Others(c) /\ client'[c].op = move.op + 1
        /\ client'[c].status = "initialized" /\ client'[c].pc = "run"
    <3>1. move.op + 1 \in Nat /\ "initialized" \in MoveStatus \cup DeleteStatus
      BY <1>0 DEF MoveStatus
    <3>. QED BY <1>0, <2>1, <3>1, OpenFields
  <2>. DEFINE n == move.op + 1
  <2>a. n \in Moves /\ n \in 0..MaxMoves /\ move.source \in [Moves -> ManifestRecord]
    BY <1>0, <2>1, ConstantAssumption DEF Moves, MoveTyped
  <2>b. /\ move'.op = n /\ move'.status = "initialized"
        /\ move'.source = [move.source EXCEPT ![n] = manifest]
        /\ move' = [op |-> move'.op, status |-> move'.status, source |-> move'.source]
    BY <2>1
  <2>c. /\ move'.source \in [Moves -> ManifestRecord] /\ move'.source[n] = manifest
        /\ \A o \in Moves \ {n} : move'.source[o] = move.source[o]
    BY <1>0, <2>a, <2>b
  <2>d. MoveTyped'
    <3>1. move'.status \in MoveStatus
      BY <2>b DEF MoveStatus
    <3>. HIDE DEF n
    <3>. QED BY <2>a, <2>b, <2>c, <3>1 DEF MoveTyped
  <2>3. /\ move'.op = move.op + 1 /\ move'.status = "initialized"
        /\ move'.source[move'.op] = manifest /\ MoveTyped'
        /\ \A o \in Moves \ {move'.op} : move'.source[o] = move.source[o]
    BY <2>b, <2>c, <2>d
  <2>4. ASSUME NEW b \in Movers PROVE CopyOf(b, move)'
    <3>1. CASE b = c
      BY <1>0, <2>2, <2>3, <3>1 DEF CopyOf
    <3>2. CASE b # c
      <4>1. client'[b] = client[b] /\ b \notin current' /\ client[b].op \in Nat /\ CopyOf(b, move)
        BY <1>0, <2>1, <2>2, <3>2, Served DEF Others, CopyInv
      <4>. QED BY <1>0, <2>3, <4>1 DEF CopyOf
    <3>. QED BY <3>1, <3>2
  <2>5. \A b \in Deleters : CopyOf(b, deletion)'
    BY <1>0, <2>1, <2>2, OtherCopies, ConstantAssumption
  <2>6. CurrentTyped'
    BY <1>0, <2>1 DEF CurrentTyped
  <2>. QED BY <1>0, <1>1, <2>1, <2>2, <2>3, <2>4, <2>5, <2>6, TypeParts, UnchangedTyped DEF CopyInv
<1>2. CASE move.status \notin MoveTerminal
  <2>1. /\ move' = move /\ current' = current \cup {c}
        /\ Step(c, [Idle EXCEPT !.pc = "run", !.op = move.op, !.status = move.status])
    BY <1>2 DEF OpenMove
  <2>v. move.op \in Nat /\ move.status \in MoveStatus \cup DeleteStatus
    BY <1>0, Values
  <2>2. /\ ClientTyped' /\ Others(c) /\ client'[c].op = move.op
        /\ client'[c].status = move.status /\ client'[c].pc = "run"
    BY <1>0, <2>1, <2>v, OpenFields
  <2>3. move.op >= 1
    BY <1>0, <1>2 DEF CopyInv, MoveTerminal
  <2>4. \A b \in Movers : CopyOf(b, move)'
    BY <1>0, <2>1, <2>2, <2>3, Served DEF CopyInv, CopyOf, Others
  <2>5. \A b \in Deleters : CopyOf(b, deletion)'
    BY <1>0, <2>1, <2>2, OtherCopies, ConstantAssumption
  <2>6. CurrentTyped'
    BY <1>0, <2>1 DEF CurrentTyped
  <2>. QED BY <1>0, <1>2, <2>1, <2>2, <2>4, <2>5, <2>6, TypeParts, UnchangedTyped DEF CopyInv
<1>. QED BY <1>1, <1>2

(* A request for a deletion does the same.                                 *)
LEMMA OpenDeleteEffect ==
    ASSUME TypeOK, ManifestInv, CopyInv, NEW c \in Deleters, OpenDelete(c)
    PROVE  /\ TypeOK' /\ CopyInv' /\ Others(c) /\ client[c].pc = "idle" /\ client'[c].pc = "run"
           /\ UNCHANGED <<document, move, repair, audit>>
           /\ c \in current' /\ client'[c].op = deletion'.op /\ client'[c].status = deletion'.status
           /\ \/ /\ deletion.status \in {"none", "completed"} /\ manifest.kind = "active"
                 /\ deletion'.op = deletion.op + 1 /\ deletion'.status = "initialized"
                 /\ deletion'.op \in Deletes /\ deletion'.source[deletion'.op] = manifest
                 /\ \A o \in Deletes \ {deletion'.op} : deletion'.source[o] = deletion.source[o]
              \/ deletion.status \notin {"none", "completed"} /\ deletion' = deletion
<1>0. /\ c \in Clients /\ c \notin Movers /\ deletion.op \in 0..MaxDeletes /\ client[c].pc = "idle"
      /\ UNCHANGED <<document, move, repair, audit, bounds>>
      /\ DocumentTyped /\ DeletionTyped /\ CurrentTyped /\ ClientTyped /\ manifest \in ManifestRecord
  BY TypeParts, Served, Values, ConstantAssumption DEF OpenDelete, DocumentTyped
<1>1. CASE deletion.status \in {"none", "completed"}
  <2>1. /\ manifest.kind = "active" /\ deletion.op + 1 \in Deletes
        /\ deletion' = [op |-> deletion.op + 1, status |-> "initialized",
                     source |-> [deletion.source EXCEPT ![deletion.op + 1] = manifest]]
        /\ current' = (current \ Deleters) \cup {c}
        /\ Step(c, [Idle EXCEPT !.pc = "run", !.op = deletion.op + 1, !.status = "initialized"])
    BY <1>0, <1>1, ConstantAssumption DEF OpenDelete, Deletes
  <2>2. /\ ClientTyped' /\ Others(c) /\ client'[c].op = deletion.op + 1
        /\ client'[c].status = "initialized" /\ client'[c].pc = "run"
    <3>1. deletion.op + 1 \in Nat /\ "initialized" \in DeleteStatus \cup MoveStatus
      BY <1>0 DEF DeleteStatus
    <3>. QED BY <1>0, <2>1, <3>1, OpenFields
  <2>. DEFINE n == deletion.op + 1
  <2>a. n \in Deletes /\ n \in 0..MaxDeletes /\ deletion.source \in [Deletes -> ManifestRecord]
    BY <1>0, <2>1, ConstantAssumption DEF Deletes, DeletionTyped
  <2>b. /\ deletion'.op = n /\ deletion'.status = "initialized"
        /\ deletion'.source = [deletion.source EXCEPT ![n] = manifest]
        /\ deletion' = [op |-> deletion'.op, status |-> deletion'.status, source |-> deletion'.source]
    BY <2>1
  <2>c. /\ deletion'.source \in [Deletes -> ManifestRecord] /\ deletion'.source[n] = manifest
        /\ \A o \in Deletes \ {n} : deletion'.source[o] = deletion.source[o]
    BY <1>0, <2>a, <2>b
  <2>d. DeletionTyped'
    <3>1. deletion'.status \in DeleteStatus
      BY <2>b DEF DeleteStatus
    <3>. HIDE DEF n
    <3>. QED BY <2>a, <2>b, <2>c, <3>1 DEF DeletionTyped
  <2>3. /\ deletion'.op = deletion.op + 1 /\ deletion'.status = "initialized"
        /\ deletion'.source[deletion'.op] = manifest /\ DeletionTyped'
        /\ \A o \in Deletes \ {deletion'.op} : deletion'.source[o] = deletion.source[o]
    BY <2>b, <2>c, <2>d
  <2>4. ASSUME NEW b \in Deleters PROVE CopyOf(b, deletion)'
    <3>1. CASE b = c
      BY <1>0, <2>2, <2>3, <3>1 DEF CopyOf
    <3>2. CASE b # c
      <4>1. client'[b] = client[b] /\ b \notin current' /\ client[b].op \in Nat /\ CopyOf(b, deletion)
        BY <1>0, <2>1, <2>2, <3>2, Served DEF Others, CopyInv
      <4>. QED BY <1>0, <2>3, <4>1 DEF CopyOf
    <3>. QED BY <3>1, <3>2
  <2>5. \A b \in Movers : CopyOf(b, move)'
    BY <1>0, <2>1, <2>2, OtherCopies, ConstantAssumption
  <2>6. CurrentTyped'
    BY <1>0, <2>1 DEF CurrentTyped
  <2>. QED BY <1>0, <1>1, <2>1, <2>2, <2>3, <2>4, <2>5, <2>6, TypeParts, UnchangedTyped DEF CopyInv
<1>2. CASE deletion.status \notin {"none", "completed"}
  <2>1. /\ deletion' = deletion /\ current' = current \cup {c}
        /\ Step(c, [Idle EXCEPT !.pc = "run", !.op = deletion.op, !.status = deletion.status])
    BY <1>2 DEF OpenDelete
  <2>v. deletion.op \in Nat /\ deletion.status \in DeleteStatus \cup MoveStatus
    BY <1>0, Values
  <2>2. /\ ClientTyped' /\ Others(c) /\ client'[c].op = deletion.op
        /\ client'[c].status = deletion.status /\ client'[c].pc = "run"
    BY <1>0, <2>1, <2>v, OpenFields
  <2>3. deletion.op >= 1
    BY <1>0, <1>2 DEF CopyInv
  <2>4. \A b \in Deleters : CopyOf(b, deletion)'
    BY <1>0, <2>1, <2>2, <2>3, Served DEF CopyInv, CopyOf, Others
  <2>5. \A b \in Movers : CopyOf(b, move)'
    BY <1>0, <2>1, <2>2, OtherCopies, ConstantAssumption
  <2>6. CurrentTyped'
    BY <1>0, <2>1 DEF CurrentTyped
  <2>. QED BY <1>0, <1>2, <2>1, <2>2, <2>4, <2>5, <2>6, TypeParts, UnchangedTyped DEF CopyInv
<1>. QED BY <1>1, <1>2

(* Beginning to rewrite index records: before the commit and after it.     *)
LEMMA StageEffect ==
    ASSUME TypeOK, CopyInv, NEW c \in Movers, Stage(c)
    PROVE  /\ TypeOK' /\ CopyInv' /\ Others(c)
           /\ UNCHANGED <<document, move, deletion, current, repair, audit>>
           /\ client[c].pc = "run" /\ client[c].status = "projections_staging"
           /\ Rewrites(c, client[c].op, "staging", "staged")
<1>1. /\ c \in Clients /\ ClientTyped /\ BoundsTyped /\ client[c].op \in 0..MaxMoves
      /\ manifest \in ManifestRecord
  BY TypeParts, Served DEF DocumentTyped
<1>2. /\ client[c].pc = "run" /\ client[c].status = "projections_staging"
      /\ Rewrite(c, client[c].op, "staging", "staged")
      /\ UNCHANGED <<document, move, deletion, current, repair, audit, bounds>>
  BY DEF Stage
<1>3. ClientTyped' /\ Others(c) /\ Rewrites(c, client[c].op, "staging", "staged")
  BY <1>1, <1>2, RewriteFields DEF Modes, Thens
<1>4. BoundsTyped'
  BY <1>1, <1>2, UnchangedTyped
<1>5. CopyInv'
  BY <1>1, <1>2, <1>3, CopyKept DEF Rewrites
<1>. QED BY <1>2, <1>3, <1>4, <1>5, OnlyClientTyped

(* The index records are shown where the manifest was committed.           *)
LEMMA ShowEffect ==
    ASSUME TypeOK, CopyInv, NEW c \in Movers, Show(c)
    PROVE  /\ TypeOK' /\ CopyInv' /\ Others(c)
           /\ UNCHANGED <<document, move, deletion, current, repair, audit>>
           /\ client[c].pc = "run" /\ client[c].status = "manifest_committed"
           /\ Rewrites(c, client[c].op, "active", "shown")
<1>1. /\ c \in Clients /\ ClientTyped /\ BoundsTyped /\ client[c].op \in 0..MaxMoves
      /\ manifest \in ManifestRecord
  BY TypeParts, Served DEF DocumentTyped
<1>2. /\ client[c].pc = "run" /\ client[c].status = "manifest_committed"
      /\ Rewrite(c, client[c].op, "active", "shown")
      /\ UNCHANGED <<document, move, deletion, current, repair, audit, bounds>>
  BY DEF Show
<1>3. ClientTyped' /\ Others(c) /\ Rewrites(c, client[c].op, "active", "shown")
  BY <1>1, <1>2, RewriteFields DEF Modes, Thens
<1>4. BoundsTyped'
  BY <1>1, <1>2, UnchangedTyped
<1>5. CopyInv'
  BY <1>1, <1>2, <1>3, CopyKept DEF Rewrites
<1>. QED BY <1>2, <1>3, <1>4, <1>5, OnlyClientTyped

(* Taking a move back, or showing what it has placed after all.            *)
LEMMA RollbackEffect ==
    ASSUME TypeOK, CopyInv, NEW c \in Movers, Rollback(c)
    PROVE  /\ TypeOK' /\ CopyInv' /\ Others(c)
           /\ UNCHANGED <<document, move, deletion, current, repair, audit>>
           /\ client[c].pc = "rollback" \/ (client[c].pc = "run" /\ client[c].status = "rollback_pending")
           /\ \/ Ends(c)
              \/ manifest.move = client[c].op /\ Rewrites(c, client[c].op, "active", "shown")
              \/ /\ manifest.move # client[c].op
                 /\ Rewrites(c, move.source[client[c].op].move, "active", "restored")
<1>0. client[c].pc = "rollback" \/ (client[c].pc = "run" /\ client[c].status = "rollback_pending")
  BY DEF Rollback
<1>1. /\ c \in Clients /\ ClientTyped /\ BoundsTyped /\ client[c].op \in 0..MaxMoves
      /\ client[c].op \in Moves /\ move.source[client[c].op].move \in 0..MaxMoves
      /\ manifest \in ManifestRecord
  BY <1>0, TypeParts, Served, Values DEF ManifestRecord, DocumentTyped
<1>2. UNCHANGED <<document, move, deletion, current, repair, audit, bounds>>
  BY DEF Rollback
<1>3. /\ ClientTyped' /\ Others(c)
      /\ \/ Ends(c)
         \/ manifest.move = client[c].op /\ Rewrites(c, client[c].op, "active", "shown")
         \/ /\ manifest.move # client[c].op
            /\ Rewrites(c, move.source[client[c].op].move, "active", "restored")
  <2>1. CASE manifest.kind = "gone"
    BY <1>1, <2>1, EndFields DEF Rollback
  <2>2. CASE manifest.kind # "gone" /\ manifest.move = client[c].op
    <3>1. Rewrite(c, client[c].op, "active", "shown")
      BY <2>2 DEF Rollback
    <3>. QED BY <1>1, <2>2, <3>1, RewriteFields DEF Modes, Thens
  <2>3. CASE manifest.kind # "gone" /\ manifest.move # client[c].op
    <3>1. Rewrite(c, move.source[client[c].op].move, "active", "restored")
      BY <2>3 DEF Rollback
    <3>. QED BY <1>1, <2>3, <3>1, RewriteFields DEF Modes, Thens
  <2>. QED BY <2>1, <2>2, <2>3
<1>4. BoundsTyped'
  BY <1>1, <1>2, UnchangedTyped
<1>5. CopyInv'
  BY <1>0, <1>1, <1>2, <1>3, CopyKept DEF Rewrites
<1>. QED BY <1>0, <1>2, <1>3, <1>4, <1>5, OnlyClientTyped

(* The end of a request for a move.                                        *)
LEMMA ReturnMoveEffect ==
    ASSUME TypeOK, CopyInv, NEW c \in Movers, ReturnMove(c)
    PROVE  /\ TypeOK' /\ CopyInv' /\ Others(c) /\ Ends(c)
           /\ UNCHANGED <<document, move, deletion, current, repair, audit>>
<1>1. /\ c \in Clients /\ ClientTyped /\ BoundsTyped /\ client[c].pc # "idle" /\ End(c)
      /\ UNCHANGED <<document, move, deletion, current, repair, audit, bounds>>
  BY TypeParts, Served DEF ReturnMove
<1>. QED BY <1>1, EndFields, UnchangedTyped, OnlyClientTyped, CopyKept

(* Reading index records before they are written back.                     *)
LEMMA ReadVectorsEffect ==
    ASSUME TypeOK, CopyInv, NEW c \in Movers, ReadVectors(c)
    PROVE  /\ TypeOK' /\ CopyInv' /\ Others(c) /\ client[c].pc = "rewrite"
           /\ UNCHANGED <<document, move, deletion, current, repair, audit>>
           /\ \/ Goes(c, "put_vectors") \/ Ends(c)
              \/ Goes(c, "mark_rollback") /\ client[c].then = "staged"
<1>1. /\ c \in Clients /\ ClientTyped /\ BoundsTyped /\ client[c].pc = "rewrite"
      /\ UNCHANGED <<document, move, deletion, current, repair, audit, edits, crashes>>
      /\ To(c, "put_vectors") \/ RewriteFailed(c)
      /\ UNCHANGED faults \/ Fault
  BY TypeParts, Served DEF ReadVectors
<1>2. /\ ClientTyped' /\ Others(c)
      /\ \/ Goes(c, "put_vectors") \/ Ends(c)
         \/ Goes(c, "mark_rollback") /\ client[c].then = "staged"
  BY <1>1, ToFields, RewriteFailedFields DEF Labels
<1>3. CopyInv'
  BY <1>1, <1>2, CopyKept DEF Goes
<1>. QED BY <1>1, <1>2, <1>3, FaultTyped, OnlyClientTyped

(* Writing them back.                                                      *)
LEMMA PutVectorsEffect ==
    ASSUME TypeOK, CopyInv, NEW c \in Movers, PutVectors(c)
    PROVE  /\ TypeOK' /\ CopyInv' /\ Others(c) /\ client[c].pc = "put_vectors"
           /\ UNCHANGED <<manifest, move, deletion, current, repair, audit>>
           /\ \/ /\ Goes(c, client[c].then) /\ vectors'.there = TRUE
                 /\ vectors'.place = client[c].goal.place /\ vectors'.mode = client[c].goal.mode
              \/ vectors' = vectors /\ Ends(c)
              \/ vectors' = vectors /\ Goes(c, "mark_rollback") /\ client[c].then = "staged"
<1>1. /\ c \in Clients /\ ClientTyped /\ BoundsTyped /\ DocumentTyped /\ client[c].pc = "put_vectors"
      /\ UNCHANGED <<manifest, move, deletion, current, repair, audit, edits, crashes>>
      /\ \/ /\ To(c, client[c].then)
            /\ vectors' = [there |-> TRUE, place |-> client[c].goal.place, mode |-> client[c].goal.mode]
         \/ vectors' = vectors /\ RewriteFailed(c)
      /\ UNCHANGED faults \/ Fault
  BY TypeParts, Served DEF PutVectors
<1>2. /\ client[c].then \in Labels /\ client[c].goal.place \in 0..MaxMoves
      /\ client[c].goal.mode \in Modes
  BY <1>1, RecordFields DEF ClientTyped, Labels, Thens
<1>3. CASE /\ To(c, client[c].then)
           /\ vectors' = [there |-> TRUE, place |-> client[c].goal.place, mode |-> client[c].goal.mode]
  <2>1. ClientTyped' /\ Others(c) /\ Goes(c, client[c].then)
    BY <1>1, <1>2, <1>3, ToFields
  <2>2. DocumentTyped'
    BY <1>1, <1>2, <1>3 DEF DocumentTyped
  <2>3. CopyInv'
    BY <1>1, <2>1, CopyKept DEF Goes
  <2>. QED BY <1>1, <1>3, <2>1, <2>2, <2>3, FaultTyped, TypeParts, UnchangedTyped
<1>4. CASE vectors' = vectors /\ RewriteFailed(c)
  <2>1. /\ ClientTyped' /\ Others(c)
        /\ Ends(c) \/ (Goes(c, "mark_rollback") /\ client[c].then = "staged")
    BY <1>1, <1>4, RewriteFailedFields
  <2>2. CopyInv'
    BY <1>1, <2>1, CopyKept DEF Goes
  <2>3. UNCHANGED document
    BY <1>1, <1>4 DEF document
  <2>. QED BY <1>1, <1>4, <2>1, <2>2, <2>3, FaultTyped, OnlyClientTyped
<1>. QED BY <1>1, <1>3, <1>4

(* The commit of a move: what the manifest became, and where the client    *)
(* goes from there.                                                        *)
LEMMA CommitMoveEffect ==
    ASSUME TypeOK, ManifestInv, CopyInv, NEW c \in Movers, CommitMove(c)
    PROVE  LET o == client[c].op
               source == move.source[o] IN
           /\ TypeOK' /\ CopyInv' /\ Others(c) /\ o \in Moves
           /\ UNCHANGED <<vectors, move, deletion, current, repair, audit>>
           /\ client[c].pc = "run" /\ client[c].status = "projections_staged"
           /\ \/ manifest' = manifest /\ Ends(c)
              \/ manifest' = manifest /\ manifest.move = o /\ Goes(c, "moved")
              \/ /\ manifest' = manifest /\ manifest.move # o /\ manifest # source
                 /\ Rewrites(c, manifest.move, IF manifest.kind = "active" THEN "active" ELSE "superseded",
                             "conflict")
              \/ manifest' = manifest /\ Goes(c, "mark_rollback")
              \/ /\ manifest = source /\ manifest' = [manifest EXCEPT !.move = o]
                 /\ Goes(c, "moved") \/ Goes(c, "mark_rollback")
<1>. DEFINE o == client[c].op
            source == move.source[o]
            mode == IF manifest.kind = "active" THEN "active" ELSE "superseded"
            To3(pc) == ClientTyped' /\ Others(c) /\ Goes(c, pc)
<1>0. /\ client[c].pc = "run" /\ client[c].status = "projections_staged"
      /\ UNCHANGED <<vectors, move, deletion, current, repair, audit, edits, crashes>>
      /\ UNCHANGED faults \/ Fault
  BY DEF CommitMove
<1>1. /\ c \in Clients /\ ClientTyped /\ DocumentTyped /\ BoundsTyped /\ o \in Moves /\ o \in 0..MaxMoves
      /\ manifest \in ManifestRecord /\ manifest.move \in 0..MaxMoves /\ source \in ManifestRecord
  BY <1>0, TypeParts, Served, Values DEF DocumentTyped
<1>2. \/ manifest' = manifest /\ End(c)
      \/ manifest' = manifest /\ manifest.move = o /\ To(c, "moved")
      \/ /\ manifest' = manifest /\ manifest.move # o /\ manifest # source
         /\ Rewrite(c, manifest.move, mode, "conflict")
      \/ manifest' = manifest /\ To(c, "mark_rollback")
      \/ /\ manifest = source /\ manifest' = [manifest EXCEPT !.move = o]
         /\ To(c, "moved") \/ To(c, "mark_rollback")
  BY DEF CommitMove, Converge, Target
<1>3. To(c, "moved") => To3("moved")
  BY <1>1, ToFields DEF Labels
<1>4. To(c, "mark_rollback") => To3("mark_rollback")
  BY <1>1, ToFields DEF Labels
<1>5. End(c) => ClientTyped' /\ Others(c) /\ Ends(c)
  BY <1>1, EndFields
<1>6. Rewrite(c, manifest.move, mode, "conflict") =>
        ClientTyped' /\ Others(c) /\ Rewrites(c, manifest.move, mode, "conflict")
  <2>1. mode \in Modes /\ "conflict" \in Thens
    BY DEF Modes, Thens
  <2>. QED BY <1>1, <2>1, RewriteFields
<1>. HIDE DEF mode
<1>7. /\ ClientTyped' /\ Others(c)
      /\ \/ manifest' = manifest /\ Ends(c)
         \/ manifest' = manifest /\ manifest.move = o /\ Goes(c, "moved")
         \/ /\ manifest' = manifest /\ manifest.move # o /\ manifest # source
            /\ Rewrites(c, manifest.move, mode, "conflict")
         \/ manifest' = manifest /\ Goes(c, "mark_rollback")
         \/ /\ manifest = source /\ manifest' = [manifest EXCEPT !.move = o]
            /\ Goes(c, "moved") \/ Goes(c, "mark_rollback")
  BY <1>2, <1>3, <1>4, <1>5, <1>6
<1>8. DocumentTyped'
  <2>1. manifest' = manifest \/ manifest' = [manifest EXCEPT !.move = o]
    BY <1>7
  <2>2. [manifest EXCEPT !.move = o] \in ManifestRecord
    BY <1>1 DEF ManifestRecord
  <2>. QED BY <1>0, <1>1, <2>1, <2>2 DEF DocumentTyped
<1>9. CopyInv'
  <2>1. Keeps(c) \/ Ends(c)
    BY <1>7 DEF Goes, Rewrites
  <2>. QED BY <1>0, <1>1, <1>7, <2>1, CopyKept
<1>10. TypeOK'
  BY <1>0, <1>1, <1>7, <1>8, FaultTyped, TypeParts, UnchangedTyped
<1>. QED BY <1>0, <1>1, <1>7, <1>9, <1>10 DEF mode

(* The recorded outcome of a move.                                         *)
LEMMA RecordEffect ==
    ASSUME TypeOK, CopyInv, NEW c \in Movers, Record(c)
    PROVE  LET o == client[c].op IN
           /\ TypeOK' /\ CopyInv' /\ Others(c) /\ o \in Moves
           /\ UNCHANGED <<document, move, deletion, current, repair>>
           /\ client[c].pc \in {"shown", "conflict", "restored"}
           /\ Goes(c, IF client[c].pc = "shown" THEN "success" ELSE "failure") \/ Ends(c)
           /\ audit'.deletes = audit.deletes
           /\ \A p \in Moves : \/ audit'.moves[p] = audit.moves[p]
                               \/ p = o /\ audit'.moves[p] = MoveEntry(client[c])
<1>. DEFINE o == client[c].op
            outcome == IF client[c].pc = "shown" THEN "success" ELSE "failure"
            entry == MoveEntry(client[c])
<1>0. /\ client[c].pc \in {"shown", "conflict", "restored"}
      /\ UNCHANGED <<document, move, deletion, current, repair, bounds>>
      /\ RecordMove(o, entry)
      /\ To(c, outcome) \/ End(c)
  BY DEF Record
<1>2. /\ c \in Clients /\ ClientTyped /\ AuditTyped /\ BoundsTyped /\ o \in Moves
  BY <1>0, TypeParts, Served
<1>1. entry \in AuditRecord
  <2>1. client[c].seen \in ManifestRecord
    BY <1>2 DEF ClientTyped, ClientRecord
  <2>2. Target(o) \in ManifestRecord
    <3>1. move.source[o] \in ManifestRecord /\ o \in 0..MaxMoves
      BY <1>2, Values, Served
    <3>. QED BY <3>1 DEF Target, ManifestRecord
  <2>. QED BY <1>0, <2>1, <2>2 DEF MoveEntry, Recorded, AuditRecord
<1>. HIDE DEF entry
<1>3. ClientTyped' /\ Others(c) /\ (Goes(c, outcome) \/ Ends(c))
  <2>1. outcome \in Labels
    BY DEF Labels
  <2>. QED BY <1>0, <1>2, <2>1, ToFields, EndFields
<1>5. /\ AuditTyped' /\ audit'.deletes = audit.deletes
      /\ \A p \in Moves : \/ audit'.moves[p] = audit.moves[p]
                          \/ p = o /\ audit'.moves[p] = entry
  BY <1>0, <1>1, <1>2 DEF AuditTyped, RecordMove
<1>6. CopyInv'
  BY <1>0, <1>2, <1>3, CopyKept DEF Goes
<1>. QED BY <1>0, <1>2, <1>3, <1>5, <1>6, TypeParts, UnchangedTyped DEF entry

(* A step that advances the stored move, or goes on from what it finds.    *)
MoveAdvanced(c, status, pc) ==
    /\ move'.op = move.op /\ move'.source = move.source
    /\ \/ /\ c \in current /\ c \in current' /\ client[c].op = move.op
          /\ move'.status = status /\ Takes(c, status, pc)
       \/ /\ c \notin current /\ c \in current' /\ client[c].op = move.op
          /\ move' = move /\ Takes(c, move.status, pc)
       \/ c \notin current /\ move' = move /\ Ends(c)

(* Such a step keeps types and copies.                                     *)
LEMMA AdvanceMoveEffect ==
    ASSUME TypeOK, CopyInv, NEW c \in Movers, client[c].pc # "idle",
           NEW status \in MoveStatus, NEW pc \in Labels \ {"idle"}, AdvanceMove(c, status, pc),
           UNCHANGED <<document, deletion, repair, bounds>>, AuditTyped'
    PROVE  TypeOK' /\ CopyInv' /\ Others(c) /\ MoveAdvanced(c, status, pc)
<1>1. c \in Clients /\ client[c].op \in Moves /\ move.op \in 0..MaxMoves
  BY Served, Values
<1>2. /\ ClientTyped' /\ MoveTyped' /\ CurrentTyped' /\ Others(c) /\ MoveAdvanced(c, status, pc)
      /\ \A b \in Deleters : b \in current' <=> b \in current
      /\ \A b \in Movers : CopyOf(b, move)'
  BY AdvanceMoveFields DEF MoveAdvanced
<1>3. \A b \in Deleters : CopyOf(b, deletion)'
  BY <1>1, <1>2, OtherCopies
<1>4. /\ move'.op = 0 => move'.status = "none"
      /\ deletion'.op = 0 => deletion'.status = "none"
  BY <1>1, <1>2 DEF CopyInv, MoveAdvanced, Moves
<1>. QED BY <1>2, <1>3, <1>4, TypeParts, UnchangedTyped DEF CopyInv

(* The audit intent of a move is opened, then named by the stored move.    *)
LEMMA PrepareMoveEffect ==
    ASSUME TypeOK, CopyInv, NEW c \in Movers, PrepareMove(c)
    PROVE  LET o == client[c].op IN
           /\ TypeOK' /\ CopyInv' /\ Others(c) /\ o \in Moves
           /\ UNCHANGED <<document, deletion, repair>> /\ audit'.deletes = audit.deletes
           /\ client[c].pc = "run"
           /\ \/ /\ client[c].status = "initialized" /\ MoveAdvanced(c, "prepared", "run")
                 /\ \A p \in Moves : \/ audit'.moves[p] = audit.moves[p]
                                     \/ p = o /\ c \in current /\ audit'.moves[p].result = "open"
              \/ /\ client[c].status = "prepared" /\ MoveAdvanced(c, "projections_staging", "run")
                 /\ audit' = audit
<1>. DEFINE o == client[c].op
<1>0. /\ client[c].pc = "run" /\ client[c].status \in {"initialized", "prepared"}
      /\ UNCHANGED <<document, deletion, repair, bounds>>
      /\ audit' = audit \/ (/\ client[c].status = "initialized" /\ c \in current
                            /\ audit' = [audit EXCEPT !.moves[o] = Open])
  BY DEF PrepareMove
<1>1. c \in Clients /\ o \in Moves /\ AuditTyped
  BY <1>0, TypeParts, Served
<1>2. /\ AuditTyped' /\ audit'.deletes = audit.deletes
      /\ \A p \in Moves : \/ audit'.moves[p] = audit.moves[p]
                          \/ p = o /\ c \in current /\ audit'.moves[p].result = "open"
  BY <1>0, <1>1, OpenEntry DEF AuditTyped
<1>3. CASE client[c].status = "initialized"
  <2>1. AdvanceMove(c, "prepared", "run")
    BY <1>3 DEF PrepareMove
  <2>2. "prepared" \in MoveStatus /\ "run" \in Labels \ {"idle"}
    BY DEF MoveStatus, Labels
  <2>3. TypeOK' /\ CopyInv' /\ Others(c) /\ MoveAdvanced(c, "prepared", "run")
    BY <1>0, <1>2, <2>1, <2>2, AdvanceMoveEffect
  <2>. QED BY <1>0, <1>1, <1>2, <1>3, <2>3
<1>4. CASE client[c].status = "prepared"
  <2>1. AdvanceMove(c, "projections_staging", "run") /\ audit' = audit
    BY <1>4 DEF PrepareMove
  <2>2. "projections_staging" \in MoveStatus /\ "run" \in Labels \ {"idle"}
    BY DEF MoveStatus, Labels
  <2>3. TypeOK' /\ CopyInv' /\ Others(c) /\ MoveAdvanced(c, "projections_staging", "run")
    BY <1>0, <1>2, <2>1, <2>2, AdvanceMoveEffect
  <2>. QED BY <1>0, <1>1, <1>2, <1>4, <2>1, <2>3
<1>. QED BY <1>0, <1>3, <1>4

(* The other steps that advance the stored move.                           *)
LEMMA ProgressEffect ==
    ASSUME TypeOK, CopyInv, NEW c \in Movers,
           Staged(c) \/ Moved(c) \/ FinishMove(c) \/ MarkRollback(c)
    PROVE  /\ TypeOK' /\ CopyInv' /\ Others(c)
           /\ UNCHANGED <<document, deletion, repair, audit>>
           /\ \/ client[c].pc = "staged" /\ MoveAdvanced(c, "projections_staged", "run")
              \/ client[c].pc = "moved" /\ MoveAdvanced(c, "manifest_committed", "run")
              \/ client[c].pc = "success" /\ MoveAdvanced(c, "completed", "end")
              \/ client[c].pc = "failure" /\ MoveAdvanced(c, "rolled_back", "end")
              \/ client[c].pc = "mark_rollback" /\ MoveAdvanced(c, "rollback_pending", "rollback")
<1>1. UNCHANGED <<document, deletion, repair, audit, bounds>> /\ AuditTyped'
  BY TypeParts, UnchangedTyped DEF Staged, Moved, FinishMove, MarkRollback
<1>2. \/ client[c].pc = "staged" /\ AdvanceMove(c, "projections_staged", "run")
      \/ client[c].pc = "moved" /\ AdvanceMove(c, "manifest_committed", "run")
      \/ client[c].pc = "success" /\ AdvanceMove(c, "completed", "end")
      \/ client[c].pc = "failure" /\ AdvanceMove(c, "rolled_back", "end")
      \/ client[c].pc = "mark_rollback" /\ AdvanceMove(c, "rollback_pending", "rollback")
  BY DEF Staged, Moved, FinishMove, MarkRollback
<1>3. /\ {"projections_staged", "manifest_committed", "completed", "rolled_back", "rollback_pending"}
           \subseteq MoveStatus
      /\ {"run", "end", "rollback"} \subseteq Labels \ {"idle"}
  BY DEF MoveStatus, Labels
<1>. QED BY <1>1, <1>2, <1>3, AdvanceMoveEffect

-----------------------------------------------------------------------------
(* What each step of a deleter does.                                       *)

DeletionAdvanced(c, status, pc) ==
    /\ deletion'.op = deletion.op /\ deletion'.source = deletion.source
    /\ \/ /\ c \in current /\ client[c].op = deletion.op
          /\ deletion'.status = status /\ Takes(c, status, pc)
       \/ client[c].op = deletion.op /\ deletion' = deletion /\ Takes(c, deletion.status, pc)
       \/ deletion' = deletion /\ Ends(c)

(* Advancing the stored deletion keeps types and copies.                   *)
LEMMA AdvanceDeleteEffect ==
    ASSUME TypeOK, CopyInv, NEW c \in Deleters, client[c].pc # "idle",
           NEW status \in DeleteStatus, NEW pc \in Labels \ {"idle"}, AdvanceDelete(c, status, pc),
           UNCHANGED <<document, move, repair, bounds>>, AuditTyped'
    PROVE  /\ TypeOK' /\ CopyInv' /\ Others(c) /\ DeletionAdvanced(c, status, pc)
           /\ \A b \in Movers : b \in current' <=> b \in current
<1>1. c \in Clients /\ client[c].op \in Deletes /\ deletion.op \in 0..MaxDeletes
  BY Served, Values
<1>2. /\ ClientTyped' /\ DeletionTyped' /\ CurrentTyped' /\ Others(c) /\ DeletionAdvanced(c, status, pc)
      /\ \A b \in Movers : b \in current' <=> b \in current
      /\ \A b \in Deleters : CopyOf(b, deletion)'
  BY AdvanceDeleteFields DEF DeletionAdvanced
<1>3. \A b \in Movers : CopyOf(b, move)'
  BY <1>1, <1>2, OtherCopies
<1>4. /\ move'.op = 0 => move'.status = "none"
      /\ deletion'.op = 0 => deletion'.status = "none"
  BY <1>1, <1>2 DEF CopyInv, DeletionAdvanced, Deletes
<1>. QED BY <1>2, <1>3, <1>4, TypeParts, UnchangedTyped DEF CopyInv

(* The audit intent of a deletion is opened once its repair intent is.     *)
LEMMA PreparedDeleteEffect ==
    ASSUME TypeOK, CopyInv, NEW c \in Deleters, PreparedDelete(c)
    PROVE  LET o == client[c].op IN
           /\ TypeOK' /\ CopyInv' /\ Others(c) /\ o \in Deletes
           /\ \A b \in Movers : b \in current' <=> b \in current
           /\ UNCHANGED <<document, move, repair>> /\ audit'.moves = audit.moves
           /\ DeletionAdvanced(c, "prepared", "run")
           /\ \A p \in Deletes : \/ audit'.deletes[p] = audit.deletes[p]
                                 \/ p = o /\ audit'.deletes[p].result = "open"
<1>. DEFINE o == client[c].op
<1>0. /\ client[c].pc = "prepared" /\ AdvanceDelete(c, "prepared", "run")
      /\ UNCHANGED <<document, move, repair, bounds>>
      /\ audit' = audit \/ audit' = [audit EXCEPT !.deletes[o] = Open]
  BY DEF PreparedDelete
<1>1. c \in Clients /\ o \in Deletes /\ AuditTyped
  BY <1>0, TypeParts, Served
<1>2. /\ AuditTyped' /\ audit'.moves = audit.moves
      /\ \A p \in Deletes : \/ audit'.deletes[p] = audit.deletes[p]
                            \/ p = o /\ audit'.deletes[p].result = "open"
  BY <1>0, <1>1, OpenEntry DEF AuditTyped
<1>3. "prepared" \in DeleteStatus /\ "run" \in Labels \ {"idle"}
  BY DEF DeleteStatus, Labels
<1>. QED BY <1>0, <1>1, <1>2, <1>3, AdvanceDeleteEffect

(* The other steps that advance the stored deletion.                       *)
LEMMA DeletionProgressEffect ==
    ASSUME TypeOK, CopyInv, NEW c \in Deleters, Tombstoned(c) \/ FinishDelete(c)
    PROVE  /\ TypeOK' /\ CopyInv' /\ Others(c)
           /\ \A b \in Movers : b \in current' <=> b \in current
           /\ UNCHANGED <<document, move, repair, audit>>
           /\ \/ client[c].pc = "tombstoned" /\ DeletionAdvanced(c, "tombstoned", "run")
              \/ client[c].pc = "recorded" /\ DeletionAdvanced(c, "completed", "run")
<1>1. UNCHANGED <<document, move, repair, audit, bounds>> /\ AuditTyped'
  BY TypeParts, UnchangedTyped DEF Tombstoned, FinishDelete
<1>2. \/ client[c].pc = "tombstoned" /\ AdvanceDelete(c, "tombstoned", "run")
      \/ client[c].pc = "recorded" /\ AdvanceDelete(c, "completed", "run")
  BY DEF Tombstoned, FinishDelete
<1>3. {"tombstoned", "completed"} \subseteq DeleteStatus /\ "run" \in Labels \ {"idle"}
  BY DEF DeleteStatus, Labels
<1>. QED BY <1>1, <1>2, <1>3, AdvanceDeleteEffect

(* A cleanup that failed is left pending.                                  *)
LEMMA PendingDeleteEffect ==
    ASSUME TypeOK, CopyInv, NEW c \in Deleters, PendingDelete(c)
    PROVE  /\ TypeOK' /\ CopyInv' /\ Others(c) /\ Ends(c) /\ client[c].pc = "pending"
           /\ \A b \in Movers : b \in current' <=> b \in current
           /\ UNCHANGED <<document, move, repair, audit>>
           /\ deletion'.op = deletion.op /\ deletion'.source = deletion.source
           /\ \/ deletion' = deletion
              \/ client[c].op = deletion.op /\ deletion'.status = "cleanup_pending"
<1>0. /\ client[c].pc = "pending" /\ End(c) /\ c \in Clients
      /\ UNCHANGED <<document, move, repair, audit, bounds>>
      /\ ClientTyped /\ DeletionTyped /\ CurrentTyped /\ client[c].op \in Deletes
  BY TypeParts, Served DEF PendingDelete
<1>1. ClientTyped' /\ Others(c) /\ Ends(c)
  BY <1>0, EndFields
<1>2. CASE c \in current
  <2>1. /\ deletion' = [deletion EXCEPT !.status = "cleanup_pending"]
        /\ current' = current \ Deleters
    BY <1>2 DEF PendingDelete
  <2>2. /\ DeletionTyped' /\ deletion'.op = deletion.op /\ deletion'.source = deletion.source
        /\ deletion'.status = "cleanup_pending"
    BY <1>0, <2>1 DEF DeletionTyped, DeleteStatus
  <2>3. client[c].op = deletion.op /\ deletion.op # 0
    BY <1>0, <1>2 DEF CopyInv, CopyOf, Deletes
  <2>4. \A b \in Movers : b \in current' <=> b \in current
    BY <2>1, ConstantAssumption
  <2>5. \A b \in Movers : CopyOf(b, move)'
    BY <1>0, <1>1, <2>4, OtherCopies
  <2>6. ASSUME NEW b \in Deleters PROVE CopyOf(b, deletion)'
    <3>1. b \notin current' /\ CopyOf(b, deletion) /\ b \in Clients /\ deletion.op \in Nat
      BY <2>1, Served, Values DEF CopyInv
    <3>2. b = c \/ client'[b] = client[b]
      BY <1>1, <3>1 DEF Others
    <3>. QED BY <1>1, <2>2, <3>1, <3>2 DEF CopyOf, Ends
  <2>7. CopyInv'
    BY <1>0, <2>2, <2>3, <2>5, <2>6 DEF CopyInv
  <2>8. CurrentTyped'
    BY <1>0, <2>1 DEF CurrentTyped
  <2>. QED BY <1>0, <1>1, <2>2, <2>3, <2>4, <2>7, <2>8, TypeParts, UnchangedTyped
<1>3. CASE c \notin current
  <2>1. UNCHANGED <<deletion, current>>
    BY <1>3 DEF PendingDelete
  <2>2. CopyInv'
    BY <1>0, <1>1, <2>1, CopyKept
  <2>. QED BY <1>0, <1>1, <2>1, <2>2, TypeParts, UnchangedTyped
<1>. QED BY <1>2, <1>3

(* What a transition of a repair intent does.                              *)
LEMMA TransitionFields ==
    ASSUME RepairTyped, NEW o \in Deletes, NEW from,
           NEW to \in {"prepared", "deny_committed", "cleanup_registered", "cleanup_completed", "abandoned"},
           Transition(o, from, to)
    PROVE  /\ RepairTyped'
           /\ \A p \in Deletes : \/ repair'[p] = repair[p]
                                 \/ p = o /\ repair[o] \in from /\ repair'[p] = to
BY DEF RepairTyped, Transition

(* Steps that only open a repair intent, give it up, hand it over or end   *)
(* the request.                                                            *)
LEMMA RepairEffect ==
    ASSUME TypeOK, CopyInv, NEW c \in Deleters,
           PrepareDelete(c) \/ Abandon(c) \/ RegisterDelete(c) \/ RegisteredDelete(c) \/ ReturnDelete(c)
    PROVE  LET o == client[c].op IN
           /\ TypeOK' /\ CopyInv' /\ Others(c) /\ o \in Deletes
           /\ UNCHANGED <<document, move, deletion, current, audit>>
           /\ \/ Ends(c) \/ Goes(c, "prepared")
              \/ /\ \/ client[c].pc = "register"
                    \/ client[c].pc = "run" /\ client[c].status \in {"tombstoned", "cleanup_pending"}
                 /\ Goes(c, "register") \/ Goes(c, "clean") \/ Goes(c, "pending")
           /\ \A p \in Deletes :
                \/ repair'[p] = repair[p] \/ repair'[p] \in {"prepared", "abandoned"}
                \/ /\ p = o
                   /\ \/ client[c].pc = "register"
                      \/ client[c].pc = "run" /\ client[c].status \in {"tombstoned", "cleanup_pending"}
<1>. DEFINE o == client[c].op
            late == \/ client[c].pc = "register"
                    \/ client[c].pc = "run" /\ client[c].status \in {"tombstoned", "cleanup_pending"}
<1>0. /\ client[c].pc # "idle"
      /\ UNCHANGED <<document, move, deletion, current, audit, edits, crashes>>
      /\ UNCHANGED faults \/ Fault
  BY DEF PrepareDelete, Abandon, RegisterDelete, RegisteredDelete, ReturnDelete, bounds
<1>1. /\ c \in Clients /\ ClientTyped /\ RepairTyped /\ BoundsTyped /\ o \in Deletes
  BY <1>0, TypeParts, Served
<1>2. \/ End(c) \/ To(c, "prepared")
      \/ late /\ (To(c, "register") \/ To(c, "clean") \/ To(c, "pending"))
  BY DEF PrepareDelete, Abandon, RegisterDelete, RegisteredDelete, ReturnDelete
<1>3. \/ UNCHANGED repair
      \/ Transition(o, {"none"}, "prepared")
      \/ Transition(o, {"prepared", "deny_committed"}, "abandoned")
      \/ late /\ Transition(o, {"prepared"}, "deny_committed")
      \/ late /\ Transition(o, {"deny_committed"}, "cleanup_registered")
  BY DEF PrepareDelete, Abandon, RegisterDelete, RegisteredDelete, ReturnDelete
<1>4. /\ ClientTyped' /\ Others(c)
      /\ \/ Ends(c) \/ Goes(c, "prepared")
         \/ late /\ (Goes(c, "register") \/ Goes(c, "clean") \/ Goes(c, "pending"))
  <2>. HIDE DEF late
  <2>. QED BY <1>1, <1>2, ToFields, EndFields DEF Labels
<1>5. /\ RepairTyped'
      /\ \A p \in Deletes :
           \/ repair'[p] = repair[p] \/ repair'[p] \in {"prepared", "abandoned"}
           \/ p = o /\ late
  <2>. HIDE DEF late
  <2>. QED BY <1>1, <1>3, TransitionFields, UnchangedTyped
<1>6. CopyInv'
  <2>1. Keeps(c) \/ Ends(c)
    BY <1>4 DEF Goes
  <2>. QED BY <1>0, <1>1, <1>4, <2>1, CopyKept
<1>. QED BY <1>0, <1>1, <1>4, <1>5, <1>6, FaultTyped, TypeParts, UnchangedTyped

(* The tombstone: what the manifest became, and where the client goes.     *)
LEMMA PutTombstoneEffect ==
    ASSUME TypeOK, CopyInv, NEW c \in Deleters, PutTombstone(c)
    PROVE  LET o == client[c].op IN
           /\ TypeOK' /\ CopyInv' /\ Others(c) /\ o \in Deletes
           /\ UNCHANGED <<vectors, move, deletion, current, repair, audit>>
           /\ \/ manifest' = manifest /\ Ends(c)
              \/ /\ manifest' = manifest /\ Goes(c, "tombstoned")
                 /\ Revoked(o) \/ (manifest.kind = "gone" /\ repair[o] \notin {"none", "prepared", "abandoned"})
              \/ /\ manifest' = manifest /\ Goes(c, "refuse")
                 /\ manifest # deletion.source[o] /\ ~Revoked(o) /\ manifest.kind # "gone"
              \/ /\ manifest = deletion.source[o]
                 /\ manifest' = [manifest EXCEPT !.kind = "revoked", !.deletion = o]
                 /\ Goes(c, "tombstoned") \/ Ends(c)
<1>. DEFINE o == client[c].op
            tombstone == [manifest EXCEPT !.kind = "revoked", !.deletion = o]
            seen == Revoked(o) \/ (manifest.kind = "gone" /\ repair[o] \notin {"none", "prepared", "abandoned"})
            lost == manifest # deletion.source[o] /\ ~Revoked(o) /\ manifest.kind # "gone"
<1>0. /\ client[c].pc = "run"
      /\ UNCHANGED <<vectors, move, deletion, current, repair, audit, edits, crashes>>
      /\ UNCHANGED faults \/ Fault
  BY DEF PutTombstone
<1>1. /\ c \in Clients /\ ClientTyped /\ DocumentTyped /\ BoundsTyped /\ o \in Deletes
      /\ manifest \in ManifestRecord
  BY <1>0, TypeParts, Served DEF DocumentTyped
<1>2. \/ manifest' = manifest /\ End(c)
      \/ manifest' = manifest /\ To(c, "tombstoned") /\ seen
      \/ manifest' = manifest /\ Step(c, [client[c] EXCEPT !.pc = "refuse", !.seen = manifest]) /\ lost
      \/ /\ manifest = deletion.source[o] /\ manifest' = tombstone
         /\ To(c, "tombstoned") \/ End(c)
  BY DEF PutTombstone, Tombstone
<1>. HIDE DEF seen, lost
<1>a. Step(c, [client[c] EXCEPT !.pc = "refuse", !.seen = manifest]) =>
        ClientTyped' /\ Others(c) /\ Goes(c, "refuse")
  <2>. DEFINE rec == [client[c] EXCEPT !.pc = "refuse", !.seen = manifest]
  <2>1. client[c] \in ClientRecord /\ rec \in ClientRecord
    BY <1>1 DEF ClientTyped, ClientRecord
  <2>2. /\ rec.op = client[c].op /\ rec.status = client[c].status /\ rec.pc = "refuse"
        /\ rec.goal = client[c].goal /\ rec.then = client[c].then
    BY <2>1 DEF ClientRecord
  <2>. SUFFICES ASSUME Step(c, rec) PROVE ClientTyped' /\ Others(c) /\ Goes(c, "refuse")
    OBVIOUS
  <2>. HIDE DEF rec
  <2>3. ClientTyped' /\ Others(c) /\ client'[c] = rec
    BY <1>1, <2>1, StepFields
  <2>. QED BY <2>2, <2>3 DEF Goes, Keeps
<1>3. /\ ClientTyped' /\ Others(c)
      /\ \/ manifest' = manifest /\ Ends(c)
         \/ manifest' = manifest /\ Goes(c, "tombstoned") /\ seen
         \/ manifest' = manifest /\ Goes(c, "refuse") /\ lost
         \/ /\ manifest = deletion.source[o] /\ manifest' = tombstone
            /\ Goes(c, "tombstoned") \/ Ends(c)
  <2>. HIDE DEF tombstone
  <2>. QED BY <1>1, <1>2, <1>a, ToFields, EndFields DEF Labels
<1>4. DocumentTyped'
  <2>0. o \in 0..MaxDeletes
    BY <1>1, ConstantAssumption DEF Deletes
  <2>1. tombstone \in ManifestRecord
    BY <1>1, <2>0 DEF ManifestRecord
  <2>2. manifest' = manifest \/ manifest' = tombstone
    BY <1>3
  <2>. HIDE DEF tombstone
  <2>. QED BY <1>0, <1>1, <2>1, <2>2 DEF DocumentTyped
<1>5. CopyInv'
  <2>1. Keeps(c) \/ Ends(c)
    BY <1>3 DEF Goes
  <2>. QED BY <1>0, <1>1, <1>3, <2>1, CopyKept
<1>6. TypeOK'
  BY <1>0, <1>1, <1>3, <1>4, FaultTyped, TypeParts, UnchangedTyped
<1>. QED BY <1>0, <1>1, <1>3, <1>5, <1>6 DEF seen, lost

(* The recorded outcome of a deletion.                                     *)
LEMMA RecordDeletionEffect ==
    ASSUME TypeOK, CopyInv, NEW c \in Deleters, Refuse(c) \/ RecordDeleted(c)
    PROVE  LET o == client[c].op
               outcome == IF client[c].pc = "refuse" THEN "conflict" ELSE "success" IN
           /\ TypeOK' /\ CopyInv' /\ Others(c) /\ o \in Deletes
           /\ UNCHANGED <<document, move, deletion, current, repair>>
           /\ client[c].pc \in {"refuse", "cleaned"}
           /\ \/ Ends(c)
              \/ client[c].pc = "refuse" /\ Goes(c, "abandon")
              \/ client[c].pc = "cleaned" /\ Goes(c, "recorded")
           /\ audit'.moves = audit.moves
           /\ \A p \in Deletes : \/ audit'.deletes[p] = audit.deletes[p]
                                 \/ /\ p = o /\ audit.deletes[p].result = "open"
                                    /\ audit'.deletes[p].result = outcome
<1>. DEFINE o == client[c].op
            outcome == IF client[c].pc = "refuse" THEN "conflict" ELSE "success"
            entry == Recorded(outcome, IF client[c].pc = "refuse" THEN client[c].seen ELSE Tombstone(o))
<1>0. /\ client[c].pc \in {"refuse", "cleaned"}
      /\ UNCHANGED <<document, move, deletion, current, repair, bounds>>
      /\ RecordDelete(o, entry)
      /\ \/ End(c)
         \/ client[c].pc = "refuse" /\ To(c, "abandon")
         \/ client[c].pc = "cleaned" /\ To(c, "recorded")
  BY DEF Refuse, RecordDeleted
<1>1. /\ c \in Clients /\ ClientTyped /\ AuditTyped /\ o \in Deletes
  BY <1>0, TypeParts, Served
<1>a. entry \in AuditRecord /\ entry.result = outcome
  <2>1. client[c].seen \in ManifestRecord
    BY <1>1 DEF ClientTyped, ClientRecord
  <2>2. Tombstone(o) \in ManifestRecord
    <3>1. deletion.source[o] \in ManifestRecord /\ o \in 0..MaxDeletes
      BY <1>1, Values, Served
    <3>. QED BY <3>1 DEF Tombstone, ManifestRecord
  <2>. QED BY <1>0, <2>1, <2>2 DEF Recorded, AuditRecord
<1>. HIDE DEF entry
<1>2. /\ ClientTyped' /\ Others(c)
      /\ \/ Ends(c)
         \/ client[c].pc = "refuse" /\ Goes(c, "abandon")
         \/ client[c].pc = "cleaned" /\ Goes(c, "recorded")
  BY <1>0, <1>1, ToFields, EndFields DEF Labels
<1>3. /\ AuditTyped' /\ audit'.moves = audit.moves
      /\ \A p \in Deletes : \/ audit'.deletes[p] = audit.deletes[p]
                            \/ p = o /\ audit.deletes[p] = Open /\ audit'.deletes[p] = entry
  BY <1>0, <1>1, <1>a DEF AuditTyped, RecordDelete
<1>4. CopyInv'
  <2>1. Keeps(c) \/ Ends(c)
    BY <1>2 DEF Goes
  <2>. QED BY <1>0, <1>1, <1>2, <2>1, CopyKept
<1>. QED BY <1>0, <1>1, <1>2, <1>3, <1>4, <1>a, OpenEntry, TypeParts, UnchangedTyped

(* The index records of a deleted document are removed.                    *)
LEMMA CleanDeletedEffect ==
    ASSUME TypeOK, CopyInv, NEW c \in Deleters, CleanDeleted(c)
    PROVE  /\ TypeOK' /\ CopyInv' /\ Others(c) /\ client[c].pc = "clean"
           /\ UNCHANGED <<manifest, move, deletion, current, repair, audit>>
           /\ vectors'.mode = vectors.mode /\ vectors'.place = vectors.place
           /\ Goes(c, "cleaned") \/ Goes(c, "pending")
<1>0. /\ client[c].pc = "clean"
      /\ UNCHANGED <<manifest, move, deletion, current, repair, audit, edits, crashes>>
      /\ vectors' = vectors \/ vectors' = [vectors EXCEPT !.there = FALSE]
      /\ UNCHANGED faults \/ Fault
      /\ To(c, "cleaned") \/ To(c, "pending")
  BY DEF CleanDeleted
<1>1. /\ c \in Clients /\ ClientTyped /\ DocumentTyped /\ BoundsTyped
  BY TypeParts, Served
<1>2. ClientTyped' /\ Others(c) /\ (Goes(c, "cleaned") \/ Goes(c, "pending"))
  BY <1>0, <1>1, ToFields DEF Labels
<1>3. DocumentTyped' /\ vectors'.mode = vectors.mode /\ vectors'.place = vectors.place
  BY <1>0, <1>1 DEF DocumentTyped
<1>4. CopyInv'
  <2>1. Keeps(c)
    BY <1>2 DEF Goes
  <2>. QED BY <1>0, <1>1, <1>2, <2>1, CopyKept
<1>. QED BY <1>0, <1>1, <1>2, <1>3, <1>4, FaultTyped, TypeParts, UnchangedTyped

-----------------------------------------------------------------------------
(* What the other actors do.                                               *)

(* A client dies.                                                          *)
LEMMA CrashEffect ==
    ASSUME TypeOK, CopyInv, NEW c \in Clients, Crash(c)
    PROVE  /\ TypeOK' /\ CopyInv' /\ Others(c) /\ Ends(c)
           /\ UNCHANGED <<document, move, deletion, current, repair, audit>>
<1>1. /\ ClientTyped /\ BoundsTyped /\ client[c].pc # "idle" /\ End(c)
      /\ UNCHANGED <<document, move, deletion, current, repair, audit>>
  BY TypeParts DEF Crash
<1>2. BoundsTyped'
  BY <1>1, ConstantAssumption DEF BoundsTyped, Crash
<1>. QED BY <1>1, <1>2, EndFields, OnlyClientTyped, CopyKept

(* Nobody's progress changes.                                              *)
LEMMA ClientsKept ==
    ASSUME CopyInv, UNCHANGED <<client, move, deletion, current>>
    PROVE  CopyInv'
BY DEF CopyInv, CopyOf

(* The document is edited.                                                 *)
LEMMA EditEffect ==
    ASSUME TypeOK, ManifestInv, CopyInv, Edit
    PROVE  /\ TypeOK' /\ CopyInv' /\ manifest.kind = "active"
           /\ UNCHANGED <<vectors, move, deletion, current, repair, audit, client>>
           /\ manifest' = [manifest EXCEPT !.rev = @ + 1] /\ edits' = edits + 1
<1>1. /\ manifest.kind = "active" /\ edits < MaxEdits /\ edits' = edits + 1
      /\ manifest' = [manifest EXCEPT !.rev = @ + 1]
      /\ UNCHANGED <<vectors, move, deletion, current, repair, audit, client, faults, crashes>>
      /\ DocumentTyped /\ BoundsTyped /\ ClientTyped
  BY TypeParts DEF Edit
<1>2. manifest.rev <= edits
  BY DEF ManifestInv
<1>3. DocumentTyped'
  <2>1. manifest \in ManifestRecord /\ manifest.rev + 1 \in 0..MaxEdits
    BY <1>1, <1>2, ConstantAssumption DEF DocumentTyped, BoundsTyped, ManifestRecord
  <2>2. [manifest EXCEPT !.rev = @ + 1] \in ManifestRecord
    BY <2>1 DEF ManifestRecord
  <2>. QED BY <1>1, <2>2 DEF DocumentTyped
<1>4. BoundsTyped'
  BY <1>1, ConstantAssumption DEF BoundsTyped
<1>5. ClientTyped'
  BY <1>1 DEF ClientTyped
<1>. QED BY <1>1, <1>3, <1>4, <1>5, ClientsKept, TypeParts, UnchangedTyped

(* The cleanup batch works on a document that is revoked.                  *)
LEMMA BatchEffect ==
    ASSUME TypeOK, CopyInv, NEW o \in Deletes, Batch(o)
    PROVE  /\ TypeOK' /\ CopyInv' /\ manifest.kind # "active" /\ manifest.deletion = o
           /\ UNCHANGED <<move, deletion, current, audit, client>>
           /\ vectors'.mode = vectors.mode /\ vectors'.place = vectors.place
           /\ manifest' = manifest \/ manifest' = [manifest EXCEPT !.kind = "gone"]
           /\ \A p \in Deletes \ {o} : repair'[p] = repair[p]
<1>1. /\ manifest.kind # "active" /\ manifest.deletion = o
      /\ UNCHANGED <<move, deletion, current, audit, client, bounds>>
      /\ manifest' = manifest \/ manifest' = [manifest EXCEPT !.kind = "gone"]
      /\ vectors' = vectors \/ vectors' = [vectors EXCEPT !.there = FALSE]
      /\ \/ UNCHANGED repair
         \/ Transition(o, {"prepared"}, "deny_committed")
         \/ Transition(o, {"deny_committed"}, "cleanup_registered")
         \/ Transition(o, {"cleanup_registered"}, "cleanup_completed")
  BY DEF Batch, Revoked, document
<1>2. DocumentTyped /\ RepairTyped /\ ClientTyped /\ manifest \in ManifestRecord
  BY TypeParts DEF DocumentTyped
<1>3. [manifest EXCEPT !.kind = "gone"] \in ManifestRecord
  BY <1>2 DEF ManifestRecord
<1>4. DocumentTyped' /\ vectors'.mode = vectors.mode /\ vectors'.place = vectors.place
  BY <1>1, <1>2, <1>3 DEF DocumentTyped
<1>5. RepairTyped' /\ \A p \in Deletes \ {o} : repair'[p] = repair[p]
  BY <1>1, <1>2, TransitionFields, UnchangedTyped
<1>6. ClientTyped'
  BY <1>1, <1>2 DEF ClientTyped
<1>. QED BY <1>1, <1>4, <1>5, <1>6, ClientsKept, TypeParts, UnchangedTyped

(* Only edits raise the number of edits.                                   *)
LEMMA EditsKept ==
    /\ \A c \in Movers : MoverStep(c) => edits' = edits
    /\ \A c \in Deleters : DeleterStep(c) => edits' = edits
<1>1. ASSUME NEW c \in Movers, MoverStep(c) PROVE edits' = edits
  BY <1>1 DEF MoverStep, OpenMove, PrepareMove, Stage, ReadVectors, PutVectors, Staged, CommitMove,
        Moved, Show, Record, FinishMove, ReturnMove, MarkRollback, Rollback, bounds
<1>2. ASSUME NEW c \in Deleters, DeleterStep(c) PROVE edits' = edits
  BY <1>2 DEF DeleterStep, OpenDelete, PrepareDelete, PreparedDelete, PutTombstone, Refuse, Abandon,
        Tombstoned, RegisterDelete, RegisteredDelete, CleanDeleted, PendingDelete, RecordDeleted,
        FinishDelete, ReturnDelete, bounds
<1>. QED BY <1>1, <1>2

-----------------------------------------------------------------------------
(* Deletions: the invariant is kept by every step.                         *)

(* A manifest only moves on.                                               *)
Advances ==
    /\ manifest'.rev >= manifest.rev /\ manifest'.move >= manifest.move
    /\ manifest'.kind = "active" => manifest.kind = "active"
    /\ manifest.deletion # 0 => manifest'.deletion = manifest.deletion

(* What is beyond a snapshot stays beyond it.                              *)
LEMMA StaysBeyond ==
    ASSUME TypeOK, TypeOK', Advances, NEW s \in ManifestRecord, Beyond(s)
    PROVE  manifest'.kind # "active" \/ manifest'.rev > s.rev \/ manifest'.move > s.move
<1>1. /\ s.rev \in Nat /\ s.move \in Nat /\ manifest.rev \in Nat /\ manifest.move \in Nat
      /\ manifest'.rev \in Nat /\ manifest'.move \in Nat
  BY DEF TypeOK, ManifestRecord
<1>. QED BY <1>1 DEF Advances, Beyond

(* Snapshots taken before, or of an active manifest that is left alone.    *)
LEMMA ManifestKept ==
    ASSUME TypeOK, TypeOK', ManifestInv, Advances,
           manifest'.kind = "active" <=> manifest'.deletion = 0,
           manifest'.move <= move'.op, manifest'.rev <= edits',
           \A o \in Moves : \/ move'.source[o] = move.source[o]
                            \/ /\ move'.source[o] = manifest /\ manifest' = manifest
                               /\ manifest.kind = "active" /\ manifest.move < o,
           \A o \in Deletes : \/ deletion'.source[o] = deletion.source[o]
                              \/ /\ deletion'.source[o] = manifest /\ manifest' = manifest
                                 /\ manifest.kind = "active"
    PROVE  ManifestInv'
<1>1. /\ manifest.rev \in Nat /\ manifest.move \in Nat /\ manifest'.rev \in Nat /\ manifest'.move \in Nat
      /\ \A o \in Moves : move.source[o].rev \in Nat /\ move.source[o].move \in Nat
      /\ \A o \in Deletes : deletion.source[o].rev \in Nat /\ deletion.source[o].move \in Nat
  BY DEF TypeOK, ManifestRecord
<1>2. ASSUME NEW o \in Moves
      PROVE  /\ move'.source[o].kind = "active" /\ move'.source[o].deletion = 0
             /\ move'.source[o].rev <= manifest'.rev /\ move'.source[o].move <= manifest'.move
             /\ move'.source[o].move < o
  BY <1>1 DEF ManifestInv, Snapshot, Advances
<1>3. ASSUME NEW o \in Deletes
      PROVE  /\ deletion'.source[o].kind = "active" /\ deletion'.source[o].deletion = 0
             /\ deletion'.source[o].rev <= manifest'.rev /\ deletion'.source[o].move <= manifest'.move
  BY <1>1 DEF ManifestInv, Snapshot, Advances
<1>. QED BY <1>2, <1>3 DEF ManifestInv, Snapshot

(* A manifest that is left alone.                                          *)
LEMMA ManifestSame ==
    ASSUME TypeOK, TypeOK', ManifestInv, manifest' = manifest, edits' = edits,
           move'.op = move.op, move'.source = move.source, deletion'.source = deletion.source
    PROVE  ManifestInv' /\ Advances
<1>1. manifest.rev \in Nat /\ manifest.move \in Nat
  BY DEF TypeOK, ManifestRecord
<1>2. Advances
  BY <1>1 DEF Advances
<1>. QED BY <1>2, ManifestKept DEF ManifestInv

(* What a step may do to the state of deletions.                           *)
LEMMA DeletionKept ==
    ASSUME TypeOK, CopyInv, DeletionInv, Advances,
           NEW S \in SUBSET Deleters,
           \A b \in S : client'[b] = client[b],
           \A b \in Deleters \ S : DeleterFits(b)',
           \A o \in Deletes : Missed(o) => Missed(o)',
           deletion'.op = deletion.op,
           deletion'.status \in RevokedStatus =>
             deletion.status \in RevokedStatus \/ manifest'.deletion = deletion.op,
           \A o \in Deletes : repair'[o] \in Handed => repair[o] \in Handed \/ manifest'.deletion = o,
           \A o \in Deletes :
             \/ audit'.deletes[o] = audit.deletes[o]
             \/ audit'.deletes[o].result = "open" /\ o <= deletion.op
             \/ audit'.deletes[o].result = "success" /\ manifest'.deletion = o /\ o <= deletion.op
             \/ audit'.deletes[o].result \in Refusals /\ Missed(o)' /\ o <= deletion.op
    PROVE  DeletionInv'
<1>0. /\ deletion.op \in Nat
      /\ deletion.status \in RevokedStatus => deletion.op # 0
      /\ \A o \in Deletes : o # 0 /\ o \in Nat
  BY Values, ConstantAssumption DEF CopyInv, RevokedStatus, Deletes
<1>1. deletion'.status \in RevokedStatus => manifest'.deletion = deletion'.op
  BY <1>0 DEF DeletionInv, Advances
<1>2. ASSUME NEW b \in S PROVE DeleterFits(b)'
  <2>1. DeleterFits(b) /\ client'[b] = client[b]
    BY DEF DeletionInv
  <2>2. client[b].pc # "idle" => client[b].op \in Deletes
    BY Served
  <2>3. Revoking(b)' => Revoking(b) /\ client[b].op \in Deletes
    BY <2>1, <2>2 DEF Revoking
  <2>4. client[b].pc = "refuse" => client[b].op \in Deletes
    BY <2>2
  <2>. QED BY <1>0, <2>1, <2>3, <2>4 DEF DeleterFits, Advances
<1>3. ASSUME NEW o \in Deletes
      PROVE  /\ repair'[o] \in Handed => manifest'.deletion = o
             /\ audit'.deletes[o].result = "success" => manifest'.deletion = o
             /\ audit'.deletes[o].result \in Refusals => Missed(o)'
             /\ o > deletion'.op => audit'.deletes[o].result = "none"
  BY <1>0 DEF DeletionInv, Advances, Refusals
<1>. QED BY <1>1, <1>2, <1>3 DEF DeletionInv


(* A deletion that has missed the document goes on missing it.             *)
LEMMA MissedKept ==
    ASSUME TypeOK, TypeOK', Advances, deletion'.source = deletion.source,
           NEW o \in Deletes, Missed(o), manifest'.deletion # o
    PROVE  Missed(o)'
<1>1. deletion.source[o] \in ManifestRecord
  BY Values
<1>2. manifest'.kind # "active" \/ manifest'.rev > deletion.source[o].rev \/ manifest'.move > deletion.source[o].move
  BY <1>1, StaysBeyond DEF Missed
<1>. QED BY <1>2 DEF Missed, Beyond

(* What the steps of a mover have in common.                               *)
LEMMA MoverFrame ==
    ASSUME TypeOK, ManifestInv, CopyInv, NEW c \in Movers, MoverStep(c)
    PROVE  /\ TypeOK' /\ CopyInv' /\ Others(c)
           /\ UNCHANGED <<deletion, repair>> /\ audit'.deletes = audit.deletes
           /\ manifest' = manifest \/ CommitMove(c)
           /\ (move'.source = move.source /\ move'.op = move.op) \/ OpenMove(c)
           /\ vectors' = vectors \/ vectors'.there = TRUE
<1>1. CASE OpenMove(c)
  BY <1>1, OpenMoveEffect DEF document
<1>2. CASE PrepareMove(c)
  BY <1>2, PrepareMoveEffect DEF document, MoveAdvanced
<1>3. CASE Stage(c) \/ Show(c) \/ Rollback(c) \/ ReturnMove(c)
  BY <1>3, StageEffect, ShowEffect, RollbackEffect, ReturnMoveEffect DEF document
<1>4. CASE ReadVectors(c) \/ PutVectors(c)
  BY <1>4, ReadVectorsEffect, PutVectorsEffect DEF document
<1>5. CASE CommitMove(c)
  BY <1>5, CommitMoveEffect
<1>6. CASE Record(c)
  BY <1>6, RecordEffect DEF document
<1>7. CASE Staged(c) \/ Moved(c) \/ FinishMove(c) \/ MarkRollback(c)
  BY <1>7, ProgressEffect DEF document, MoveAdvanced
<1>. QED BY <1>1, <1>2, <1>3, <1>4, <1>5, <1>6, <1>7 DEF MoverStep

(* A move commits once, a later one after an earlier one.                  *)
LEMMA CommitAdvances ==
    ASSUME TypeOK, ManifestInv, CopyInv, NEW c \in Movers, CommitMove(c), edits' = edits
    PROVE  ManifestInv' /\ Advances /\ manifest'.deletion = manifest.deletion
<1>. DEFINE o == client[c].op
<1>1. /\ TypeOK' /\ o \in Moves /\ UNCHANGED <<move, deletion>>
      /\ \/ manifest' = manifest
         \/ manifest = move.source[o] /\ manifest' = [manifest EXCEPT !.move = o]
  BY CommitMoveEffect
<1>2. CASE manifest' = manifest
  BY <1>1, <1>2, ManifestSame
<1>3. CASE manifest = move.source[o] /\ manifest' = [manifest EXCEPT !.move = o]
  <2>1. manifest \in ManifestRecord
    BY DEF TypeOK
  <2>2. /\ manifest'.move = o /\ manifest'.rev = manifest.rev
        /\ manifest'.kind = manifest.kind /\ manifest'.deletion = manifest.deletion
    BY <1>3, <2>1 DEF ManifestRecord
  <2>3. manifest.move < o /\ manifest.move \in Nat /\ manifest.rev \in Nat /\ o \in Nat
    BY <1>1, <1>3, <2>1 DEF ManifestInv, ManifestRecord, Moves
  <2>4. Advances
    BY <2>2, <2>3 DEF Advances
  <2>5. o <= move.op
    BY DEF CopyInv, CopyOf
  <2>6. manifest'.move <= move'.op /\ manifest'.rev <= edits'
    BY <1>1, <2>2, <2>5 DEF ManifestInv
  <2>. QED BY <1>1, <2>2, <2>4, <2>6, ManifestKept DEF ManifestInv
<1>. QED BY <1>1, <1>2, <1>3

(* A move begins from what the manifest is.                                *)
LEMMA OpenAdvances ==
    ASSUME TypeOK, ManifestInv, CopyInv, NEW c \in Movers, OpenMove(c), edits' = edits
    PROVE  ManifestInv' /\ Advances /\ manifest'.deletion = manifest.deletion
<1>1. TypeOK' /\ manifest' = manifest /\ deletion' = deletion
  BY OpenMoveEffect DEF document
<1>2. manifest.rev \in Nat /\ manifest.move \in Nat /\ move.op \in Nat
  BY DEF TypeOK, ManifestRecord
<1>3. Advances
  BY <1>1, <1>2 DEF Advances
<1>4. CASE move' = move
  BY <1>1, <1>4, ManifestSame
<1>5. CASE /\ manifest.kind = "active" /\ move'.op = move.op + 1
           /\ move'.op \in Moves /\ move'.source[move'.op] = manifest
           /\ \A o \in Moves \ {move'.op} : move'.source[o] = move.source[o]
  <2>1. manifest'.move <= move'.op /\ manifest.move < move'.op
    BY <1>1, <1>2, <1>5 DEF ManifestInv
  <2>2. \A o \in Moves : \/ move'.source[o] = move.source[o]
                         \/ /\ move'.source[o] = manifest /\ manifest' = manifest
                            /\ manifest.kind = "active" /\ manifest.move < o
    BY <1>1, <1>5, <2>1
  <2>. QED BY <1>1, <1>3, <2>1, <2>2, ManifestKept DEF ManifestInv
<1>. QED BY <1>1, <1>4, <1>5, OpenMoveEffect

(* Movers leave deletions alone.                                           *)
LEMMA MoverKeepsDeletions ==
    ASSUME TypeOK, DeleteInv, NEW c \in Movers, MoverStep(c), edits' = edits
    PROVE  TypeOK' /\ DeleteInv' /\ Advances
<1>. USE DEF DeleteInv
<1>1. /\ TypeOK' /\ CopyInv' /\ Others(c)
      /\ UNCHANGED <<deletion, repair>> /\ audit'.deletes = audit.deletes
  BY MoverFrame
<1>2. ManifestInv' /\ Advances /\ manifest'.deletion = manifest.deletion
  <2>1. CASE OpenMove(c)
    BY <2>1, OpenAdvances
  <2>2. CASE CommitMove(c)
    BY <2>2, CommitAdvances
  <2>3. CASE ~OpenMove(c) /\ ~CommitMove(c)
    BY <2>3, MoverFrame, ManifestSame
  <2>. QED BY <2>1, <2>2, <2>3
<1>3. \A b \in Deleters : client'[b] = client[b]
  BY <1>1, ConstantAssumption DEF Others, Clients
<1>4. \A o \in Deletes : Missed(o) => Missed(o)'
  BY <1>1, <1>2, MissedKept DEF Missed
<1>5. DeletionInv'
  BY <1>1, <1>2, <1>3, <1>4, DeletionKept
<1>6. RecordsInv'
  BY <1>2, MoverFrame DEF RecordsInv, Advances
<1>. QED BY <1>1, <1>2, <1>5, <1>6


(* What the steps of a deleter have in common.                             *)
LEMMA DeleterFrame ==
    ASSUME TypeOK, ManifestInv, CopyInv, NEW c \in Deleters, DeleterStep(c)
    PROVE  /\ TypeOK' /\ CopyInv' /\ Others(c)
           /\ UNCHANGED move /\ audit'.moves = audit.moves
           /\ \A b \in Movers : b \in current' <=> b \in current
           /\ manifest' = manifest \/ PutTombstone(c)
           /\ (deletion'.source = deletion.source /\ deletion'.op = deletion.op) \/ OpenDelete(c)
           /\ vectors'.mode = vectors.mode /\ vectors'.place = vectors.place
           /\ vectors' = vectors \/ CleanDeleted(c)
<1>1. CASE OpenDelete(c)
  <2>1. \A b \in Movers : b \in current' <=> b \in current
    BY <1>1, ConstantAssumption DEF OpenDelete
  <2>. QED BY <1>1, <2>1, OpenDeleteEffect DEF document
<1>2. CASE PrepareDelete(c) \/ Abandon(c) \/ RegisterDelete(c) \/ RegisteredDelete(c) \/ ReturnDelete(c)
  BY <1>2, RepairEffect DEF document
<1>3. CASE PreparedDelete(c)
  BY <1>3, PreparedDeleteEffect DEF document, DeletionAdvanced
<1>4. CASE PutTombstone(c)
  BY <1>4, PutTombstoneEffect
<1>5. CASE Refuse(c) \/ RecordDeleted(c)
  BY <1>5, RecordDeletionEffect DEF document
<1>6. CASE Tombstoned(c) \/ FinishDelete(c)
  BY <1>6, DeletionProgressEffect DEF document, DeletionAdvanced
<1>7. CASE CleanDeleted(c)
  BY <1>7, CleanDeletedEffect
<1>8. CASE PendingDelete(c)
  BY <1>8, PendingDeleteEffect DEF document
<1>. QED BY <1>1, <1>2, <1>3, <1>4, <1>5, <1>6, <1>7, <1>8 DEF DeleterStep

(* A step of a deleter that leaves the manifest alone and begins nothing.  *)
LEMMA DeletionSteps ==
    ASSUME TypeOK, TypeOK', DeleteInv, NEW c \in Deleters, Others(c), manifest' = manifest, Advances,
           deletion'.op = deletion.op, deletion'.source = deletion.source,
           DeleterFits(c)',
           deletion'.status \in RevokedStatus =>
             deletion.status \in RevokedStatus \/ manifest.deletion = deletion.op,
           \A o \in Deletes : repair'[o] \in Handed => repair[o] \in Handed \/ manifest.deletion = o,
           \A o \in Deletes :
             \/ audit'.deletes[o] = audit.deletes[o]
             \/ audit'.deletes[o].result = "open" /\ o <= deletion.op
             \/ audit'.deletes[o].result = "success" /\ manifest.deletion = o /\ o <= deletion.op
             \/ audit'.deletes[o].result \in Refusals /\ Missed(o) /\ o <= deletion.op
    PROVE  DeletionInv'
<1>1. \A b \in Deleters \ {c} : client'[b] = client[b]
  BY DEF Others, Clients
<1>2. \A b \in Deleters \ (Deleters \ {c}) : DeleterFits(b)'
  OBVIOUS
<1>3. \A o \in Deletes : Missed(o) => Missed(o)'
  BY MissedKept DEF Missed
<1>4. /\ CopyInv /\ DeletionInv /\ Deleters \ {c} \in SUBSET Deleters
      /\ deletion'.status \in RevokedStatus =>
           deletion.status \in RevokedStatus \/ manifest'.deletion = deletion.op
      /\ \A o \in Deletes : repair'[o] \in Handed => repair[o] \in Handed \/ manifest'.deletion = o
  BY DEF DeleteInv
<1>5. \A o \in Deletes :
             \/ audit'.deletes[o] = audit.deletes[o]
             \/ audit'.deletes[o].result = "open" /\ o <= deletion.op
             \/ audit'.deletes[o].result = "success" /\ manifest'.deletion = o /\ o <= deletion.op
             \/ audit'.deletes[o].result \in Refusals /\ Missed(o)' /\ o <= deletion.op
  BY <1>3
<1>. QED BY <1>1, <1>2, <1>3, <1>4, <1>5, DeletionKept

(* A deleter serves the deletion it finds, or the one it begins.           *)
LEMMA OpenDeleteKeeps ==
    ASSUME TypeOK, DeleteInv, NEW c \in Deleters, OpenDelete(c), edits' = edits
    PROVE  ManifestInv' /\ Advances /\ DeletionInv'
<1>. USE DEF DeleteInv
<1>1. /\ TypeOK' /\ Others(c) /\ manifest' = manifest /\ move' = move
      /\ repair' = repair /\ audit' = audit /\ client'[c].pc = "run"
      /\ client'[c].op = deletion'.op /\ client'[c].status = deletion'.status
  BY OpenDeleteEffect DEF document
<1>2. /\ manifest.rev \in Nat /\ manifest.move \in Nat /\ deletion.op \in Nat
      /\ \A b \in Deleters : client[b].pc # "idle" => client[b].op \in Deletes /\ client[b].op <= deletion.op
  BY Served DEF TypeOK, ManifestRecord, CopyInv, CopyOf
<1>3. Advances
  BY <1>1, <1>2 DEF Advances
<1>4. CASE deletion' = deletion
  <2>1. ManifestInv'
    BY <1>1, <1>4, ManifestSame
  <2>2. DeleterFits(c)'
    BY <1>1, <1>4 DEF DeleterFits, Revoking, DeletionInv
  <2>3. DeletionInv'
    BY <1>1, <1>3, <1>4, <2>2, DeletionSteps
  <2>. QED BY <1>3, <2>1, <2>3
<1>5. CASE /\ manifest.kind = "active"
           /\ deletion'.op = deletion.op + 1 /\ deletion'.status = "initialized"
           /\ deletion'.op \in Deletes /\ deletion'.source[deletion'.op] = manifest
           /\ \A o \in Deletes \ {deletion'.op} : deletion'.source[o] = deletion.source[o]
  <2>1. ManifestInv'
    <3>1. manifest'.move <= move'.op /\ manifest'.rev <= edits'
      BY <1>1 DEF ManifestInv
    <3>2. \A o \in Deletes : \/ deletion'.source[o] = deletion.source[o]
                             \/ /\ deletion'.source[o] = manifest /\ manifest' = manifest
                                /\ manifest.kind = "active"
      BY <1>1, <1>5
    <3>. QED BY <1>1, <1>3, <3>1, <3>2, ManifestKept DEF ManifestInv
  <2>2. \A o \in Deletes : o <= deletion.op /\ Missed(o) => Missed(o)'
    <3>1. \A o \in Deletes : o <= deletion.op => deletion'.source[o] = deletion.source[o]
      BY <1>2, <1>5
    <3>. QED BY <1>1, <3>1 DEF Missed, Beyond
  <2>3. ASSUME NEW b \in Deleters PROVE DeleterFits(b)'
    <3>1. CASE b = c
      BY <1>1, <1>5, <3>1 DEF DeleterFits, Revoking, RevokedStatus
    <3>2. CASE b # c
      <4>1. client'[b] = client[b] /\ DeleterFits(b)
        BY <1>1, <3>2 DEF Others, Clients, DeletionInv
      <4>. QED BY <1>1, <1>2, <2>2, <4>1 DEF DeleterFits, Revoking
    <3>. QED BY <3>1, <3>2
  <2>4. deletion'.status \notin RevokedStatus
    BY <1>5 DEF RevokedStatus
  <2>5. ASSUME NEW o \in Deletes
        PROVE  /\ repair'[o] \in Handed => manifest'.deletion = o
               /\ audit'.deletes[o].result = "success" => manifest'.deletion = o
               /\ audit'.deletes[o].result \in Refusals => Missed(o)'
               /\ o > deletion'.op => audit'.deletes[o].result = "none"
    <3>1. o \in Nat
      BY ConstantAssumption DEF Deletes
    <3>2. o > deletion'.op => o > deletion.op
      BY <1>2, <1>5, <3>1
    <3>3. audit.deletes[o].result \in Refusals => o <= deletion.op
      BY <1>2, <3>1 DEF DeletionInv, Refusals
    <3>. QED BY <1>1, <2>2, <3>2, <3>3 DEF DeletionInv
  <2>. QED BY <1>3, <2>1, <2>3, <2>4, <2>5 DEF DeletionInv
<1>. QED BY <1>4, <1>5, OpenDeleteEffect


(* The tombstone is put on the document the deletion was asked for, or the *)
(* deletion has missed it.                                                 *)
LEMMA TombstoneKeeps ==
    ASSUME TypeOK, DeleteInv, NEW c \in Deleters, PutTombstone(c), edits' = edits
    PROVE  ManifestInv' /\ Advances /\ DeletionInv'
<1>. USE DEF DeleteInv
<1>0. PICK o \in Deletes : o = client[c].op
  BY PutTombstoneEffect
<1>. DEFINE source == deletion.source[o]
<1>1. /\ TypeOK' /\ Others(c)
      /\ UNCHANGED <<vectors, move, deletion, current, repair, audit>>
      /\ \/ manifest' = manifest /\ Ends(c)
         \/ /\ manifest' = manifest /\ Goes(c, "tombstoned")
            /\ Revoked(o) \/ (manifest.kind = "gone" /\ repair[o] \notin {"none", "prepared", "abandoned"})
         \/ /\ manifest' = manifest /\ Goes(c, "refuse")
            /\ manifest # source /\ ~Revoked(o) /\ manifest.kind # "gone"
         \/ /\ manifest = source
            /\ manifest' = [manifest EXCEPT !.kind = "revoked", !.deletion = o]
            /\ Goes(c, "tombstoned") \/ Ends(c)
  BY <1>0, PutTombstoneEffect
<1>2. /\ manifest \in ManifestRecord /\ source \in ManifestRecord /\ o \in Nat /\ o # 0
      /\ Snapshot(source) /\ (manifest.kind = "active" <=> manifest.deletion = 0)
  BY <1>1, ConstantAssumption DEF TypeOK, Deletes, ManifestInv
<1>. HIDE DEF source
<1>3. CASE /\ manifest' = manifest
           /\ \/ Ends(c)
              \/ Goes(c, "tombstoned") /\ manifest.deletion = o
              \/ Goes(c, "refuse") /\ Missed(o)
  <2>1. ManifestInv' /\ Advances
    BY <1>1, <1>3, ManifestSame
  <2>2. Missed(o) => Missed(o)'
    BY <1>1, <1>3 DEF Missed, Beyond
  <2>3. DeleterFits(c)'
    BY <1>0, <1>3, <2>2 DEF DeleterFits, Revoking, Ends, Goes, Keeps
  <2>. QED BY <1>1, <1>3, <2>1, <2>3, DeletionSteps
<1>4. CASE /\ manifest = source
           /\ manifest' = [manifest EXCEPT !.kind = "revoked", !.deletion = o]
           /\ Goes(c, "tombstoned") \/ Ends(c)
  <2>1. /\ manifest'.kind = "revoked" /\ manifest'.deletion = o
        /\ manifest'.move = manifest.move /\ manifest'.rev = manifest.rev
        /\ manifest.kind = "active" /\ manifest.deletion = 0
        /\ manifest.move \in Nat /\ manifest.rev \in Nat
    BY <1>2, <1>4 DEF ManifestRecord, Snapshot
  <2>2. Advances
    BY <2>1 DEF Advances
  <2>3. ManifestInv'
    <3>1. manifest'.move <= move'.op /\ manifest'.rev <= edits'
      BY <1>1, <2>1 DEF ManifestInv
    <3>2. manifest'.kind = "active" <=> manifest'.deletion = 0
      BY <1>2, <2>1
    <3>. QED BY <1>1, <2>2, <3>1, <3>2, ManifestKept
  <2>4. ASSUME NEW p \in Deletes, Missed(p) PROVE Missed(p)'
    <3>1. p # o
      BY <1>4, <2>1, <2>4 DEF Missed, Beyond, source
    <3>. QED BY <1>1, <2>1, <3>1 DEF Missed, Beyond
  <2>5. DeleterFits(c)'
    BY <1>0, <1>4, <2>1 DEF DeleterFits, Revoking, Ends, Goes, Keeps
  <2>6. \A b \in Deleters \ {c} : client'[b] = client[b]
    BY <1>1 DEF Others, Clients
  <2>7. Deleters \ {c} \in SUBSET Deleters /\ \A b \in Deleters \ (Deleters \ {c}) : DeleterFits(b)'
    BY <2>5
  <2>. QED BY <1>1, <2>2, <2>3, <2>4, <2>6, <2>7, DeletionKept
<1>5. CASE /\ manifest' = manifest /\ Goes(c, "tombstoned")
           /\ Revoked(o) \/ (manifest.kind = "gone" /\ repair[o] \notin {"none", "prepared", "abandoned"})
  <2>1. repair[o] \notin {"none", "prepared", "abandoned"} => repair[o] \in Handed
    BY <1>1 DEF TypeOK, Handed
  <2>2. manifest.deletion = o
    BY <1>1, <1>5, <2>1 DEF Revoked, DeletionInv
  <2>. QED BY <1>3, <1>5, <2>2
<1>6. CASE /\ manifest' = manifest /\ Goes(c, "refuse")
           /\ manifest # source /\ ~Revoked(o) /\ manifest.kind # "gone"
  <2>1. manifest.deletion # o
    BY <1>2, <1>6 DEF Revoked, ManifestRecord
  <2>2. manifest.kind = "active" => manifest.move # source.move \/ manifest.rev # source.rev
    BY <1>2, <1>6 DEF Snapshot, ManifestRecord
  <2>3. Beyond(source)
    BY <1>2, <2>2 DEF Beyond, Snapshot, ManifestRecord
  <2>4. Missed(o)
    BY <2>1, <2>3 DEF Missed, source
  <2>. QED BY <1>3, <1>6, <2>4
<1>. QED BY <1>1, <1>3, <1>4, <1>5, <1>6

(* The other steps of a deleter.                                           *)
LEMMA DeleterKeepsDeletion ==
    ASSUME TypeOK, TypeOK', DeleteInv, NEW c \in Deleters, DeleterStep(c), Advances,
           ~OpenDelete(c), ~PutTombstone(c)
    PROVE  DeletionInv'
<1>. USE DEF DeleteInv
<1>1. /\ Others(c) /\ manifest' = manifest
      /\ deletion'.op = deletion.op /\ deletion'.source = deletion.source
  BY DeleterFrame
<1>2. /\ Revoking(c) => manifest.deletion = client[c].op
      /\ client[c].pc = "refuse" => Missed(client[c].op)
  BY DEF DeletionInv, DeleterFits
<1>3. /\ client[c].pc # "idle" => client[c].op <= deletion.op
      /\ deletion.status \in RevokedStatus => manifest.deletion = deletion.op
  BY DEF CopyInv, CopyOf, DeletionInv
<1>4. CASE PrepareDelete(c) \/ Abandon(c) \/ RegisterDelete(c) \/ RegisteredDelete(c) \/ ReturnDelete(c)
  <2>1. /\ UNCHANGED <<deletion, audit>>
        /\ \/ Ends(c) \/ Goes(c, "prepared")
           \/ Revoking(c) /\ (Goes(c, "register") \/ Goes(c, "clean") \/ Goes(c, "pending"))
        /\ \A p \in Deletes : \/ repair'[p] = repair[p] \/ repair'[p] \in {"prepared", "abandoned"}
                              \/ p = client[c].op /\ Revoking(c)
    BY <1>4, RepairEffect DEF Revoking, RevokedStatus
  <2>2. DeleterFits(c)'
    BY <1>1, <1>2, <2>1 DEF DeleterFits, Revoking, Ends, Goes, Keeps
  <2>3. \A p \in Deletes : repair'[p] \in Handed => repair[p] \in Handed \/ manifest.deletion = p
    BY <1>2, <2>1 DEF Handed
  <2>. QED BY <1>1, <2>1, <2>2, <2>3, DeletionSteps
<1>5. CASE PreparedDelete(c)
  <2>1. /\ client[c].pc # "idle" /\ client[c].op \in Deletes /\ repair' = repair
        /\ DeletionAdvanced(c, "prepared", "run")
        /\ \A p \in Deletes : \/ audit'.deletes[p] = audit.deletes[p]
                              \/ p = client[c].op /\ audit'.deletes[p].result = "open"
    BY <1>5, PreparedDeleteEffect DEF PreparedDelete
  <2>2. "prepared" \notin RevokedStatus
    BY DEF RevokedStatus
  <2>3. DeleterFits(c)'
    BY <1>1, <1>3, <2>1, <2>2 DEF DeleterFits, Revoking, Ends, Takes, DeletionAdvanced
  <2>4. deletion'.status \in RevokedStatus => deletion.status \in RevokedStatus
    BY <2>1, <2>2 DEF DeletionAdvanced
  <2>. QED BY <1>1, <1>3, <2>1, <2>3, <2>4, DeletionSteps
<1>6. CASE Refuse(c) \/ RecordDeleted(c)
  <2>1. /\ UNCHANGED <<deletion, repair>> /\ client[c].pc # "idle"
        /\ \/ Ends(c)
           \/ client[c].pc = "refuse" /\ Goes(c, "abandon")
           \/ client[c].pc = "cleaned" /\ Goes(c, "recorded")
        /\ \A p \in Deletes :
             \/ audit'.deletes[p] = audit.deletes[p]
             \/ client[c].pc = "refuse" /\ p = client[c].op /\ audit'.deletes[p].result \in Refusals
             \/ client[c].pc = "cleaned" /\ p = client[c].op /\ audit'.deletes[p].result = "success"
    BY <1>6, RecordDeletionEffect DEF Refusals
  <2>2. client[c].pc = "cleaned" => manifest.deletion = client[c].op
    BY <1>2 DEF Revoking
  <2>3. DeleterFits(c)'
    BY <1>1, <2>1, <2>2 DEF DeleterFits, Revoking, Ends, Goes, Keeps
  <2>. QED BY <1>1, <1>2, <1>3, <2>1, <2>2, <2>3, DeletionSteps
<1>7. CASE Tombstoned(c) \/ FinishDelete(c)
  <2>1. /\ UNCHANGED <<repair, audit>> /\ Revoking(c)
        /\ DeletionAdvanced(c, "tombstoned", "run") \/ DeletionAdvanced(c, "completed", "run")
    BY <1>7, DeletionProgressEffect DEF Revoking
  <2>2. DeleterFits(c)'
    BY <1>1, <1>2, <2>1 DEF DeleterFits, Revoking, Ends, Takes, DeletionAdvanced
  <2>3. deletion'.status \in RevokedStatus =>
          deletion.status \in RevokedStatus \/ manifest.deletion = deletion.op
    BY <1>2, <2>1 DEF DeletionAdvanced
  <2>. QED BY <1>1, <2>1, <2>2, <2>3, DeletionSteps
<1>8. CASE CleanDeleted(c)
  <2>1. UNCHANGED <<deletion, repair, audit>> /\ (Goes(c, "cleaned") \/ Goes(c, "pending")) /\ Revoking(c)
    BY <1>8, CleanDeletedEffect DEF Revoking
  <2>2. DeleterFits(c)'
    BY <1>1, <1>2, <2>1 DEF DeleterFits, Revoking, Goes, Keeps
  <2>. QED BY <1>1, <2>1, <2>2, DeletionSteps
<1>9. CASE PendingDelete(c)
  <2>1. /\ UNCHANGED <<repair, audit>> /\ Ends(c) /\ Revoking(c)
        /\ deletion' = deletion \/ client[c].op = deletion.op
    BY <1>9, PendingDeleteEffect DEF Revoking
  <2>2. DeleterFits(c)'
    BY <2>1 DEF DeleterFits, Revoking, Ends
  <2>. QED BY <1>1, <1>2, <2>1, <2>2, DeletionSteps
<1>. QED BY <1>4, <1>5, <1>6, <1>7, <1>8, <1>9 DEF DeleterStep


(* Deleters keep the invariant of deletions.                               *)
LEMMA DeleterKeepsDeletions ==
    ASSUME TypeOK, DeleteInv, NEW c \in Deleters, DeleterStep(c), edits' = edits
    PROVE  TypeOK' /\ DeleteInv' /\ Advances
<1>. USE DEF DeleteInv
<1>1. TypeOK' /\ CopyInv' /\ Others(c) /\ UNCHANGED move
  BY DeleterFrame
<1>2. ManifestInv' /\ Advances /\ DeletionInv'
  <2>1. CASE OpenDelete(c)
    BY <2>1, OpenDeleteKeeps
  <2>2. CASE PutTombstone(c)
    BY <2>2, TombstoneKeeps
  <2>3. CASE ~OpenDelete(c) /\ ~PutTombstone(c)
    <3>1. ManifestInv' /\ Advances
      BY <1>1, <2>3, DeleterFrame, ManifestSame
    <3>. QED BY <1>1, <2>3, <3>1, DeleterKeepsDeletion
  <2>. QED BY <2>1, <2>2, <2>3
<1>3. RecordsInv'
  <2>1. CASE CleanDeleted(c)
    <3>1. client[c].pc = "clean" /\ manifest' = manifest
      BY <2>1, CleanDeletedEffect
    <3>2. client[c].op \in Deletes /\ manifest.deletion = client[c].op
      BY <3>1, Served DEF DeletionInv, DeleterFits, Revoking
    <3>. QED BY <3>1, <3>2, ConstantAssumption DEF ManifestInv, RecordsInv, Deletes
  <2>2. CASE ~CleanDeleted(c)
    BY <1>2, <2>2, DeleterFrame DEF RecordsInv, Advances
  <2>. QED BY <2>1, <2>2
<1>. QED BY <1>1, <1>2, <1>3

(* So do deaths, edits and the cleanup batch.                              *)
LEMMA CrashKeepsDeletions ==
    ASSUME TypeOK, DeleteInv, NEW c \in Clients, Crash(c), edits' = edits
    PROVE  TypeOK' /\ DeleteInv' /\ Advances
<1>. USE DEF DeleteInv
<1>1. /\ TypeOK' /\ CopyInv' /\ Others(c) /\ Ends(c)
      /\ UNCHANGED <<document, move, deletion, current, repair, audit>>
  BY CrashEffect
<1>2. ManifestInv' /\ Advances
  BY <1>1, ManifestSame DEF document
<1>3. \A b \in Deleters \ {c} : client'[b] = client[b]
  BY <1>1 DEF Others, Clients
<1>4. \A b \in Deleters \ (Deleters \ {c}) : DeleterFits(b)'
  BY <1>1 DEF Ends, DeleterFits, Revoking
<1>5. \A o \in Deletes : Missed(o) => Missed(o)'
  BY <1>1 DEF document, Missed, Beyond
<1>6. Deleters \ {c} \in SUBSET Deleters
  OBVIOUS
<1>7. DeletionInv'
  BY <1>1, <1>2, <1>3, <1>4, <1>5, <1>6, DeletionKept
<1>. QED BY <1>1, <1>2, <1>7 DEF RecordsInv, document

(* An edit makes a revision that no snapshot is of.                        *)
LEMMA EditKeepsDeletions ==
    ASSUME TypeOK, DeleteInv, Edit
    PROVE  TypeOK' /\ DeleteInv' /\ Advances
<1>. USE DEF DeleteInv
<1>1. /\ TypeOK' /\ CopyInv' /\ manifest.kind = "active"
      /\ UNCHANGED <<vectors, move, deletion, current, repair, audit, client>>
      /\ manifest' = [manifest EXCEPT !.rev = @ + 1] /\ edits' = edits + 1
  BY EditEffect
<1>2. manifest \in ManifestRecord /\ edits \in Nat
  BY DEF TypeOK
<1>3. /\ manifest'.kind = manifest.kind /\ manifest'.deletion = manifest.deletion
      /\ manifest'.move = manifest.move /\ manifest'.rev = manifest.rev + 1
      /\ manifest.move \in Nat /\ manifest.rev \in Nat
  BY <1>1, <1>2 DEF ManifestRecord
<1>4. Advances
  BY <1>3 DEF Advances
<1>5. manifest'.move <= move'.op /\ manifest'.rev <= edits'
  BY <1>1, <1>2, <1>3 DEF ManifestInv
<1>6. ManifestInv'
  BY <1>1, <1>3, <1>4, <1>5, ManifestKept DEF ManifestInv
<1>7. \A o \in Deletes : Missed(o) => Missed(o)'
  BY <1>1, <1>3, <1>4, MissedKept DEF Missed
<1>8. DeletionInv'
  BY <1>1, <1>4, <1>7, DeletionKept
<1>. QED BY <1>1, <1>3, <1>4, <1>6, <1>8 DEF RecordsInv

(* The batch hands intents over and removes what is revoked.               *)
LEMMA BatchKeepsDeletions ==
    ASSUME TypeOK, DeleteInv, NEW o \in Deletes, Batch(o), edits' = edits
    PROVE  TypeOK' /\ DeleteInv' /\ Advances
<1>. USE DEF DeleteInv
<1>1. /\ TypeOK' /\ CopyInv' /\ manifest.kind # "active" /\ manifest.deletion = o
      /\ UNCHANGED <<move, deletion, current, audit, client>>
      /\ manifest' = manifest \/ manifest' = [manifest EXCEPT !.kind = "gone"]
      /\ \A p \in Deletes \ {o} : repair'[p] = repair[p]
  BY BatchEffect
<1>2. manifest \in ManifestRecord
  BY DEF TypeOK
<1>3. /\ manifest'.kind # "active" /\ manifest'.deletion = o
      /\ manifest'.move = manifest.move /\ manifest'.rev = manifest.rev
      /\ manifest.move \in Nat /\ manifest.rev \in Nat
  BY <1>1, <1>2 DEF ManifestRecord
<1>4. Advances
  BY <1>1, <1>3 DEF Advances
<1>5. manifest'.move <= move'.op /\ manifest'.rev <= edits'
  BY <1>1, <1>3 DEF ManifestInv
<1>6. ManifestInv'
  <2>1. manifest'.kind = "active" <=> manifest'.deletion = 0
    BY <1>1, <1>3 DEF ManifestInv
  <2>. QED BY <1>1, <1>4, <1>5, <2>1, ManifestKept
<1>7. \A p \in Deletes : Missed(p) => Missed(p)'
  BY <1>1, <1>3, <1>4, MissedKept DEF Missed
<1>8. \A p \in Deletes : repair'[p] \in Handed => repair[p] \in Handed \/ manifest'.deletion = p
  BY <1>1, <1>3
<1>9. DeletionInv'
  BY <1>1, <1>4, <1>7, <1>8, DeletionKept
<1>. QED BY <1>1, <1>3, <1>4, <1>6, <1>9 DEF RecordsInv

(* The invariant of deletions at the start, and through every step.        *)
LEMMA InitDeletions ==
    ASSUME Init
    PROVE  TypeOK /\ DeleteInv
<1>1. New \in ManifestRecord /\ Idle \in ClientRecord
  BY ConstantAssumption DEF New, Idle, ManifestRecord, ClientRecord, MoveStatus, Modes
<1>2. TypeOK
  <2>1. DocumentTyped /\ MoveTyped /\ DeletionTyped
    BY <1>1, ConstantAssumption
       DEF Init, DocumentTyped, MoveTyped, DeletionTyped, Modes, MoveStatus, DeleteStatus
  <2>2. CurrentTyped /\ RepairTyped /\ AuditTyped /\ ClientTyped /\ BoundsTyped
    BY <1>1, OpenEntry, ConstantAssumption
       DEF Init, CurrentTyped, RepairTyped, AuditTyped, ClientTyped, BoundsTyped
  <2>. QED BY <2>1, <2>2, TypeParts
<1>3. ManifestInv /\ RecordsInv
  BY ConstantAssumption DEF Init, New, ManifestInv, RecordsInv, Snapshot, Moves, Deletes
<1>4. CopyInv
  BY DEF Init, Idle, CopyInv, CopyOf, Clients
<1>5. DeletionInv
  <2>1. \A c \in Deleters : DeleterFits(c)
    BY DEF Init, Idle, DeleterFits, Revoking, Clients
  <2>. QED BY <2>1, OpenEntry DEF Init, DeletionInv, RevokedStatus, Handed, Refusals
<1>. QED BY <1>2, <1>3, <1>4, <1>5 DEF DeleteInv

(* Whoever takes the step.                                                 *)
LEMMA StepDeletions ==
    ASSUME TypeOK, DeleteInv, [Next]_vars
    PROVE  TypeOK' /\ DeleteInv'
<1>1. CASE UNCHANGED vars
  BY <1>1 DEF vars, TypeOK, DeleteInv, ManifestInv, Snapshot, CopyInv, CopyOf, DeletionInv, DeleterFits,
              Revoking, Missed, Beyond, RecordsInv
<1>2. ASSUME NEW c \in Movers, MoverStep(c) PROVE TypeOK' /\ DeleteInv'
  BY <1>2, MoverKeepsDeletions, EditsKept
<1>3. ASSUME NEW c \in Deleters, DeleterStep(c) PROVE TypeOK' /\ DeleteInv'
  BY <1>3, DeleterKeepsDeletions, EditsKept
<1>4. ASSUME NEW c \in Clients, Crash(c) PROVE TypeOK' /\ DeleteInv'
  BY <1>4, CrashKeepsDeletions DEF Crash
<1>5. ASSUME NEW o \in Deletes, Batch(o) PROVE TypeOK' /\ DeleteInv'
  BY <1>5, BatchKeepsDeletions DEF Batch, bounds
<1>6. CASE Edit
  BY <1>6, EditKeepsDeletions
<1>. QED BY <1>1, <1>2, <1>3, <1>4, <1>5, <1>6 DEF Next

(* Every value of the model keeps its type, whatever movers and deleters   *)
(* do to one another.                                                      *)
THEOREM TypeCorrect == Spec => []TypeOK
<1>1. Init => TypeOK /\ DeleteInv
  BY InitDeletions
<1>2. TypeOK /\ DeleteInv /\ [Next]_vars => (TypeOK /\ DeleteInv)'
  BY StepDeletions
<1>. QED BY <1>1, <1>2, PTL DEF Spec

(* What is recorded of a deletion is what became of the document, for any  *)
(* number of movers and deleters: a deletion is a success only when its    *)
(* tombstone is the document's, a failure only when it is not; a completed *)
(* one has revoked the document; and index records are removed of a        *)
(* deleted document alone (runDeleteStateMachine).                         *)
DeletionsAreTrue ==
    /\ \A o \in Deletes : /\ audit.deletes[o].result = "success" => manifest.deletion = o
                          /\ audit.deletes[o].result \in Refusals => manifest.deletion # o
    /\ deletion.status = "completed" => manifest.kind # "active" /\ manifest.deletion = deletion.op
    /\ manifest.kind = "active" => vectors.there

(* The recorded outcomes of deletions are true, for any movers and deleters.*)
THEOREM DeletionOutcomes == Spec => []DeletionsAreTrue
<1>1. Init => TypeOK /\ DeleteInv
  BY InitDeletions
<1>2. TypeOK /\ DeleteInv /\ [Next]_vars => (TypeOK /\ DeleteInv)'
  BY StepDeletions
<1>3. TypeOK /\ DeleteInv => DeletionsAreTrue
  <2>. SUFFICES ASSUME TypeOK, DeleteInv PROVE DeletionsAreTrue
    OBVIOUS
  <2>1. deletion.status = "completed" => deletion.op # 0 /\ manifest.deletion = deletion.op
    BY DEF DeleteInv, CopyInv, DeletionInv, RevokedStatus
  <2>2. manifest.deletion # 0 => manifest.kind # "active"
    BY DEF DeleteInv, ManifestInv
  <2>. QED BY <2>1, <2>2 DEF DeletionsAreTrue, DeleteInv, DeletionInv, Missed, RecordsInv
<1>. QED BY <1>1, <1>2, <1>3, PTL DEF Spec


-----------------------------------------------------------------------------
(* Moves.                                                                  *)

(* What a step of a mover does to those that take their move for done, to  *)
(* the stored move and to its outcome.                                     *)
LEMMA MoverPlaces ==
    ASSUME TypeOK, DeleteInv, MoveInv, NEW c \in Movers, MoverStep(c)
    PROVE  /\ Placed(client'[c]) => manifest'.move >= client'[c].op
           /\ client'[c].pc \in {"rewrite", "put_vectors"} => client'[c].then # "run"
           /\ move'.status \in {"manifest_committed", "completed"} =>
                \/ manifest'.move >= move'.op
                \/ move'.status = move.status /\ move'.op = move.op
           /\ \A o \in Moves : \/ audit'.moves[o] = audit.moves[o]
                               \/ audit'.moves[o].result = "success" => manifest'.move >= o
<1>. USE DEF DeleteInv
<1>0. /\ client[c] \in ClientRecord /\ manifest.move \in Nat /\ move.op \in Nat
      /\ move.op = client[c].op \/ c \notin current \/ client[c].pc = "idle"
      /\ Placed(client[c]) => manifest.move >= client[c].op
      /\ client[c].pc \in {"rewrite", "put_vectors"} => client[c].then # "run"
  BY Values, Served DEF CopyInv, CopyOf, MoveInv
<1>1. CASE OpenMove(c)
  <2>1. /\ client'[c].pc = "run" /\ client'[c].op = move'.op /\ client'[c].status = move'.status
        /\ manifest' = manifest /\ audit' = audit
        /\ move' = move \/ move'.status = "initialized"
    BY <1>1, OpenMoveEffect DEF document
  <2>. QED BY <1>0, <2>1 DEF Placed, MoveInv
<1>2. CASE PrepareMove(c)
  <2>1. /\ manifest' = manifest
        /\ MoveAdvanced(c, "prepared", "run") \/ MoveAdvanced(c, "projections_staging", "run")
        /\ \A o \in Moves : audit'.moves[o] = audit.moves[o] \/ audit'.moves[o].result = "open"
    BY <1>2, PrepareMoveEffect DEF document
  <2>. QED BY <1>0, <2>1 DEF Placed, MoveInv, MoveAdvanced, Takes, Ends
<1>3. CASE Stage(c) \/ Show(c) \/ Rollback(c) \/ ReturnMove(c)
  BY <1>0, <1>3, StageEffect, ShowEffect, RollbackEffect, ReturnMoveEffect
     DEF Placed, document, Rewrites, Keeps, Ends
<1>4. CASE ReadVectors(c) \/ PutVectors(c)
  <2>1. /\ UNCHANGED <<manifest, move, audit>>
        /\ \/ Ends(c) \/ Goes(c, "mark_rollback")
           \/ client[c].pc = "rewrite" /\ Goes(c, "put_vectors")
           \/ client[c].pc = "put_vectors" /\ Goes(c, client[c].then)
    BY <1>4, ReadVectorsEffect, PutVectorsEffect DEF document
  <2>2. client[c].then \in Thens
    BY <1>0, RecordFields
  <2>3. Placed(client[c]) \/ ~Placed(client'[c])
    BY <1>0, <2>1, <2>2 DEF Placed, Goes, Keeps, Ends, Thens
  <2>4. Keeps(c) \/ ~Placed(client'[c])
    BY <2>1 DEF Goes, Ends, Placed
  <2>5. client'[c].pc \in {"rewrite", "put_vectors"} => client'[c].then # "run"
    BY <1>0, <2>1, <2>2 DEF Goes, Ends, Thens
  <2>. QED BY <1>0, <2>1, <2>3, <2>4, <2>5 DEF Keeps
<1>5. CASE CommitMove(c)
  <2>1. /\ UNCHANGED <<move, audit>> /\ client[c].op \in Moves
        /\ client'[c].pc \in {"rewrite", "put_vectors"} => client'[c].then # "run"
        /\ \/ manifest' = manifest /\ ~Placed(client'[c])
           \/ manifest' = manifest /\ manifest.move = client[c].op /\ Keeps(c)
           \/ manifest'.move = client[c].op /\ Keeps(c)
           \/ ~Placed(client'[c])
    BY <1>0, <1>5, CommitMoveEffect, Values DEF ManifestRecord, Goes, Ends, Rewrites, Placed
  <2>2. client[c].op \in Nat
    BY <2>1, ConstantAssumption DEF Moves
  <2>. QED BY <1>0, <2>1, <2>2 DEF Keeps
<1>6. CASE Record(c)
  <2>1. /\ UNCHANGED <<manifest, move>> /\ client[c].op \in Moves
        /\ client[c].pc \in {"shown", "conflict", "restored"}
        /\ Ends(c) \/ Goes(c, IF client[c].pc = "shown" THEN "success" ELSE "failure")
        /\ \A o \in Moves : \/ audit'.moves[o] = audit.moves[o]
                            \/ o = client[c].op /\ audit'.moves[o] = MoveEntry(client[c])
    BY <1>6, RecordEffect DEF document
  <2>2. MoveEntry(client[c]).result = "success" => client[c].pc = "shown"
    BY <2>1 DEF MoveEntry, Recorded
  <2>3. client[c].pc = "shown" => manifest.move >= client[c].op
    BY <1>0 DEF Placed
  <2>4. client'[c].pc = "success" => client[c].pc = "shown" /\ Keeps(c)
    BY <2>1 DEF Goes, Ends
  <2>5. client'[c].pc \in {"idle", "success", "failure"}
    BY <2>1 DEF Goes, Ends
  <2>6. Placed(client'[c]) => client'[c].pc = "success"
    BY <2>5 DEF Placed
  <2>. QED BY <1>0, <2>1, <2>2, <2>3, <2>4, <2>5, <2>6 DEF Keeps
<1>7. CASE Staged(c) \/ Moved(c) \/ FinishMove(c) \/ MarkRollback(c)
  BY <1>0, <1>7, ProgressEffect DEF Placed, document, MoveAdvanced, Takes, Ends, MoveInv
<1>. QED BY <1>1, <1>2, <1>3, <1>4, <1>5, <1>6, <1>7 DEF MoverStep

(* The places of the manifest and of the moves are numbers that grow.      *)
LEMMA Numbers ==
    ASSUME TypeOK, TypeOK', Advances
    PROVE  /\ manifest'.move \in Nat /\ manifest.move \in Nat /\ move.op \in Nat
           /\ manifest'.move >= manifest.move /\ Moves \subseteq Nat
           /\ \A c \in Movers : client[c].op \in Nat
<1>1. 0..MaxMoves \subseteq Nat /\ Moves \subseteq Nat
  BY ConstantAssumption DEF Moves
<1>2. manifest.move \in 0..MaxMoves /\ move.op \in 0..MaxMoves
  BY Values
<1>3. manifest'.move \in 0..MaxMoves
  BY DEF TypeOK, ManifestRecord
<1>4. \A c \in Movers : client[c].op \in Nat
  BY Values, RecordFields DEF Clients
<1>5. manifest'.move >= manifest.move
  BY DEF Advances
<1>. QED BY <1>1, <1>2, <1>3, <1>4, <1>5

(* What others do leaves moves alone.                                      *)
LEMMA MovesKept ==
    ASSUME TypeOK, TypeOK', MoveInv, Advances, move' = move, audit'.moves = audit.moves,
           \A c \in Movers : client'[c] = client[c] \/ Ends(c)
    PROVE  MoveInv'
<1>1. /\ manifest'.move \in Nat /\ manifest.move \in Nat /\ move.op \in Nat
      /\ manifest'.move >= manifest.move /\ Moves \subseteq Nat
      /\ \A c \in Movers : client[c].op \in Nat
  BY Numbers
<1>2. \A c \in Movers : /\ Placed(client[c])' => manifest'.move >= client'[c].op
                        /\ client'[c].pc \in {"rewrite", "put_vectors"} => client'[c].then # "run"
  BY <1>1 DEF MoveInv, Ends, Placed
<1>3. ASSUME NEW o \in Moves, audit'.moves[o].result = "success"
      PROVE  manifest'.move >= o
  <2>1. audit.moves[o].result = "success"
    BY <1>3
  <2>2. manifest.move >= o
    BY <2>1 DEF MoveInv
  <2>3. o \in Nat
    BY <1>1
  <2>. QED BY <1>1, <2>2, <2>3
<1>4. move'.status \in {"manifest_committed", "completed"} => manifest'.move >= move'.op
  BY <1>1 DEF MoveInv
<1>. QED BY <1>2, <1>3, <1>4 DEF MoveInv

(* Whoever takes the step.                                                 *)
LEMMA StepMoves ==
    ASSUME TypeOK, DeleteInv, MoveInv, [Next]_vars
    PROVE  MoveInv'
<1>. USE DEF DeleteInv
<1>1. CASE UNCHANGED vars
  BY <1>1 DEF vars, MoveInv, Placed
<1>2. ASSUME NEW c \in Movers, MoverStep(c) PROVE MoveInv'
  <2>1. TypeOK' /\ Advances /\ Others(c)
    BY <1>2, MoverKeepsDeletions, MoverFrame, EditsKept
  <2>2. /\ manifest'.move \in Nat /\ manifest.move \in Nat /\ move.op \in Nat
        /\ manifest'.move >= manifest.move /\ Moves \subseteq Nat
        /\ \A b \in Movers : client[b].op \in Nat
    BY <2>1, Numbers
  <2>3. ASSUME NEW b \in Movers, b # c
        PROVE  /\ Placed(client[b])' => manifest'.move >= client'[b].op
               /\ client'[b].pc \in {"rewrite", "put_vectors"} => client'[b].then # "run"
    <3>1. client'[b] = client[b]
      BY <2>1, <2>3 DEF Others, Clients
    <3>. QED BY <2>2, <3>1 DEF MoveInv, Placed
  <2>4. \A o \in Moves : audit'.moves[o].result = "success" => manifest'.move >= o
    BY <1>2, <2>2, MoverPlaces DEF MoveInv
  <2>5. move'.status \in {"manifest_committed", "completed"} => manifest'.move >= move'.op
    BY <1>2, <2>2, MoverPlaces DEF MoveInv
  <2>6. /\ Placed(client[c])' => manifest'.move >= client'[c].op
        /\ client'[c].pc \in {"rewrite", "put_vectors"} => client'[c].then # "run"
    BY <1>2, MoverPlaces DEF Placed
  <2>. QED BY <2>3, <2>4, <2>5, <2>6 DEF MoveInv
<1>3. ASSUME NEW c \in Deleters, DeleterStep(c) PROVE MoveInv'
  <2>1. /\ TypeOK' /\ Advances /\ Others(c) /\ move' = move /\ audit'.moves = audit.moves
    BY <1>3, DeleterKeepsDeletions, DeleterFrame, EditsKept
  <2>2. \A b \in Movers : client'[b] = client[b]
    BY <2>1, ConstantAssumption DEF Others, Clients
  <2>. QED BY <2>1, <2>2, MovesKept
<1>4. ASSUME NEW c \in Clients, Crash(c) PROVE MoveInv'
  <2>1. TypeOK' /\ Advances /\ Others(c) /\ Ends(c) /\ move' = move /\ audit' = audit
    BY <1>4, CrashKeepsDeletions, CrashEffect DEF Crash
  <2>2. \A b \in Movers : client'[b] = client[b] \/ Ends(b)
    BY <2>1 DEF Others, Clients
  <2>. QED BY <2>1, <2>2, MovesKept
<1>5. ASSUME NEW o \in Deletes, Batch(o) PROVE MoveInv'
  <2>1. TypeOK' /\ Advances /\ move' = move /\ audit' = audit /\ client' = client
    BY <1>5, BatchKeepsDeletions, BatchEffect DEF Batch, bounds
  <2>. QED BY <2>1, MovesKept
<1>6. CASE Edit
  <2>1. TypeOK' /\ Advances /\ move' = move /\ audit' = audit /\ client' = client
    BY <1>6, EditKeepsDeletions, EditEffect
  <2>. QED BY <2>1, MovesKept
<1>. QED BY <1>1, <1>2, <1>3, <1>4, <1>5, <1>6 DEF Next

(* A move that is stored as committed or completed has placed the          *)
(* manifest, and no earlier place comes back; one recorded as a success    *)
(* did, too.  (Of failures that is not true as soon as two requests work   *)
(* on one move: one takes it back while the other, on an older copy,       *)
(* still commits it; runMoveStateMachine.)                                 *)
MovesAreTrue ==
    /\ move.status \in {"manifest_committed", "completed"} => manifest.move = move.op
    /\ \A o \in Moves : audit.moves[o].result = "success" => manifest.move >= o

(* Any number of movers may serve one move at once.                        *)
THEOREM MovesTakeEffect == Spec => []MovesAreTrue
<1>1. Init => TypeOK /\ DeleteInv /\ MoveInv
  <2>1. Init => MoveInv
    BY DEF Init, MoveInv, Placed, Idle, Clients, Nothing, Recorded
  <2>. QED BY <2>1, InitDeletions
<1>2. TypeOK /\ DeleteInv /\ MoveInv /\ [Next]_vars => (TypeOK /\ DeleteInv /\ MoveInv)'
  BY StepDeletions, StepMoves
<1>3. TypeOK /\ DeleteInv /\ MoveInv => MovesAreTrue
  <2>. SUFFICES ASSUME TypeOK, DeleteInv, MoveInv PROVE MovesAreTrue
    OBVIOUS
  <2>1. manifest.move <= move.op /\ manifest.move \in Nat /\ move.op \in Nat
    BY Values DEF DeleteInv, ManifestInv
  <2>. QED BY <2>1 DEF MoveInv, MovesAreTrue
<1>. QED BY <1>1, <1>2, <1>3, PTL DEF Spec

(* A manifest only moves on: to a later move or revision, and once into a  *)
(* deletion, which nothing takes back, whoever acts on a stale copy (every *)
(* manifest put is conditional on the content it was computed from).       *)
ManifestMovesOn == [][Advances]_vars

(* No step takes a manifest back, for any movers and deleters.             *)
THEOREM ManifestOnlyMovesOn == Spec => ManifestMovesOn
<1>1. Init => TypeOK /\ DeleteInv
  BY InitDeletions
<1>2. TypeOK /\ DeleteInv /\ [Next]_vars => (TypeOK /\ DeleteInv)'
  BY StepDeletions
<1>3. TypeOK /\ DeleteInv /\ [Next]_vars => [Advances]_vars
  <2>. SUFFICES ASSUME TypeOK, DeleteInv, Next PROVE Advances
    OBVIOUS
  <2>1. ASSUME NEW c \in Movers, MoverStep(c) PROVE Advances
    BY <2>1, MoverKeepsDeletions, EditsKept
  <2>2. ASSUME NEW c \in Deleters, DeleterStep(c) PROVE Advances
    BY <2>2, DeleterKeepsDeletions, EditsKept
  <2>3. ASSUME NEW c \in Clients, Crash(c) PROVE Advances
    BY <2>3, CrashKeepsDeletions DEF Crash
  <2>4. ASSUME NEW o \in Deletes, Batch(o) PROVE Advances
    BY <2>4, BatchKeepsDeletions DEF Batch, bounds
  <2>. QED BY <2>1, <2>2, <2>3, <2>4, EditKeepsDeletions DEF Next
<1>. QED BY <1>1, <1>2, <1>3, PTL DEF Spec, ManifestMovesOn
=============================================================================
