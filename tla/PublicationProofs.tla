-------------------------- MODULE PublicationProofs --------------------------
(***************************************************************************)
(* Proofs about publications.  First the staged publication coordinator,   *)
(* for every set of runs and call slots, every bound on generations and    *)
(* both stall assumptions; at the end the reindex driver above it, whose   *)
(* requests take the coordinator's operations as single steps.             *)
(***************************************************************************)
EXTENDS StagedPublication, ReindexMigration, TLAPS

-----------------------------------------------------------------------------
(* Type correctness, by the parts of the state that a step writes.         *)

RunsTyped ==
    /\ runs \in [Runs -> RunRecord]
    /\ expired \in [Runs -> BOOLEAN]

PointerTyped ==
    /\ pointer \in PointerRecord
    /\ everActive \subseteq Artifacts

StoreTyped ==
    /\ manifest \in [Artifacts -> ManifestRecord]
    /\ bundles \subseteq Artifacts \X Gens
    /\ stagedFiles \subseteq Runs

CallsTyped ==
    /\ call \in [Workers -> CallRecord]
    /\ \A w \in Workers : call[w].pc # "idle" => call[w].run \in Runs

(* The parts are the type invariant.                                       *)
LEMMA TypeParts ==
    /\ TypeOK <=> RunsTyped /\ PointerTyped /\ StoreTyped /\ CallsTyped
    /\ TypeOK' <=> RunsTyped' /\ PointerTyped' /\ StoreTyped' /\ CallsTyped'
BY DEF TypeOK, RunsTyped, PointerTyped, StoreTyped, CallsTyped

(* A step that leaves a part of the state alone keeps its type.            *)
LEMMA UnchangedTyped ==
    /\ RunsTyped /\ UNCHANGED runVars => RunsTyped'
    /\ PointerTyped /\ UNCHANGED pointerVars => PointerTyped'
    /\ StoreTyped /\ UNCHANGED store => StoreTyped'
BY DEF RunsTyped, PointerTyped, StoreTyped, runVars, pointerVars, store

LEMMA GotoTyped ==
    ASSUME CallsTyped, NEW w \in Workers, call[w].pc # "idle",
           NEW label \in PcLabel, Goto(w, label)
    PROVE  CallsTyped'
BY DEF CallsTyped, CallRecord, Goto

(* The constants of the model have their types.                            *)
LEMMA ConstantsTyped ==
    ASSUME ConstantAssumption
    PROVE  /\ 0 \in Gens
           /\ AbsentRun \in RunRecord
           /\ NoPointer \in PointerRecord
           /\ NoCall \in CallRecord
           /\ NoCall.pc = "idle"
<1>1. 0 \in Gens
  BY DEF ConstantAssumption, Gens
<1>2. AbsentRun \in RunRecord
  BY <1>1 DEF AbsentRun, RunRecord, RunStatus
<1>3. NoPointer \in PointerRecord
  BY <1>1 DEF NoPointer, PointerRecord
<1>4. NoCall \in CallRecord /\ NoCall.pc = "idle"
  BY <1>1, <1>2, <1>3 DEF NoCall, CallRecord, PcLabel
<1>. QED BY <1>1, <1>2, <1>3, <1>4

LEMMA SetCallTyped ==
    ASSUME CallsTyped, NEW w \in Workers, NEW c \in CallRecord,
           c.pc # "idle" => c.run \in Runs, call' = [call EXCEPT ![w] = c]
    PROVE  CallsTyped'
BY DEF CallsTyped

(* Two fields of a call are set at once.                                   *)
LEMMA SetTwoFields ==
    ASSUME CallsTyped, NEW w \in Workers, NEW label, NEW p, NEW g, NEW s
    PROVE  /\ [call EXCEPT ![w].pc = label, ![w].ptr = p]
                = [call EXCEPT ![w] = [call[w] EXCEPT !.pc = label, !.ptr = p]]
           /\ [call EXCEPT ![w].pc = label, ![w].fence = g, ![w].snap = s]
                = [call EXCEPT ![w] = [call[w] EXCEPT !.pc = label, !.fence = g, !.snap = s]]
<1>1. DOMAIN call = Workers /\ call = [v \in Workers |-> call[v]]
  BY DEF CallsTyped
<1>. QED BY <1>1

LEMMA SetPtrTyped ==
    ASSUME NEW c \in CallRecord, NEW label \in PcLabel, NEW p \in PointerRecord
    PROVE  /\ [c EXCEPT !.pc = label, !.ptr = p] \in CallRecord
           /\ [c EXCEPT !.pc = label, !.ptr = p].run = c.run
BY DEF CallRecord

LEMMA ReturnTyped ==
    ASSUME CallsTyped, ConstantAssumption, NEW w \in Workers, Return(w)
    PROVE  CallsTyped'
BY ConstantsTyped, SetCallTyped DEF Return

LEMMA EnterTyped ==
    ASSUME CallsTyped, ConstantAssumption, NEW w \in Workers, NEW r \in Runs,
           NEW label \in PcLabel, Enter(w, r, label)
    PROVE  CallsTyped'
<1>. DEFINE c == [NoCall EXCEPT !.pc = label, !.run = r]
<1>1. c \in CallRecord /\ c.run = r
  BY ConstantsTyped DEF CallRecord
<1>. QED BY <1>1, SetCallTyped DEF Enter

LEMMA PutRunTyped ==
    ASSUME RunsTyped, NEW r \in Runs, NEW rec \in RunRecord, PutRun(r, rec)
    PROVE  RunsTyped'
BY DEF RunsTyped, PutRun

LEMMA FencedUpdateTyped ==
    ASSUME RunsTyped, CallsTyped, ConstantAssumption, NEW w \in Workers,
           call[w].pc # "idle", NEW rec \in RunRecord, NEW next \in PcLabel,
           FencedUpdate(w, rec, next)
    PROVE  RunsTyped' /\ CallsTyped'
<1>. DEFINE c == IF next = "idle" THEN NoCall ELSE [call[w] EXCEPT !.pc = next, !.snap = rec]
<1>1. call[w].run \in Runs /\ call[w] \in CallRecord
  BY DEF CallsTyped
<1>2. RunsTyped'
  BY <1>1, PutRunTyped DEF FencedUpdate
<1>3. c \in CallRecord /\ (c.pc # "idle" => c.run \in Runs)
  BY <1>1, ConstantsTyped DEF CallRecord
<1>4. call' = [call EXCEPT ![w] = c]
  BY DEF FencedUpdate, CallsTyped
<1>. QED BY <1>2, <1>3, <1>4, SetCallTyped

LEMMA FencedTyped ==
    ASSUME RunsTyped, CallsTyped, ConstantAssumption, NEW w \in Workers,
           call[w].pc # "idle", NEW next \in PcLabel, Fenced(w, next)
    PROVE  RunsTyped' /\ CallsTyped'
<1>1. RunsTyped'
  BY UnchangedTyped DEF Fenced
<1>2. CASE next = "idle"
  BY <1>1, <1>2, ReturnTyped DEF Fenced
<1>3. CASE next # "idle"
  BY <1>1, <1>3, GotoTyped DEF Fenced
<1>. QED BY <1>2, <1>3

LEMMA ReconcilePutTyped ==
    ASSUME RunsTyped, CallsTyped, ConstantAssumption, NEW w \in Workers,
           call[w].pc # "idle", NEW rec \in RunRecord, ReconcilePut(w, rec)
    PROVE  RunsTyped' /\ CallsTyped'
<1>1. call[w].run \in Runs
  BY DEF CallsTyped
<1>2. RunsTyped'
  BY <1>1, PutRunTyped, UnchangedTyped DEF ReconcilePut
<1>. QED BY <1>2, ReturnTyped DEF ReconcilePut

LEMMA TakeLeaseTyped ==
    ASSUME RunsTyped, CallsTyped, ConstantAssumption, NEW w \in Workers,
           call[w].pc # "idle", NEW kind \in {"own", "operation"}, NEW allowed,
           NEW status \in RunStatus, NEW next \in PcLabel,
           TakeLease(w, kind, allowed, status, next)
    PROVE  RunsTyped' /\ CallsTyped'
<1>. DEFINE r == call[w].run
            leased == [runs[r] EXCEPT !.status = status, !.gen = @ + 1, !.lease = kind,
                                      !.rollback = IF status = "rolling_back" THEN 0 ELSE @]
            c == [call[w] EXCEPT !.pc = next, !.fence = leased.gen, !.snap = leased]
<1>1. r \in Runs /\ call[w] \in CallRecord /\ runs[r] \in RunRecord
  BY DEF CallsTyped, RunsTyped
<1>2. CASE Live(r) \/ runs[r].status \notin allowed
  <2>1. Return(w) /\ UNCHANGED runVars
    BY <1>2 DEF TakeLease
  <2>. QED BY <2>1, ReturnTyped, UnchangedTyped
<1>3. CASE ~(Live(r) \/ runs[r].status \notin allowed)
  <2>1. runs[r].gen < MaxGen /\ PutRun(r, leased) /\ call' = [call EXCEPT ![w] = c]
    BY <1>3 DEF TakeLease, CallsTyped
  <2>2. leased.gen \in Gens /\ leased \in RunRecord
    <3>. DEFINE g == runs[r].gen + 1
                b == IF status = "rolling_back" THEN 0 ELSE runs[r].rollback
    <3>1. g \in Gens /\ b \in Gens
      BY <1>1, <2>1 DEF RunRecord, Gens, ConstantAssumption
    <3>2. leased = [runs[r] EXCEPT !.status = status, !.gen = g, !.lease = kind,
                                   !.rollback = b]
      OBVIOUS
    <3>. HIDE DEF g, b, leased
    <3>3. leased \in RunRecord
      BY <1>1, <3>1, <3>2 DEF RunRecord
    <3>4. leased.gen = g
      BY <1>1, <3>2 DEF RunRecord
    <3>. QED BY <3>1, <3>3, <3>4
  <2>3. c \in CallRecord /\ c.run = r
    BY <1>1, <2>2 DEF CallRecord
  <2>. QED BY <1>1, <2>1, <2>2, <2>3, PutRunTyped, SetCallTyped
<1>. QED BY <1>2, <1>3

LEMMA ArtifactsTyped ==
    ASSUME ConstantAssumption
    PROVE  /\ Source \in Artifacts
           /\ \A r \in Runs : Published(r) \in Artifacts
           /\ \A r \in Runs, g \in Gens : RolledBack(r, g) \in Artifacts
BY ConstantsTyped DEF Artifacts, Published, RolledBack

LEMMA DeleteArtifactTyped ==
    ASSUME StoreTyped, ConstantAssumption, NEW a, NEW g,
           DeleteArtifact(a, g), stagedFiles' = stagedFiles
    PROVE  StoreTyped'
<1>1. AbsentManifest \in ManifestRecord
  BY ConstantsTyped DEF AbsentManifest, ManifestRecord, NoControl, Control
<1>. QED BY <1>1 DEF StoreTyped, DeleteArtifact

LEMMA SupersedeTyped ==
    ASSUME StoreTyped, NEW a, Supersede(a), bundles' = bundles,
           stagedFiles' \subseteq stagedFiles
    PROVE  StoreTyped'
<1>. DEFINE new == [manifest[a] EXCEPT !.state = IF @ = "absent" THEN @ ELSE "superseded"]
<1>1. a \in Artifacts => new \in ManifestRecord
  BY DEF StoreTyped, ManifestRecord
<1>2. manifest' \in [Artifacts -> ManifestRecord]
  BY <1>1 DEF Supersede, StoreTyped
<1>. QED BY <1>2 DEF StoreTyped

LEMMA PublishBundleTyped ==
    ASSUME StoreTyped, NEW a \in Artifacts, NEW g \in Gens, stagedFiles' = stagedFiles,
           bundles' = bundles \cup {<<a, g>>},
           manifest' = [manifest EXCEPT ![a] =
              [state |-> "active", control |-> [art |-> a, gen |-> g]]]
    PROVE  StoreTyped'
<1>1. [state |-> "active", control |-> [art |-> a, gen |-> g]] \in ManifestRecord
  BY DEF ManifestRecord, Control
<1>. QED BY <1>1 DEF StoreTyped

LEMMA PointerFields ==
    ASSUME ConstantAssumption, NEW p \in PointerRecord
    PROVE  /\ p.art \in Artifacts \cup {NoArtifact}
           /\ p.gen \in Gens
           /\ p.prev \in Artifacts \cup {NoArtifact}
           /\ p # NoPointer => p.art \in Artifacts
<1>1. CASE p = NoPointer
  BY <1>1, ConstantsTyped DEF NoPointer
<1>2. CASE p \in [art : Artifacts, gen : Gens, prev : Artifacts \cup {NoArtifact}]
  BY <1>2
<1>. QED BY <1>1, <1>2 DEF PointerRecord

LEMMA NewPointerTyped ==
    ASSUME ConstantAssumption, PointerTyped, NEW a \in Artifacts, NEW g \in Gens
    PROVE  /\ NewPointer(a, g) \in PointerRecord
           /\ NewPointer(a, g) # NoPointer
           /\ NewPointer(a, g).art = a
<1>1. pointer.art \in Artifacts \cup {NoArtifact}
  BY PointerFields DEF PointerTyped
<1>2. a # NoArtifact
  BY DEF Artifacts, ConstantAssumption, Gens
<1>. QED BY <1>1, <1>2 DEF PointerRecord, NewPointer, NoPointer

-----------------------------------------------------------------------------
(* Every action keeps the types.                                           *)

LEMMA CallFields ==
    ASSUME CallsTyped, RunsTyped, NEW w \in Workers, call[w].pc # "idle"
    PROVE  /\ call[w] \in CallRecord
           /\ call[w].run \in Runs
           /\ call[w].fence \in Gens
           /\ call[w].snap \in RunRecord
           /\ call[w].ptr \in PointerRecord
           /\ runs[call[w].run] \in RunRecord
BY DEF CallsTyped, CallRecord, RunsTyped

LEMMA BeginTyped ==
    ASSUME TypeOK, ConstantAssumption, NEW w \in Workers, Begin(w)
    PROVE  TypeOK'
<1>. USE TypeParts
<1>1. ASSUME NEW r \in Runs, NEW a \in Artifacts, BeginRead(w, r, a)
      PROVE  TypeOK'
  <2>. DEFINE c == [NoCall EXCEPT !.pc = "annotate", !.run = r, !.src = a, !.ptr = pointer']
  <2>1. PointerTyped'
    <3>1. pointer' \in PointerRecord /\ pointer'.art \in Artifacts
      BY <1>1, ConstantsTyped, NewPointerTyped, PointerFields DEF BeginRead, PointerTyped
    <3>. QED BY <1>1, <3>1 DEF BeginRead, PointerTyped
  <2>2. c \in CallRecord /\ c.run = r
    BY <2>1, ConstantsTyped DEF PointerTyped, CallRecord, PcLabel
  <2>3. CallsTyped'
    BY <1>1, <2>2, SetCallTyped DEF BeginRead
  <2>. QED BY <1>1, <2>1, <2>3, UnchangedTyped DEF BeginRead
<1>2. CASE Annotate(w)
  <2>. DEFINE a == call[w].src
  <2>1. call[w].pc # "idle" /\ RunsTyped' /\ PointerTyped'
    BY <1>2, UnchangedTyped DEF Annotate
  <2>2. CASE manifest[a].state = "absent"
    BY <1>2, <2>1, <2>2, ReturnTyped DEF Annotate, StoreTyped
  <2>3. CASE manifest[a].state # "absent"
    <3>1. ControlOf(call[w].ptr) \in Control
      BY <2>1, CallFields, PointerFields DEF ControlOf, Control
    <3>2. StoreTyped'
      BY <1>2, <2>3, <3>1 DEF Annotate, StoreTyped, ManifestRecord
    <3>3. CallsTyped'
      BY <1>2, <2>1, <2>3, GotoTyped DEF Annotate, PcLabel
    <3>. QED BY <2>1, <3>2, <3>3
  <2>. QED BY <2>2, <2>3
<1>3. CASE CreateRun(w)
  <2>. DEFINE r == call[w].run
              new == [AbsentRun EXCEPT !.status = "initialized", !.prev = call[w].ptr.art]
  <2>1. call[w].pc # "idle" /\ PointerTyped' /\ StoreTyped'
    BY <1>3, UnchangedTyped DEF CreateRun
  <2>2. new \in RunRecord
    BY <2>1, CallFields, ConstantsTyped, PointerFields DEF RunRecord, RunStatus
  <2>3. RunsTyped'
    BY <1>3, <2>1, <2>2, CallFields, PutRunTyped, UnchangedTyped DEF CreateRun
  <2>4. CallsTyped'
    BY <1>3, <2>1, GotoTyped, ReturnTyped DEF CreateRun, PcLabel
  <2>. QED BY <2>1, <2>3, <2>4
<1>4. CASE StageLease(w)
  BY <1>4, TakeLeaseTyped, UnchangedTyped DEF StageLease, PcLabel, RunStatus
<1>5. CASE RecordStaged(w)
  <2>. DEFINE rec == [call[w].snap EXCEPT !.status = "validated", !.lease = "none"]
  <2>1. call[w].pc # "idle" /\ PointerTyped' /\ StoreTyped'
    BY <1>5, UnchangedTyped, CallFields DEF RecordStaged, StoreTyped
  <2>2. rec \in RunRecord
    BY <2>1, CallFields DEF RunRecord, RunStatus
  <2>3. RunsTyped' /\ CallsTyped'
    BY <1>5, <2>1, <2>2, FencedUpdateTyped, FencedTyped DEF RecordStaged, PcLabel
  <2>. QED BY <2>1, <2>3
<1>. QED BY <1>1, <1>2, <1>3, <1>4, <1>5 DEF Begin

LEMMA CommitTyped ==
    ASSUME TypeOK, ConstantAssumption, NEW w \in Workers, Commit(w)
    PROVE  TypeOK'
<1>. USE TypeParts
<1>1. ASSUME NEW r \in Runs, CommitStart(w, r)
      PROVE  TypeOK'
  <2>1. Enter(w, r, "reconcile") \/ Enter(w, r, "commit_lease")
    BY <1>1 DEF CommitStart
  <2>. QED BY <1>1, <2>1, EnterTyped, UnchangedTyped DEF CommitStart, PcLabel
<1>2. CASE CommitLease(w)
  BY <1>2, TakeLeaseTyped, UnchangedTyped DEF CommitLease, PcLabel, RunStatus
<1>3. CASE Prepare(w)
  <2>. DEFINE a == Published(call[w].run)
  <2>1. call[w].pc # "idle" /\ RunsTyped' /\ PointerTyped'
    BY <1>3, UnchangedTyped DEF Prepare
  <2>2. a \in Artifacts /\ call[w].fence \in Gens
    BY <2>1, CallFields, ArtifactsTyped
  <2>3. StoreTyped'
    BY <1>3, <2>2, PublishBundleTyped, UnchangedTyped DEF Prepare, store
  <2>4. CallsTyped'
    BY <1>3, <2>1, GotoTyped, ReturnTyped DEF Prepare, PcLabel
  <2>. QED BY <2>1, <2>3, <2>4
<1>4. CASE RecordPrepared(w)
  <2>. DEFINE rec == [call[w].snap EXCEPT !.status = "committing", !.prepared = call[w].fence]
  <2>1. call[w].pc # "idle" /\ PointerTyped' /\ StoreTyped'
    BY <1>4, UnchangedTyped DEF RecordPrepared
  <2>2. rec \in RunRecord
    BY <2>1, CallFields DEF RunRecord, RunStatus
  <2>3. RunsTyped' /\ CallsTyped'
    BY <1>4, <2>1, <2>2, FencedUpdateTyped, FencedTyped, ReturnTyped, UnchangedTyped
       DEF RecordPrepared, PcLabel
  <2>. QED BY <2>1, <2>3
<1>5. CASE ReadPointer(w)
  <2>. DEFINE c == [call[w] EXCEPT !.pc = "cas_pointer", !.ptr = pointer]
  <2>1. call[w].pc # "idle" /\ RunsTyped' /\ PointerTyped' /\ StoreTyped'
    BY <1>5, UnchangedTyped DEF ReadPointer
  <2>2. c \in CallRecord /\ c.run \in Runs
    <3>1. "cas_pointer" \in PcLabel /\ pointer \in PointerRecord
      BY DEF PcLabel, PointerTyped
    <3>2. call[w] \in CallRecord /\ call[w].run \in Runs
      BY <2>1, CallFields
    <3>. QED BY ONLY <3>1, <3>2, SetPtrTyped
  <2>3. \/ Goto(w, "finish_only") \/ Goto(w, "commit_failed")
        \/ call' = [call EXCEPT ![w].pc = "cas_pointer", ![w].ptr = pointer]
    BY <1>5 DEF ReadPointer
  <2>4. [call EXCEPT ![w].pc = "cas_pointer", ![w].ptr = pointer] = [call EXCEPT ![w] = c]
    BY ZenonT(60), SetTwoFields
  <2>5. CallsTyped'
    BY <2>1, <2>2, <2>3, <2>4, GotoTyped, SetCallTyped DEF PcLabel
  <2>. QED BY <2>1, <2>5
<1>6. CASE CasPointer(w)
  <2>. DEFINE a == Published(call[w].run)
  <2>1. call[w].pc # "idle" /\ RunsTyped' /\ StoreTyped'
    BY <1>6, UnchangedTyped DEF CasPointer
  <2>2. a \in Artifacts /\ call[w].fence \in Gens
    BY <2>1, CallFields, ArtifactsTyped
  <2>3. PointerTyped'
    BY <1>6, <2>2, NewPointerTyped, UnchangedTyped DEF CasPointer, PointerTyped
  <2>4. CallsTyped'
    BY <1>6, <2>1, GotoTyped DEF CasPointer, PcLabel
  <2>. QED BY <2>1, <2>3, <2>4
<1>7. CASE Finish(w) \/ FinishOnly(w)
  <2>1. call[w].pc # "idle" /\ PointerTyped' /\ StoreTyped'
    BY <1>7, UnchangedTyped DEF Finish, FinishOnly
  <2>2. CommittedFrom(call[w].snap) \in RunRecord
    BY <2>1, CallFields DEF CommittedFrom, RunRecord, RunStatus
  <2>3. RunsTyped' /\ CallsTyped'
    BY <1>7, <2>1, <2>2, FencedUpdateTyped, FencedTyped DEF Finish, FinishOnly, PcLabel
  <2>. QED BY <2>1, <2>3
<1>8. CASE SupersedePrevious(w) \/ CleanupStaged(w)
  <2>1. call[w].pc # "idle" /\ RunsTyped' /\ PointerTyped'
    BY <1>8, UnchangedTyped DEF SupersedePrevious, CleanupStaged
  <2>2. StoreTyped'
    BY <1>8, SupersedeTyped DEF SupersedePrevious, CleanupStaged, StoreTyped
  <2>3. CallsTyped'
    BY <1>8, <2>1, GotoTyped, ReturnTyped DEF SupersedePrevious, CleanupStaged, PcLabel
  <2>. QED BY <2>1, <2>2, <2>3
<1>9. CASE CommitFault(w) \/ CommitFailed(w)
  <2>1. call[w].pc # "idle" /\ RunsTyped' /\ PointerTyped' /\ StoreTyped'
    BY <1>9, UnchangedTyped DEF CommitFault, CommitFailed
  <2>2. CallsTyped'
    BY <1>9, <2>1, GotoTyped, ReturnTyped DEF CommitFault, CommitFailed, PcLabel
  <2>. QED BY <2>1, <2>2
<1>10. CASE CommitCleanup(w)
  <2>1. call[w].pc # "idle" /\ RunsTyped' /\ PointerTyped'
    BY <1>10, UnchangedTyped DEF CommitCleanup
  <2>2. StoreTyped'
    BY <1>10, DeleteArtifactTyped DEF CommitCleanup
  <2>3. CallsTyped'
    BY <1>10, <2>1, GotoTyped DEF CommitCleanup, PcLabel
  <2>. QED BY <2>1, <2>2, <2>3
<1>11. CASE ReleaseCommitForRetry(w)
  <2>. DEFINE rec == [call[w].snap EXCEPT !.status = "validated", !.lease = "none", !.prepared = 0]
  <2>1. call[w].pc # "idle" /\ PointerTyped' /\ StoreTyped'
    BY <1>11, UnchangedTyped DEF ReleaseCommitForRetry
  <2>2. rec \in RunRecord
    BY <2>1, CallFields, ConstantsTyped DEF RunRecord, RunStatus
  <2>3. RunsTyped' /\ CallsTyped'
    BY <1>11, <2>1, <2>2, FencedUpdateTyped, FencedTyped DEF ReleaseCommitForRetry, PcLabel
  <2>. QED BY <2>1, <2>3
<1>. QED BY <1>1, <1>2, <1>3, <1>4, <1>5, <1>6, <1>7, <1>8, <1>9, <1>10, <1>11 DEF Commit
LEMMA ReconcileTyped ==
    ASSUME TypeOK, ConstantAssumption, NEW w \in Workers, Reconcile(w)
    PROVE  TypeOK'
<1>. USE TypeParts
<1>1. ASSUME NEW r \in Runs, ReconcileStart(w, r)
      PROVE  TypeOK'
  BY <1>1, EnterTyped, UnchangedTyped DEF ReconcileStart, PcLabel
<1>2. CASE ReconcileRead(w)
  <2>1. call[w].pc # "idle" /\ RunsTyped' /\ PointerTyped' /\ StoreTyped'
    BY <1>2, UnchangedTyped DEF ReconcileRead
  <2>2. PICK label \in PcLabel :
           \/ Return(w)
           \/ call' = [call EXCEPT ![w].pc = label, ![w].snap = runs[call[w].run],
                                   ![w].ptr = pointer]
    BY <1>2 DEF ReconcileRead, PcLabel
  <2>. DEFINE c == [call[w] EXCEPT !.pc = label, !.snap = runs[call[w].run], !.ptr = pointer]
  <2>3. c \in CallRecord /\ c.run \in Runs
    BY <2>1, CallFields DEF CallRecord, PointerTyped
  <2>4. Return(w) \/ call' = [call EXCEPT ![w] = c]
    BY <2>2 DEF CallsTyped
  <2>5. CallsTyped'
    BY <2>3, <2>4, ReturnTyped, SetCallTyped
  <2>. QED BY <2>1, <2>5
<1>3. CASE ReconcileRolledBack(w)
  <2>1. call[w].pc # "idle" /\ PointerTyped' /\ StoreTyped'
    BY <1>3, UnchangedTyped DEF ReconcileRolledBack
  <2>2. RolledBackFrom(call[w].snap) \in RunRecord
    BY <2>1, CallFields DEF RolledBackFrom, RunRecord, RunStatus
  <2>3. RunsTyped' /\ CallsTyped'
    BY <1>3, <2>1, <2>2, ReconcilePutTyped, ReturnTyped, UnchangedTyped DEF ReconcileRolledBack
  <2>. QED BY <2>1, <2>3
<1>4. CASE ReconcileCommittedTidy(w)
  <2>1. call[w].pc # "idle" /\ RunsTyped' /\ PointerTyped'
    BY <1>4, UnchangedTyped DEF ReconcileCommittedTidy
  <2>2. StoreTyped'
    BY <1>4, SupersedeTyped DEF ReconcileCommittedTidy
  <2>3. CallsTyped'
    BY <1>4, <2>1, GotoTyped DEF ReconcileCommittedTidy, PcLabel
  <2>. QED BY <2>1, <2>2, <2>3
<1>5. CASE ReconcileCommitted(w)
  <2>1. call[w].pc # "idle" /\ PointerTyped' /\ StoreTyped'
    BY <1>5, UnchangedTyped DEF ReconcileCommitted
  <2>2. CommittedFrom(call[w].snap) \in RunRecord
    BY <2>1, CallFields DEF CommittedFrom, RunRecord, RunStatus
  <2>. QED BY <1>5, <2>1, <2>2, ReconcilePutTyped DEF ReconcileCommitted
<1>6. CASE ReconcileExpiredTidy(w) \/ ReconcileRollbackTidy(w)
  <2>1. call[w].pc # "idle" /\ RunsTyped' /\ PointerTyped'
    BY <1>6, UnchangedTyped DEF ReconcileExpiredTidy, ReconcileRollbackTidy
  <2>2. StoreTyped'
    BY <1>6, DeleteArtifactTyped
       DEF ReconcileExpiredTidy, ReconcileRollbackTidy, StoreTyped
  <2>3. CallsTyped'
    BY <1>6, <2>1, GotoTyped DEF ReconcileExpiredTidy, ReconcileRollbackTidy, PcLabel
  <2>. QED BY <2>1, <2>2, <2>3
<1>7. CASE ReconcileExpired(w)
  <2>. DEFINE rec == [call[w].snap EXCEPT !.status = "validated", !.lease = "none", !.prepared = 0]
  <2>1. call[w].pc # "idle" /\ PointerTyped' /\ StoreTyped'
    BY <1>7, UnchangedTyped DEF ReconcileExpired
  <2>2. rec \in RunRecord
    BY <2>1, CallFields, ConstantsTyped DEF RunRecord, RunStatus
  <2>. QED BY <1>7, <2>1, <2>2, ReconcilePutTyped DEF ReconcileExpired
<1>8. CASE ReconcileRollback(w)
  <2>. DEFINE rec == [call[w].snap EXCEPT !.status = "committed", !.lease = "none", !.rollback = 0]
  <2>1. call[w].pc # "idle" /\ PointerTyped' /\ StoreTyped'
    BY <1>8, UnchangedTyped DEF ReconcileRollback
  <2>2. rec \in RunRecord
    BY <2>1, CallFields, ConstantsTyped DEF RunRecord, RunStatus
  <2>. QED BY <1>8, <2>1, <2>2, ReconcilePutTyped DEF ReconcileRollback
<1>. QED BY <1>1, <1>2, <1>3, <1>4, <1>5, <1>6, <1>7, <1>8 DEF Reconcile

LEMMA RollbackTyped ==
    ASSUME TypeOK, ConstantAssumption, NEW w \in Workers, Rollback(w)
    PROVE  TypeOK'
<1>. USE TypeParts
<1>1. ASSUME NEW r \in Runs, RollbackStart(w, r)
      PROVE  TypeOK'
  BY <1>1, EnterTyped, UnchangedTyped DEF RollbackStart, PcLabel
<1>2. CASE RollbackLease(w)
  <2>. DEFINE r == call[w].run
              c == [call[w] EXCEPT !.pc = "rb_read", !.fence = runs[r].gen, !.snap = runs[r]]
  <2>1. call[w].pc # "idle" /\ PointerTyped' /\ StoreTyped'
    BY <1>2, UnchangedTyped DEF RollbackLease
  <2>2. CASE Live(r) /\ runs[r].lease = "operation" /\ w \in Compensators
    <3>0. runs[r].gen \in Gens
      BY <2>1, CallFields DEF RunRecord
    <3>1. c \in CallRecord /\ c.run \in Runs
      <4>. DEFINE q == runs[r].gen
                  rec == runs[r]
      <4>1. "rb_read" \in PcLabel
        BY DEF PcLabel
      <4>2. call[w] \in CallRecord /\ call[w].run \in Runs /\ rec \in RunRecord /\ q \in Gens
        BY <2>1, <3>0, CallFields
      <4>3. c = [call[w] EXCEPT !.pc = "rb_read", !.fence = q, !.snap = rec]
        OBVIOUS
      <4>. HIDE DEF q, rec, c
      <4>. QED BY ONLY <4>1, <4>2, <4>3 DEF CallRecord
    <3>2. /\ call' = [call EXCEPT ![w].pc = "rb_read", ![w].fence = runs[r].gen,
                                  ![w].snap = runs[r]]
          /\ UNCHANGED runVars
      BY <1>2, <2>2 DEF RollbackLease
    <3>3. call' = [call EXCEPT ![w] = c]
      BY ZenonT(60), <3>2, SetTwoFields
    <3>. QED BY <2>1, <3>1, <3>2, <3>3, SetCallTyped, UnchangedTyped
  <2>3. CASE ~(Live(r) /\ runs[r].lease = "operation" /\ w \in Compensators)
    <3>1. PICK kind \in {"own", "operation"} :
             TakeLease(w, kind, {"committed", "rolling_back"}, "rolling_back", "rb_read")
      BY <1>2, <2>3 DEF RollbackLease
    <3>. QED BY <2>1, <3>1, TakeLeaseTyped DEF PcLabel, RunStatus
  <2>. QED BY <2>2, <2>3
<1>3. CASE RollbackRead(w)
  <2>. DEFINE c == [call[w] EXCEPT !.pc = "rb_prepare", !.ptr = pointer]
  <2>1. call[w].pc # "idle" /\ RunsTyped' /\ PointerTyped' /\ StoreTyped'
    BY <1>3, UnchangedTyped DEF RollbackRead
  <2>2. c \in CallRecord /\ c.run \in Runs
    <3>1. "rb_prepare" \in PcLabel /\ pointer \in PointerRecord
      BY DEF PcLabel, PointerTyped
    <3>2. call[w] \in CallRecord /\ call[w].run \in Runs
      BY <2>1, CallFields
    <3>. QED BY ONLY <3>1, <3>2, SetPtrTyped
  <2>3. \/ Goto(w, "rb_release")
        \/ call' = [call EXCEPT ![w].pc = "rb_prepare", ![w].ptr = pointer]
    BY <1>3 DEF RollbackRead
  <2>4. [call EXCEPT ![w].pc = "rb_prepare", ![w].ptr = pointer] = [call EXCEPT ![w] = c]
    BY SetTwoFields
  <2>5. CallsTyped'
    BY <2>1, <2>2, <2>3, <2>4, GotoTyped, SetCallTyped DEF PcLabel
  <2>. QED BY <2>1, <2>5
<1>4. CASE PrepareRollback(w)
  <2>. DEFINE a == RolledBack(call[w].run, call[w].fence)
  <2>1. call[w].pc # "idle" /\ RunsTyped' /\ PointerTyped'
    BY <1>4, UnchangedTyped DEF PrepareRollback
  <2>2. a \in Artifacts /\ call[w].fence \in Gens
    BY <2>1, CallFields, ArtifactsTyped
  <2>3. StoreTyped'
    <3>1. \/ UNCHANGED store
          \/ DeleteArtifact(a, call[w].fence) /\ stagedFiles' = stagedFiles
          \/ /\ bundles' = bundles \cup {<<a, call[w].fence>>}
             /\ stagedFiles' = stagedFiles
             /\ manifest' = [manifest EXCEPT ![a] =
                   [state |-> "active", control |-> [art |-> a, gen |-> call[w].fence]]]
      BY <1>4 DEF PrepareRollback, store
    <3>. QED BY <2>2, <3>1, PublishBundleTyped, DeleteArtifactTyped, UnchangedTyped
  <2>4. CallsTyped'
    <3>1. Return(w) \/ Goto(w, "rb_record") \/ Goto(w, "rb_release")
      BY <1>4 DEF PrepareRollback
    <3>. QED BY <2>1, <3>1, GotoTyped, ReturnTyped DEF PcLabel
  <2>. QED BY <2>1, <2>3, <2>4
<1>5. CASE RecordRollback(w)
  <2>. DEFINE rec == [call[w].snap EXCEPT !.status = "rolling_back", !.rollback = call[w].fence]
  <2>1. call[w].pc # "idle" /\ PointerTyped' /\ StoreTyped'
    BY <1>5, UnchangedTyped DEF RecordRollback
  <2>2. rec \in RunRecord
    BY <2>1, CallFields DEF RunRecord, RunStatus
  <2>3. RunsTyped' /\ CallsTyped'
    BY <1>5, <2>1, <2>2, FencedUpdateTyped, FencedTyped DEF RecordRollback, PcLabel
  <2>. QED BY <2>1, <2>3
<1>6. CASE ValidateRollback(w) \/ AssertRollback(w) \/ RollbackFault(w)
           \/ RollbackAnswerLost(w) \/ RollbackFailed(w)
  <2>1. call[w].pc # "idle" /\ RunsTyped' /\ PointerTyped' /\ StoreTyped'
    BY <1>6, UnchangedTyped
       DEF ValidateRollback, AssertRollback, RollbackFault, RollbackAnswerLost, RollbackFailed
  <2>2. \/ Return(w)
        \/ \E label \in {"rb_assert", "rb_failed", "rb_cas", "rb_cleanup"} : Goto(w, label)
    BY <1>6
       DEF ValidateRollback, AssertRollback, RollbackFault, RollbackAnswerLost, RollbackFailed
  <2>3. CallsTyped'
    BY <2>1, <2>2, GotoTyped, ReturnTyped DEF PcLabel
  <2>. QED BY <2>1, <2>3
<1>7. CASE CasRollbackPointer(w)
  <2>. DEFINE a == RolledBack(call[w].run, call[w].fence)
  <2>1. call[w].pc # "idle" /\ RunsTyped' /\ StoreTyped'
    BY <1>7, UnchangedTyped DEF CasRollbackPointer
  <2>2. a \in Artifacts /\ call[w].fence \in Gens
    BY <2>1, CallFields, ArtifactsTyped
  <2>3. PointerTyped'
    BY <1>7, <2>2, NewPointerTyped, UnchangedTyped DEF CasRollbackPointer, PointerTyped
  <2>4. CallsTyped'
    BY <1>7, <2>1, GotoTyped DEF CasRollbackPointer, PcLabel
  <2>. QED BY <2>1, <2>3, <2>4
<1>8. CASE FinishRollback(w)
  <2>1. call[w].pc # "idle" /\ PointerTyped' /\ StoreTyped'
    BY <1>8, UnchangedTyped DEF FinishRollback
  <2>2. RolledBackFrom(call[w].snap) \in RunRecord
    BY <2>1, CallFields DEF RolledBackFrom, RunRecord, RunStatus
  <2>3. RunsTyped' /\ CallsTyped'
    BY <1>8, <2>1, <2>2, FencedUpdateTyped, FencedTyped, ReturnTyped, UnchangedTyped
       DEF FinishRollback, PcLabel
  <2>. QED BY <2>1, <2>3
<1>9. CASE RollbackCleanup(w)
  <2>1. call[w].pc # "idle" /\ RunsTyped' /\ PointerTyped'
    BY <1>9, UnchangedTyped DEF RollbackCleanup
  <2>2. StoreTyped'
    BY <1>9, DeleteArtifactTyped DEF RollbackCleanup
  <2>3. CallsTyped'
    BY <1>9, <2>1, GotoTyped DEF RollbackCleanup, PcLabel
  <2>. QED BY <2>1, <2>2, <2>3
<1>10. CASE ReleaseRollbackForRetry(w)
  <2>. DEFINE rec == [call[w].snap EXCEPT !.status = "committed", !.lease = "none", !.rollback = 0]
  <2>1. call[w].pc # "idle" /\ PointerTyped' /\ StoreTyped'
    BY <1>10, UnchangedTyped DEF ReleaseRollbackForRetry
  <2>2. rec \in RunRecord
    BY <2>1, CallFields, ConstantsTyped DEF RunRecord, RunStatus
  <2>3. RunsTyped' /\ CallsTyped'
    BY <1>10, <2>1, <2>2, FencedUpdateTyped, FencedTyped DEF ReleaseRollbackForRetry, PcLabel
  <2>. QED BY <2>1, <2>3
<1>. QED BY <1>1, <1>2, <1>3, <1>4, <1>5, <1>6, <1>7, <1>8, <1>9, <1>10 DEF Rollback

LEMMA NextTyped ==
    ASSUME TypeOK, ConstantAssumption, [Next]_vars
    PROVE  TypeOK'
<1>. USE TypeParts
<1>1. ASSUME NEW w \in Workers, Crash(w)
      PROVE  TypeOK'
  BY <1>1, ReturnTyped, UnchangedTyped DEF Crash
<1>2. ASSUME NEW r \in Runs, Expire(r)
      PROVE  TypeOK'
  <2>1. RunsTyped'
    BY <1>2 DEF Expire, RunsTyped
  <2>2. CallsTyped'
    BY <1>2 DEF Expire, CallsTyped
  <2>. QED BY <1>2, <2>1, <2>2, UnchangedTyped DEF Expire
<1>3. CASE UNCHANGED vars
  <2>1. UNCHANGED <<runVars, pointerVars, store, call>>
    BY <1>3 DEF vars, runVars, pointerVars, store
  <2>. QED BY <2>1, UnchangedTyped DEF CallsTyped
<1>. QED BY <1>1, <1>2, <1>3, BeginTyped, CommitTyped, ReconcileTyped, RollbackTyped DEF Next

LEMMA InitTyped ==
    ASSUME ConstantAssumption, Init
    PROVE  TypeOK
<1>1. AbsentManifest \in ManifestRecord
      /\ [state |-> "active", control |-> NoControl] \in ManifestRecord
  BY ConstantsTyped DEF AbsentManifest, ManifestRecord, NoControl, Control
<1>2. NoPointer \in PointerRecord
  BY ConstantsTyped
<1>. QED BY <1>1, <1>2, ConstantsTyped, ArtifactsTyped DEF Init, TypeOK

(* Every variable keeps its type: in particular no call works on a run,    *)
(* generation or artifact outside the bounds the model declares.           *)
THEOREM TypeCorrect == Spec => []TypeOK
<1>1. Init => TypeOK
  BY InitTyped, ConstantAssumption
<1>2. TypeOK /\ [Next]_vars => TypeOK'
  BY NextTyped, ConstantAssumption
<1>. QED BY <1>1, <1>2, PTL DEF Spec

-----------------------------------------------------------------------------
(* The inductive invariant behind the promises of the pointer.             *)

(* The pointer names an artifact of its history.                           *)
HistoryInv ==
    /\ pointer # NoPointer => pointer.art \in everActive
    /\ pointer = NoPointer => everActive = {}

(* Before the first begin has created the pointer nothing has happened.    *)
BootstrapInv ==
    pointer = NoPointer =>
        /\ \A w \in Workers : call[w].pc = "idle"
        /\ \A r \in Runs : runs[r].status = "absent"
        /\ \A a \in Artifacts \ {Source} : manifest[a].state = "absent"

(* A run replaces an artifact that has been active, never one of its own;  *)
(* once it has replaced it, the pointer never names that artifact again;   *)
(* and once it has been rolled back, the pointer never names the run's     *)
(* published artifact again.                                               *)
RunInv(r) ==
    /\ runs[r].status = "absent" => \A g \in Gens : RolledBack(r, g) \notin everActive
    /\ runs[r].status # "absent" =>
          /\ runs[r].prev \in everActive
          /\ \A g \in Gens : runs[r].prev # RolledBack(r, g)
    /\ Published(r) \in everActive => pointer.art # runs[r].prev
    /\ \A g \in Gens \ {0} : RolledBack(r, g) \in everActive =>
          Published(r) \in everActive /\ pointer.art # Published(r)
    /\ runs[r].lease # "none" => runs[r].gen # 0

(* Labels at which the call has seen its run's artifact as the active one. *)
AfterPublication ==
    {"finish", "finish_only", "rec_rolled_back", "rec_committed", "rec_committed_cas",
     "rec_rollback", "rec_rollback_cas", "rb_lease", "rb_read", "rb_prepare", "rb_record",
     "rb_validate", "rb_assert", "rb_cas", "rb_finish", "rb_failed", "rb_cleanup",
     "rb_release"}

(* What a call may rely on when it comes back from an await.               *)
CallInv(w) ==
    LET c == call[w]
    IN /\ c.pc \in {"annotate", "create"} => c.ptr.art \in everActive
       /\ c.pc \notin {"idle", "annotate", "create"} => runs[c.run].status # "absent"
       /\ c.pc \in {"prepare", "record", "read_pointer"} => c.snap.prev = runs[c.run].prev
       /\ c.pc = "cas_pointer" => c.ptr.art = runs[c.run].prev
       /\ c.pc \in AfterPublication => Published(c.run) \in everActive
       /\ c.pc = "rec_rolled_back" => c.snap.rollback # 0
       /\ c.pc \in {"rb_prepare", "rb_record", "rb_validate", "rb_assert", "rb_cas"}
             => c.ptr.art = Published(c.run)
       /\ c.pc \in {"rb_read", "rb_prepare", "rb_record", "rb_validate", "rb_assert", "rb_cas"}
             => c.fence # 0

PublicationInv ==
    /\ HistoryInv
    /\ BootstrapInv
    /\ \A r \in Runs : RunInv(r)
    /\ \A w \in Workers : CallInv(w)
    /\ StatusBackedByPointer
    /\ SingleWinner

(* What a step may do to the pointer: create it for the source, cut it     *)
(* over to a run that replaces what it names, roll the run it names back.  *)
CutsOver ==
    \E r \in Runs :
        /\ runs[r].status # "absent"
        /\ pointer.art = runs[r].prev
        /\ pointer'.art = Published(r)
        /\ everActive' = everActive \cup {Published(r)}

RollsBack ==
    \E r \in Runs, g \in Gens \ {0} :
        /\ pointer.art = Published(r)
        /\ pointer'.art = RolledBack(r, g)
        /\ everActive' = everActive \cup {RolledBack(r, g)}

Bootstraps ==
    /\ pointer = NoPointer
    /\ pointer'.art = Source
    /\ everActive' = {Source}

(* What a step may do to a run: create it for the artifact the pointer has *)
(* named, or move it on without changing what it replaces.                 *)
RunEffect(r) ==
    \/ runs'[r] = runs[r]
    \/ /\ runs[r].status = "absent"
       /\ runs'[r].status = "initialized"
       /\ runs'[r].lease = "none"
       /\ runs'[r].prev \in everActive
    \/ /\ runs[r].status # "absent"
       /\ runs'[r].status # "absent"
       /\ runs'[r].prev = runs[r].prev
       /\ runs'[r].lease # "none" => runs'[r].gen # 0
       /\ runs'[r].status \in {"committed", "rolling_back", "rolled_back"}
             => Published(r) \in everActive
       /\ runs'[r].status = "rolled_back"
             => \E g \in Gens \ {0} : RolledBack(r, g) \in everActive

StepEffect ==
    \/ UNCHANGED pointerVars /\ \A r \in Runs : RunEffect(r)
    \/ /\ Bootstraps \/ (pointer # NoPointer /\ (CutsOver \/ RollsBack))
       /\ pointer' # NoPointer
       /\ runs' = runs

(* What every call keeps of what it has read.                              *)
Stable ==
    /\ everActive \subseteq everActive'
    /\ \A r \in Runs : runs[r].status # "absent" =>
          runs'[r].status # "absent" /\ runs'[r].prev = runs[r].prev

(* Published artifacts and rollback copies are told apart by their names.  *)
LEMMA DistinctArtifacts ==
    ASSUME ConstantAssumption
    PROVE  /\ \A r, s \in Runs : Published(r) = Published(s) => r = s
           /\ \A r, s \in Runs, g, h \in Gens : RolledBack(r, g) = RolledBack(s, h) => r = s /\ g = h
           /\ \A r \in Runs : Published(r) = RolledBack(r, 0)
           /\ \A r \in Runs, g \in Gens : RolledBack(r, g) \notin {Source, NoArtifact}
           /\ NoPointer.art = NoArtifact
           /\ NoArtifact \notin Artifacts
BY DEF ConstantAssumption, Published, RolledBack, Gens, NoPointer, Artifacts

(* The artifact a cutover puts in place is new to the pointer.             *)
LEMMA FreshCutover ==
    ASSUME ConstantAssumption, PublicationInv, NEW r \in Runs, pointer.art = runs[r].prev
    PROVE  Published(r) \notin everActive
BY DEF PublicationInv, RunInv

LEMMA FreshRollback ==
    ASSUME ConstantAssumption, PublicationInv, NEW r \in Runs, NEW g \in Gens \ {0},
           pointer.art = Published(r)
    PROVE  RolledBack(r, g) \notin everActive
BY DEF PublicationInv, RunInv

LEMMA EffectStable ==
    ASSUME TypeOK, PublicationInv, StepEffect
    PROVE  Stable
<1>1. CASE UNCHANGED pointerVars /\ \A r \in Runs : RunEffect(r)
  BY <1>1 DEF Stable, RunEffect, pointerVars
<1>2. CASE runs' = runs /\ (CutsOver \/ RollsBack)
  BY <1>2 DEF Stable, CutsOver, RollsBack
<1>3. CASE runs' = runs /\ Bootstraps
  BY <1>3 DEF Stable, Bootstraps, PublicationInv, HistoryInv
<1>. QED BY <1>1, <1>2, <1>3 DEF StepEffect

(* A put to run records alone keeps the invariant.                         *)
LEMMA RunEffectKeeps ==
    ASSUME ConstantAssumption, TypeOK, PublicationInv, UNCHANGED pointerVars,
           \A r \in Runs : RunEffect(r)
    PROVE  HistoryInv' /\ (\A r \in Runs : RunInv(r)') /\ StatusBackedByPointer' /\ SingleWinner'
<1>1. pointer' = pointer /\ everActive' = everActive
  BY DEF pointerVars
<1>2. HistoryInv'
  BY <1>1 DEF PublicationInv, HistoryInv
<1>3. ASSUME NEW r \in Runs
      PROVE  /\ RunInv(r)'
             /\ runs'[r].status \in {"committed", "rolling_back", "rolled_back"}
                  => Published(r) \in everActive
             /\ runs'[r].status = "rolled_back"
                  => \E g \in Gens \ {0} : RolledBack(r, g) \in everActive
  <2>1. RunInv(r) /\ RunEffect(r)
    BY <1>3 DEF PublicationInv
  <2>2. CASE runs'[r] = runs[r]
    BY <1>1, <2>1, <2>2 DEF RunInv, PublicationInv, StatusBackedByPointer
  <2>3. CASE /\ runs[r].status = "absent"
             /\ runs'[r].status = "initialized"
             /\ runs'[r].lease = "none"
             /\ runs'[r].prev \in everActive
    <3>1. \A g \in Gens : RolledBack(r, g) \notin everActive
      BY <2>1, <2>3 DEF RunInv
    <3>2. Published(r) \notin everActive
      BY <3>1, ConstantsTyped, DistinctArtifacts
    <3>. QED BY <1>1, <2>3, <3>1, <3>2 DEF RunInv
  <2>4. CASE runs[r].status # "absent" /\ runs'[r] # runs[r]
    BY <1>1, <2>1, <2>4 DEF RunInv, RunEffect
  <2>. QED BY <2>1, <2>2, <2>3, <2>4 DEF RunEffect
<1>4. StatusBackedByPointer'
  BY <1>1, <1>3 DEF StatusBackedByPointer
<1>5. SingleWinner'
  <2>1. ASSUME NEW r \in Runs, Published(r) \in everActive
        PROVE  runs'[r].prev = runs[r].prev
    <3>1. runs[r].status # "absent"
      BY <2>1, ConstantsTyped, DistinctArtifacts DEF PublicationInv, RunInv
    <3>. QED BY <3>1 DEF RunEffect
  <2>. QED BY <1>1, <2>1 DEF SingleWinner, PublicationInv
<1>. QED BY <1>2, <1>3, <1>4, <1>5
(* A step of the pointer keeps the invariant: what it puts in place is new *)
(* to the pointer, so no run can find there what it replaces.              *)
LEMMA PointerEffectKeeps ==
    ASSUME ConstantAssumption, TypeOK, PublicationInv, runs' = runs, pointer' # NoPointer,
           Bootstraps \/ (pointer # NoPointer /\ (CutsOver \/ RollsBack))
    PROVE  HistoryInv' /\ (\A r \in Runs : RunInv(r)') /\ StatusBackedByPointer' /\ SingleWinner'
<1>1. CASE Bootstraps
  <2>1. everActive = {} /\ everActive' = {Source} /\ pointer'.art = Source
    BY <1>1 DEF Bootstraps, PublicationInv, HistoryInv
  <2>2. \A r \in Runs : runs[r].status = "absent"
    BY <1>1 DEF Bootstraps, PublicationInv, BootstrapInv
  <2>3. \A r \in Runs, g \in Gens : RolledBack(r, g) \notin everActive'
    BY <2>1, DistinctArtifacts
  <2>4. \A r \in Runs : Published(r) \notin everActive'
    BY <2>3, ConstantsTyped, DistinctArtifacts
  <2>5. HistoryInv' /\ SingleWinner'
    BY <2>1, <2>4 DEF HistoryInv, SingleWinner
  <2>6. \A r \in Runs : RunInv(r)'
    BY <2>2, <2>3, <2>4 DEF PublicationInv, RunInv
  <2>7. StatusBackedByPointer'
    BY <2>2 DEF StatusBackedByPointer
  <2>. QED BY <2>5, <2>6, <2>7
<1>2. CASE pointer # NoPointer /\ CutsOver
  <2>1. PICK s \in Runs : /\ runs[s].status # "absent"
                          /\ pointer.art = runs[s].prev
                          /\ pointer'.art = Published(s)
                          /\ everActive' = everActive \cup {Published(s)}
    BY <1>2 DEF CutsOver
  <2>2. Published(s) \notin everActive
    BY <2>1, FreshCutover
  <2>3. HistoryInv' /\ StatusBackedByPointer'
    BY <2>1 DEF HistoryInv, StatusBackedByPointer, PublicationInv
  <2>4. SingleWinner'
    <3>1. \A r \in Runs : Published(r) \in everActive => runs[r].prev # runs[s].prev
      BY <2>1 DEF PublicationInv, RunInv
    <3>. QED BY <2>1, <3>1, DistinctArtifacts DEF SingleWinner, PublicationInv
  <2>5. ASSUME NEW r \in Runs
        PROVE  RunInv(r)'
    <3>1. RunInv(r)
      BY DEF PublicationInv
    <3>2. \A g \in Gens : RolledBack(r, g) \in everActive' =>
              RolledBack(r, g) \in everActive \/ (r = s /\ g = 0)
      BY <2>1, ConstantsTyped, DistinctArtifacts
    <3>3. Published(r) \in everActive' => runs[r].status # "absent"
      BY <2>1, <3>1, ConstantsTyped, DistinctArtifacts DEF RunInv
    <3>4. Published(r) \in everActive' => pointer'.art # runs[r].prev
      BY <2>1, <2>2, <3>1, <3>3 DEF RunInv
    <3>5. \A g \in Gens \ {0} : RolledBack(r, g) \in everActive' =>
              Published(r) \in everActive' /\ pointer'.art # Published(r)
      BY <2>1, <2>2, <3>1, <3>2 DEF RunInv
    <3>. QED BY <2>1, <3>1, <3>2, <3>4, <3>5 DEF RunInv
  <2>. QED BY <2>3, <2>4, <2>5
<1>3. CASE pointer # NoPointer /\ RollsBack
  <2>1. PICK s \in Runs, h \in Gens \ {0} :
                          /\ pointer.art = Published(s)
                          /\ pointer'.art = RolledBack(s, h)
                          /\ everActive' = everActive \cup {RolledBack(s, h)}
    BY <1>3 DEF RollsBack
  <2>2. RolledBack(s, h) \notin everActive
    BY <2>1, FreshRollback
  <2>3. Published(s) \in everActive
    BY <1>3, <2>1 DEF PublicationInv, HistoryInv
  <2>4. \A r \in Runs : Published(r) # RolledBack(s, h)
    BY ConstantsTyped, DistinctArtifacts
  <2>5. HistoryInv' /\ StatusBackedByPointer' /\ SingleWinner'
    BY <2>1, <2>4 DEF HistoryInv, StatusBackedByPointer, SingleWinner, PublicationInv
  <2>6. ASSUME NEW r \in Runs
        PROVE  RunInv(r)'
    <3>1. RunInv(r) /\ RunInv(s)
      BY DEF PublicationInv
    <3>2. runs[s].status # "absent"
      BY <2>3, <3>1, ConstantsTyped, DistinctArtifacts DEF RunInv
    <3>3. \A g \in Gens : RolledBack(r, g) \in everActive' =>
              RolledBack(r, g) \in everActive \/ (r = s /\ g = h)
      BY <2>1, DistinctArtifacts
    <3>4. Published(r) \in everActive' => Published(r) \in everActive /\ runs[r].status # "absent"
      BY <2>1, <2>4, <3>1, ConstantsTyped, DistinctArtifacts DEF RunInv
    <3>5. Published(r) \in everActive' => pointer'.art # runs[r].prev
      BY <2>1, <2>2, <3>1, <3>4 DEF RunInv
    <3>6. \A g \in Gens \ {0} : RolledBack(r, g) \in everActive' =>
              Published(r) \in everActive' /\ pointer'.art # Published(r)
      BY <2>1, <2>3, <2>4, <3>1, <3>3 DEF RunInv
    <3>. QED BY <2>1, <3>1, <3>2, <3>3, <3>5, <3>6 DEF RunInv
  <2>. QED BY <2>5, <2>6
<1>. QED BY <1>1, <1>2, <1>3

-----------------------------------------------------------------------------
(* Every step of a call has one of these effects and keeps what the call   *)
(* relies on.                                                              *)

CallStep(w) ==
    /\ StepEffect
    /\ pointer' # NoPointer
    /\ \A v \in Workers \ {w} : call'[v] = call[v]
    /\ CallInv(w)'

(* Labels before the call knows that its run exists.                       *)
BeforeRun == {"idle", "annotate", "create"}

LEMMA ActiveCall ==
    ASSUME PublicationInv, NEW w \in Workers, call[w].pc # "idle"
    PROVE  pointer # NoPointer /\ pointer.art \in everActive
BY DEF PublicationInv, BootstrapInv, HistoryInv

LEMMA OthersKept ==
    ASSUME CallsTyped, NEW w \in Workers, NEW c, call' = [call EXCEPT ![w] = c]
    PROVE  call'[w] = c /\ \A v \in Workers \ {w} : call'[v] = call[v]
BY DEF CallsTyped

LEMMA ReturnKeeps ==
    ASSUME CallsTyped, NEW w \in Workers, Return(w)
    PROVE  CallInv(w)' /\ \A v \in Workers \ {w} : call'[v] = call[v]
<1>1. call'[w] = NoCall /\ \A v \in Workers \ {w} : call'[v] = call[v]
  BY OthersKept DEF Return
<1>. QED BY <1>1 DEF CallInv, NoCall, AfterPublication

LEMMA GotoCall ==
    ASSUME CallsTyped, NEW w \in Workers, call[w].pc # "idle", NEW label, Goto(w, label)
    PROVE  /\ call'[w] = [call[w] EXCEPT !.pc = label]
           /\ call'[w].pc = label
           /\ call'[w].run = call[w].run
           /\ call'[w].fence = call[w].fence
           /\ call'[w].snap = call[w].snap
           /\ call'[w].ptr = call[w].ptr
           /\ \A v \in Workers \ {w} : call'[v] = call[v]
BY DEF Goto, CallsTyped, CallRecord

(* What a call loses or keeps when only its label moves on.                *)
LEMMA GotoKeeps ==
    ASSUME CallsTyped, PublicationInv, runs' = runs, everActive \subseteq everActive',
           NEW w \in Workers, call[w].pc \notin BeforeRun, NEW label, Goto(w, label),
           label \notin {"annotate", "create", "rec_rolled_back"},
           label \in {"prepare", "record", "read_pointer"}
              => call[w].pc \in {"prepare", "record", "read_pointer"},
           label # "cas_pointer",
           label \in AfterPublication =>
              call[w].pc \in AfterPublication \/ Published(call[w].run) \in everActive',
           label \in {"rb_read", "rb_prepare", "rb_record", "rb_validate", "rb_assert", "rb_cas"}
              => call[w].pc \in {"rb_prepare", "rb_record", "rb_validate", "rb_assert", "rb_cas"}
    PROVE  CallInv(w)' /\ \A v \in Workers \ {w} : call'[v] = call[v]
<1>1. CallInv(w)
  BY DEF PublicationInv
<1>2. /\ call'[w].pc = label
      /\ call'[w].run = call[w].run
      /\ call'[w].fence = call[w].fence
      /\ call'[w].snap = call[w].snap
      /\ call'[w].ptr = call[w].ptr
      /\ \A v \in Workers \ {w} : call'[v] = call[v]
  BY GotoCall DEF BeforeRun
<1>. QED BY <1>1, <1>2 DEF CallInv, BeforeRun

(* A call that touches neither run nor pointer has no effect on them.      *)
LEMMA QuietEffect ==
    ASSUME runs' = runs, UNCHANGED pointerVars
    PROVE  StepEffect
BY DEF StepEffect, RunEffect

(* A record that may be put after the record last read.                    *)
Successor(r, old, new) ==
    /\ new \in RunRecord
    /\ new.prev = old.prev
    /\ new.gen = old.gen
    /\ new.status # "absent"
    /\ new.lease \in {"none", old.lease}
    /\ new.status \in {"committed", "rolling_back", "rolled_back"} => Published(r) \in everActive
    /\ new.status = "rolled_back" => \E g \in Gens \ {0} : RolledBack(r, g) \in everActive

LEMMA PutSuccessor ==
    ASSUME TypeOK, PublicationInv, NEW r \in Runs, NEW rec, runs[r].status # "absent",
           Successor(r, runs[r], rec), PutRun(r, rec)
    PROVE  runs'[r] = rec /\ \A s \in Runs : RunEffect(s)
<1>1. runs'[r] = rec /\ \A s \in Runs \ {r} : runs'[s] = runs[s]
  BY DEF PutRun, TypeOK
<1>2. RunInv(r)
  BY DEF PublicationInv
<1>. QED BY <1>1, <1>2 DEF RunEffect, Successor, RunInv

LEMMA FencedUpdateEffect ==
    ASSUME TypeOK, PublicationInv, NEW w \in Workers, call[w].pc \notin BeforeRun, NEW rec,
           NEW next, Successor(call[w].run, call[w].snap, rec), FencedUpdate(w, rec, next)
    PROVE  /\ \A s \in Runs : RunEffect(s)
           /\ runs'[call[w].run] = rec
           /\ \A v \in Workers \ {w} : call'[v] = call[v]
           /\ next = "idle" => call'[w] = NoCall
           /\ next # "idle" =>
                 /\ call'[w].pc = next
                 /\ call'[w].run = call[w].run
                 /\ call'[w].fence = call[w].fence
                 /\ call'[w].snap = rec
                 /\ call'[w].ptr = call[w].ptr
<1>1. call[w] \in CallRecord /\ call[w].run \in Runs /\ CallsTyped
  BY TypeParts DEF CallsTyped, BeforeRun
<1>2. runs[call[w].run] = call[w].snap /\ runs[call[w].run].status # "absent"
  BY DEF FencedUpdate, FenceHolds, PublicationInv, CallInv, BeforeRun
<1>3. PutRun(call[w].run, rec)
  BY DEF FencedUpdate
<1>4. (\A s \in Runs : RunEffect(s)) /\ runs'[call[w].run] = rec
  BY <1>1, <1>2, <1>3, PutSuccessor
<1>5. CASE next = "idle"
  BY <1>1, <1>4, <1>5, OthersKept DEF FencedUpdate
<1>6. CASE next # "idle"
  BY <1>1, <1>4, <1>6 DEF FencedUpdate, CallsTyped, CallRecord
<1>. QED BY <1>5, <1>6

LEMMA ReconcilePutEffect ==
    ASSUME TypeOK, PublicationInv, NEW w \in Workers, call[w].pc \notin BeforeRun, NEW rec,
           Successor(call[w].run, call[w].snap, rec), ReconcilePut(w, rec), UNCHANGED pointerVars
    PROVE  CallStep(w)
<1>1. call[w].run \in Runs /\ CallsTyped
  BY TypeParts DEF CallsTyped, BeforeRun
<1>2. \A s \in Runs : RunEffect(s)
  <2>1. CASE runs[call[w].run] = call[w].snap
    <3>1. runs[call[w].run].status # "absent"
      BY DEF PublicationInv, CallInv, BeforeRun
    <3>. QED BY <1>1, <2>1, <3>1, PutSuccessor DEF ReconcilePut
  <2>2. CASE runs[call[w].run] # call[w].snap
    BY <2>2 DEF ReconcilePut, runVars, RunEffect
  <2>. QED BY <2>1, <2>2
<1>3. CallInv(w)' /\ \A v \in Workers \ {w} : call'[v] = call[v]
  BY <1>1, ReturnKeeps DEF ReconcilePut
<1>4. pointer' # NoPointer
  BY ActiveCall DEF BeforeRun, pointerVars
<1>. QED BY <1>2, <1>3, <1>4 DEF CallStep, StepEffect

(* A fenced update that ends the call, or is refused and ends it.          *)
LEMMA FencedReturn ==
    ASSUME TypeOK, PublicationInv, NEW w \in Workers, call[w].pc \notin BeforeRun, NEW rec,
           Successor(call[w].run, call[w].snap, rec),
           FencedUpdate(w, rec, "idle") \/ Fenced(w, "idle"), UNCHANGED pointerVars
    PROVE  CallStep(w)
<1>1. pointer' # NoPointer /\ CallsTyped
  BY ActiveCall, TypeParts DEF BeforeRun, pointerVars
<1>2. CASE FencedUpdate(w, rec, "idle")
  <2>1. Return(w)
    BY <1>2 DEF FencedUpdate, Return
  <2>. QED BY <1>1, <1>2, <2>1, FencedUpdateEffect, ReturnKeeps DEF CallStep, StepEffect
<1>3. CASE Fenced(w, "idle")
  BY <1>1, <1>3, ReturnKeeps, QuietEffect DEF Fenced, runVars, CallStep
<1>. QED BY <1>2, <1>3
(* A call that asks for a lease either ends or goes on with the record it  *)
(* has put.                                                                *)
LeaseOutcome(w, next) ==
    /\ \A s \in Runs : RunEffect(s)
    /\ \A v \in Workers \ {w} : call'[v] = call[v]
    /\ \/ CallInv(w)'
       \/ /\ call'[w].pc = next
          /\ call'[w].run = call[w].run
          /\ call'[w].ptr = call[w].ptr
          /\ call'[w].fence # 0
          /\ call'[w].snap = runs'[call[w].run]

LEMMA TakeLeaseEffect ==
    ASSUME ConstantAssumption, TypeOK, PublicationInv, NEW w \in Workers,
           call[w].pc \notin BeforeRun, NEW kind \in {"own", "operation"}, NEW allowed,
           NEW status \in {"staging", "committing", "rolling_back"}, NEW next,
           status = "rolling_back" => Published(call[w].run) \in everActive,
           TakeLease(w, kind, allowed, status, next)
    PROVE  LeaseOutcome(w, next)
<1>. DEFINE r == call[w].run
            g == runs[r].gen + 1
            b == IF status = "rolling_back" THEN 0 ELSE runs[r].rollback
            leased == [runs[r] EXCEPT !.status = status, !.gen = @ + 1, !.lease = kind,
                                      !.rollback = IF status = "rolling_back" THEN 0 ELSE @]
            c == [call[w] EXCEPT !.pc = next, !.fence = leased.gen, !.snap = leased]
<1>1. r \in Runs /\ CallsTyped /\ call[w] \in CallRecord /\ runs[r] \in RunRecord
  BY TypeParts DEF CallsTyped, RunsTyped, BeforeRun
<1>2. runs[r].status # "absent"
  BY DEF PublicationInv, CallInv, BeforeRun
<1>3. CASE Live(r) \/ runs[r].status \notin allowed
  <2>1. Return(w) /\ runs' = runs
    BY <1>3 DEF TakeLease, runVars
  <2>. QED BY <1>1, <2>1, ReturnKeeps DEF RunEffect, LeaseOutcome
<1>4. CASE ~(Live(r) \/ runs[r].status \notin allowed)
  <2>1. PutRun(r, leased) /\ call' = [call EXCEPT ![w] = c]
    BY <1>1, <1>4 DEF TakeLease, CallsTyped
  <2>2. leased = [runs[r] EXCEPT !.status = status, !.gen = g, !.lease = kind, !.rollback = b]
    OBVIOUS
  <2>3. g # 0
    BY <1>1 DEF RunRecord, Gens
  <2>. HIDE DEF g, b, leased
  <2>4. /\ leased.status = status
        /\ leased.gen = g
        /\ leased.prev = runs[r].prev
    BY <1>1, <2>2 DEF RunRecord
  <2>5. runs'[r] = leased /\ \A s \in Runs \ {r} : runs'[s] = runs[s]
    BY <1>1, <2>1 DEF PutRun, TypeOK
  <2>6. \A s \in Runs : RunEffect(s)
    BY <1>2, <2>3, <2>4, <2>5 DEF RunEffect
  <2>7. call'[w] = c /\ \A v \in Workers \ {w} : call'[v] = call[v]
    BY <1>1, <2>1, OthersKept
  <2>8. c.pc = next /\ c.run = r /\ c.ptr = call[w].ptr /\ c.fence = g /\ c.snap = leased
    BY <1>1, <2>4 DEF CallRecord
  <2>. QED BY <2>3, <2>5, <2>6, <2>7, <2>8 DEF LeaseOutcome
<1>. QED BY <1>3, <1>4

LEMMA BeginStep ==
    ASSUME ConstantAssumption, TypeOK, PublicationInv, NEW w \in Workers, Begin(w)
    PROVE  CallStep(w)
<1>. USE TypeParts
<1>1. ASSUME NEW r \in Runs, NEW a \in Artifacts, BeginRead(w, r, a)
      PROVE  CallStep(w)
  <2>. DEFINE c == [NoCall EXCEPT !.pc = "annotate", !.run = r, !.src = a, !.ptr = pointer']
  <2>1. call'[w] = c /\ \A v \in Workers \ {w} : call'[v] = call[v]
    BY <1>1, OthersKept DEF BeginRead
  <2>2. pointer'.art \in everActive' /\ runs' = runs
    BY <1>1 DEF BeginRead, runVars
  <2>3. CallInv(w)'
    BY <2>1, <2>2 DEF CallInv, NoCall, AfterPublication
  <2>4. CASE pointer = NoPointer
    <3>1. a = Source
      BY <1>1, <2>4 DEF BeginRead, PublicationInv, BootstrapInv
    <3>2. pointer' # NoPointer /\ pointer'.art = Source
      BY <1>1, <2>4, <3>1, ConstantsTyped, NewPointerTyped DEF BeginRead
    <3>3. everActive' = {Source}
      BY <1>1, <2>4, <3>2 DEF BeginRead, PublicationInv, HistoryInv
    <3>. QED BY <2>1, <2>2, <2>3, <2>4, <3>2, <3>3 DEF CallStep, StepEffect, Bootstraps
  <2>5. CASE pointer # NoPointer
    <3>1. UNCHANGED pointerVars
      BY <1>1, <2>5 DEF BeginRead, PublicationInv, HistoryInv, pointerVars
    <3>. QED BY <2>1, <2>2, <2>3, <2>5, <3>1, QuietEffect DEF CallStep, pointerVars
  <2>. QED BY <2>4, <2>5
<1>2. CASE Annotate(w)
  <2>1. UNCHANGED pointerVars /\ runs' = runs /\ pointer' # NoPointer
    BY <1>2, ActiveCall DEF Annotate, pointerVars, runVars
  <2>2. CASE Return(w)
    BY <2>1, <2>2, ReturnKeeps, QuietEffect DEF CallStep
  <2>3. CASE Goto(w, "create")
    <3>1. /\ call'[w].pc = "create" /\ call'[w].ptr = call[w].ptr
          /\ \A v \in Workers \ {w} : call'[v] = call[v]
      BY <1>2, <2>3, GotoCall DEF Annotate
    <3>2. CallInv(w)'
      BY <1>2, <2>1, <3>1 DEF Annotate, CallInv, PublicationInv, AfterPublication, pointerVars
    <3>. QED BY <2>1, <3>1, <3>2, QuietEffect DEF CallStep
  <2>. QED BY <1>2, <2>2, <2>3 DEF Annotate
<1>3. CASE CreateRun(w)
  <2>. DEFINE r == call[w].run
              new == [AbsentRun EXCEPT !.status = "initialized", !.prev = call[w].ptr.art]
  <2>1. /\ call[w].pc = "create" /\ r \in Runs
        /\ UNCHANGED pointerVars /\ pointer' # NoPointer
    BY <1>3, ActiveCall DEF CreateRun, CallsTyped, pointerVars
  <2>2. new.prev \in everActive /\ new.status = "initialized" /\ new.lease = "none"
    BY <2>1 DEF PublicationInv, CallInv, AbsentRun
  <2>. HIDE DEF new
  <2>3. (\A s \in Runs : RunEffect(s)) /\ runs'[r].status # "absent"
    <3>1. CASE runs[r].status = "absent"
      <4>1. PutRun(r, new)
        BY <1>3, <3>1 DEF CreateRun, new
      <4>2. runs'[r] = new /\ \A s \in Runs \ {r} : runs'[s] = runs[s]
        BY <2>1, <4>1 DEF PutRun, TypeOK
      <4>. QED BY <2>2, <3>1, <4>2 DEF RunEffect
    <3>2. CASE runs[r].status # "absent"
      BY <1>3, <3>2 DEF CreateRun, runVars, RunEffect
    <3>. QED BY <3>1, <3>2
  <2>4. CallInv(w)' /\ \A v \in Workers \ {w} : call'[v] = call[v]
    <3>1. CASE Return(w)
      BY <3>1, ReturnKeeps
    <3>2. CASE Goto(w, "stage_lease")
      <4>1. /\ call'[w].pc = "stage_lease" /\ call'[w].run = r
            /\ \A v \in Workers \ {w} : call'[v] = call[v]
        BY <2>1, <3>2, GotoCall
      <4>. QED BY <2>3, <4>1 DEF CallInv, AfterPublication
    <3>. QED BY <1>3, <3>1, <3>2 DEF CreateRun
  <2>. QED BY <2>1, <2>3, <2>4 DEF CallStep, StepEffect
<1>4. CASE StageLease(w)
  <2>. DEFINE allowed == {"initialized", "staging"}
  <2>1. /\ call[w].pc = "stage_lease" /\ UNCHANGED pointerVars
        /\ TakeLease(w, "own", allowed, "staging", "staging")
    BY <1>4 DEF StageLease
  <2>. HIDE DEF allowed
  <2>2. call[w].pc \notin BeforeRun /\ pointer' # NoPointer
    BY <2>1, ActiveCall DEF BeforeRun, pointerVars
  <2>3. LeaseOutcome(w, "staging")
    BY ONLY ConstantAssumption, TypeOK, PublicationInv, w \in Workers, <2>1, <2>2,
            TakeLeaseEffect
  <2>4. StepEffect
    BY <2>1, <2>3 DEF StepEffect, LeaseOutcome
  <2>5. call[w].run \in Runs /\ runs[call[w].run].status # "absent"
    BY <2>2 DEF CallsTyped, BeforeRun, PublicationInv, CallInv
  <2>6. runs'[call[w].run].status # "absent"
    BY <2>4, <2>5, EffectStable DEF Stable
  <2>7. CallInv(w)'
    BY <2>3, <2>6 DEF CallInv, AfterPublication, LeaseOutcome
  <2>. QED BY <2>2, <2>3, <2>4, <2>7 DEF CallStep, LeaseOutcome
<1>5. CASE RecordStaged(w)
  <2>. DEFINE rec == [call[w].snap EXCEPT !.status = "validated", !.lease = "none"]
  <2>1. /\ call[w].pc \notin BeforeRun /\ call[w].pc # "idle" /\ UNCHANGED pointerVars
        /\ FencedUpdate(w, rec, "idle") \/ Fenced(w, "idle")
    BY <1>5 DEF RecordStaged, BeforeRun
  <2>2. Successor(call[w].run, call[w].snap, rec)
    BY <2>1, CallFields DEF Successor, RunRecord, RunStatus
  <2>. QED BY <2>1, <2>2, FencedReturn
<1>. QED BY <1>1, <1>2, <1>3, <1>4, <1>5 DEF Begin
LEMMA CommitStep ==
    ASSUME ConstantAssumption, TypeOK, PublicationInv, NEW w \in Workers, Commit(w)
    PROVE  CallStep(w)
<1>. USE TypeParts
<1>1. ASSUME NEW r \in Runs, CommitStart(w, r)
      PROVE  CallStep(w)
  <2>1. UNCHANGED pointerVars /\ runs' = runs /\ runs[r].status # "absent"
    BY <1>1 DEF CommitStart, runVars
  <2>2. pointer' # NoPointer
    BY <2>1 DEF PublicationInv, BootstrapInv, pointerVars
  <2>3. PICK label \in {"reconcile", "commit_lease"} : Enter(w, r, label)
    BY <1>1 DEF CommitStart
  <2>4. /\ call'[w] = [NoCall EXCEPT !.pc = label, !.run = r]
        /\ \A v \in Workers \ {w} : call'[v] = call[v]
    BY <2>3, OthersKept DEF Enter
  <2>5. CallInv(w)'
    BY <2>1, <2>4 DEF CallInv, NoCall, AfterPublication
  <2>. QED BY <2>1, <2>2, <2>4, <2>5, QuietEffect DEF CallStep
<1>2. CASE CommitLease(w)
  <2>. DEFINE allowed == {"validated", "committing"}
  <2>1. /\ call[w].pc = "commit_lease" /\ UNCHANGED pointerVars
        /\ TakeLease(w, "own", allowed, "committing", "prepare")
    BY <1>2 DEF CommitLease
  <2>. HIDE DEF allowed
  <2>2. call[w].pc \notin BeforeRun /\ pointer' # NoPointer
    BY <2>1, ActiveCall DEF BeforeRun, pointerVars
  <2>3. LeaseOutcome(w, "prepare")
    BY ONLY ConstantAssumption, TypeOK, PublicationInv, w \in Workers, <2>1, <2>2,
            TakeLeaseEffect
  <2>4. StepEffect
    BY <2>1, <2>3 DEF StepEffect, LeaseOutcome
  <2>5. call[w].run \in Runs /\ runs[call[w].run].status # "absent"
    BY <2>2 DEF CallsTyped, BeforeRun, PublicationInv, CallInv
  <2>6. runs'[call[w].run].status # "absent"
    BY <2>4, <2>5, EffectStable DEF Stable
  <2>7. CallInv(w)'
    BY <2>3, <2>6 DEF CallInv, AfterPublication, LeaseOutcome
  <2>. QED BY <2>2, <2>3, <2>4, <2>7 DEF CallStep, LeaseOutcome
<1>3. CASE Prepare(w) \/ SupersedePrevious(w) \/ CleanupStaged(w) \/ CommitFault(w)
           \/ CommitFailed(w) \/ CommitCleanup(w)
  <2>1. /\ call[w].pc \notin BeforeRun /\ call[w].pc # "idle"
        /\ UNCHANGED pointerVars /\ runs' = runs
    BY <1>3 DEF Prepare, SupersedePrevious, CleanupStaged, CommitFault, CommitFailed,
                CommitCleanup, BeforeRun, runVars
  <2>2. \/ Return(w)
        \/ call[w].pc = "prepare" /\ Goto(w, "record")
        \/ \E label \in {"cleanup_staged", "commit_failed", "commit_cleanup", "commit_release"} :
              Goto(w, label)
    BY <1>3 DEF Prepare, SupersedePrevious, CleanupStaged, CommitFault, CommitFailed,
                CommitCleanup
  <2>3. CallInv(w)' /\ \A v \in Workers \ {w} : call'[v] = call[v]
    <3>1. CASE Return(w)
      BY <3>1, ReturnKeeps
    <3>2. CASE call[w].pc = "prepare" /\ Goto(w, "record")
      BY <2>1, <3>2, GotoKeeps DEF AfterPublication, pointerVars
    <3>3. ASSUME NEW label \in {"cleanup_staged", "commit_failed", "commit_cleanup",
                                "commit_release"}, Goto(w, label)
          PROVE  CallInv(w)' /\ \A v \in Workers \ {w} : call'[v] = call[v]
      BY <2>1, <3>3, GotoKeeps DEF AfterPublication, pointerVars
    <3>. QED BY <2>2, <3>1, <3>2, <3>3
  <2>4. pointer' # NoPointer
    BY <2>1, ActiveCall DEF pointerVars
  <2>. QED BY <2>1, <2>3, <2>4, QuietEffect DEF CallStep
<1>4. CASE RecordPrepared(w)
  <2>. DEFINE rec == [call[w].snap EXCEPT !.status = "committing", !.prepared = call[w].fence]
  <2>1. /\ call[w].pc = "record" /\ call[w].pc \notin BeforeRun /\ UNCHANGED pointerVars
        /\ pointer' # NoPointer
    BY <1>4, ActiveCall DEF RecordPrepared, BeforeRun, pointerVars
  <2>2. Successor(call[w].run, call[w].snap, rec)
    BY <2>1, CallFields DEF Successor, RunRecord, RunStatus
  <2>3. CASE FencedUpdate(w, rec, "read_pointer")
    <3>1. /\ \A s \in Runs : RunEffect(s)
          /\ runs'[call[w].run] = rec
          /\ \A v \in Workers \ {w} : call'[v] = call[v]
          /\ call'[w].pc = "read_pointer"
          /\ call'[w].run = call[w].run
          /\ call'[w].snap = rec
      BY <2>1, <2>2, <2>3, FencedUpdateEffect
    <3>2. CallInv(w)'
      BY <2>2, <3>1 DEF CallInv, AfterPublication, Successor
    <3>. QED BY <2>1, <3>1, <3>2 DEF CallStep, StepEffect
  <2>4. CASE Fenced(w, "idle")
    BY <2>1, <2>2, <2>4, FencedReturn
  <2>5. CASE Return(w) /\ UNCHANGED runVars
    BY <2>1, <2>5, ReturnKeeps, QuietEffect DEF CallStep, runVars
  <2>. QED BY <1>4, <2>3, <2>4, <2>5 DEF RecordPrepared
<1>5. CASE ReadPointer(w)
  <2>1. /\ call[w].pc = "read_pointer" /\ call[w].pc \notin BeforeRun /\ UNCHANGED pointerVars
        /\ pointer' # NoPointer /\ runs' = runs /\ pointer.art \in everActive
    BY <1>5, ActiveCall DEF ReadPointer, BeforeRun, pointerVars, runVars
  <2>2. CASE CurrentFor(call[w].run) /\ Goto(w, "finish_only")
    BY <2>1, <2>2, GotoKeeps, QuietEffect DEF CallStep, CurrentFor, AfterPublication, pointerVars
  <2>3. CASE Goto(w, "commit_failed")
    BY <2>1, <2>3, GotoKeeps, QuietEffect DEF CallStep, AfterPublication, pointerVars
  <2>4. CASE /\ pointer.art = call[w].snap.prev
             /\ call' = [call EXCEPT ![w].pc = "cas_pointer", ![w].ptr = pointer]
    <3>1. /\ call'[w].pc = "cas_pointer"
          /\ call'[w].run = call[w].run
          /\ call'[w].ptr = pointer
          /\ \A v \in Workers \ {w} : call'[v] = call[v]
      BY <2>4 DEF CallsTyped, CallRecord
    <3>2. CallInv(w)'
      BY <2>1, <2>4, <3>1 DEF CallInv, PublicationInv, AfterPublication, BeforeRun
    <3>. QED BY <2>1, <3>1, <3>2, QuietEffect DEF CallStep
  <2>. QED BY <1>5, <2>2, <2>3, <2>4 DEF ReadPointer
<1>6. CASE CasPointer(w)
  <2>. DEFINE a == Published(call[w].run)
  <2>1. /\ call[w].pc = "cas_pointer" /\ call[w].pc \notin BeforeRun /\ pointer # NoPointer
        /\ runs' = runs /\ call[w].pc # "idle"
    BY <1>6, ActiveCall DEF CasPointer, BeforeRun, runVars
  <2>2. CASE pointer = call[w].ptr
    <3>1. /\ pointer' = NewPointer(a, call[w].fence)
          /\ everActive' = everActive \cup {a}
          /\ Goto(w, "finish")
      BY <1>6, <2>2 DEF CasPointer
    <3>2. pointer'.art = a /\ pointer' # NoPointer
      BY <2>1, <3>1, CallFields, ArtifactsTyped, NewPointerTyped
    <3>3. CutsOver
      BY <2>1, <2>2, <3>1, <3>2, CallFields DEF CutsOver, PublicationInv, CallInv, BeforeRun
    <3>4. CallInv(w)' /\ \A v \in Workers \ {w} : call'[v] = call[v]
      BY <2>1, <3>1, GotoKeeps DEF AfterPublication
    <3>. QED BY <2>1, <3>2, <3>3, <3>4 DEF CallStep, StepEffect
  <2>3. CASE pointer # call[w].ptr
    <3>1. Goto(w, "commit_failed") /\ UNCHANGED pointerVars
      BY <1>6, <2>3 DEF CasPointer
    <3>. QED BY <2>1, <3>1, GotoKeeps, QuietEffect DEF CallStep, AfterPublication, pointerVars
  <2>. QED BY <2>2, <2>3
<1>7. CASE Finish(w) \/ FinishOnly(w)
  <2>. DEFINE rec == CommittedFrom(call[w].snap)
  <2>1. /\ call[w].pc \in AfterPublication /\ call[w].pc \notin BeforeRun
        /\ call[w].pc # "idle" /\ UNCHANGED pointerVars /\ pointer' # NoPointer
    BY <1>7, ActiveCall DEF Finish, FinishOnly, BeforeRun, AfterPublication, pointerVars
  <2>2. Successor(call[w].run, call[w].snap, rec)
    BY ZenonT(60), <2>1, CallFields
       DEF Successor, RunRecord, RunStatus, CommittedFrom, PublicationInv, CallInv
  <2>3. CASE FencedUpdate(w, rec, "supersede")
    <3>1. /\ \A s \in Runs : RunEffect(s)
          /\ runs'[call[w].run] = rec
          /\ \A v \in Workers \ {w} : call'[v] = call[v]
          /\ call'[w].pc = "supersede"
          /\ call'[w].run = call[w].run
      BY <2>1, <2>2, <2>3, FencedUpdateEffect
    <3>2. CallInv(w)'
      BY <2>2, <3>1 DEF CallInv, AfterPublication, Successor
    <3>. QED BY <2>1, <3>1, <3>2 DEF CallStep, StepEffect
  <2>4. CASE Fenced(w, "commit_failed")
    <3>1. Goto(w, "commit_failed") /\ runs' = runs
      BY <2>4 DEF Fenced, runVars
    <3>. QED BY <2>1, <3>1, GotoKeeps, QuietEffect DEF CallStep, AfterPublication, pointerVars
  <2>5. CASE FinishOnly(w)
    BY <2>1, <2>2, <2>5, FencedReturn DEF FinishOnly
  <2>. QED BY <1>7, <2>3, <2>4, <2>5 DEF Finish
<1>8. CASE ReleaseCommitForRetry(w)
  <2>. DEFINE rec == [call[w].snap EXCEPT !.status = "validated", !.lease = "none", !.prepared = 0]
  <2>1. /\ call[w].pc \notin BeforeRun /\ call[w].pc # "idle" /\ UNCHANGED pointerVars
        /\ FencedUpdate(w, rec, "idle") \/ Fenced(w, "idle")
    BY <1>8 DEF ReleaseCommitForRetry, BeforeRun
  <2>2. Successor(call[w].run, call[w].snap, rec)
    BY <2>1, CallFields, ConstantsTyped DEF Successor, RunRecord, RunStatus
  <2>. QED BY <2>1, <2>2, FencedReturn
<1>. QED BY <1>1, <1>2, <1>3, <1>4, <1>5, <1>6, <1>7, <1>8 DEF Commit
LEMMA ReconcileStep ==
    ASSUME ConstantAssumption, TypeOK, PublicationInv, NEW w \in Workers, Reconcile(w)
    PROVE  CallStep(w)
<1>. USE TypeParts
<1>1. ASSUME NEW r \in Runs, ReconcileStart(w, r)
      PROVE  CallStep(w)
  <2>1. UNCHANGED pointerVars /\ runs' = runs /\ runs[r].status # "absent"
    BY <1>1 DEF ReconcileStart, runVars
  <2>2. pointer' # NoPointer
    BY <2>1 DEF PublicationInv, BootstrapInv, pointerVars
  <2>3. /\ call'[w] = [NoCall EXCEPT !.pc = "reconcile", !.run = r]
        /\ \A v \in Workers \ {w} : call'[v] = call[v]
    BY <1>1, OthersKept DEF ReconcileStart, Enter
  <2>4. CallInv(w)'
    BY <2>1, <2>3 DEF CallInv, NoCall, AfterPublication
  <2>. QED BY <2>1, <2>2, <2>3, <2>4, QuietEffect DEF CallStep
<1>2. CASE ReconcileRead(w)
  <2>. DEFINE r == call[w].run
  <2>1. /\ call[w].pc = "reconcile" /\ call[w].pc \notin BeforeRun /\ UNCHANGED pointerVars
        /\ pointer' # NoPointer /\ runs' = runs /\ pointer.art \in everActive
        /\ call[w].pc # "idle"
    BY <1>2, ActiveCall DEF ReconcileRead, BeforeRun, pointerVars, runVars
  <2>2. r \in Runs /\ runs[r] \in RunRecord /\ runs[r].status # "absent"
    BY <2>1, CallFields DEF PublicationInv, CallInv, BeforeRun
  <2>3. CASE Return(w)
    BY <2>1, <2>3, ReturnKeeps, QuietEffect DEF CallStep
  <2>4. ASSUME NEW case \in {"rec_rolled_back", "rec_committed", "rec_expired", "rec_rollback"},
               case = "rec_rolled_back" => RollbackMatches(r, runs[r], pointer),
               case \in {"rec_committed", "rec_rollback"} => CurrentFor(r),
               call' = [call EXCEPT ![w].pc = case, ![w].snap = runs[r], ![w].ptr = pointer]
        PROVE  CallStep(w)
    <3>1. /\ call'[w].pc = case
          /\ call'[w].run = r
          /\ call'[w].snap = runs[r]
          /\ \A v \in Workers \ {w} : call'[v] = call[v]
      BY <2>4 DEF CallsTyped, CallRecord
    <3>2. case # "rec_expired" => Published(r) \in everActive
      <4>1. CASE case = "rec_rolled_back"
        <5>1. runs[r].rollback \in Gens \ {0} /\ RolledBack(r, runs[r].rollback) \in everActive
          BY <2>1, <2>2, <2>4, <4>1 DEF RollbackMatches, RunRecord
        <5>. QED BY <2>2, <5>1 DEF PublicationInv, RunInv
      <4>2. CASE case \in {"rec_committed", "rec_rollback"}
        BY <2>1, <2>4, <4>2 DEF CurrentFor
      <4>. QED BY <4>1, <4>2
    <3>3. case = "rec_rolled_back" => runs[r].rollback # 0
      BY <2>4 DEF RollbackMatches
    <3>4. CallInv(w)'
      BY <2>1, <2>2, <3>1, <3>2, <3>3 DEF CallInv, AfterPublication, pointerVars
    <3>. QED BY <2>1, <3>1, <3>4, QuietEffect DEF CallStep
  <2>. QED BY <1>2, <2>3, <2>4 DEF ReconcileRead
<1>3. CASE ReconcileRolledBack(w)
  <2>. DEFINE r == call[w].run
              g == call[w].snap.rollback
              rec == RolledBackFrom(call[w].snap)
  <2>1. /\ call[w].pc = "rec_rolled_back" /\ call[w].pc \notin BeforeRun
        /\ UNCHANGED pointerVars /\ pointer' # NoPointer /\ pointer.art \in everActive
    BY <1>3, ActiveCall DEF ReconcileRolledBack, BeforeRun, pointerVars
  <2>2. CASE Return(w) /\ UNCHANGED runVars
    BY <2>1, <2>2, ReturnKeeps, QuietEffect DEF CallStep, runVars
  <2>3. CASE pointer.art = RolledBack(r, g) /\ ReconcilePut(w, rec)
    <3>1. g \in Gens \ {0} /\ Published(r) \in everActive
      BY <2>1, CallFields DEF PublicationInv, CallInv, AfterPublication, RunRecord
    <3>2. Successor(r, call[w].snap, rec)
      BY <2>1, <2>3, <3>1, CallFields DEF Successor, RunRecord, RunStatus, RolledBackFrom
    <3>. QED BY <2>1, <2>3, <3>2, ReconcilePutEffect
  <2>. QED BY <1>3, <2>2, <2>3 DEF ReconcileRolledBack
<1>4. CASE ReconcileCommittedTidy(w) \/ ReconcileExpiredTidy(w) \/ ReconcileRollbackTidy(w)
  <2>1. /\ call[w].pc \notin BeforeRun /\ call[w].pc # "idle"
        /\ UNCHANGED pointerVars /\ runs' = runs /\ pointer' # NoPointer
    BY <1>4, ActiveCall DEF ReconcileCommittedTidy, ReconcileExpiredTidy, ReconcileRollbackTidy,
                BeforeRun, runVars, pointerVars
  <2>2. CASE ReconcileExpiredTidy(w)
    BY <2>1, <2>2, GotoKeeps, QuietEffect
       DEF ReconcileExpiredTidy, CallStep, AfterPublication, pointerVars
  <2>3. CASE ReconcileCommittedTidy(w) \/ ReconcileRollbackTidy(w)
    <3>1. /\ call[w].pc \in AfterPublication
          /\ \E label \in {"rec_committed_cas", "rec_rollback_cas"} : Goto(w, label)
      BY <2>3 DEF ReconcileCommittedTidy, ReconcileRollbackTidy, AfterPublication
    <3>. QED BY <2>1, <3>1, GotoKeeps, QuietEffect DEF CallStep, AfterPublication, pointerVars
  <2>. QED BY <1>4, <2>2, <2>3
<1>5. CASE ReconcileCommitted(w)
  <2>. DEFINE rec == CommittedFrom(call[w].snap)
  <2>1. /\ call[w].pc = "rec_committed_cas" /\ call[w].pc \notin BeforeRun
        /\ UNCHANGED pointerVars /\ ReconcilePut(w, rec)
    BY <1>5 DEF ReconcileCommitted, BeforeRun
  <2>2. Successor(call[w].run, call[w].snap, rec)
    BY ZenonT(60), <2>1, CallFields DEF Successor, RunRecord, RunStatus, CommittedFrom, PublicationInv,
                            CallInv, AfterPublication
  <2>. QED BY <2>1, <2>2, ReconcilePutEffect
<1>6. CASE ReconcileExpired(w)
  <2>. DEFINE rec == [call[w].snap EXCEPT !.status = "validated", !.lease = "none", !.prepared = 0]
  <2>1. /\ call[w].pc = "rec_expired_cas" /\ call[w].pc \notin BeforeRun
        /\ UNCHANGED pointerVars /\ ReconcilePut(w, rec)
    BY <1>6 DEF ReconcileExpired, BeforeRun
  <2>2. Successor(call[w].run, call[w].snap, rec)
    BY <2>1, CallFields, ConstantsTyped DEF Successor, RunRecord, RunStatus
  <2>. QED BY <2>1, <2>2, ReconcilePutEffect
<1>7. CASE ReconcileRollback(w)
  <2>. DEFINE rec == [call[w].snap EXCEPT !.status = "committed", !.lease = "none", !.rollback = 0]
  <2>1. /\ call[w].pc = "rec_rollback_cas" /\ call[w].pc \notin BeforeRun
        /\ UNCHANGED pointerVars /\ ReconcilePut(w, rec)
    BY <1>7 DEF ReconcileRollback, BeforeRun
  <2>2. Successor(call[w].run, call[w].snap, rec)
    BY ZenonT(60), <2>1, CallFields, ConstantsTyped DEF Successor, RunRecord, RunStatus, PublicationInv,
                            CallInv, AfterPublication
  <2>. QED BY <2>1, <2>2, ReconcilePutEffect
<1>. QED BY <1>1, <1>2, <1>3, <1>4, <1>5, <1>6, <1>7 DEF Reconcile
LEMMA RollbackStep ==
    ASSUME ConstantAssumption, TypeOK, PublicationInv, NEW w \in Workers, Rollback(w)
    PROVE  CallStep(w)
<1>. USE TypeParts
<1>. DEFINE r == call[w].run
            g == call[w].fence
<1>1. ASSUME NEW s \in Runs, RollbackStart(w, s)
      PROVE  CallStep(w)
  <2>1. UNCHANGED pointerVars /\ runs' = runs /\ runs[s].status # "absent"
    BY <1>1 DEF RollbackStart, runVars
  <2>2. pointer' # NoPointer /\ pointer.art \in everActive
    BY <2>1 DEF PublicationInv, BootstrapInv, HistoryInv, pointerVars
  <2>3. PICK label \in {"reconcile", "rb_lease"} :
            Enter(w, s, label) /\ (label = "rb_lease" => CurrentFor(s))
    BY <1>1 DEF RollbackStart
  <2>4. /\ call'[w] = [NoCall EXCEPT !.pc = label, !.run = s]
        /\ \A v \in Workers \ {w} : call'[v] = call[v]
    BY <2>3, OthersKept DEF Enter
  <2>5. CallInv(w)'
    BY <2>1, <2>2, <2>3, <2>4 DEF CallInv, NoCall, AfterPublication, CurrentFor, pointerVars
  <2>. QED BY <2>1, <2>2, <2>4, <2>5, QuietEffect DEF CallStep
<1>2. CASE RollbackLease(w)
  <2>. DEFINE allowed == {"committed", "rolling_back"}
  <2>1. /\ call[w].pc = "rb_lease" /\ call[w].pc \notin BeforeRun /\ UNCHANGED pointerVars
        /\ pointer' # NoPointer /\ call[w].pc # "idle"
    BY <1>2, ActiveCall DEF RollbackLease, BeforeRun, pointerVars
  <2>2. /\ r \in Runs /\ runs[r].status # "absent"
        /\ Published(r) \in everActive /\ everActive' = everActive
    BY <2>1, CallFields DEF PublicationInv, CallInv, AfterPublication, BeforeRun, pointerVars
  <2>3. CASE /\ runs[r].lease = "operation" /\ UNCHANGED runVars
             /\ call' = [call EXCEPT ![w].pc = "rb_read", ![w].fence = runs[r].gen,
                                     ![w].snap = runs[r]]
    <3>1. /\ call'[w].pc = "rb_read"
          /\ call'[w].run = r
          /\ call'[w].fence = runs[r].gen
          /\ \A v \in Workers \ {w} : call'[v] = call[v]
      BY <2>3 DEF CallsTyped, CallRecord
    <3>2. runs[r].gen # 0 /\ runs' = runs
      BY <2>2, <2>3 DEF PublicationInv, RunInv, runVars
    <3>3. CallInv(w)'
      BY <2>2, <3>1, <3>2 DEF CallInv, AfterPublication
    <3>. QED BY <2>1, <3>1, <3>2, <3>3, QuietEffect DEF CallStep
  <2>4. CASE \E kind \in {"own", "operation"} :
                TakeLease(w, kind, allowed, "rolling_back", "rb_read")
    <3>1. PICK kind \in {"own", "operation"} :
                TakeLease(w, kind, allowed, "rolling_back", "rb_read")
      BY <2>4
    <3>. HIDE DEF allowed
    <3>2. LeaseOutcome(w, "rb_read")
      BY ONLY ConstantAssumption, TypeOK, PublicationInv, w \in Workers,
              kind \in {"own", "operation"}, <2>1, <2>2, <3>1, TakeLeaseEffect
    <3>3. StepEffect
      BY <2>1, <3>2 DEF StepEffect, LeaseOutcome
    <3>4. runs'[r].status # "absent"
      BY <2>2, <3>3, EffectStable DEF Stable
    <3>5. CallInv(w)'
      BY <2>2, <3>2, <3>4 DEF CallInv, AfterPublication, LeaseOutcome
    <3>. QED BY <2>1, <3>2, <3>3, <3>5 DEF CallStep, LeaseOutcome
  <2>. QED BY <1>2, <2>3, <2>4 DEF RollbackLease
<1>3. CASE RollbackRead(w)
  <2>1. /\ call[w].pc = "rb_read" /\ call[w].pc \notin BeforeRun /\ UNCHANGED pointerVars
        /\ pointer' # NoPointer /\ runs' = runs
    BY <1>3, ActiveCall DEF RollbackRead, BeforeRun, pointerVars, runVars
  <2>2. CASE Goto(w, "rb_release")
    BY <2>1, <2>2, GotoKeeps, QuietEffect DEF CallStep, AfterPublication, pointerVars
  <2>3. CASE /\ CurrentFor(r)
             /\ call' = [call EXCEPT ![w].pc = "rb_prepare", ![w].ptr = pointer]
    <3>1. /\ call'[w].pc = "rb_prepare"
          /\ call'[w].run = r
          /\ call'[w].fence = g
          /\ call'[w].ptr = pointer
          /\ \A v \in Workers \ {w} : call'[v] = call[v]
      BY <2>3 DEF CallsTyped, CallRecord
    <3>2. CallInv(w)'
      BY <2>1, <2>3, <3>1
         DEF CallInv, PublicationInv, AfterPublication, BeforeRun, CurrentFor, pointerVars
    <3>. QED BY <2>1, <3>1, <3>2, QuietEffect DEF CallStep
  <2>. QED BY <1>3, <2>2, <2>3 DEF RollbackRead
<1>4. CASE PrepareRollback(w) \/ ValidateRollback(w) \/ AssertRollback(w) \/ RollbackFault(w)
           \/ RollbackAnswerLost(w) \/ RollbackFailed(w) \/ RollbackCleanup(w)
  <2>1. /\ call[w].pc \notin BeforeRun /\ call[w].pc \in AfterPublication
        /\ UNCHANGED pointerVars /\ runs' = runs /\ pointer' # NoPointer
    BY <1>4, ActiveCall DEF PrepareRollback, ValidateRollback, AssertRollback, RollbackFault,
           RollbackAnswerLost, RollbackFailed, RollbackCleanup, BeforeRun, AfterPublication,
           runVars, pointerVars
  <2>2. \/ Return(w)
        \/ \E label \in {"rb_failed", "rb_cleanup", "rb_release"} : Goto(w, label)
        \/ /\ call[w].pc \in {"rb_prepare", "rb_record", "rb_validate", "rb_assert", "rb_cas"}
           /\ \E label \in {"rb_record", "rb_assert", "rb_cas"} : Goto(w, label)
    BY <1>4 DEF PrepareRollback, ValidateRollback, AssertRollback, RollbackFault,
           RollbackAnswerLost, RollbackFailed, RollbackCleanup
  <2>3. CASE Return(w)
    BY <2>1, <2>3, ReturnKeeps, QuietEffect DEF CallStep
  <2>4. ASSUME NEW label \in {"rb_failed", "rb_cleanup", "rb_release"}, Goto(w, label)
        PROVE  CallStep(w)
    BY <2>1, <2>4, GotoKeeps, QuietEffect DEF CallStep, AfterPublication, pointerVars
  <2>5. ASSUME NEW label \in {"rb_record", "rb_assert", "rb_cas"}, Goto(w, label),
               call[w].pc \in {"rb_prepare", "rb_record", "rb_validate", "rb_assert", "rb_cas"}
        PROVE  CallStep(w)
    BY <2>1, <2>5, GotoKeeps, QuietEffect DEF CallStep, AfterPublication, pointerVars
  <2>. QED BY <2>2, <2>3, <2>4, <2>5
<1>5. CASE RecordRollback(w)
  <2>. DEFINE rec == [call[w].snap EXCEPT !.status = "rolling_back", !.rollback = g]
  <2>1. /\ call[w].pc = "rb_record" /\ call[w].pc \notin BeforeRun /\ call[w].pc # "idle"
        /\ UNCHANGED pointerVars /\ pointer' # NoPointer
    BY <1>5, ActiveCall DEF RecordRollback, BeforeRun, pointerVars
  <2>2. /\ Published(r) \in everActive
        /\ call[w].ptr.art = Published(r)
        /\ g # 0
    BY <2>1 DEF PublicationInv, CallInv, AfterPublication
  <2>3. Successor(r, call[w].snap, rec)
    BY <2>1, <2>2, CallFields DEF Successor, RunRecord, RunStatus
  <2>4. CASE FencedUpdate(w, rec, "rb_validate")
    <3>1. /\ \A s \in Runs : RunEffect(s)
          /\ runs'[r] = rec
          /\ \A v \in Workers \ {w} : call'[v] = call[v]
          /\ call'[w].pc = "rb_validate"
          /\ call'[w].run = r
          /\ call'[w].fence = g
          /\ call'[w].ptr = call[w].ptr
      BY <2>1, <2>3, <2>4, FencedUpdateEffect
    <3>2. CallInv(w)'
      BY <2>1, <2>2, <2>3, <3>1 DEF CallInv, AfterPublication, Successor, pointerVars
    <3>. QED BY <2>1, <3>1, <3>2 DEF CallStep, StepEffect
  <2>5. CASE Fenced(w, "rb_failed")
    <3>1. Goto(w, "rb_failed") /\ runs' = runs
      BY <2>5 DEF Fenced, runVars
    <3>. QED BY <2>1, <3>1, GotoKeeps, QuietEffect DEF CallStep, AfterPublication, pointerVars
  <2>. QED BY <1>5, <2>4, <2>5 DEF RecordRollback
<1>6. CASE CasRollbackPointer(w)
  <2>. DEFINE a == RolledBack(r, g)
  <2>1. /\ call[w].pc = "rb_cas" /\ call[w].pc \notin BeforeRun /\ pointer # NoPointer
        /\ runs' = runs /\ call[w].pc # "idle"
    BY <1>6, ActiveCall DEF CasRollbackPointer, BeforeRun, runVars
  <2>2. CASE pointer = call[w].ptr
    <3>1. /\ pointer' = NewPointer(a, g)
          /\ everActive' = everActive \cup {a}
          /\ Goto(w, "rb_finish")
      BY <1>6, <2>2 DEF CasRollbackPointer
    <3>2. pointer'.art = a /\ pointer' # NoPointer
      BY <2>1, <3>1, CallFields, ArtifactsTyped, NewPointerTyped
    <3>3. pointer.art = Published(r) /\ g \in Gens \ {0} /\ r \in Runs
      BY <2>1, <2>2, CallFields DEF PublicationInv, CallInv
    <3>4. RollsBack
      BY <3>1, <3>2, <3>3 DEF RollsBack
    <3>5. CallInv(w)' /\ \A v \in Workers \ {w} : call'[v] = call[v]
      BY <2>1, <3>1, GotoKeeps DEF AfterPublication
    <3>. QED BY <2>1, <3>2, <3>4, <3>5 DEF CallStep, StepEffect
  <2>3. CASE pointer # call[w].ptr
    <3>1. Goto(w, "rb_failed") /\ UNCHANGED pointerVars
      BY <1>6, <2>3 DEF CasRollbackPointer
    <3>. QED BY <2>1, <3>1, GotoKeeps, QuietEffect DEF CallStep, AfterPublication, pointerVars
  <2>. QED BY <2>2, <2>3
<1>7. CASE FinishRollback(w)
  <2>. DEFINE rec == RolledBackFrom(call[w].snap)
              h == call[w].snap.rollback
  <2>1. /\ call[w].pc = "rb_finish" /\ call[w].pc \notin BeforeRun /\ call[w].pc # "idle"
        /\ UNCHANGED pointerVars /\ pointer' # NoPointer /\ pointer.art \in everActive
    BY <1>7, ActiveCall DEF FinishRollback, BeforeRun, pointerVars
  <2>2. CASE Return(w) /\ UNCHANGED runVars
    BY <2>1, <2>2, ReturnKeeps, QuietEffect DEF CallStep, runVars
  <2>3. CASE /\ RollbackMatches(r, call[w].snap, pointer)
             /\ FencedUpdate(w, rec, "idle") \/ Fenced(w, "idle")
    <3>1. h \in Gens \ {0} /\ RolledBack(r, h) \in everActive /\ Published(r) \in everActive
      BY <2>1, <2>3, CallFields
         DEF RollbackMatches, PublicationInv, CallInv, AfterPublication, RunRecord
    <3>2. Successor(r, call[w].snap, rec)
      BY <2>1, <3>1, CallFields DEF Successor, RunRecord, RunStatus, RolledBackFrom
    <3>. QED BY <2>1, <2>3, <3>2, FencedReturn
  <2>. QED BY <1>7, <2>2, <2>3 DEF FinishRollback
<1>8. CASE ReleaseRollbackForRetry(w)
  <2>. DEFINE rec == [call[w].snap EXCEPT !.status = "committed", !.lease = "none", !.rollback = 0]
  <2>1. /\ call[w].pc = "rb_release" /\ call[w].pc \notin BeforeRun /\ call[w].pc # "idle"
        /\ UNCHANGED pointerVars
        /\ FencedUpdate(w, rec, "idle") \/ Fenced(w, "idle")
    BY <1>8 DEF ReleaseRollbackForRetry, BeforeRun
  <2>2. Published(r) \in everActive /\ call[w].snap \in RunRecord
    BY <2>1, CallFields DEF PublicationInv, CallInv, AfterPublication
  <2>3. Successor(r, call[w].snap, rec)
    BY <2>2, ConstantsTyped DEF Successor, RunRecord, RunStatus
  <2>. QED BY <2>1, <2>3, FencedReturn
<1>. QED BY <1>1, <1>2, <1>3, <1>4, <1>5, <1>6, <1>7, <1>8 DEF Rollback

-----------------------------------------------------------------------------
(* The invariant holds, and every step of the coordinator is one the       *)
(* pointer's promise allows.                                               *)

(* What a call has read stays usable while other calls move.               *)
LEMMA CallStable ==
    ASSUME TypeOK, Stable, NEW v \in Workers, CallInv(v), call'[v] = call[v]
    PROVE  CallInv(v)'
<1>1. CASE call[v].pc = "idle"
  BY <1>1 DEF CallInv, AfterPublication
<1>2. CASE call[v].pc \in {"annotate", "create"}
  BY <1>2 DEF CallInv, AfterPublication, Stable
<1>3. CASE call[v].pc \notin BeforeRun
  <2>1. call[v].run \in Runs /\ runs[call[v].run].status # "absent"
    BY <1>3 DEF TypeOK, CallInv, BeforeRun
  <2>2. /\ runs'[call[v].run].status # "absent"
        /\ runs'[call[v].run].prev = runs[call[v].run].prev
    BY <2>1 DEF Stable
  <2>3. everActive \subseteq everActive'
    BY DEF Stable
  <2>. QED BY <1>3, <2>2, <2>3 DEF CallInv, BeforeRun
<1>. QED BY <1>1, <1>2, <1>3 DEF BeforeRun

LEMMA CallStepKeeps ==
    ASSUME ConstantAssumption, TypeOK, PublicationInv, NEW w \in Workers, CallStep(w)
    PROVE  PublicationInv'
<1>1. HistoryInv' /\ (\A r \in Runs : RunInv(r)') /\ StatusBackedByPointer' /\ SingleWinner'
  BY RunEffectKeeps, PointerEffectKeeps DEF CallStep, StepEffect
<1>2. BootstrapInv'
  BY DEF CallStep, BootstrapInv
<1>3. \A v \in Workers : CallInv(v)'
  BY EffectStable, CallStable DEF CallStep, PublicationInv
<1>. QED BY <1>1, <1>2, <1>3 DEF PublicationInv

LEMMA PublicationNext ==
    ASSUME ConstantAssumption, TypeOK, PublicationInv, [Next]_vars
    PROVE  PublicationInv' /\ StepEffect
<1>1. ASSUME NEW w \in Workers, Begin(w) \/ Commit(w) \/ Reconcile(w) \/ Rollback(w) \/ Crash(w)
      PROVE  PublicationInv' /\ StepEffect
  <2>1. CASE Crash(w)
    <3>1. UNCHANGED pointerVars /\ runs' = runs /\ pointer' # NoPointer
      BY <2>1, ActiveCall DEF Crash, runVars, pointerVars
    <3>2. CallStep(w)
      BY <2>1, <3>1, TypeParts, ReturnKeeps, QuietEffect DEF Crash, CallStep
    <3>. QED BY <3>2, CallStepKeeps DEF CallStep
  <2>2. CASE Begin(w) \/ Commit(w) \/ Reconcile(w) \/ Rollback(w)
    <3>1. CallStep(w)
      BY <2>2, BeginStep, CommitStep, ReconcileStep, RollbackStep
    <3>. QED BY <3>1, CallStepKeeps DEF CallStep
  <2>. QED BY <1>1, <2>1, <2>2
<1>2. CASE (\E r \in Runs : Expire(r)) \/ UNCHANGED vars
  <2>1. /\ UNCHANGED pointerVars /\ runs' = runs /\ call' = call
        /\ manifest' = manifest
    BY <1>2 DEF Expire, vars, pointerVars, store
  <2>2. StepEffect /\ \A r \in Runs : RunEffect(r)
    BY <2>1, QuietEffect DEF RunEffect
  <2>3. HistoryInv' /\ (\A r \in Runs : RunInv(r)') /\ StatusBackedByPointer' /\ SingleWinner'
    BY <2>1, <2>2, RunEffectKeeps
  <2>4. BootstrapInv'
    BY <2>1 DEF PublicationInv, BootstrapInv, pointerVars
  <2>5. \A v \in Workers : CallInv(v)'
    BY <2>1, <2>2, EffectStable, CallStable DEF PublicationInv
  <2>. QED BY <2>2, <2>3, <2>4, <2>5 DEF PublicationInv
<1>. QED BY <1>1, <1>2 DEF Next

LEMMA PublicationInit ==
    ASSUME ConstantAssumption, Init
    PROVE  PublicationInv
<1>1. /\ pointer = NoPointer /\ everActive = {}
      /\ \A r \in Runs : runs[r] = AbsentRun
      /\ \A w \in Workers : call[w] = NoCall
      /\ \A a \in Artifacts \ {Source} : manifest[a].state = "absent"
  BY DEF Init, AbsentManifest
<1>2. HistoryInv /\ BootstrapInv
  BY <1>1 DEF HistoryInv, BootstrapInv, AbsentRun, NoCall
<1>3. \A r \in Runs : RunInv(r)
  BY <1>1 DEF RunInv, AbsentRun
<1>4. \A w \in Workers : CallInv(w)
  BY <1>1 DEF CallInv, NoCall, AfterPublication
<1>5. StatusBackedByPointer /\ SingleWinner
  BY <1>1 DEF StatusBackedByPointer, SingleWinner, AbsentRun
<1>. QED BY <1>2, <1>3, <1>4, <1>5 DEF PublicationInv

(* The inductive invariant of the coordinator: what runs, calls and the    *)
(* pointer's history know of each other between any two awaits.            *)
THEOREM PublicationInvariant == Spec => []PublicationInv
<1>1. Init => PublicationInv
  BY PublicationInit, ConstantAssumption
<1>2. TypeOK /\ PublicationInv /\ [Next]_vars => PublicationInv'
  BY PublicationNext, ConstantAssumption
<1>. QED BY <1>1, <1>2, TypeCorrect, PTL DEF Spec

(* Of the runs staged against one active artifact at most one is ever      *)
(* published by commit, retry, reconcile or rollback, however many calls   *)
(* work on them and wherever they stall or die.                            *)
THEOREM OneWinner == Spec => []SingleWinner
<1>1. PublicationInv => SingleWinner
  BY DEF PublicationInv
<1>. QED BY <1>1, PublicationInvariant, PTL

(* A run reports committed, rolling_back or rolled_back only when the      *)
(* pointer has moved accordingly: no finish, reconcile or release writes a *)
(* status the pointer does not back.                                       *)
THEOREM StatusBacked == Spec => []StatusBackedByPointer
<1>1. PublicationInv => StatusBackedByPointer
  BY DEF PublicationInv
<1>. QED BY <1>1, PublicationInvariant, PTL

(* A step of the coordinator is a publication of an artifact the pointer   *)
(* has never named, or leaves the pointer alone.                           *)
LEMMA PromiseStep ==
    ASSUME ConstantAssumption, TypeOK, PublicationInv, StepEffect
    PROVE  [Promise!Next]_(Promise!pvars)
<1>1. CASE UNCHANGED pointerVars
  BY <1>1 DEF pointerVars, Promise!pvars
<1>2. ASSUME NEW a \in Artifacts, pointer # NoPointer, a \notin everActive, pointer'.art = a,
             everActive' = everActive \cup {a}
      PROVE  Promise!Next
  <2>1. pointer.art \in everActive /\ pointer.art # NoArtifact
    BY <1>2, DistinctArtifacts DEF PublicationInv, HistoryInv, TypeOK
  <2>. QED BY <1>2, <2>1 DEF Promise!Next, Promise!Publish
<1>3. CASE Bootstraps
  <2>1. /\ pointer.art = NoArtifact /\ everActive = {}
        /\ pointer'.art = Source /\ everActive' = {Source}
    BY <1>3, DistinctArtifacts DEF Bootstraps, PublicationInv, HistoryInv
  <2>. QED BY <2>1, ArtifactsTyped DEF Promise!Next, Promise!Publish
<1>4. CASE pointer # NoPointer /\ CutsOver
  BY <1>2, <1>4, FreshCutover, ArtifactsTyped DEF CutsOver
<1>5. CASE pointer # NoPointer /\ RollsBack
  BY <1>2, <1>5, FreshRollback, ArtifactsTyped DEF RollsBack
<1>. QED BY <1>1, <1>3, <1>4, <1>5 DEF StepEffect

(* The staged publication coordinator implements the active pointer's      *)
(* promise: whatever interleaving of begins, commits, reconciles and       *)
(* rollbacks, an artifact that has left the pointer never returns to it.   *)
THEOREM ImplementsPromise == Spec => PointerPromise
<1>1. Init => Promise!Init
  BY DEF Init, NoPointer, Promise!Init
<1>2. TypeOK /\ PublicationInv /\ [Next]_vars => [Promise!Next]_(Promise!pvars)
  BY PublicationNext, PromiseStep, ConstantAssumption
<1>. QED BY <1>1, <1>2, TypeCorrect, PublicationInvariant, PTL
         DEF Spec, PointerPromise, Promise!Spec

-----------------------------------------------------------------------------
(* What readers see.                                                       *)

(* The manifest of the source counts as a publication until it is given a  *)
(* pointer; that comes before any run exists and anything else is active.  *)
Annotated == manifest[Source].control # NoControl

VisibilityInv ==
    /\ \A a \in Artifacts \ {Source} : manifest[a].state # "absent" =>
          manifest[a].control # NoControl /\ Annotated
    /\ \A r \in Runs : runs[r].status # "absent" => Annotated
    /\ \A w \in Workers :
          /\ call[w].pc = "create" => Annotated
          /\ call[w].pc = "annotate" => call[w].src = Source \/ Annotated

(* A control, once there, is only replaced by another one. *)
ControlsKept ==
    /\ Annotated => Annotated'
    /\ \A a \in Artifacts \ {Source} : manifest'[a].state # "absent" =>
          \/ manifest'[a].control # NoControl
          \/ manifest[a].state # "absent" /\ manifest'[a].control = manifest[a].control

LEMMA ControlNamesArtifact ==
    ASSUME ConstantAssumption, NEW a \in Artifacts, NEW g
    PROVE  [art |-> a, gen |-> g] # NoControl
BY DistinctArtifacts DEF NoControl

LEMMA DeleteKeepsControls ==
    ASSUME StoreTyped, ConstantAssumption, NEW a \in Artifacts \ {Source}, NEW g, DeleteArtifact(a, g)
    PROVE  ControlsKept
<1>1. /\ manifest'[a] = AbsentManifest
      /\ \A b \in Artifacts \ {a} : manifest'[b] = manifest[b]
  BY DEF DeleteArtifact, StoreTyped
<1>. QED BY <1>1, ArtifactsTyped DEF ControlsKept, Annotated, AbsentManifest

LEMMA SupersedeKeepsControls ==
    ASSUME StoreTyped, ConstantAssumption, NEW a, Supersede(a)
    PROVE  ControlsKept
<1>1. ASSUME NEW b \in Artifacts
      PROVE  /\ manifest'[b].control = manifest[b].control
             /\ manifest'[b].state # "absent" => manifest[b].state # "absent"
  BY DEF Supersede, StoreTyped, ManifestRecord
<1>. QED BY <1>1, ArtifactsTyped DEF ControlsKept, Annotated

LEMMA PutManifestKeepsControls ==
    ASSUME StoreTyped, ConstantAssumption, NEW a \in Artifacts, NEW b \in Artifacts, NEW g,
           manifest' = [manifest EXCEPT ![b] = [state |-> "active", control |-> [art |-> a, gen |-> g]]]
    PROVE  ControlsKept
<1>1. /\ manifest'[b].control = [art |-> a, gen |-> g]
      /\ \A c \in Artifacts \ {b} : manifest'[c] = manifest[c]
  BY DEF StoreTyped
<1>2. manifest'[b].control # NoControl
  BY <1>1, ControlNamesArtifact
<1>. QED BY <1>1, <1>2, ArtifactsTyped DEF ControlsKept, Annotated

LEMMA SourceIsNoRun ==
    ASSUME ConstantAssumption
    PROVE  /\ \A r \in Runs : Published(r) \in Artifacts \ {Source}
           /\ \A r \in Runs, g \in Gens : RolledBack(r, g) \in Artifacts \ {Source}
BY ArtifactsTyped, DistinctArtifacts, ConstantsTyped

(* The source is annotated with the pointer the call has read. *)
LEMMA AnnotateControls ==
    ASSUME ConstantAssumption, TypeOK, PublicationInv, NEW w \in Workers, Annotate(w)
    PROVE  /\ ControlsKept
           /\ call'[w].pc = "create" => Annotated' \/ call[w].src # Source
           /\ call'[w].pc \in {"idle", "create"}
           /\ \A v \in Workers \ {w} : call'[v] = call[v]
<1>. DEFINE a == call[w].src
<1>1. StoreTyped /\ CallsTyped /\ RunsTyped /\ call[w].pc = "annotate"
  BY TypeParts DEF Annotate
<1>2. call[w] \in CallRecord /\ call[w].ptr.art \in Artifacts
  BY <1>1, CallFields DEF PublicationInv, CallInv, TypeOK
<1>3. CASE manifest[a].state = "absent"
  <2>1. UNCHANGED manifest /\ call' = [call EXCEPT ![w] = NoCall]
    BY <1>3 DEF Annotate, Return
  <2>. QED BY <1>1, <2>1, OthersKept, ConstantsTyped DEF ControlsKept, Annotated
<1>4. CASE manifest[a].state # "absent"
  <2>1. /\ manifest' = [manifest EXCEPT ![a].control = ControlOf(call[w].ptr)]
        /\ Goto(w, "create")
    BY <1>4 DEF Annotate
  <2>2. ControlOf(call[w].ptr) # NoControl
    BY <1>2, ControlNamesArtifact DEF ControlOf
  <2>3. \A b \in Artifacts : manifest'[b] = IF b = a THEN [manifest[b] EXCEPT !.control = ControlOf(call[w].ptr)]
                                                    ELSE manifest[b]
    BY <1>1, <2>1 DEF StoreTyped
  <2>4. \A b \in Artifacts : /\ manifest'[b].state = manifest[b].state
                            /\ manifest'[b].control = IF b = a THEN ControlOf(call[w].ptr)
                                                              ELSE manifest[b].control
    BY ZenonT(60), <1>1, <2>3 DEF StoreTyped, ManifestRecord
  <2>5. ControlsKept /\ (a = Source => Annotated')
    BY <2>2, <2>4, ArtifactsTyped DEF ControlsKept, Annotated
  <2>. QED BY <1>1, <2>1, <2>5, GotoCall
<1>. QED BY <1>3, <1>4

LEMMA StepKeepsControls ==
    ASSUME ConstantAssumption, TypeOK, PublicationInv, [Next]_vars
    PROVE  ControlsKept
<1>. USE TypeParts
<1>0. manifest' = manifest => ControlsKept
  BY DEF ControlsKept, Annotated
<1>1. ASSUME NEW w \in Workers, Begin(w) PROVE ControlsKept
  BY <1>0, <1>1, AnnotateControls
  DEF Begin, BeginRead, CreateRun, StageLease, RecordStaged, store
<1>2. ASSUME NEW w \in Workers, Commit(w) PROVE ControlsKept
  <2>1. CASE Prepare(w)
    <3>1. Published(call[w].run) \in Artifacts
      BY <2>1, CallFields, ArtifactsTyped DEF Prepare
    <3>. QED BY <1>0, <2>1, <3>1, PutManifestKeepsControls DEF Prepare
  <2>2. CASE CommitCleanup(w)
    <3>1. Published(call[w].run) \in Artifacts \ {Source}
      BY <2>2, CallFields, SourceIsNoRun DEF CommitCleanup
    <3>. QED BY <2>2, <3>1, DeleteKeepsControls DEF CommitCleanup
  <2>3. CASE SupersedePrevious(w)
    BY <2>3, SupersedeKeepsControls DEF SupersedePrevious
  <2>. QED BY <1>0, <1>2, <2>1, <2>2, <2>3
           DEF Commit, CommitStart, CommitLease, RecordPrepared, ReadPointer, CasPointer, Finish, FinishOnly,
               CleanupStaged, CommitFault, CommitFailed, ReleaseCommitForRetry, store
<1>3. ASSUME NEW w \in Workers, Reconcile(w) PROVE ControlsKept
  <2>1. CASE ReconcileCommittedTidy(w)
    BY <2>1, SupersedeKeepsControls DEF ReconcileCommittedTidy
  <2>2. CASE ReconcileExpiredTidy(w)
    <3>1. Published(call[w].run) \in Artifacts \ {Source}
      BY <2>2, CallFields, SourceIsNoRun DEF ReconcileExpiredTidy
    <3>. QED BY <1>0, <2>2, <3>1, DeleteKeepsControls DEF ReconcileExpiredTidy
  <2>3. CASE ReconcileRollbackTidy(w)
    <3>1. RolledBack(call[w].run, call[w].snap.rollback) \in Artifacts \ {Source}
      BY <2>3, CallFields, SourceIsNoRun DEF ReconcileRollbackTidy, RunRecord
    <3>. QED BY <1>0, <2>3, <3>1, DeleteKeepsControls DEF ReconcileRollbackTidy
  <2>. QED BY <1>0, <1>3, <2>1, <2>2, <2>3
           DEF Reconcile, ReconcileStart, ReconcileRead, ReconcileRolledBack, ReconcileCommitted,
               ReconcileExpired, ReconcileRollback, store
<1>4. ASSUME NEW w \in Workers, Rollback(w) PROVE ControlsKept
  <2>1. CASE PrepareRollback(w) \/ RollbackCleanup(w)
    <3>1. RolledBack(call[w].run, call[w].fence) \in Artifacts \ {Source}
      BY <2>1, CallFields, SourceIsNoRun DEF PrepareRollback, RollbackCleanup
    <3>. QED BY <1>0, <2>1, <3>1, DeleteKeepsControls, PutManifestKeepsControls
             DEF PrepareRollback, RollbackCleanup
  <2>. QED BY <1>0, <1>4, <2>1
           DEF Rollback, RollbackStart, RollbackLease, RollbackRead, RecordRollback, ValidateRollback,
               AssertRollback, CasRollbackPointer, FinishRollback, RollbackFault, RollbackAnswerLost,
               RollbackFailed, ReleaseRollbackForRetry, store
<1>5. ASSUME NEW w \in Workers, Crash(w) PROVE ControlsKept
  BY <1>0, <1>5 DEF Crash, store
<1>6. CASE (\E r \in Runs : Expire(r)) \/ UNCHANGED vars
  BY <1>0, <1>6 DEF Expire, vars, store
<1>. QED BY <1>1, <1>2, <1>3, <1>4, <1>5, <1>6 DEF Next

(* While the source is not annotated calls only begin. *)
LEMMA NothingBeforeAnnotation ==
    ASSUME ConstantAssumption, TypeOK, PublicationInv, VisibilityInv, ~Annotated, [Next]_vars
    PROVE  \/ \E w \in Workers : \/ \E r \in Runs, a \in Artifacts : BeginRead(w, r, a)
                                \/ Annotate(w) \/ Crash(w)
           \/ UNCHANGED <<runs, manifest, call>>
<1>1. \A r \in Runs : runs[r].status = "absent"
  BY DEF VisibilityInv
<1>2. \A w \in Workers : call[w].pc \in {"idle", "annotate"}
  <2>1. \A w \in Workers : call[w].pc # "idle" => call[w].run \in Runs
    BY TypeParts DEF CallsTyped
  <2>. QED BY <1>1, <2>1 DEF VisibilityInv, PublicationInv, CallInv
<1>3. ASSUME NEW w \in Workers PROVE ~Commit(w) /\ ~Reconcile(w) /\ ~Rollback(w)
  <2>1. ~Commit(w)
    BY <1>1, <1>2
    DEF Commit, CommitStart, CommitLease, Prepare, RecordPrepared, ReadPointer, CasPointer, Finish,
        FinishOnly, SupersedePrevious, CleanupStaged, CommitFault, CommitFailed, CommitCleanup,
        ReleaseCommitForRetry
  <2>2. ~Reconcile(w)
    BY <1>1, <1>2
    DEF Reconcile, ReconcileStart, ReconcileRead, ReconcileRolledBack, ReconcileCommittedTidy,
        ReconcileCommitted, ReconcileExpiredTidy, ReconcileExpired, ReconcileRollbackTidy, ReconcileRollback
  <2>3. ~Rollback(w)
    BY <1>1, <1>2
    DEF Rollback, RollbackStart, RollbackLease, RollbackRead, PrepareRollback, RecordRollback,
        ValidateRollback, AssertRollback, CasRollbackPointer, FinishRollback, RollbackFault,
        RollbackAnswerLost, RollbackFailed, RollbackCleanup, ReleaseRollbackForRetry
  <2>. QED BY <2>1, <2>2, <2>3
<1>4. ASSUME NEW w \in Workers, Begin(w)
      PROVE  (\E r \in Runs, a \in Artifacts : BeginRead(w, r, a)) \/ Annotate(w)
  BY <1>2, <1>4 DEF Begin, CreateRun, StageLease, RecordStaged
<1>5. (\E r \in Runs : Expire(r)) \/ UNCHANGED vars => UNCHANGED <<runs, manifest, call>>
  BY DEF Expire, vars, store
<1>. QED BY <1>3, <1>4, <1>5 DEF Next

LEMMA VisibilityNext ==
    ASSUME ConstantAssumption, TypeOK, PublicationInv, VisibilityInv, [Next]_vars
    PROVE  VisibilityInv'
<1>0. ControlsKept
  BY StepKeepsControls
<1>1. CASE Annotated
  BY <1>0, <1>1 DEF ControlsKept, VisibilityInv
<1>2. CASE ~Annotated /\ Annotated'
  BY <1>0, <1>2 DEF ControlsKept, VisibilityInv
<1>3. CASE ~Annotated /\ ~Annotated'
  <2>1. /\ \A a \in Artifacts \ {Source} : manifest[a].state = "absent"
        /\ \A r \in Runs : runs[r].status = "absent"
    BY <1>3 DEF VisibilityInv
  <2>2. ASSUME NEW w \in Workers, NEW r \in Runs, NEW a \in Artifacts, BeginRead(w, r, a)
        PROVE  VisibilityInv'
    <3>1. a = Source
      BY <2>1, <2>2 DEF BeginRead
    <3>. DEFINE begun == [NoCall EXCEPT !.pc = "annotate", !.run = r, !.src = a, !.ptr = pointer']
    <3>t. CallsTyped
      BY TypeParts
    <3>c. call' = [call EXCEPT ![w] = begun]
      BY <2>2 DEF BeginRead
    <3>f. begun.pc = "annotate" /\ begun.src = Source
      BY <3>1 DEF NoCall
    <3>. HIDE DEF begun
    <3>2. /\ call'[w].src = Source /\ call'[w].pc = "annotate"
          /\ \A v \in Workers \ {w} : call'[v] = call[v]
      BY <3>t, <3>c, <3>f, OthersKept
    <3>3. UNCHANGED <<runs, manifest>>
      BY <2>2 DEF BeginRead, runVars, store
    <3>. QED BY <3>2, <3>3 DEF VisibilityInv, Annotated
  <2>3. ASSUME NEW w \in Workers, Annotate(w)
        PROVE  VisibilityInv'
    <3>1. /\ call'[w].pc = "idle"
          /\ \A v \in Workers \ {w} : call'[v] = call[v]
      BY <1>3, <2>3, AnnotateControls DEF VisibilityInv, Annotate
    <3>2. runs' = runs /\ \A b \in Artifacts : manifest'[b].state = manifest[b].state
      BY <2>3, TypeParts DEF Annotate, runVars, StoreTyped, ManifestRecord
    <3>. QED BY <2>1, <3>1, <3>2, <1>3 DEF VisibilityInv
  <2>4. ASSUME NEW w \in Workers, Crash(w)
        PROVE  VisibilityInv'
    <3>t. CallsTyped
      BY TypeParts
    <3>c. call' = [call EXCEPT ![w] = NoCall]
      BY <2>4 DEF Crash, Return
    <3>1. call'[w].pc = "idle" /\ \A v \in Workers \ {w} : call'[v] = call[v]
      BY <3>t, <3>c, ConstantsTyped, OthersKept
    <3>2. UNCHANGED <<runs, manifest>>
      BY <2>4 DEF Crash, runVars, store
    <3>. QED BY <3>1, <3>2 DEF VisibilityInv, Annotated
  <2>5. CASE UNCHANGED <<runs, manifest, call>>
    BY <2>5 DEF VisibilityInv, Annotated
  <2>. QED BY <1>3, <2>2, <2>3, <2>4, <2>5, NothingBeforeAnnotation
<1>. QED BY <1>1, <1>2, <1>3

(* The readers' rule: an active manifest is the publication if it carries  *)
(* the pointer's artifact and generation, or no control at all.            *)
LEMMA OneVisible ==
    ASSUME ConstantAssumption, TypeOK, PublicationInv, VisibilityInv
    PROVE  AtMostOneVisible
<1>. SUFFICES ASSUME NEW a \in Artifacts, NEW b \in Artifacts, Visible(a), Visible(b), a # b
              PROVE  FALSE
  BY DEF AtMostOneVisible
<1>1. ASSUME NEW c \in Artifacts, Visible(c), manifest[c].control = NoControl PROVE c = Source /\ ~Annotated
  BY <1>1 DEF Visible, Current, VisibilityInv, Annotated
<1>2. ASSUME NEW c \in Artifacts, Visible(c), manifest[c].control # NoControl PROVE pointer.art = c
  BY <1>2 DEF Visible, Current
<1>3. ASSUME NEW c \in Artifacts, Visible(c), c # Source PROVE Annotated
  BY <1>3 DEF Visible, VisibilityInv
<1>. QED BY <1>1, <1>2, <1>3

(* Of the manifests of a document the readers never take two for the       *)
(* current publication, the not yet annotated source included, whatever    *)
(* begins, commits, rollbacks, cleanups and deaths interleave.             *)
THEOREM OneVisibleVersion == Spec => []AtMostOneVisible
<1>1. Init => VisibilityInv
  BY DEF Init, VisibilityInv, AbsentManifest, AbsentRun, NoCall, Annotated, NoControl
<1>2. TypeOK /\ PublicationInv /\ VisibilityInv /\ [Next]_vars => VisibilityInv'
  BY VisibilityNext, ConstantAssumption
<1>3. TypeOK /\ PublicationInv /\ VisibilityInv => AtMostOneVisible
  BY OneVisible, ConstantAssumption
<1>. QED BY <1>1, <1>2, <1>3, TypeCorrect, PublicationInvariant, PTL DEF Spec

-----------------------------------------------------------------------------
(* Leases: who may write a run record, and which way its status moves.     *)

(* The inductive invariant.                                                *)

(* Labels of a call that works on an attempt to commit, or to roll back.   *)
CommitLabels ==
    {"prepare", "record", "read_pointer", "cas_pointer", "finish", "finish_only",
     "commit_failed", "commit_cleanup", "commit_release", "rec_expired", "rec_expired_cas"}

RollbackLabels ==
    {"rb_read", "rb_prepare", "rb_record", "rb_validate", "rb_assert", "rb_cas", "rb_finish",
     "rb_failed", "rb_cleanup", "rb_release", "rec_rolled_back", "rec_rollback",
     "rec_rollback_cas"}

(* The status of the record a call has read, by its label.                 *)
SnapFits(label, status) ==
    /\ label = "staging" => status = "staging"
    /\ label \in CommitLabels => status = "committing"
    /\ label \in {"rec_committed", "rec_committed_cas"} => status # "rolled_back"
    /\ label \in RollbackLabels => status = "rolling_back"

OperationRollsBack(r) == runs[r].lease = "operation" => runs[r].status = "rolling_back"

Holds(w, r) == call[w].pc \in Holding /\ call[w].run = r

(* A generation is acquired by one call, or shared by compensators; every  *)
(* acquired generation is at most the one the run record stands at.        *)
LeaseInv ==
    /\ \A r \in Runs, w \in Workers : Holds(w, r) =>
          /\ call[w].fence <= runs[r].gen
          /\ call[w].fence = runs[r].gen /\ runs[r].lease = "operation" => w \in Compensators
    /\ \A r \in Runs, v, w \in Workers :
          /\ Holds(v, r) /\ Holds(w, r)
          /\ call[v].fence = call[w].fence
          => v = w \/ {v, w} \subseteq Compensators

FencingInv ==
    /\ LeaseInv
    /\ \A r \in Runs : OperationRollsBack(r)
    /\ \A w \in Workers : SnapFits(call[w].pc, call[w].snap.status)

-----------------------------------------------------------------------------
(* What a step may do to leases and statuses.                              *)

StatusMoves(r) ==
    /\ runs[r].status \in {"committed", "rolling_back", "rolled_back"}
          => runs'[r].status \in {"committed", "rolling_back", "rolled_back"}
    /\ runs[r].status = "rolled_back" => runs'[r].status = "rolled_back"

KeepsLeases ==
    \A r \in Runs :
        runs[r].status # "absent" =>
            /\ runs'[r].gen = runs[r].gen
            /\ runs'[r].lease \in {"none", runs[r].lease}

KeepsHold(w) ==
    call'[w].pc \in Holding =>
        /\ call[w].pc \in Holding
        /\ call'[w].run = call[w].run
        /\ call'[w].fence = call[w].fence

Joins(w) ==
    /\ runs' = runs
    /\ w \in Compensators
    /\ runs[call[w].run].lease = "operation"
    /\ call'[w].run = call[w].run
    /\ call'[w].fence = runs[call[w].run].gen

Takes(w) ==
    /\ \A r \in Runs \ {call[w].run} : runs'[r] = runs[r]
    /\ runs'[call[w].run].gen = runs[call[w].run].gen + 1
    /\ runs'[call[w].run].lease = "operation" => w \in Compensators
    /\ call'[w].run = call[w].run
    /\ call'[w].fence = runs[call[w].run].gen + 1

FenceStep(w) ==
    /\ \A v \in Workers \ {w} : call'[v] = call[v]
    /\ (KeepsLeases /\ KeepsHold(w)) \/ (call[w].run \in Runs /\ (Joins(w) \/ Takes(w)))
    /\ SnapFits(call'[w].pc, call'[w].snap.status)
    /\ \A r \in Runs : StatusMoves(r) /\ OperationRollsBack(r)'

(* The holders of a lease of a run know that the run exists.               *)
LEMMA HoldersRun ==
    ASSUME TypeOK, PublicationInv, NEW w \in Workers, call[w].pc \in Holding
    PROVE  /\ call[w].run \in Runs
           /\ runs[call[w].run].status # "absent"
           /\ runs[call[w].run].gen \in Nat
           /\ call[w].fence \in Nat
<1>1. call[w].pc \notin BeforeRun
  BY DEF Holding, BeforeRun
<1>2. call[w].run \in Runs /\ runs[call[w].run] \in RunRecord /\ call[w].fence \in Gens
  BY <1>1, TypeParts, CallFields DEF BeforeRun
<1>3. runs[call[w].run].status # "absent"
  BY <1>1 DEF PublicationInv, CallInv, BeforeRun
<1>. QED BY <1>2, <1>3 DEF RunRecord, Gens

(* A step of this kind keeps the generations apart.                        *)
LEMMA FenceStepKeeps ==
    ASSUME TypeOK, PublicationInv, FencingInv, NEW w \in Workers, FenceStep(w)
    PROVE  FencingInv'
<1>1. (\A r \in Runs : OperationRollsBack(r)') /\ \A v \in Workers \ {w} : call'[v] = call[v]
  BY DEF FenceStep
<1>2. \A v \in Workers : SnapFits(call'[v].pc, call'[v].snap.status)
  BY <1>1 DEF FencingInv, FenceStep
<1>3. CASE KeepsLeases /\ KeepsHold(w)
  <2>1. ASSUME NEW v \in Workers, call'[v].pc \in Holding
        PROVE  /\ call[v].pc \in Holding
               /\ call'[v].run = call[v].run
               /\ call'[v].fence = call[v].fence
    BY <1>1, <1>3, <2>1 DEF KeepsHold
  <2>2. ASSUME NEW v \in Workers, call'[v].pc \in Holding
        PROVE  /\ call[v].run \in Runs
               /\ runs'[call[v].run].gen = runs[call[v].run].gen
               /\ runs'[call[v].run].lease \in {"none", runs[call[v].run].lease}
    BY <1>3, <2>1, <2>2, HoldersRun DEF KeepsLeases
  <2>3. LeaseInv'
    BY <2>1, <2>2 DEF LeaseInv, FencingInv, Holds
  <2>. QED BY <1>1, <1>2, <2>3 DEF FencingInv
<1>4. CASE call[w].run \in Runs /\ Joins(w)
  <2>. DEFINE r == call[w].run
  <2>1. \A v \in Workers : Holds(v, r) /\ call[v].fence = runs[r].gen => v \in Compensators
    BY <1>4 DEF Joins, FencingInv, LeaseInv
  <2>2. runs[r].gen \in Nat
    BY <1>4 DEF TypeOK, RunRecord, Gens
  <2>3. LeaseInv'
    BY <1>1, <1>4, <2>1, <2>2 DEF LeaseInv, FencingInv, Holds, Joins
  <2>. QED BY <1>1, <1>2, <2>3 DEF FencingInv
<1>5. CASE call[w].run \in Runs /\ Takes(w)
  <2>. DEFINE r == call[w].run
              g == runs[r].gen
  <2>1. g \in Nat /\ runs'[r].gen = g + 1 /\ call'[w].fence = g + 1 /\ call'[w].run = r
    BY <1>5 DEF Takes, TypeOK, RunRecord, Gens
  <2>2. ASSUME NEW v \in Workers \ {w}, Holds(v, r)
        PROVE  call[v].fence \in Nat /\ call[v].fence <= g
    BY <2>2, HoldersRun, <1>5 DEF LeaseInv, FencingInv, Holds
  <2>3. \A s \in Runs \ {r} : runs'[s] = runs[s]
    BY <1>5 DEF Takes
  <2>4. ASSUME NEW s \in Runs, NEW v \in Workers, Holds(v, s)'
        PROVE  /\ call'[v].fence <= runs'[s].gen
               /\ call'[v].fence = runs'[s].gen /\ runs'[s].lease = "operation"
                     => v \in Compensators
    <3>1. CASE v = w
      BY <1>5, <2>1, <2>4, <3>1 DEF Holds, Takes
    <3>2. CASE v # w /\ s = r
      BY <1>1, <2>1, <2>2, <2>4, <3>2 DEF Holds
    <3>3. CASE v # w /\ s # r
      BY <1>1, <2>3, <2>4, <3>3 DEF Holds, LeaseInv, FencingInv
    <3>. QED BY <3>1, <3>2, <3>3
  <2>5. ASSUME NEW s \in Runs, NEW u \in Workers, NEW v \in Workers, Holds(u, s)', Holds(v, s)',
               call'[u].fence = call'[v].fence
        PROVE  u = v \/ {u, v} \subseteq Compensators
    <3>1. CASE u # w /\ v # w
      BY <1>1, <2>5, <3>1 DEF Holds, LeaseInv, FencingInv
    <3>2. CASE u = w /\ v # w
      BY <1>1, <2>1, <2>2, <2>5, <3>2 DEF Holds
    <3>3. CASE u # w /\ v = w
      BY <1>1, <2>1, <2>2, <2>5, <3>3 DEF Holds
    <3>. QED BY <3>1, <3>2, <3>3
  <2>6. LeaseInv'
    BY <2>4, <2>5 DEF LeaseInv
  <2>. QED BY <1>1, <1>2, <2>6 DEF FencingInv
<1>. QED BY <1>3, <1>4, <1>5 DEF FenceStep
-----------------------------------------------------------------------------
(* The steps a call is made of.                                            *)

Over == {"committed", "rolling_back", "rolled_back"}

LEMMA QuietFence ==
    ASSUME TypeOK, FencingInv, runs' = runs
    PROVE  KeepsLeases /\ \A r \in Runs : StatusMoves(r) /\ OperationRollsBack(r)'
BY DEF KeepsLeases, StatusMoves, OperationRollsBack, FencingInv

LEMMA ReturnFence ==
    ASSUME TypeOK, FencingInv, runs' = runs, NEW w \in Workers, Return(w)
    PROVE  FenceStep(w)
<1>1. call'[w] = NoCall /\ \A v \in Workers \ {w} : call'[v] = call[v]
  BY OthersKept, TypeParts DEF Return
<1>2. KeepsHold(w) /\ SnapFits(call'[w].pc, call'[w].snap.status)
  BY <1>1 DEF KeepsHold, NoCall, Holding, SnapFits, CommitLabels, RollbackLabels
<1>. QED BY <1>1, <1>2, QuietFence DEF FenceStep

(* A label that demands no more of the record than the one before it.      *)
Follows(old, new) ==
    /\ new \in Holding => old \in Holding
    /\ new = "staging" => old = "staging"
    /\ new \in CommitLabels => old \in CommitLabels
    /\ new \in {"rec_committed", "rec_committed_cas"} => old \in {"rec_committed", "rec_committed_cas"}
    /\ new \in RollbackLabels => old \in RollbackLabels

LEMMA GotoFence ==
    ASSUME TypeOK, FencingInv, runs' = runs, NEW w \in Workers, call[w].pc # "idle",
           NEW label, Goto(w, label), Follows(call[w].pc, label)
    PROVE  FenceStep(w)
<1>1. /\ call'[w].pc = label
      /\ call'[w].run = call[w].run
      /\ call'[w].fence = call[w].fence
      /\ call'[w].snap = call[w].snap
      /\ \A v \in Workers \ {w} : call'[v] = call[v]
  BY GotoCall, TypeParts
<1>2. KeepsHold(w) /\ SnapFits(label, call[w].snap.status)
  BY <1>1 DEF KeepsHold, Follows, SnapFits, FencingInv
<1>. QED BY <1>1, <1>2, QuietFence DEF FenceStep

(* A record that may replace the one last read without taking a lease.     *)
Advance(old, new) ==
    /\ new.gen = old.gen
    /\ new.lease \in {"none", old.lease}
    /\ new.lease # "none" => new.status = old.status
    /\ old.status \in Over => new.status \in Over
    /\ old.status = "rolled_back" => new.status = "rolled_back"

LEMMA PutFence ==
    ASSUME TypeOK, FencingInv, NEW r \in Runs, NEW rec, Advance(runs[r], rec), PutRun(r, rec)
    PROVE  KeepsLeases /\ \A s \in Runs : StatusMoves(s) /\ OperationRollsBack(s)'
<1>1. runs'[r] = rec /\ \A s \in Runs \ {r} : runs'[s] = runs[s]
  BY DEF PutRun, TypeOK
<1>. QED BY <1>1
         DEF KeepsLeases, StatusMoves, OperationRollsBack, FencingInv, Advance, Over

LEMMA FencedUpdateFence ==
    ASSUME TypeOK, PublicationInv, FencingInv, NEW w \in Workers, call[w].pc \in Holding,
           NEW rec, Advance(call[w].snap, rec), NEW next, SnapFits(next, rec.status),
           FencedUpdate(w, rec, next)
    PROVE  FenceStep(w)
<1>1. call[w].run \in Runs /\ call[w] \in CallRecord /\ CallsTyped
  BY HoldersRun, TypeParts DEF CallsTyped
<1>2. KeepsLeases /\ \A s \in Runs : StatusMoves(s) /\ OperationRollsBack(s)'
  BY <1>1, PutFence DEF FencedUpdate, FenceHolds
<1>3. CASE next = "idle"
  <2>1. call'[w] = NoCall /\ \A v \in Workers \ {w} : call'[v] = call[v]
    BY <1>1, <1>3, OthersKept DEF FencedUpdate
  <2>. QED BY <1>2, <2>1
           DEF FenceStep, KeepsHold, NoCall, Holding, SnapFits, CommitLabels, RollbackLabels
<1>4. CASE next # "idle"
  <2>1. /\ call'[w].pc = next
        /\ call'[w].run = call[w].run
        /\ call'[w].fence = call[w].fence
        /\ call'[w].snap = rec
        /\ \A v \in Workers \ {w} : call'[v] = call[v]
    BY <1>1, <1>4 DEF FencedUpdate, CallsTyped, CallRecord
  <2>. QED BY <1>2, <2>1 DEF FenceStep, KeepsHold
<1>. QED BY <1>3, <1>4

(* A fenced update that ends the call, or is refused and ends it.          *)
LEMMA FencedReturnFence ==
    ASSUME TypeOK, PublicationInv, FencingInv, NEW w \in Workers, call[w].pc \in Holding,
           NEW rec, Advance(call[w].snap, rec),
           FencedUpdate(w, rec, "idle") \/ Fenced(w, "idle")
    PROVE  FenceStep(w)
<1>1. CASE FencedUpdate(w, rec, "idle")
  BY <1>1, FencedUpdateFence DEF SnapFits, CommitLabels, RollbackLabels
<1>2. CASE Fenced(w, "idle")
  BY <1>2, ReturnFence DEF Fenced, runVars
<1>. QED BY <1>1, <1>2

LEMMA ReconcilePutFence ==
    ASSUME TypeOK, FencingInv, NEW w \in Workers, call[w].pc # "idle", NEW rec,
           Advance(call[w].snap, rec), ReconcilePut(w, rec)
    PROVE  FenceStep(w)
<1>1. CASE runs[call[w].run] = call[w].snap
  <2>1. call[w].run \in Runs
    BY DEF TypeOK
  <2>2. KeepsLeases /\ \A s \in Runs : StatusMoves(s) /\ OperationRollsBack(s)'
    BY <1>1, <2>1, PutFence DEF ReconcilePut
  <2>3. call'[w] = NoCall /\ \A v \in Workers \ {w} : call'[v] = call[v]
    BY OthersKept, TypeParts DEF ReconcilePut, Return
  <2>. QED BY <2>2, <2>3
           DEF FenceStep, KeepsHold, NoCall, Holding, SnapFits, CommitLabels, RollbackLabels
<1>2. CASE runs[call[w].run] # call[w].snap
  BY <1>2, ReturnFence DEF ReconcilePut, runVars
<1>. QED BY <1>1, <1>2

LEMMA TakeLeaseFence ==
    ASSUME TypeOK, PublicationInv, FencingInv, NEW w \in Workers, call[w].pc # "idle",
           NEW kind \in {"own", "operation"}, NEW allowed, "rolled_back" \notin allowed,
           NEW status \in RunStatus, NEW next, SnapFits(next, status),
           kind = "operation" => w \in Compensators /\ status = "rolling_back",
           status \notin Over => allowed \cap Over = {},
           TakeLease(w, kind, allowed, status, next)
    PROVE  FenceStep(w)
<1>. DEFINE r == call[w].run
            g == runs[r].gen + 1
            b == IF status = "rolling_back" THEN 0 ELSE runs[r].rollback
            leased == [runs[r] EXCEPT !.status = status, !.gen = @ + 1, !.lease = kind,
                                      !.rollback = IF status = "rolling_back" THEN 0 ELSE @]
            c == [call[w] EXCEPT !.pc = next, !.fence = leased.gen, !.snap = leased]
<1>1. r \in Runs /\ CallsTyped /\ call[w] \in CallRecord /\ runs[r] \in RunRecord
  BY TypeParts DEF CallsTyped, RunsTyped
<1>2. CASE Live(r) \/ runs[r].status \notin allowed
  <2>1. Return(w) /\ runs' = runs
    BY <1>2 DEF TakeLease, runVars
  <2>. QED BY <2>1, ReturnFence
<1>3. CASE ~(Live(r) \/ runs[r].status \notin allowed)
  <2>1. PutRun(r, leased) /\ call' = [call EXCEPT ![w] = c]
    BY <1>1, <1>3 DEF TakeLease, CallsTyped
  <2>2. leased = [runs[r] EXCEPT !.status = status, !.gen = g, !.lease = kind, !.rollback = b]
    OBVIOUS
  <2>3. runs[r].status \in allowed
    BY <1>3
  <2>. HIDE DEF b, leased
  <2>4. leased.status = status /\ leased.gen = g /\ leased.lease = kind
    BY <1>1, <2>2 DEF RunRecord
  <2>5. runs'[r] = leased /\ \A s \in Runs \ {r} : runs'[s] = runs[s]
    BY <1>1, <2>1 DEF PutRun, TypeOK
  <2>6. call'[w] = c /\ \A v \in Workers \ {w} : call'[v] = call[v]
    BY <1>1, <2>1, OthersKept
  <2>7. c.pc = next /\ c.run = r /\ c.fence = g /\ c.snap = leased
    BY <1>1, <2>4 DEF CallRecord
  <2>8. Takes(w)
    BY <2>4, <2>5, <2>6, <2>7 DEF Takes
  <2>9. ASSUME NEW s \in Runs
        PROVE  StatusMoves(s) /\ OperationRollsBack(s)'
    <3>1. CASE s = r
      BY <2>3, <2>4, <2>5, <3>1 DEF StatusMoves, OperationRollsBack, Over
    <3>2. CASE s # r
      BY <2>5, <3>2 DEF StatusMoves, OperationRollsBack, FencingInv
    <3>. QED BY <3>1, <3>2
  <2>. QED BY <1>1, <2>4, <2>6, <2>7, <2>8, <2>9 DEF FenceStep
<1>. QED BY <1>2, <1>3
LEMMA EnterFence ==
    ASSUME TypeOK, FencingInv, runs' = runs, NEW w \in Workers, NEW r,
           NEW label \in {"reconcile", "commit_lease", "rb_lease"}, Enter(w, r, label)
    PROVE  FenceStep(w)
<1>1. /\ call'[w] = [NoCall EXCEPT !.pc = label, !.run = r]
      /\ \A v \in Workers \ {w} : call'[v] = call[v]
  BY OthersKept, TypeParts DEF Enter
<1>2. call'[w].pc = label
  BY <1>1 DEF NoCall
<1>. QED BY <1>1, <1>2, QuietFence
         DEF FenceStep, KeepsHold, Holding, SnapFits, CommitLabels, RollbackLabels

-----------------------------------------------------------------------------
(* The steps of the operations.                                            *)

LEMMA BeginFences ==
    ASSUME TypeOK, PublicationInv, FencingInv, NEW w \in Workers, Begin(w)
    PROVE  FenceStep(w)
<1>1. ASSUME NEW r \in Runs, NEW a \in Artifacts, BeginRead(w, r, a)
      PROVE  FenceStep(w)
  <2>1. runs' = runs
    BY <1>1 DEF BeginRead, runVars
  <2>2. /\ call'[w] = [NoCall EXCEPT !.pc = "annotate", !.run = r, !.src = a, !.ptr = pointer']
        /\ \A v \in Workers \ {w} : call'[v] = call[v]
    BY <1>1, OthersKept, TypeParts DEF BeginRead
  <2>3. call'[w].pc = "annotate"
    BY <2>2 DEF NoCall
  <2>. QED BY <2>1, <2>2, <2>3, QuietFence
           DEF FenceStep, KeepsHold, Holding, SnapFits, CommitLabels, RollbackLabels
<1>2. CASE Annotate(w)
  <2>1. call[w].pc = "annotate" /\ runs' = runs /\ (Return(w) \/ Goto(w, "create"))
    BY <1>2 DEF Annotate, runVars
  <2>2. Follows("annotate", "create")
    BY DEF Follows, Holding, CommitLabels, RollbackLabels
  <2>. QED BY <2>1, <2>2, ReturnFence, GotoFence
<1>3. CASE CreateRun(w)
  <2>. DEFINE r == call[w].run
              new == [AbsentRun EXCEPT !.status = "initialized", !.prev = call[w].ptr.art]
  <2>1. /\ call[w].pc = "create" /\ r \in Runs
        /\ Return(w) \/ Goto(w, "stage_lease")
        /\ IF runs[r].status = "absent" THEN PutRun(r, new) ELSE runs' = runs
    BY <1>3 DEF CreateRun, TypeOK, runVars
  <2>2. Follows("create", "stage_lease")
    BY DEF Follows, Holding, CommitLabels, RollbackLabels
  <2>3. CASE runs[r].status # "absent"
    BY <2>1, <2>2, <2>3, ReturnFence, GotoFence
  <2>4. CASE runs[r].status = "absent"
    <3>1. new.status = "initialized" /\ new.lease = "none"
      BY DEF AbsentRun
    <3>. HIDE DEF new
    <3>2. runs'[r] = new /\ \A s \in Runs \ {r} : runs'[s] = runs[s]
      BY <2>1, <2>4 DEF PutRun, TypeOK
    <3>3. KeepsLeases /\ \A s \in Runs : StatusMoves(s) /\ OperationRollsBack(s)'
      BY <2>4, <3>1, <3>2 DEF KeepsLeases, StatusMoves, OperationRollsBack, FencingInv
    <3>4. /\ call'[w].pc \in {"idle", "stage_lease"}
          /\ \A v \in Workers \ {w} : call'[v] = call[v]
      <4>1. CASE Return(w)
        <5>1. call'[w] = NoCall /\ \A v \in Workers \ {w} : call'[v] = call[v]
          BY <4>1, OthersKept, TypeParts DEF Return
        <5>. QED BY <5>1 DEF NoCall
      <4>2. CASE Goto(w, "stage_lease")
        BY <2>1, <4>2, GotoCall, TypeParts
      <4>. QED BY <2>1, <4>1, <4>2
    <3>. QED BY <3>3, <3>4
             DEF FenceStep, KeepsHold, Holding, SnapFits, CommitLabels, RollbackLabels
  <2>. QED BY <2>3, <2>4
<1>4. CASE StageLease(w)
  <2>. DEFINE allowed == {"initialized", "staging"}
  <2>1. call[w].pc # "idle" /\ TakeLease(w, "own", allowed, "staging", "staging")
    BY <1>4 DEF StageLease
  <2>2. /\ "rolled_back" \notin allowed /\ allowed \cap Over = {} /\ "staging" \in RunStatus
        /\ SnapFits("staging", "staging")
    BY DEF Over, RunStatus, SnapFits, CommitLabels, RollbackLabels
  <2>. HIDE DEF allowed
  <2>. QED BY <2>1, <2>2, TakeLeaseFence
<1>5. CASE RecordStaged(w)
  <2>. DEFINE rec == [call[w].snap EXCEPT !.status = "validated", !.lease = "none"]
  <2>1. /\ call[w].pc \in Holding /\ call[w].pc # "idle" /\ call[w].snap.status = "staging"
        /\ FencedUpdate(w, rec, "idle") \/ Fenced(w, "idle")
    BY <1>5 DEF RecordStaged, Holding, FencingInv, SnapFits
  <2>2. call[w].snap \in RunRecord
    BY <2>1, TypeParts, CallFields
  <2>3. Advance(call[w].snap, rec)
    BY <2>1, <2>2 DEF Advance, RunRecord, Over
  <2>. QED BY <2>1, <2>3, FencedReturnFence
<1>. QED BY <1>1, <1>2, <1>3, <1>4, <1>5 DEF Begin

LEMMA CommitFences ==
    ASSUME TypeOK, PublicationInv, FencingInv, NEW w \in Workers, Commit(w)
    PROVE  FenceStep(w)
<1>1. ASSUME NEW r \in Runs, CommitStart(w, r)
      PROVE  FenceStep(w)
  <2>1. runs' = runs
    BY <1>1 DEF CommitStart, runVars
  <2>2. PICK label \in {"reconcile", "commit_lease"} : Enter(w, r, label)
    BY <1>1 DEF CommitStart
  <2>. QED BY <2>1, <2>2, EnterFence
<1>2. CASE CommitLease(w)
  <2>. DEFINE allowed == {"validated", "committing"}
  <2>1. call[w].pc # "idle" /\ TakeLease(w, "own", allowed, "committing", "prepare")
    BY <1>2 DEF CommitLease
  <2>2. /\ "rolled_back" \notin allowed /\ allowed \cap Over = {} /\ "committing" \in RunStatus
        /\ SnapFits("prepare", "committing")
    BY DEF Over, RunStatus, SnapFits, CommitLabels, RollbackLabels
  <2>. HIDE DEF allowed
  <2>. QED BY <2>1, <2>2, TakeLeaseFence
<1>3. CASE Prepare(w) \/ SupersedePrevious(w) \/ CleanupStaged(w) \/ CommitFault(w)
           \/ CommitFailed(w) \/ CommitCleanup(w) \/ CasPointer(w)
  <2>1. call[w].pc # "idle" /\ runs' = runs
    BY <1>3 DEF Prepare, SupersedePrevious, CleanupStaged, CommitFault, CommitFailed,
                CommitCleanup, CasPointer, runVars
  <2>2. \/ Return(w)
        \/ call[w].pc = "supersede" /\ Goto(w, "cleanup_staged")
        \/ /\ call[w].pc \in CommitLabels \cap Holding
           /\ \E label \in {"record", "finish", "commit_failed", "commit_cleanup",
                            "commit_release"} : Goto(w, label)
    BY <1>3 DEF Prepare, SupersedePrevious, CleanupStaged, CommitFault, CommitFailed,
                CommitCleanup, CasPointer, CommitLabels, Holding
  <2>3. CASE call[w].pc = "supersede" /\ Goto(w, "cleanup_staged")
    <3>1. Follows("supersede", "cleanup_staged")
      BY DEF Follows, Holding, CommitLabels, RollbackLabels
    <3>. QED BY <2>1, <2>3, <3>1, GotoFence
  <2>4. ASSUME NEW label \in {"record", "finish", "commit_failed", "commit_cleanup",
                              "commit_release"},
               Goto(w, label), call[w].pc \in CommitLabels \cap Holding
        PROVE  FenceStep(w)
    <3>1. Follows(call[w].pc, label)
      BY <2>4 DEF Follows, RollbackLabels
    <3>. QED BY <2>1, <2>4, <3>1, GotoFence
  <2>. QED BY <2>1, <2>2, <2>3, <2>4, ReturnFence
<1>4. CASE RecordPrepared(w)
  <2>. DEFINE rec == [call[w].snap EXCEPT !.status = "committing", !.prepared = call[w].fence]
  <2>1. /\ call[w].pc \in Holding /\ call[w].pc # "idle" /\ call[w].snap.status = "committing"
    BY <1>4 DEF RecordPrepared, Holding, FencingInv, SnapFits, CommitLabels
  <2>2. call[w].snap \in RunRecord
    BY <2>1, TypeParts, CallFields
  <2>3. Advance(call[w].snap, rec) /\ rec.status = "committing"
    BY <2>1, <2>2 DEF Advance, RunRecord, Over
  <2>4. SnapFits("read_pointer", rec.status)
    BY <2>3 DEF SnapFits, RollbackLabels
  <2>5. CASE FencedUpdate(w, rec, "read_pointer")
    BY <2>1, <2>3, <2>4, <2>5, FencedUpdateFence
  <2>6. CASE Fenced(w, "idle")
    BY <2>1, <2>3, <2>6, FencedReturnFence
  <2>7. CASE Return(w) /\ UNCHANGED runVars
    BY <2>7, ReturnFence DEF runVars
  <2>. QED BY <1>4, <2>5, <2>6, <2>7 DEF RecordPrepared
<1>5. CASE ReadPointer(w)
  <2>1. call[w].pc = "read_pointer" /\ runs' = runs
    BY <1>5 DEF ReadPointer, runVars
  <2>2. ASSUME NEW label \in {"finish_only", "commit_failed"}, Goto(w, label)
        PROVE  FenceStep(w)
    <3>1. Follows("read_pointer", label)
      BY DEF Follows, Holding, CommitLabels, RollbackLabels
    <3>. QED BY <2>1, <2>2, <3>1, GotoFence
  <2>3. CASE call' = [call EXCEPT ![w].pc = "cas_pointer", ![w].ptr = pointer]
    <3>1. /\ call'[w].pc = "cas_pointer"
          /\ call'[w].run = call[w].run
          /\ call'[w].fence = call[w].fence
          /\ call'[w].snap = call[w].snap
          /\ \A v \in Workers \ {w} : call'[v] = call[v]
      BY <2>3, TypeParts DEF CallsTyped, CallRecord
    <3>2. KeepsHold(w)
      BY <2>1, <3>1 DEF KeepsHold, Holding
    <3>3. SnapFits("cas_pointer", call[w].snap.status)
      BY <2>1 DEF FencingInv, SnapFits, CommitLabels, RollbackLabels
    <3>. QED BY <2>1, <3>1, <3>2, <3>3, QuietFence DEF FenceStep
  <2>. QED BY <1>5, <2>2, <2>3 DEF ReadPointer
<1>6. CASE Finish(w) \/ FinishOnly(w)
  <2>. DEFINE rec == CommittedFrom(call[w].snap)
  <2>1. /\ call[w].pc \in {"finish", "finish_only"} /\ call[w].pc \in Holding
        /\ call[w].pc # "idle" /\ call[w].snap.status = "committing"
    BY <1>6 DEF Finish, FinishOnly, Holding, FencingInv, SnapFits, CommitLabels
  <2>2. call[w].snap \in RunRecord
    BY <2>1, TypeParts, CallFields
  <2>3. Advance(call[w].snap, rec)
    BY <2>1, <2>2 DEF Advance, RunRecord, Over, CommittedFrom
  <2>4. CASE FencedUpdate(w, rec, "supersede")
    <3>1. SnapFits("supersede", rec.status)
      BY DEF SnapFits, CommitLabels, RollbackLabels
    <3>. QED BY <2>1, <2>3, <2>4, <3>1, FencedUpdateFence
  <2>5. CASE Fenced(w, "commit_failed")
    <3>1. Follows(call[w].pc, "commit_failed")
      BY <2>1 DEF Follows, CommitLabels, RollbackLabels
    <3>. QED BY <2>1, <2>5, <3>1, GotoFence DEF Fenced, runVars
  <2>6. CASE FinishOnly(w)
    BY <2>1, <2>3, <2>6, FencedReturnFence DEF FinishOnly
  <2>. QED BY <1>6, <2>4, <2>5, <2>6 DEF Finish
<1>7. CASE ReleaseCommitForRetry(w)
  <2>. DEFINE rec == [call[w].snap EXCEPT !.status = "validated", !.lease = "none", !.prepared = 0]
  <2>1. /\ call[w].pc \in Holding /\ call[w].pc # "idle" /\ call[w].snap.status = "committing"
        /\ FencedUpdate(w, rec, "idle") \/ Fenced(w, "idle")
    BY <1>7 DEF ReleaseCommitForRetry, Holding, FencingInv, SnapFits, CommitLabels
  <2>2. call[w].snap \in RunRecord
    BY <2>1, TypeParts, CallFields
  <2>3. Advance(call[w].snap, rec)
    BY <2>1, <2>2 DEF Advance, RunRecord, Over
  <2>. QED BY <2>1, <2>3, FencedReturnFence
<1>. QED BY <1>1, <1>2, <1>3, <1>4, <1>5, <1>6, <1>7 DEF Commit
LEMMA ReconcileFences ==
    ASSUME TypeOK, PublicationInv, FencingInv, NEW w \in Workers, Reconcile(w)
    PROVE  FenceStep(w)
<1>. DEFINE r == call[w].run
            snap == call[w].snap
<1>1. ASSUME NEW s \in Runs, ReconcileStart(w, s)
      PROVE  FenceStep(w)
  BY <1>1, EnterFence DEF ReconcileStart, runVars
<1>2. CASE ReconcileRead(w)
  <2>1. call[w].pc = "reconcile" /\ call[w].pc # "idle" /\ runs' = runs
    BY <1>2 DEF ReconcileRead, runVars
  <2>2. r \in Runs /\ runs[r] \in RunRecord
    BY <2>1, TypeParts, CallFields
  <2>3. CurrentFor(r) => runs[r].status # "rolled_back"
    BY <2>2 DEF CurrentFor, PublicationInv, StatusBackedByPointer, RunInv
  <2>4. ASSUME NEW case \in {"rec_rolled_back", "rec_committed", "rec_expired", "rec_rollback"},
               case \in {"rec_rolled_back", "rec_rollback"} => runs[r].status = "rolling_back",
               case = "rec_committed" => CurrentFor(r),
               case = "rec_expired" => runs[r].status = "committing",
               call' = [call EXCEPT ![w].pc = case, ![w].snap = runs[r], ![w].ptr = pointer]
        PROVE  FenceStep(w)
    <3>1. /\ call'[w].pc = case
          /\ call'[w].snap = runs[r]
          /\ \A v \in Workers \ {w} : call'[v] = call[v]
      BY <2>4, TypeParts DEF CallsTyped, CallRecord
    <3>2. SnapFits(case, runs[r].status)
      BY <2>3, <2>4 DEF SnapFits, CommitLabels, RollbackLabels
    <3>3. KeepsHold(w)
      BY <3>1 DEF KeepsHold, Holding
    <3>. QED BY <2>1, <3>1, <3>2, <3>3, QuietFence DEF FenceStep
  <2>. QED BY <1>2, <2>1, <2>4, ReturnFence DEF ReconcileRead
<1>3. CASE ReconcileCommittedTidy(w) \/ ReconcileExpiredTidy(w) \/ ReconcileRollbackTidy(w)
  <2>1. call[w].pc # "idle" /\ runs' = runs
    BY <1>3 DEF ReconcileCommittedTidy, ReconcileExpiredTidy, ReconcileRollbackTidy, runVars
  <2>2. \/ call[w].pc = "rec_committed" /\ Goto(w, "rec_committed_cas")
        \/ call[w].pc = "rec_expired" /\ Goto(w, "rec_expired_cas")
        \/ call[w].pc = "rec_rollback" /\ Goto(w, "rec_rollback_cas")
    BY <1>3 DEF ReconcileCommittedTidy, ReconcileExpiredTidy, ReconcileRollbackTidy
  <2>3. /\ Follows("rec_committed", "rec_committed_cas")
        /\ Follows("rec_expired", "rec_expired_cas")
        /\ Follows("rec_rollback", "rec_rollback_cas")
    BY DEF Follows, Holding, CommitLabels, RollbackLabels
  <2>. QED BY <2>1, <2>2, <2>3, GotoFence
<1>4. CASE ReconcileRolledBack(w)
  <2>. DEFINE rec == RolledBackFrom(snap)
  <2>1. call[w].pc # "idle" /\ snap \in RunRecord
    BY <1>4, TypeParts, CallFields DEF ReconcileRolledBack
  <2>2. Advance(snap, rec)
    BY <2>1 DEF Advance, RunRecord, Over, RolledBackFrom
  <2>. HIDE DEF rec
  <2>3. ReconcilePut(w, rec) \/ (Return(w) /\ runs' = runs)
    BY <1>4 DEF ReconcileRolledBack, runVars, rec
  <2>. QED BY <2>1, <2>2, <2>3, ReconcilePutFence, ReturnFence
<1>5. CASE ReconcileCommitted(w)
  <2>. DEFINE rec == CommittedFrom(snap)
  <2>1. call[w].pc = "rec_committed_cas" /\ call[w].pc # "idle" /\ snap \in RunRecord
    BY <1>5, TypeParts, CallFields DEF ReconcileCommitted
  <2>2. snap.status # "rolled_back"
    BY <2>1 DEF FencingInv, SnapFits
  <2>3. Advance(snap, rec)
    BY <2>1, <2>2 DEF Advance, RunRecord, Over, CommittedFrom
  <2>. QED BY <1>5, <2>1, <2>3, ReconcilePutFence DEF ReconcileCommitted
<1>6. CASE ReconcileExpired(w)
  <2>. DEFINE rec == [snap EXCEPT !.status = "validated", !.lease = "none", !.prepared = 0]
  <2>1. call[w].pc = "rec_expired_cas" /\ call[w].pc # "idle" /\ snap \in RunRecord
    BY <1>6, TypeParts, CallFields DEF ReconcileExpired
  <2>2. snap.status = "committing"
    BY <2>1 DEF FencingInv, SnapFits, CommitLabels
  <2>3. Advance(snap, rec)
    BY <2>1, <2>2 DEF Advance, RunRecord, Over
  <2>. QED BY <1>6, <2>1, <2>3, ReconcilePutFence DEF ReconcileExpired
<1>7. CASE ReconcileRollback(w)
  <2>. DEFINE rec == [snap EXCEPT !.status = "committed", !.lease = "none", !.rollback = 0]
  <2>1. call[w].pc = "rec_rollback_cas" /\ call[w].pc # "idle" /\ snap \in RunRecord
    BY <1>7, TypeParts, CallFields DEF ReconcileRollback
  <2>2. snap.status = "rolling_back"
    BY <2>1 DEF FencingInv, SnapFits, RollbackLabels
  <2>3. Advance(snap, rec)
    BY <2>1, <2>2 DEF Advance, RunRecord, Over
  <2>. QED BY <1>7, <2>1, <2>3, ReconcilePutFence DEF ReconcileRollback
<1>. QED BY <1>1, <1>2, <1>3, <1>4, <1>5, <1>6, <1>7 DEF Reconcile

LEMMA RollbackFences ==
    ASSUME TypeOK, PublicationInv, FencingInv, NEW w \in Workers, Rollback(w)
    PROVE  FenceStep(w)
<1>. DEFINE r == call[w].run
            snap == call[w].snap
<1>1. ASSUME NEW s \in Runs, RollbackStart(w, s)
      PROVE  FenceStep(w)
  <2>1. runs' = runs
    BY <1>1 DEF RollbackStart, runVars
  <2>2. PICK label \in {"reconcile", "rb_lease"} : Enter(w, s, label)
    BY <1>1 DEF RollbackStart
  <2>. QED BY <2>1, <2>2, EnterFence
<1>2. CASE RollbackLease(w)
  <2>. DEFINE allowed == {"committed", "rolling_back"}
  <2>1. call[w].pc # "idle" /\ r \in Runs /\ runs[r] \in RunRecord
    BY <1>2, TypeParts, CallFields DEF RollbackLease
  <2>2. SnapFits("rb_read", "rolling_back") /\ "rolling_back" \in RunStatus
    BY DEF SnapFits, CommitLabels, RunStatus
  <2>3. CASE /\ runs[r].lease = "operation" /\ w \in Compensators /\ UNCHANGED runVars
             /\ call' = [call EXCEPT ![w].pc = "rb_read", ![w].fence = runs[r].gen,
                                     ![w].snap = runs[r]]
    <3>1. /\ call'[w].pc = "rb_read"
          /\ call'[w].run = r
          /\ call'[w].fence = runs[r].gen
          /\ call'[w].snap = runs[r]
          /\ \A v \in Workers \ {w} : call'[v] = call[v]
      BY <2>3, TypeParts DEF CallsTyped, CallRecord
    <3>2. runs' = runs /\ runs[r].status = "rolling_back"
      BY <2>1, <2>3 DEF runVars, FencingInv, OperationRollsBack
    <3>3. Joins(w)
      BY <2>3, <3>1, <3>2 DEF Joins
    <3>. QED BY <2>1, <2>2, <3>1, <3>2, <3>3, QuietFence DEF FenceStep
  <2>4. CASE TakeLease(w, IF w \in Compensators THEN "operation" ELSE "own",
                       allowed, "rolling_back", "rb_read")
    <3>1. PICK kind \in {"own", "operation"} :
              /\ kind = "operation" => w \in Compensators
              /\ TakeLease(w, kind, allowed, "rolling_back", "rb_read")
      BY <2>4
    <3>2. "rolled_back" \notin allowed /\ "rolling_back" \in Over
      BY DEF Over
    <3>. HIDE DEF allowed
    <3>. QED BY <2>1, <2>2, <3>1, <3>2, TakeLeaseFence
  <2>. QED BY <1>2, <2>3, <2>4 DEF RollbackLease
<1>3. CASE RollbackRead(w)
  <2>1. call[w].pc = "rb_read" /\ call[w].pc # "idle" /\ runs' = runs
    BY <1>3 DEF RollbackRead, runVars
  <2>2. CASE Goto(w, "rb_release")
    <3>1. Follows("rb_read", "rb_release")
      BY DEF Follows, Holding, CommitLabels, RollbackLabels
    <3>. QED BY <2>1, <2>2, <3>1, GotoFence
  <2>3. CASE call' = [call EXCEPT ![w].pc = "rb_prepare", ![w].ptr = pointer]
    <3>1. /\ call'[w].pc = "rb_prepare"
          /\ call'[w].run = r
          /\ call'[w].fence = call[w].fence
          /\ call'[w].snap = snap
          /\ \A v \in Workers \ {w} : call'[v] = call[v]
      BY <2>3, TypeParts DEF CallsTyped, CallRecord
    <3>2. KeepsHold(w)
      BY <2>1, <3>1 DEF KeepsHold, Holding
    <3>3. SnapFits("rb_prepare", snap.status)
      BY <2>1 DEF FencingInv, SnapFits, CommitLabels, RollbackLabels
    <3>. QED BY <2>1, <3>1, <3>2, <3>3, QuietFence DEF FenceStep
  <2>. QED BY <1>3, <2>2, <2>3 DEF RollbackRead
<1>4. CASE PrepareRollback(w) \/ ValidateRollback(w) \/ AssertRollback(w)
           \/ CasRollbackPointer(w) \/ RollbackFault(w) \/ RollbackAnswerLost(w)
           \/ RollbackFailed(w) \/ RollbackCleanup(w)
  <2>1. /\ call[w].pc \in RollbackLabels \cap Holding
        /\ call[w].pc # "idle" /\ runs' = runs
    BY <1>4 DEF PrepareRollback, ValidateRollback, AssertRollback, CasRollbackPointer,
                RollbackFault, RollbackAnswerLost, RollbackFailed, RollbackCleanup,
                RollbackLabels, Holding, runVars
  <2>2. \/ Return(w)
        \/ \E label \in {"rb_record", "rb_assert", "rb_cas", "rb_finish", "rb_failed",
                         "rb_cleanup", "rb_release"} : Goto(w, label)
    BY <1>4 DEF PrepareRollback, ValidateRollback, AssertRollback, CasRollbackPointer,
                RollbackFault, RollbackAnswerLost, RollbackFailed, RollbackCleanup
  <2>3. ASSUME NEW label \in {"rb_record", "rb_assert", "rb_cas", "rb_finish", "rb_failed",
                              "rb_cleanup", "rb_release"}, Goto(w, label)
        PROVE  FenceStep(w)
    <3>1. Follows(call[w].pc, label)
      BY <2>1 DEF Follows, CommitLabels
    <3>. QED BY <2>1, <2>3, <3>1, GotoFence
  <2>. QED BY <2>1, <2>2, <2>3, ReturnFence
<1>5. CASE RecordRollback(w)
  <2>. DEFINE rec == [snap EXCEPT !.status = "rolling_back", !.rollback = call[w].fence]
  <2>1. /\ call[w].pc = "rb_record" /\ call[w].pc \in Holding
        /\ call[w].pc # "idle" /\ snap.status = "rolling_back"
    BY <1>5 DEF RecordRollback, Holding, FencingInv, SnapFits, RollbackLabels
  <2>2. snap \in RunRecord
    BY <2>1, TypeParts, CallFields
  <2>3. Advance(snap, rec) /\ rec.status = "rolling_back"
    BY <2>1, <2>2 DEF Advance, RunRecord, Over
  <2>4. SnapFits("rb_validate", rec.status)
    BY <2>3 DEF SnapFits, CommitLabels
  <2>5. CASE FencedUpdate(w, rec, "rb_validate")
    BY <2>1, <2>3, <2>4, <2>5, FencedUpdateFence
  <2>6. CASE Fenced(w, "rb_failed")
    <3>1. Follows("rb_record", "rb_failed")
      BY DEF Follows, Holding, CommitLabels, RollbackLabels
    <3>. QED BY <2>1, <2>6, <3>1, GotoFence DEF Fenced, runVars
  <2>. QED BY <1>5, <2>5, <2>6 DEF RecordRollback
<1>6. CASE FinishRollback(w)
  <2>. DEFINE rec == RolledBackFrom(snap)
  <2>1. /\ call[w].pc \in Holding /\ call[w].pc # "idle" /\ snap.status = "rolling_back"
    BY <1>6 DEF FinishRollback, Holding, FencingInv, SnapFits, RollbackLabels
  <2>2. snap \in RunRecord
    BY <2>1, TypeParts, CallFields
  <2>3. Advance(snap, rec)
    BY <2>1, <2>2 DEF Advance, RunRecord, Over, RolledBackFrom
  <2>4. CASE Return(w) /\ UNCHANGED runVars
    BY <2>4, ReturnFence DEF runVars
  <2>. QED BY <1>6, <2>1, <2>3, <2>4, FencedReturnFence DEF FinishRollback
<1>7. CASE ReleaseRollbackForRetry(w)
  <2>. DEFINE rec == [snap EXCEPT !.status = "committed", !.lease = "none", !.rollback = 0]
  <2>1. /\ call[w].pc \in Holding /\ call[w].pc # "idle" /\ snap.status = "rolling_back"
        /\ FencedUpdate(w, rec, "idle") \/ Fenced(w, "idle")
    BY <1>7 DEF ReleaseRollbackForRetry, Holding, FencingInv, SnapFits, RollbackLabels
  <2>2. snap \in RunRecord
    BY <2>1, TypeParts, CallFields
  <2>3. Advance(snap, rec)
    BY <2>1, <2>2 DEF Advance, RunRecord, Over
  <2>. QED BY <2>1, <2>3, FencedReturnFence
<1>. QED BY <1>1, <1>2, <1>3, <1>4, <1>5, <1>6, <1>7 DEF Rollback

-----------------------------------------------------------------------------
(* The theorems.                                                           *)

LEMMA FencingNext ==
    ASSUME TypeOK, PublicationInv, FencingInv, [Next]_vars
    PROVE  FencingInv' /\ \A r \in Runs : StatusMoves(r)
<1>1. ASSUME NEW w \in Workers, Begin(w) \/ Commit(w) \/ Reconcile(w) \/ Rollback(w) \/ Crash(w)
      PROVE  FencingInv' /\ \A r \in Runs : StatusMoves(r)
  <2>1. FenceStep(w)
    <3>1. CASE Crash(w)
      BY <3>1, ReturnFence DEF Crash, runVars
    <3>. QED BY <1>1, <3>1, BeginFences, CommitFences, ReconcileFences, RollbackFences
  <2>. QED BY <2>1, FenceStepKeeps DEF FenceStep
<1>2. CASE (\E r \in Runs : Expire(r)) \/ UNCHANGED vars
  <2>1. runs' = runs /\ call' = call
    BY <1>2 DEF Expire, vars
  <2>. QED BY <2>1 DEF FencingInv, LeaseInv, Holds, OperationRollsBack, StatusMoves
<1>. QED BY <1>1, <1>2 DEF Next

LEMMA FencingInit == Init => FencingInv
<1>. SUFFICES ASSUME Init PROVE FencingInv
  OBVIOUS
<1>1. /\ \A r \in Runs : runs[r].lease = "none"
      /\ \A w \in Workers : call[w].pc = "idle"
  BY DEF Init, AbsentRun, NoCall
<1>. QED BY <1>1 DEF FencingInv, LeaseInv, Holds, Holding, OperationRollsBack, SnapFits,
                     CommitLabels, RollbackLabels

(* The inductive invariant of the leases: generations are acquired once or *)
(* shared by compensators, the run record never falls behind one of them,  *)
(* and a call knows which status the record it writes over has.            *)
THEOREM FencingInvariant == Spec => []FencingInv
<1>1. TypeOK /\ PublicationInv /\ FencingInv /\ [Next]_vars => FencingInv'
  BY FencingNext
<1>. QED BY <1>1, FencingInit, TypeCorrect, PublicationInvariant, PTL DEF Spec

(* Whatever stalls, expiries, crashes and takeovers happen, two calls can  *)
(* both pass updateWithFence's check on one run only as retries of one     *)
(* compensation.                                                           *)
THEOREM OneFencedWriter == Spec => []FencedWriterUnique
<1>1. TypeOK /\ PublicationInv /\ FencingInv => FencedWriterUnique
  <2>. SUFFICES ASSUME TypeOK, PublicationInv, FencingInv, NEW v \in Workers, NEW w \in Workers,
                       call[v].run = call[w].run,
                       call[v].pc \in Holding, FenceHolds(v),
                       call[w].pc \in Holding, FenceHolds(w)
                PROVE  v = w \/ {v, w} \subseteq Compensators
    BY DEF FencedWriterUnique
  <2>. DEFINE r == call[v].run
  <2>1. r \in Runs /\ Holds(v, r) /\ Holds(w, r)
    BY HoldersRun DEF Holds
  <2>2. call[v].fence = call[w].fence
    BY DEF FenceHolds
  <2>. QED BY <2>1, <2>2 DEF FencingInv, LeaseInv
<1>. QED BY <1>1, TypeCorrect, PublicationInvariant, FencingInvariant, PTL

(* No release, reconcile or commit, however late, takes a run that was     *)
(* published back to a state from where it could be committed again, and   *)
(* none leaves rolled_back.                                                *)
THEOREM NeverReopened == Spec => RunNeverReopened
<1>1. TypeOK /\ PublicationInv /\ FencingInv /\ [Next]_vars
      => [\A r \in Runs : StatusMoves(r)]_vars
  BY FencingNext
<1>. QED BY <1>1, TypeCorrect, PublicationInvariant, FencingInvariant, PTL
         DEF Spec, RunNeverReopened, StatusMoves

-----------------------------------------------------------------------------
(***************************************************************************)
(* The driver of a reindex migration, over the coordinator: what the       *)
(* ledger and the compensation intents say of the publication is true, for *)
(* any number of requests of any kinds, with any failures and deaths.      *)
(***************************************************************************)

(* The inductive invariant.                                                *)

(* Between two coordinator operations the run and the pointer agree. *)
RunFitsPointer ==
    /\ run \in {"none", "validated"} => activePointer = "source"
    /\ run = "committing" => activePointer \in {"source", "staged"}
    /\ run \in {"committed", "unprepared"} => activePointer \in {"staged", "restored"}
    /\ run \in {"rolling_back", "rolled_back"} => activePointer = "restored"

(* What a request relies on when it goes on after an await: the kinds that *)
(* reach its label, the rollback its copy of an intent or its own work     *)
(* stands for, and the intent it is going to settle.                       *)
RequestInv(r) ==
    /\ req[r].pc \in {"load", "coordinate", "recheck", "prepare", "takeback", "reconcile", "repoint",
                     "finish", "mark", "complete"}
          \/ req[r].resumes => Kind[r] \in Actions
    /\ req[r].intent # "absent" => Kind[r] \in Actions /\ repair[Kind[r]] # "absent"
    /\ req[r].resumes => req[r].pc \in {"takeback", "reconcile", "repoint", "finish", "mark", "save", "complete"}
    /\ req[r].resumes => req[r].write = "rolled_back" /\ req[r].intent # "absent"
    /\ req[r].intent \in {"compensated", "completed"} => activePointer = "restored"
    /\ req[r].pc = "recheck" =>
          req[r].write = (IF Kind[r] = "cutover" THEN "cutover" ELSE "rolled_back")
    /\ req[r].pc \in {"recheck", "prepare"} /\ Kind[r] = "rollback" => activePointer = "restored"
    /\ req[r].pc \in {"takeback", "mark"} => req[r].intent # "absent"
    /\ req[r].pc \in {"reconcile", "repoint", "finish"} /\ Compensates(r) => req[r].intent # "absent"
    /\ req[r].pc = "repoint" => activePointer # "source"
    /\ req[r].pc \in {"reconcile", "finish", "mark", "complete"} => activePointer = "restored"
    /\ req[r].pc = "save" /\ req[r].write = "rolled_back" => activePointer = "restored"
    /\ req[r].result = "denied_after_publication" =>
          Kind[r] \in Actions /\ repair[Kind[r]] # "absent"

StoreInv ==
    /\ RunFitsPointer
    /\ LedgerRollbackIsTrue
    /\ SettledIntentIsTakenBack

MigrationInv ==
    /\ MigrationTypeOK
    /\ StoreInv
    /\ \A r \in Requests : RequestInv(r)

-----------------------------------------------------------------------------
(* What a step may do.                                                     *)

(* The pointer never returns to what it has left, and an intent that was   *)
(* prepared is kept.                                                       *)
Progress ==
    /\ activePointer = "restored" => activePointer' = "restored"
    /\ activePointer # "source" => activePointer' # "source"
    /\ \A a \in Actions : repair[a] # "absent" => repair'[a] # "absent"

StoreType ==
    /\ run \in PublicationStatus
    /\ activePointer \in {"source", "staged", "restored"}
    /\ sourceActive \in BOOLEAN
    /\ ledger \in LedgerStatus
    /\ repair \in [Actions -> RepairStatus]
    /\ revoked \subseteq Requests \ Trusted
    /\ faults \in 0..MaxFaults /\ crashes \in 0..MaxCrashes

RequestType == req \in [Requests -> RequestRecord]

(* Of the requests only r has moved, to a record rec. *)
Moved(r, rec) ==
    /\ RequestType'
    /\ req'[r] = rec
    /\ \A q \in Requests \ {r} : req'[q] = req[q]

(* A request depends on the others only through what they make progress    *)
(* with.                                                                   *)
LEMMA OthersKeep ==
    ASSUME MigrationInv, NEW q \in Requests, req'[q] = req[q], Progress
    PROVE  RequestInv(q)'
  BY DEF MigrationInv, RequestInv, Progress, Compensates

(* A step keeps the invariant if it does so for the store and its request. *)
LEMMA StepKeeps ==
    ASSUME MigrationInv, NEW r \in Requests, NEW rec,
           Moved(r, rec), StoreType', StoreInv', Progress, RequestInv(r)'
    PROVE  MigrationInv'
<1>1. \A q \in Requests : RequestInv(q)'
  BY OthersKeep DEF Moved
<1>. QED
  BY <1>1 DEF MigrationInv, MigrationTypeOK, StoreType, RequestType, Moved

LEMMA GotoMoves ==
    ASSUME RequestType, NEW r \in Requests,
           NEW pc \in {"idle", "load", "check", "stage", "coordinate", "recheck", "prepare",
                       "takeback", "reconcile", "repoint", "finish", "mark", "save", "complete"},
           Proceed(r, pc)
    PROVE  Moved(r, [req[r] EXCEPT !.pc = pc])
  BY DEF Proceed, Moved, RequestType, RequestRecord

LEMMA EndMoves ==
    ASSUME RequestType, NEW r \in Requests, NEW result \in {"none", "denied_after_publication"},
           End(r, result)
    PROVE  Moved(r, [Idle EXCEPT !.result = result])
  BY DEF End, Moved, RequestType, RequestRecord, Idle, RepairStatus, LedgerStatus

LEMMA RecordMoves ==
    ASSUME RequestType, NEW r \in Requests, NEW rec \in RequestRecord, req' = [req EXCEPT ![r] = rec]
    PROVE  Moved(r, rec)
  BY DEF Moved, RequestType

LEMMA PublicationMoves ==
    ASSUME RequestType, NEW r \in Requests, PublicationMoved(r)
    PROVE  Moved(r, [req[r] EXCEPT !.pc = "recheck",
                                   !.write = IF Kind[r] = "cutover" THEN "cutover" ELSE "rolled_back"])
<1>. DEFINE rec == [req[r] EXCEPT !.pc = "recheck",
                                  !.write = IF Kind[r] = "cutover" THEN "cutover" ELSE "rolled_back"]
<1>1. rec \in RequestRecord
  BY DEF RequestType, RequestRecord, LedgerStatus
<1>2. req' = [req EXCEPT ![r] = rec]
  BY DEF PublicationMoved, RequestType
<1>. QED
  BY <1>1, <1>2, RecordMoves

(* An ended request relies on nothing but what its refusal left. *)
LEMMA EndedInv ==
    ASSUME NEW r \in Requests, NEW result, Moved(r, [Idle EXCEPT !.result = result]),
           result = "denied_after_publication" => Kind[r] \in Actions /\ repair'[Kind[r]] # "absent"
    PROVE  RequestInv(r)'
  BY DEF Moved, RequestInv, Compensates, Idle

LEMMA Unfold ==
    ASSUME MigrationInv
    PROVE  StoreType /\ RequestType /\ StoreInv /\ \A r \in Requests : RequestInv(r)
  BY DEF MigrationInv, MigrationTypeOK, StoreType, RequestType

-----------------------------------------------------------------------------
(* The steps, one after the other.                                         *)

(* Steps that leave the store alone only have their own request to show.   *)
StoreStays == UNCHANGED <<publication, ledger, repair>> /\ faults' \in 0..MaxFaults
              /\ crashes' \in 0..MaxCrashes /\ revoked' \subseteq Requests \ Trusted

LEMMA StoreStaysKeeps ==
    ASSUME MigrationInv, StoreStays
    PROVE  StoreType' /\ StoreInv' /\ Progress
  BY Unfold DEF StoreStays, StoreType, StoreInv, Progress, RunFitsPointer, LedgerRollbackIsTrue, SettledIntentIsTakenBack, publication

LEMMA StartKeeps ==
    ASSUME MigrationInv, NEW r \in Requests, Start(r)
    PROVE  MigrationInv'
<1>. DEFINE rec == [Idle EXCEPT !.pc = IF Kind[r] = "stage" THEN "check" ELSE "load"]
<1>1. Moved(r, rec)
  BY Unfold DEF Start, Moved, RequestType, RequestRecord, Idle, RepairStatus, LedgerStatus
<1>2. RequestInv(r)'
  BY <1>1, MigrationAssumption DEF Moved, RequestInv, Compensates, Idle, Actions
<1>3. StoreStays
  BY Unfold DEF Start, StoreStays, env, StoreType
<1>. QED
  BY <1>1, <1>2, <1>3, StoreStaysKeeps, StepKeeps

LEMMA LoadKeeps ==
    ASSUME MigrationInv, NEW r \in Requests, Load(r)
    PROVE  MigrationInv'
<1>1. StoreStays
  BY Unfold DEF Load, StoreStays, env, StoreType
<1>2. Kind[r] \in Actions
  BY Unfold DEF Load, RequestInv
<1>3. CASE Startable(r)
  <2>. DEFINE rec == [req[r] EXCEPT !.pc = "check", !.intent = repair[Kind[r]]]
  <2>1. Moved(r, rec)
    <3>1. rec \in RequestRecord
      BY <1>2, Unfold DEF RequestType, RequestRecord, StoreType
    <3>2. req' = [req EXCEPT ![r] = rec]
      BY <1>3, Unfold DEF Load, RequestType
    <3>. QED
      BY <3>1, <3>2, RecordMoves, Unfold
  <2>2. RequestInv(r)'
    BY <1>1, <1>2, <2>1, Unfold
    DEF Load, Moved, RequestInv, Compensates, StoreStays, publication, StoreInv, SettledIntentIsTakenBack
  <2>. QED
    BY <1>1, <2>1, <2>2, StoreStaysKeeps, StepKeeps
<1>4. CASE ~Startable(r)
  BY <1>1, <1>4, EndMoves, EndedInv, StoreStaysKeeps, StepKeeps, Unfold DEF Load
<1>. QED
  BY <1>3, <1>4

LEMMA CheckKeeps ==
    ASSUME MigrationInv, NEW r \in Requests, Check(r)
    PROVE  MigrationInv'
<1>1. StoreStays
  BY Unfold DEF Check, StoreStays, env, StoreType
<1>2. CASE ~(Authorized(r) /\ AuthorizationManifestActive(r))
  BY <1>1, <1>2, EndMoves, EndedInv, StoreStaysKeeps, StepKeeps, Unfold DEF Check
<1>3. CASE Authorized(r) /\ AuthorizationManifestActive(r) /\ Kind[r] = "stage"
  <2>1. Moved(r, [req[r] EXCEPT !.pc = "stage"])
    BY <1>3, GotoMoves, Unfold DEF Check
  <2>2. RequestInv(r)'
    BY <1>1, <2>1, Unfold DEF Check, Moved, RequestInv, Compensates, RequestType, RequestRecord, StoreStays, publication
  <2>. QED
    BY <1>1, <2>1, <2>2, StoreStaysKeeps, StepKeeps
<1>4. CASE Authorized(r) /\ AuthorizationManifestActive(r) /\ Kind[r] # "stage" /\ req[r].intent = "absent"
  <2>1. Moved(r, [req[r] EXCEPT !.pc = "coordinate"])
    BY <1>4, GotoMoves, Unfold DEF Check
  <2>2. RequestInv(r)'
    BY <1>1, <1>4, <2>1, Unfold, MigrationAssumption
    DEF Check, Moved, RequestInv, Compensates, RequestType, RequestRecord, StoreStays, publication, Actions
  <2>. QED
    BY <1>1, <2>1, <2>2, StoreStaysKeeps, StepKeeps
<1>5. CASE Authorized(r) /\ AuthorizationManifestActive(r) /\ Kind[r] # "stage" /\ req[r].intent # "absent"
  <2>. DEFINE rec == [req[r] EXCEPT !.pc = ResumePoint(r), !.resumes = TRUE, !.write = "rolled_back"]
  <2>1. Moved(r, rec)
    <3>1. rec \in RequestRecord
      BY Unfold DEF RequestType, RequestRecord, LedgerStatus, ResumePoint
    <3>2. req' = [req EXCEPT ![r] = rec]
      BY <1>5, Unfold DEF Check, RequestType
    <3>. QED
      BY <3>1, <3>2, RecordMoves, Unfold
  <2>2. req[r].intent \in {"pending", "compensated", "completed"}
    BY <1>5, Unfold DEF RequestType, RequestRecord, RepairStatus
  <2>3. RequestInv(r)'
    BY <1>1, <1>5, <2>1, <2>2, Unfold
    DEF Check, ResumePoint, Moved, RequestInv, Compensates, RequestType, RequestRecord, StoreStays, publication
  <2>. QED
    BY <1>1, <2>1, <2>3, StoreStaysKeeps, StepKeeps
<1>. QED
  BY <1>2, <1>3, <1>4, <1>5

LEMMA StageKeeps ==
    ASSUME MigrationInv, NEW r \in Requests, Stage(r)
    PROVE  MigrationInv'
<1>1. run' = run \/ (run = "none" /\ run' = "validated")
  BY DEF Stage
<1>2. UNCHANGED <<activePointer, sourceActive, ledger, repair, revoked, crashes>>
  BY DEF Stage, env
<1>3. faults' \in 0..MaxFaults
  <2>1. CASE UNCHANGED faults
    BY <2>1, Unfold DEF StoreType
  <2>2. CASE ~UNCHANGED faults
    <3>1. CanFail /\ faults' = faults + 1
      BY <2>2 DEF Stage
    <3>. QED
      BY <3>1, Unfold, MigrationAssumption DEF CanFail, StoreType
  <2>. QED
    BY <2>1, <2>2
<1>4. StoreType' /\ StoreInv' /\ Progress
  BY <1>1, <1>2, <1>3, Unfold
  DEF StoreType, StoreInv, Progress, RunFitsPointer, LedgerRollbackIsTrue, SettledIntentIsTakenBack, PublicationStatus
<1>5. CASE End(r, "none")
  BY <1>4, <1>5, EndMoves, EndedInv, StepKeeps, Unfold
<1>6. CASE ~End(r, "none")
  <2>. DEFINE rec == [req[r] EXCEPT !.pc = "save", !.write = RecoveredStatus]
  <2>1. Moved(r, rec)
    <3>1. rec \in RequestRecord
      BY Unfold DEF RequestType, RequestRecord, LedgerStatus, RecoveredStatus
    <3>2. req' = [req EXCEPT ![r] = rec]
      BY <1>6, Unfold DEF Stage, RequestType
    <3>. QED
      BY <3>1, <3>2, RecordMoves, Unfold
  <2>2. RequestInv(r) /\ req[r].pc = "stage" /\ RecoveredStatus # "rolled_back"
    BY Unfold DEF Stage, RecoveredStatus
  <2>3. RequestInv(r)'
    BY <1>1, <1>2, <2>1, <2>2, Unfold DEF Moved, RequestInv, Compensates, RequestType, RequestRecord
  <2>. QED
    BY <1>4, <2>1, <2>3, StepKeeps
<1>. QED
  BY <1>5, <1>6

(* A commit leaves the store consistent, whatever becomes of it. *)
LEMMA CommitKeeps ==
    ASSUME MigrationInv, CommitOk \/ CommitThrows, UNCHANGED <<ledger, repair, env>>
    PROVE  StoreType' /\ StoreInv' /\ Progress
<1>. USE Unfold DEF StoreType, StoreInv, Progress, RunFitsPointer, LedgerRollbackIsTrue, SettledIntentIsTakenBack,
                    PublicationStatus, env
<1>1. faults' \in 0..MaxFaults
  <2>1. CASE UNCHANGED faults
    BY <2>1
  <2>2. CASE ~UNCHANGED faults
    <3>1. faults < MaxFaults /\ faults' = faults + 1
      BY <2>2 DEF CommitOk, CommitThrows, CanFail, publication
    <3>. QED
      BY <3>1, MigrationAssumption
  <2>. QED
    BY <2>1, <2>2
<1>2. CASE CommitOk
  BY <1>1, <1>2 DEF CommitOk
<1>3. CASE CommitThrows
  BY <1>1, <1>3 DEF CommitThrows, publication
<1>. QED
  BY <1>2, <1>3

LEMMA CoordinateKeeps ==
    ASSUME MigrationInv, NEW r \in Requests, Coordinate(r)
    PROVE  MigrationInv'
<1>1. StoreType' /\ StoreInv' /\ Progress
  BY CommitKeeps DEF Coordinate
<1>2. CASE End(r, "none")
  BY <1>1, <1>2, EndMoves, EndedInv, StepKeeps, Unfold
<1>3. CASE PublicationMoved(r)
  <2>. DEFINE rec == [req[r] EXCEPT !.pc = "recheck",
                                    !.write = IF Kind[r] = "cutover" THEN "cutover" ELSE "rolled_back"]
  <2>1. Moved(r, rec)
    BY <1>3, PublicationMoves, Unfold
  <2>2. RequestInv(r)'
    <3>1. UNCHANGED repair /\ Kind[r] = "cutover"
      BY DEF Coordinate
    <3>. QED
      BY <1>1, <2>1, <3>1, Unfold
      DEF Coordinate, Moved, RequestInv, Compensates, RequestType, RequestRecord, Progress
  <2>. QED
    BY <1>1, <2>1, <2>2, StepKeeps
<1>. QED
  BY <1>2, <1>3 DEF Coordinate

-----------------------------------------------------------------------------
(* The three steps of a rollback.                                          *)

(* What a rollback leaves of the publication. *)
RollbackLeaves ==
    /\ run' \in PublicationStatus /\ activePointer' \in {"staged", "restored"}
    /\ RunFitsPointer'
    /\ activePointer = "restored" => activePointer' = "restored"
    /\ UNCHANGED <<sourceActive, ledger, repair, env>>
    /\ faults' = faults \/ (CanFail /\ faults' = faults + 1)

LEMMA RollbackStore ==
    ASSUME MigrationInv, RollbackLeaves
    PROVE  StoreType' /\ StoreInv' /\ Progress
<1>1. faults' \in 0..MaxFaults
  BY Unfold, MigrationAssumption DEF RollbackLeaves, CanFail, StoreType
<1>. QED
  BY <1>1, Unfold
  DEF RollbackLeaves, StoreType, StoreInv, Progress, LedgerRollbackIsTrue, SettledIntentIsTakenBack, env

(* Where a rollback may be, of a fresh request or of a compensation. *)
RollingBack(r) ==
    /\ req[r].pc \in {"reconcile", "repoint", "finish"} \/ req[r].pc = (IF Compensates(r) THEN "takeback" ELSE "coordinate")

LEMMA RollingBackOwns ==
    ASSUME MigrationInv, NEW r \in Requests, RollingBack(r)
    PROVE  /\ Kind[r] \in Actions
           /\ Compensates(r) => req[r].intent # "absent" /\ repair[Kind[r]] # "absent"
           /\ ~Compensates(r) => Kind[r] = "rollback" /\ ~req[r].resumes
<1>1. RequestInv(r)
  BY Unfold
<1>. QED
  BY <1>1 DEF RollingBack, RequestInv, Compensates, Actions

(* It answers when the pointer serves the restored generation. *)
LEMMA RollbackReturned ==
    ASSUME MigrationInv, NEW r \in Requests, RollingBack(r), RollbackReturns(r),
           RollbackLeaves, activePointer' = "restored"
    PROVE  MigrationInv'
<1>1. StoreType' /\ StoreInv' /\ Progress /\ UNCHANGED repair /\ RequestInv(r)
  BY RollbackStore, Unfold DEF RollbackLeaves
<1>2. CASE Compensates(r)
  <2>1. Moved(r, [req[r] EXCEPT !.pc = "mark"])
    BY <1>2, GotoMoves, Unfold DEF RollbackReturns
  <2>2. RequestInv(r)'
    BY <1>1, <1>2, <2>1, RollingBackOwns, Unfold
    DEF Moved, RequestInv, Compensates, RequestType, RequestRecord
  <2>. QED
    BY <1>1, <2>1, <2>2, StepKeeps
<1>3. CASE ~Compensates(r)
  <2>. DEFINE rec == [req[r] EXCEPT !.pc = "recheck",
                                    !.write = IF Kind[r] = "cutover" THEN "cutover" ELSE "rolled_back"]
  <2>1. Moved(r, rec)
    BY <1>3, PublicationMoves, Unfold DEF RollbackReturns
  <2>2. RequestInv(r)'
    BY <1>1, <1>3, <2>1, RollingBackOwns, Unfold
    DEF Moved, RequestInv, Compensates, RequestType, RequestRecord
  <2>. QED
    BY <1>1, <2>1, <2>2, StepKeeps
<1>. QED
  BY <1>2, <1>3

(* Its failure leaves a compensation to the intent. *)
LEMMA RollbackGivenUp ==
    ASSUME MigrationInv, NEW r \in Requests, RollingBack(r) \/ req[r].pc = "mark", RollbackFails(r),
           StoreType' /\ StoreInv' /\ Progress, UNCHANGED repair
    PROVE  MigrationInv'
<1>. DEFINE result == IF Compensates(r) /\ ~req[r].resumes THEN "denied_after_publication" ELSE "none"
<1>1. Moved(r, [Idle EXCEPT !.result = result])
  BY EndMoves, Unfold DEF RollbackFails
<1>2. result = "denied_after_publication" => Kind[r] \in Actions /\ repair'[Kind[r]] # "absent"
  <2>1. RequestInv(r)
    BY Unfold
  <2>. QED
    BY <2>1, RollingBackOwns DEF RequestInv
<1>. QED
  BY <1>1, <1>2, EndedInv, StepKeeps

(* It goes on from one of its steps to the next. *)
LEMMA RollbackGoesOn ==
    ASSUME MigrationInv, NEW r \in Requests, RollingBack(r), NEW pc \in {"reconcile", "repoint", "finish"},
           Proceed(r, pc), RollbackLeaves, pc = "repoint" \/ activePointer' = "restored"
    PROVE  MigrationInv'
<1>1. StoreType' /\ StoreInv' /\ Progress /\ UNCHANGED repair /\ RequestInv(r)
  BY RollbackStore, Unfold DEF RollbackLeaves
<1>2. Moved(r, [req[r] EXCEPT !.pc = pc])
  BY GotoMoves, Unfold
<1>3. activePointer' # "source"
  BY DEF RollbackLeaves
<1>5. /\ Kind[r] \in Actions /\ repair' = repair /\ req[r] \in RequestRecord
      /\ Compensates(r) => req[r].intent # "absent"
  BY <1>1, RollingBackOwns, Unfold DEF RequestType
<1>6. activePointer = "restored" => activePointer' = "restored"
  BY DEF RollbackLeaves
<1>4. RequestInv(r)'
  BY <1>1, <1>2, <1>3, <1>5, <1>6 DEF Moved, RequestInv, Compensates, RequestType, RequestRecord
<1>. QED
  BY <1>1, <1>2, <1>4, StepKeeps

LEMMA TakeBackKeeps ==
    ASSUME MigrationInv, NEW r \in Requests, TakeBack(r)
    PROVE  MigrationInv'
<1>1. StoreInv /\ RequestInv(r) /\ StoreType
  BY Unfold
<1>2. CASE RollbackLook(r)
  <2>1. RollingBack(r) /\ UNCHANGED <<publication, ledger, repair, env>>
    BY <1>2 DEF RollbackLook, RollingBack
  <2>2. faults' = faults \/ (CanFail /\ faults' = faults + 1)
    BY <1>2 DEF RollbackLook
  <2>3. CASE RollbackFails(r)
    <3>1. StoreType' /\ StoreInv' /\ Progress
      BY <1>1, <2>1, <2>2, MigrationAssumption
      DEF StoreType, StoreInv, Progress, RunFitsPointer, LedgerRollbackIsTrue, SettledIntentIsTakenBack, publication, env, CanFail
    <3>. QED
      BY <2>1, <2>3, <3>1, RollbackGivenUp
  <2>4. CASE ~RollbackFails(r)
    <3>1. RollbackLeaves
      BY <1>1, <1>2, <2>1, <2>2, <2>4
      DEF RollbackLook, RollbackLeaves, StoreType, StoreInv, RunFitsPointer, publication, PublicationStatus
    <3>2. \/ run = "rolled_back" /\ RollbackReturns(r)
          \/ run = "rolling_back" /\ Proceed(r, "reconcile")
          \/ Proceed(r, "repoint")
      BY <1>2, <2>4 DEF RollbackLook
    <3>3. run \in {"rolled_back", "rolling_back"} => activePointer' = "restored"
      BY <1>1, <2>1 DEF StoreInv, RunFitsPointer, publication
    <3>. QED
      BY <2>1, <3>1, <3>2, <3>3, RollbackReturned, RollbackGoesOn
  <2>. QED
    BY <2>3, <2>4
<1>3. CASE RollbackReconcile(r)
  <2>1. RollingBack(r) /\ activePointer = "restored" /\ UNCHANGED repair
    BY <1>1, <1>3 DEF RollbackReconcile, RollingBack, RequestInv
  <2>2. RollbackLeaves /\ activePointer' = "restored"
    BY <1>1, <1>3, <2>1
    DEF RollbackReconcile, RollbackLeaves, StoreType, StoreInv, RunFitsPointer, PublicationStatus
  <2>. QED
    BY <1>3, <2>1, <2>2, RollbackReturned, RollbackGivenUp, RollbackStore DEF RollbackReconcile
<1>4. CASE RollbackRepoint(r)
  <2>1. RollingBack(r) /\ activePointer \in {"staged", "restored"} /\ UNCHANGED repair
    BY <1>1, <1>4 DEF RollbackRepoint, RollingBack, RequestInv, StoreType
  <2>2. RollbackLeaves
    BY <1>1, <1>4, <2>1
    DEF RollbackRepoint, RollbackLeaves, StoreType, StoreInv, RunFitsPointer, PublicationStatus
  <2>3. RollbackFails(r) \/ (Proceed(r, "finish") /\ activePointer' = "restored")
    BY <1>4 DEF RollbackRepoint
  <2>. QED
    BY <2>1, <2>2, <2>3, RollbackGoesOn, RollbackGivenUp, RollbackStore
<1>5. CASE RollbackFinish(r)
  <2>1. RollingBack(r) /\ activePointer = "restored" /\ UNCHANGED repair
    BY <1>1, <1>5 DEF RollbackFinish, RollingBack, RequestInv
  <2>2. RollbackLeaves /\ activePointer' = "restored"
    BY <1>1, <1>5, <2>1
    DEF RollbackFinish, RollbackLeaves, StoreType, StoreInv, RunFitsPointer, PublicationStatus
  <2>. QED
    BY <1>5, <2>1, <2>2, RollbackReturned, RollbackGivenUp, RollbackStore DEF RollbackFinish
<1>. QED
  BY <1>2, <1>3, <1>4, <1>5 DEF TakeBack

LEMMA RecheckKeeps ==
    ASSUME MigrationInv, NEW r \in Requests, Recheck(r)
    PROVE  MigrationInv'
<1>. DEFINE next == IF Authorized(r) THEN "save" ELSE "prepare"
<1>1. StoreStays
  BY Unfold DEF Recheck, StoreStays, env, StoreType
<1>2. Moved(r, [req[r] EXCEPT !.pc = next])
  BY GotoMoves, Unfold DEF Recheck
<1>3. RequestInv(r) /\ req[r].pc = "recheck" /\ UNCHANGED <<activePointer, repair>>
  BY Unfold DEF Recheck, publication
<1>4. Kind[r] # "cutover" => Kind[r] = "rollback"
  BY <1>3 DEF RequestInv, Actions
<1>5. RequestInv(r)'
  BY <1>2, <1>3, <1>4, Unfold DEF Moved, RequestInv, Compensates, RequestType, RequestRecord
<1>. QED
  BY <1>1, <1>2, <1>5, StoreStaysKeeps, StepKeeps

LEMMA PrepareKeeps ==
    ASSUME MigrationInv, NEW r \in Requests, PrepareIntent(r)
    PROVE  MigrationInv'
<1>1. RequestInv(r) /\ req[r].pc = "prepare" /\ Kind[r] \in Actions
  BY Unfold DEF PrepareIntent, RequestInv
<1>2. UNCHANGED <<publication, ledger, faults, env>>
  BY DEF PrepareIntent
<1>3. repair' = [repair EXCEPT ![Kind[r]] = IF @ = "absent" THEN "pending" ELSE @]
  BY DEF PrepareIntent
<1>4. StoreType' /\ StoreInv' /\ Progress /\ repair'[Kind[r]] # "absent"
  BY <1>1, <1>2, <1>3, Unfold
  DEF StoreType, StoreInv, Progress, RunFitsPointer, LedgerRollbackIsTrue, SettledIntentIsTakenBack, RepairStatus, publication, env
<1>. DEFINE rec == [req[r] EXCEPT !.pc = IF Kind[r] = "cutover" THEN "takeback" ELSE "mark",
                                  !.intent = repair'[Kind[r]]]
<1>5. Moved(r, rec)
  <2>1. rec \in RequestRecord
    <3>1. repair'[Kind[r]] \in RepairStatus
      BY <1>1, <1>4 DEF StoreType
    <3>2. CASE Kind[r] = "cutover"
      BY <3>1, <3>2, Unfold DEF RequestType, RequestRecord
    <3>3. CASE Kind[r] # "cutover"
      BY <3>1, <3>3, Unfold DEF RequestType, RequestRecord
    <3>. QED
      BY <3>2, <3>3
  <2>2. req' = [req EXCEPT ![r] = rec]
    <3>1. req' = [req EXCEPT ![r].pc = IF Kind[r] = "cutover" THEN "takeback" ELSE "mark",
                             ![r].intent = repair'[Kind[r]]]
      BY DEF PrepareIntent
    <3>. QED
      BY <3>1, Unfold DEF RequestType
  <2>. QED
    BY <2>1, <2>2, RecordMoves, Unfold
<1>6. RequestInv(r)'
  <2>1. Kind[r] # "cutover" => activePointer' = "restored"
    BY <1>1, <1>2 DEF RequestInv, Actions, publication
  <2>2. req'[r].intent \in {"compensated", "completed"} => activePointer' = "restored"
    BY <1>1, <1>4, <1>5 DEF Moved, StoreInv, SettledIntentIsTakenBack
  <2>. QED
    BY <1>1, <1>4, <1>5, <2>1, <2>2, Unfold DEF Moved, RequestInv, Compensates, RequestType, RequestRecord
<1>. QED
  BY <1>4, <1>5, <1>6, StepKeeps

LEMMA MarkKeeps ==
    ASSUME MigrationInv, NEW r \in Requests, Mark(r)
    PROVE  MigrationInv'
<1>1. RequestInv(r) /\ req[r].pc = "mark" /\ UNCHANGED <<publication, ledger, faults, env>>
  BY Unfold DEF Mark
<1>2. activePointer = "restored" /\ Kind[r] \in Actions /\ repair[Kind[r]] # "absent"
  BY <1>1 DEF RequestInv
<1>7. CASE RollbackFails(r) /\ UNCHANGED repair
  <2>1. StoreType' /\ StoreInv' /\ Progress
    BY <1>1, <1>7, Unfold
    DEF StoreType, StoreInv, Progress, RunFitsPointer, LedgerRollbackIsTrue, SettledIntentIsTakenBack, publication, env
  <2>. QED
    BY <1>1, <1>7, <2>1, RollbackGivenUp
<1>. SUFFICES ASSUME ~(RollbackFails(r) /\ UNCHANGED repair) PROVE MigrationInv'
  BY <1>7
<1>3. repair' = [repair EXCEPT ![Kind[r]] = IF @ = "pending" THEN "compensated" ELSE @]
  BY DEF Mark
<1>4. StoreType' /\ StoreInv' /\ Progress /\ repair'[Kind[r]] # "absent"
  BY <1>1, <1>2, <1>3, Unfold
  DEF StoreType, StoreInv, Progress, RunFitsPointer, LedgerRollbackIsTrue, SettledIntentIsTakenBack, RepairStatus, publication, env
<1>5. CASE req[r].resumes
  <2>. DEFINE rec == [req[r] EXCEPT !.pc = "save", !.intent = repair'[Kind[r]]]
  <2>1. Moved(r, rec)
    <3>1. rec \in RequestRecord
      BY ZenonT(60), <1>2, <1>4, Unfold DEF RequestType, RequestRecord, StoreType
    <3>2. req' = [req EXCEPT ![r] = rec]
      BY <1>5, Unfold DEF Mark, RequestType
    <3>. QED
      BY <3>1, <3>2, RecordMoves, Unfold
  <2>2. RequestInv(r)'
    BY <1>1, <1>2, <1>4, <2>1, Unfold DEF Moved, RequestInv, Compensates, RequestType, RequestRecord, publication
  <2>. QED
    BY <1>4, <2>1, <2>2, StepKeeps
<1>6. CASE ~req[r].resumes
  BY <1>2, <1>4, <1>6, EndMoves, EndedInv, StepKeeps, Unfold DEF Mark
<1>. QED
  BY <1>5, <1>6

LEMMA SaveKeeps ==
    ASSUME MigrationInv, NEW r \in Requests, Save(r)
    PROVE  MigrationInv'
<1>1. RequestInv(r) /\ req[r].pc = "save" /\ UNCHANGED <<publication, repair, faults, env>> /\ ledger' = req[r].write
  BY Unfold DEF Save
<1>2. ledger' = "rolled_back" => activePointer' = "restored"
  BY <1>1 DEF RequestInv, publication
<1>3. StoreType' /\ StoreInv' /\ Progress
  BY <1>1, <1>2, Unfold
  DEF StoreType, StoreInv, Progress, RunFitsPointer, LedgerRollbackIsTrue, SettledIntentIsTakenBack, RequestType, RequestRecord, publication, env
<1>4. CASE req[r].resumes /\ req[r].intent # "completed"
  <2>1. Moved(r, [req[r] EXCEPT !.pc = "complete"])
    BY <1>4, GotoMoves, Unfold DEF Save
  <2>2. RequestInv(r)'
    BY <1>1, <1>4, <2>1, Unfold DEF Moved, RequestInv, Compensates, RequestType, RequestRecord, publication
  <2>. QED
    BY <1>3, <2>1, <2>2, StepKeeps
<1>5. CASE ~(req[r].resumes /\ req[r].intent # "completed")
  BY <1>3, <1>5, EndMoves, EndedInv, StepKeeps, Unfold DEF Save
<1>. QED
  BY <1>4, <1>5

LEMMA CompleteKeeps ==
    ASSUME MigrationInv, NEW r \in Requests, Complete(r)
    PROVE  MigrationInv'
<1>1. RequestInv(r) /\ req[r].pc = "complete" /\ UNCHANGED <<publication, ledger, faults, env>>
  BY Unfold DEF Complete
<1>2. activePointer = "restored" /\ Kind[r] \in Actions /\ repair' = [repair EXCEPT ![Kind[r]] = "completed"]
  BY <1>1 DEF RequestInv, Complete
<1>3. StoreType' /\ StoreInv' /\ Progress
  BY <1>1, <1>2, Unfold
  DEF StoreType, StoreInv, Progress, RunFitsPointer, LedgerRollbackIsTrue, SettledIntentIsTakenBack, RepairStatus, publication, env
<1>. QED
  BY <1>3, EndMoves, EndedInv, StepKeeps, Unfold DEF Complete

LEMMA CrashKeeps ==
    ASSUME MigrationInv, NEW r \in Requests, Die(r)
    PROVE  MigrationInv'
<1>1. StoreStays
  BY Unfold, MigrationAssumption DEF Die, StoreStays, StoreType, publication
<1>. QED
  BY <1>1, EndMoves, EndedInv, StoreStaysKeeps, StepKeeps, Unfold DEF Die

LEMMA RevokeKeeps ==
    ASSUME MigrationInv, NEW r \in Requests, Revoke(r)
    PROVE  MigrationInv'
<1>1. StoreStays /\ UNCHANGED req
  BY Unfold DEF Revoke, StoreStays, StoreType, publication
<1>2. StoreType' /\ StoreInv' /\ Progress
  BY <1>1, StoreStaysKeeps
<1>3. \A q \in Requests : RequestInv(q)'
  BY <1>1, <1>2, OthersKeep
<1>. QED
  BY <1>1, <1>2, <1>3, Unfold DEF MigrationInv, MigrationTypeOK, StoreType, RequestType

-----------------------------------------------------------------------------
(* The invariant holds of every reachable state. *)
THEOREM MigrationInvariant == MigrationSpec => []MigrationInv
<1>1. MigrationInit => MigrationInv
  BY MigrationAssumption
  DEF MigrationInit, MigrationInv, MigrationTypeOK, StoreInv, RequestInv, Compensates, RunFitsPointer, LedgerRollbackIsTrue, SettledIntentIsTakenBack, Idle,
      Actions, PublicationStatus, LedgerStatus, RepairStatus, RequestRecord
<1>2. MigrationInv /\ [MigrationNext]_migrationVars => MigrationInv'
  <2>. SUFFICES ASSUME MigrationInv, [MigrationNext]_migrationVars PROVE MigrationInv'
    OBVIOUS
  <2>1. ASSUME NEW r \in Requests, Start(r) \/ Step(r) \/ Die(r) \/ Revoke(r)
        PROVE  MigrationInv'
    BY <2>1, StartKeeps, LoadKeeps, CheckKeeps, StageKeeps, CoordinateKeeps, RecheckKeeps, PrepareKeeps,
       TakeBackKeeps, MarkKeeps, SaveKeeps, CompleteKeeps, CrashKeeps, RevokeKeeps
    DEF Step
  <2>2. CASE UNCHANGED migrationVars
    <3>1. StoreStays /\ UNCHANGED req
      BY <2>2, Unfold DEF migrationVars, StoreStays, StoreType, publication
    <3>2. StoreType' /\ StoreInv' /\ Progress
      BY <3>1, StoreStaysKeeps
    <3>3. \A q \in Requests : RequestInv(q)'
      BY <3>1, <3>2, OthersKeep
    <3>. QED
      BY <3>1, <3>2, <3>3, Unfold DEF MigrationInv, MigrationTypeOK, StoreType, RequestType
  <2>. QED
    BY <2>1, <2>2 DEF MigrationNext
<1>. QED
  BY <1>1, <1>2, PTL DEF MigrationSpec

(* Every variable keeps its type, whatever the requests and the bounds. *)
THEOREM MigrationTypeCorrect == MigrationSpec => []MigrationTypeOK
  BY MigrationInvariant, PTL DEF MigrationInv

(* The ledger says "rolled_back" only of a publication that was taken back *)
(* for good: the pointer serves the restored generation.                   *)
THEOREM LedgerTellsTheTruth == MigrationSpec => []LedgerRollbackIsTrue
<1>1. MigrationInv => LedgerRollbackIsTrue
  BY DEF MigrationInv, StoreInv
<1>. QED
  BY <1>1, MigrationInvariant, PTL

(* A compensation intent is settled only once the publication is taken     *)
(* back, whoever settled it.                                               *)
THEOREM SettledIntents == MigrationSpec => []SettledIntentIsTakenBack
<1>1. MigrationInv => SettledIntentIsTakenBack
  BY DEF MigrationInv, StoreInv
<1>. QED
  BY <1>1, MigrationInvariant, PTL

(* No actor is refused after the publication moved without an intent that  *)
(* says so.                                                                *)
THEOREM RefusalsAreHandedOver == MigrationSpec => []RefusedRequestIsHandedOver
<1>1. MigrationInv => RefusedRequestIsHandedOver
  BY DEF MigrationInv, RequestInv, RefusedRequestIsHandedOver
<1>. QED
  BY <1>1, MigrationInvariant, PTL
=============================================================================
