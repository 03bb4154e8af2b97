------------------------- MODULE StagedPublication -------------------------
(***************************************************************************)
(* The staged publication coordinator: reindex runs over one publication   *)
(* scope race for the scope's durable active pointer.  Every request is a  *)
(* call slot w \in Workers; its steps are the object-store operations of   *)
(* begin/recordStaged, commit, reconcile and rollback, so two calls        *)
(* interleave between any two awaits that touch shared state.              *)
(*                                                                         *)
(* The version of a stored JSON object is its content (LocalObjectStore    *)
(* hashes it, S3 uses the ETag), hence a conditional put is a comparison   *)
(* with the record read before.  A fencing token is a hash of run, kind,   *)
(* generation and caller, and a generation is acquired once, so the        *)
(* generation stands for the token.                                        *)
(***************************************************************************)
EXTENDS Naturals, FiniteSets

CONSTANTS
    Runs,          \* publication runs of the scope (publicationIdentity.runId)
    Workers,       \* concurrent call slots of API processes
    Compensators,  \* slots whose rollback presents the shared compensation operationId
    Source,        \* the document the scope was created from
    NoArtifact,    \* "no artifact": absent pointer, manifest without control
    NoRun,         \* the run of an idle slot
    MaxGen,        \* bound on run.generation
    Stalls         \* may a lease expire while the call that holds it is alive?

ASSUME ConstantAssumption ==
    /\ MaxGen \in Nat \ {0}
    /\ Stalls \in BOOLEAN
    /\ Compensators \subseteq Workers
    /\ NoRun \notin Runs
    /\ Source # NoArtifact
    /\ \A r \in Runs, g \in 0..MaxGen : <<r, g>> \notin {Source, NoArtifact}

VARIABLES
    runs,        \* publication/runs/<runId>.json
    expired,     \* has run.lease.expiresAt passed?
    pointer,     \* publication/active/<scope>.json
    manifest,    \* manifests/<artifactId>.json
    bundles,     \* namespaced objects and vectors, by artifact and generation
    stagedFiles, \* runs whose staged artifact still exists
    everActive,  \* history: artifacts the pointer has named
    call         \* the local state of every call slot

vars == <<runs, expired, pointer, manifest, bundles, stagedFiles, everActive, call>>

Gens == 0..MaxGen

(* Generation 0 names the artifact a commit publishes, generation g > 0    *)
(* the immutable copy the rollback attempt of generation g prepares.       *)
Published(r) == <<r, 0>>
RolledBack(r, g) == <<r, g>>
Artifacts == {Source} \cup (Runs \X Gens)

RunStatus == {"absent", "initialized", "staging", "validated", "committing",
              "committed", "rolling_back", "rolled_back"}

(* A lease belongs either to a call with a fresh random worker id or to    *)
(* the compensation operation; its generation is always run.generation.    *)
RunRecord == [status   : RunStatus,
              gen      : Gens,
              lease    : {"none", "own", "operation"},
              prepared : Gens,                         \* preparedCommit.generation
              rollback : Gens,                         \* preparedRollback.generation
              prev     : Artifacts \cup {NoArtifact}]  \* previousActiveArtifactId

AbsentRun == [status |-> "absent", gen |-> 0, lease |-> "none",
              prepared |-> 0, rollback |-> 0, prev |-> NoArtifact]

NoPointer == [art |-> NoArtifact, gen |-> 0, prev |-> NoArtifact]

(* A stored pointer names an artifact.                                     *)
PointerRecord == {NoPointer} \cup [art  : Artifacts,
                                   gen  : Gens,
                                   prev : Artifacts \cup {NoArtifact}]

Control == [art : Artifacts \cup {NoArtifact}, gen : Gens]
NoControl == [art |-> NoArtifact, gen |-> 0]

ManifestRecord == [state : {"absent", "active", "superseded"}, control : Control]
AbsentManifest == [state |-> "absent", control |-> NoControl]

PcLabel == {"idle",
    "annotate", "create", "stage_lease", "staging",
    "commit_lease", "prepare", "record", "read_pointer", "cas_pointer",
    "finish", "finish_only", "supersede", "cleanup_staged",
    "commit_failed", "commit_cleanup", "commit_release",
    "reconcile", "rec_rolled_back", "rec_committed", "rec_committed_cas",
    "rec_expired", "rec_expired_cas", "rec_rollback", "rec_rollback_cas",
    "rb_lease", "rb_read", "rb_prepare", "rb_record", "rb_validate", "rb_assert",
    "rb_cas", "rb_finish", "rb_failed", "rb_cleanup", "rb_release"}

CallRecord == [pc    : PcLabel,
               run   : Runs \cup {NoRun},
               src   : Artifacts \cup {NoArtifact},   \* begin's sourceManifest
               fence : Gens,                          \* lease.fence.generation
               snap  : RunRecord,                     \* the run as last read
               ptr   : PointerRecord]                 \* the pointer as last read

NoCall == [pc |-> "idle", run |-> NoRun, src |-> NoArtifact, fence |-> 0,
           snap |-> AbsentRun, ptr |-> NoPointer]

TypeOK ==
    /\ runs \in [Runs -> RunRecord]
    /\ expired \in [Runs -> BOOLEAN]
    /\ pointer \in PointerRecord
    /\ manifest \in [Artifacts -> ManifestRecord]
    /\ bundles \subseteq Artifacts \X Gens
    /\ stagedFiles \subseteq Runs
    /\ everActive \subseteq Artifacts
    /\ call \in [Workers -> CallRecord]
    /\ \A w \in Workers : call[w].pc # "idle" => call[w].run \in Runs

Init ==
    /\ runs = [r \in Runs |-> AbsentRun]
    /\ expired = [r \in Runs |-> FALSE]
    /\ pointer = NoPointer
    /\ manifest = [a \in Artifacts |->
                     IF a = Source THEN [state |-> "active", control |-> NoControl]
                                   ELSE AbsentManifest]
    /\ bundles = {<<Source, 0>>}
    /\ stagedFiles = {}
    /\ everActive = {}
    /\ call = [w \in Workers |-> NoCall]

-----------------------------------------------------------------------------
(* Shared vocabulary of the steps.                                         *)

Goto(w, label) == call' = [call EXCEPT ![w].pc = label]
Return(w) == call' = [call EXCEPT ![w] = NoCall]

Live(r) == runs[r].lease # "none" /\ ~expired[r]

(* A put to the run record: acquiring a generation starts a fresh lease.   *)
PutRun(r, rec) ==
    /\ runs' = [runs EXCEPT ![r] = rec]
    /\ expired' = [expired EXCEPT ![r] = @ /\ rec.gen = runs[r].gen /\ rec.lease # "none"]

(* Mutant: any lease of the run is taken for the call's own.               *)
FenceHoldsByStatus(w) == runs[call[w].run].lease # "none"

(* updateWithFence's check: the stored version is the one last read and    *)
(* its lease is the one this call acquired; expiry is not looked at.       *)
FenceHolds(w) ==
    LET run == runs[call[w].run]
    IN run = call[w].snap /\ run.lease # "none" /\ run.gen = call[w].fence

CurrentFor(r) == pointer.art = Published(r)

(* Mutant: the control carries the whole pointer.                          *)
WholePointerOf(p) == p

ControlOf(p) == [art |-> p.art, gen |-> p.gen]

Intact(a, g) ==
    /\ manifest[a] = [state |-> "active", control |-> [art |-> a, gen |-> g]]
    /\ <<a, g>> \in bundles

(* rollbackPointerMatches: the pointer's previous manifest key must be the *)
(* canonical one, which only run.preparedCommit records.                   *)
RollbackMatches(r, run, p) ==
    run.rollback # 0 /\ run.prepared # 0 /\ p.art = RolledBack(r, run.rollback)

NewPointer(a, g) == [art |-> a, gen |-> g, prev |-> pointer.art]

Supersede(a) == manifest' = [manifest EXCEPT ![a].state = IF @ = "absent" THEN @ ELSE "superseded"]

DeleteArtifact(a, g) ==
    /\ manifest' = [manifest EXCEPT ![a] = AbsentManifest]
    /\ bundles' = bundles \ {<<a, g>>}

store == <<manifest, bundles, stagedFiles>>
pointerVars == <<pointer, everActive>>
runVars == <<runs, expired>>

-----------------------------------------------------------------------------
(* begin and recordStaged (stageReindexMigration).                         *)

(* ensureBootstrapPointer for the active source manifest the caller read.  *)
BeginRead(w, r, a) ==
    /\ call[w].pc = "idle"
    /\ manifest[a].state = "active"
    /\ pointer' = IF pointer = NoPointer THEN NewPointer(a, 0) ELSE pointer
    /\ everActive' = everActive \cup {pointer'.art}
    /\ call' = [call EXCEPT ![w] = [NoCall EXCEPT !.pc = "annotate", !.run = r,
                                                  !.src = a, !.ptr = pointer']]
    /\ UNCHANGED <<runVars, store>>

(* Mutant: the source's manifest is not given its control.                 *)
AnnotateSkipped(w) ==
    /\ call[w].pc = "annotate"
    /\ IF manifest[call[w].src].state = "absent" THEN Return(w) ELSE Goto(w, "create")
    /\ UNCHANGED <<runVars, pointerVars, store>>

Annotate(w) ==
    /\ call[w].pc = "annotate"
    /\ LET a == call[w].src
       IN IF manifest[a].state = "absent"
          THEN Return(w) /\ UNCHANGED manifest
          ELSE /\ manifest' = [manifest EXCEPT ![a].control = ControlOf(call[w].ptr)]
               /\ Goto(w, "create")
    /\ UNCHANGED <<runVars, pointerVars, bundles, stagedFiles>>

(* put-if-absent of the run, then the read that decides what to do.        *)
CreateRun(w) ==
    /\ call[w].pc = "create"
    /\ LET r == call[w].run
           new == [AbsentRun EXCEPT !.status = "initialized", !.prev = call[w].ptr.art]
       IN /\ IF runs[r].status = "absent" THEN PutRun(r, new) ELSE UNCHANGED runVars
          /\ IF runs[r].status \in {"committed", "validated"}
             THEN Return(w)
             ELSE Goto(w, "stage_lease")
    /\ UNCHANGED <<pointerVars, store>>

(* The call takes the next generation of its run, or finds it cannot.      *)
TakeLease(w, kind, allowed, status, next) ==
    LET r == call[w].run
        leased == [runs[r] EXCEPT !.status = status, !.gen = @ + 1, !.lease = kind,
                                  !.rollback = IF status = "rolling_back" THEN 0 ELSE @]
    IN IF Live(r) \/ runs[r].status \notin allowed
       THEN Return(w) /\ UNCHANGED runVars
       ELSE /\ runs[r].gen < MaxGen
            /\ PutRun(r, leased)
            /\ call' = [call EXCEPT ![w].pc = next, ![w].fence = leased.gen,
                                    ![w].snap = leased]

StageLease(w) ==
    /\ call[w].pc = "stage_lease"
    /\ TakeLease(w, "own", {"initialized", "staging"}, "staging", "staging")
    /\ UNCHANGED <<pointerVars, store>>

(* A fenced update of the run; the call goes on with the new version.      *)
FencedUpdate(w, rec, next) ==
    /\ FenceHolds(w)
    /\ PutRun(call[w].run, rec)
    /\ call' = IF next = "idle"
               THEN [call EXCEPT ![w] = NoCall]
               ELSE [call EXCEPT ![w].pc = next, ![w].snap = rec]

(* PublicationFenceError: the update is refused.                           *)
Fenced(w, next) ==
    /\ ~FenceHolds(w)
    /\ IF next = "idle" THEN Return(w) ELSE Goto(w, next)
    /\ UNCHANGED runVars

RecordStaged(w) ==
    /\ call[w].pc = "staging"
    /\ \/ /\ FencedUpdate(w, [call[w].snap EXCEPT !.status = "validated", !.lease = "none"], "idle")
          /\ stagedFiles' = stagedFiles \cup {call[w].run}
       \/ Fenced(w, "idle") /\ UNCHANGED stagedFiles
    /\ UNCHANGED <<pointerVars, manifest, bundles>>

-----------------------------------------------------------------------------
(* commit (cutoverReindexMigration, commitApprovedSourceGovernancePublication). *)

Enter(w, r, label) == call' = [call EXCEPT ![w] = [NoCall EXCEPT !.pc = label, !.run = r]]

CommitStart(w, r) ==
    /\ call[w].pc = "idle"
    /\ runs[r].status \in {"validated", "committing"}
    /\ Enter(w, r, IF CurrentFor(r) THEN "reconcile" ELSE "commit_lease")
    /\ UNCHANGED <<runVars, pointerVars, store>>

CommitLease(w) ==
    /\ call[w].pc = "commit_lease"
    /\ TakeLease(w, "own", {"validated", "committing"}, "committing", "prepare")
    /\ UNCHANGED <<pointerVars, store>>

(* prepareCommitArtifacts: the copies and vectors go to a namespace of the *)
(* generation, the manifest to the artifact's canonical key.               *)
Prepare(w) ==
    /\ call[w].pc = "prepare"
    /\ LET a == Published(call[w].run)
       IN IF call[w].run \in stagedFiles
          THEN /\ bundles' = bundles \cup {<<a, call[w].fence>>}
               /\ manifest' = [manifest EXCEPT ![a] =
                     [state |-> "active", control |-> [art |-> a, gen |-> call[w].fence]]]
               /\ Goto(w, "record")
          ELSE Return(w) /\ UNCHANGED <<manifest, bundles>>
    /\ UNCHANGED <<runVars, pointerVars, stagedFiles>>

(* The canonical manifest is read back, then the checkpoint is written.    *)
RecordPrepared(w) ==
    /\ call[w].pc = "record"
    /\ IF Intact(Published(call[w].run), call[w].fence)
       THEN \/ FencedUpdate(w, [call[w].snap EXCEPT !.status = "committing",
                                                    !.prepared = call[w].fence], "read_pointer")
            \/ Fenced(w, "idle")
       ELSE Return(w) /\ UNCHANGED runVars
    /\ UNCHANGED <<pointerVars, store>>

(* Mutant: the commit does not ask whether the pointer still names the     *)
(* artifact the run was staged against.                                    *)
ReadPointerUnchecked(w) ==
    /\ call[w].pc = "read_pointer"
    /\ IF CurrentFor(call[w].run)
       THEN Goto(w, "finish_only")
       ELSE call' = [call EXCEPT ![w].pc = "cas_pointer", ![w].ptr = pointer]
    /\ UNCHANGED <<runVars, pointerVars, store>>

ReadPointer(w) ==
    /\ call[w].pc = "read_pointer"
    /\ \/ CurrentFor(call[w].run) /\ Goto(w, "finish_only")
       \/ /\ ~CurrentFor(call[w].run)
          /\ IF pointer.art = call[w].snap.prev
             THEN call' = [call EXCEPT ![w].pc = "cas_pointer", ![w].ptr = pointer]
             ELSE Goto(w, "commit_failed")
    /\ UNCHANGED <<runVars, pointerVars, store>>

(* The conditional put of the pointer.  The run's lease is not consulted.  *)
CasPointer(w) ==
    /\ call[w].pc = "cas_pointer"
    /\ LET a == Published(call[w].run)
       IN IF pointer = call[w].ptr
          THEN /\ pointer' = NewPointer(a, call[w].fence)
               /\ everActive' = everActive \cup {a}
               /\ Goto(w, "finish")
          ELSE Goto(w, "commit_failed") /\ UNCHANGED pointerVars
    /\ UNCHANGED <<runVars, store>>

CommittedFrom(rec) == [rec EXCEPT !.status = "committed", !.lease = "none"]

Finish(w) ==
    /\ call[w].pc = "finish"
    /\ \/ FencedUpdate(w, CommittedFrom(call[w].snap), "supersede")
       \/ Fenced(w, "commit_failed")
    /\ UNCHANGED <<pointerVars, store>>

(* The early return when the pointer is already the run's: the promise is  *)
(* not awaited inside the try, so the catch block never sees it fail.      *)
FinishOnly(w) ==
    /\ call[w].pc = "finish_only"
    /\ \/ FencedUpdate(w, CommittedFrom(call[w].snap), "idle")
       \/ Fenced(w, "idle")
    /\ UNCHANGED <<pointerVars, store>>

SupersedePrevious(w) ==
    /\ call[w].pc = "supersede"
    /\ Supersede(call[w].ptr.art)
    /\ Goto(w, "cleanup_staged")
    /\ UNCHANGED <<runVars, pointerVars, bundles, stagedFiles>>

CleanupStaged(w) ==
    /\ call[w].pc = "cleanup_staged"
    /\ stagedFiles' = stagedFiles \ {call[w].run}
    /\ Return(w)
    /\ UNCHANGED <<runVars, pointerVars, manifest, bundles>>

(* A store or hook error inside commit's try block, also one raised after  *)
(* the pointer put took effect.                                            *)
CommitFault(w) ==
    /\ call[w].pc \in {"read_pointer", "cas_pointer", "finish"}
    /\ Goto(w, "commit_failed")
    /\ UNCHANGED <<runVars, pointerVars, store>>

(* Mutant: the failed commit cleans without re-reading the pointer.        *)
CommitFailedAlwaysCleans(w) ==
    /\ call[w].pc = "commit_failed"
    /\ Goto(w, "commit_cleanup")
    /\ UNCHANGED <<runVars, pointerVars, store>>

(* The catch block: only a pointer that is not the run's is cleaned up.    *)
CommitFailed(w) ==
    /\ call[w].pc = "commit_failed"
    /\ IF CurrentFor(call[w].run) THEN Return(w) ELSE Goto(w, "commit_cleanup")
    /\ UNCHANGED <<runVars, pointerVars, store>>

CommitCleanup(w) ==
    /\ call[w].pc = "commit_cleanup"
    /\ DeleteArtifact(Published(call[w].run), call[w].fence)
    /\ Goto(w, "commit_release")
    /\ UNCHANGED <<runVars, pointerVars, stagedFiles>>

ReleaseCommitForRetry(w) ==
    /\ call[w].pc = "commit_release"
    /\ \/ FencedUpdate(w, [call[w].snap EXCEPT !.status = "validated", !.lease = "none",
                                               !.prepared = 0], "idle")
       \/ Fenced(w, "idle")
    /\ UNCHANGED <<pointerVars, store>>

-----------------------------------------------------------------------------
(* reconcile.                                                              *)

ReconcileStart(w, r) ==
    /\ call[w].pc = "idle"
    /\ runs[r].status # "absent"
    /\ Enter(w, r, "reconcile")
    /\ UNCHANGED <<runVars, pointerVars, store>>

(* Run and pointer are read; the four cases in the order of the code.      *)
ReconcileRead(w) ==
    /\ call[w].pc = "reconcile"
    /\ LET r == call[w].run
           run == runs[r]
           case == IF run.status = "rolling_back" /\ RollbackMatches(r, run, pointer)
                     THEN "rec_rolled_back"
                   ELSE IF run.status # "rolling_back" /\ CurrentFor(r) THEN "rec_committed"
                   ELSE IF run.status = "committing" /\ ~Live(r) THEN "rec_expired"
                   ELSE IF run.status = "rolling_back" /\ CurrentFor(r) /\ ~Live(r)
                     THEN "rec_rollback"
                   ELSE "idle"
       IN IF case = "idle"
          THEN Return(w)
          ELSE call' = [call EXCEPT ![w].pc = case, ![w].snap = run, ![w].ptr = pointer]
    /\ UNCHANGED <<runVars, pointerVars, store>>

(* Mutant: reconcile writes its outcome over whatever the run is by then.   *)
ReconcilePutBlind(w, rec) ==
    /\ PutRun(call[w].run, rec)
    /\ Return(w)

(* The final conditional put of a reconcile case; a lost race is ignored.  *)
ReconcilePut(w, rec) ==
    /\ IF runs[call[w].run] = call[w].snap THEN PutRun(call[w].run, rec) ELSE UNCHANGED runVars
    /\ Return(w)

RolledBackFrom(rec) == [rec EXCEPT !.status = "rolled_back", !.lease = "none"]

ReconcileRolledBack(w) ==
    /\ call[w].pc = "rec_rolled_back"
    /\ LET r == call[w].run
           g == call[w].snap.rollback
       IN IF g = call[w].snap.gen /\ Intact(RolledBack(r, g), g) /\ pointer.art = RolledBack(r, g)
          THEN ReconcilePut(w, RolledBackFrom(call[w].snap))
          ELSE Return(w) /\ UNCHANGED runVars
    /\ UNCHANGED <<pointerVars, store>>

ReconcileCommittedTidy(w) ==
    /\ call[w].pc = "rec_committed"
    /\ Supersede(call[w].ptr.prev)
    /\ stagedFiles' = stagedFiles \ {call[w].run}
    /\ Goto(w, "rec_committed_cas")
    /\ UNCHANGED <<runVars, pointerVars, bundles>>

ReconcileCommitted(w) ==
    /\ call[w].pc = "rec_committed_cas"
    /\ ReconcilePut(w, CommittedFrom(call[w].snap))
    /\ UNCHANGED <<pointerVars, store>>

(* cleanupPreparedRecord runs before the put that would detect a rival.    *)
ReconcileExpiredTidy(w) ==
    /\ call[w].pc = "rec_expired"
    /\ IF call[w].snap.prepared # 0
       THEN DeleteArtifact(Published(call[w].run), call[w].snap.prepared)
       ELSE UNCHANGED <<manifest, bundles>>
    /\ Goto(w, "rec_expired_cas")
    /\ UNCHANGED <<runVars, pointerVars, stagedFiles>>

ReconcileExpired(w) ==
    /\ call[w].pc = "rec_expired_cas"
    /\ ReconcilePut(w, [call[w].snap EXCEPT !.status = "validated", !.lease = "none",
                                            !.prepared = 0])
    /\ UNCHANGED <<pointerVars, store>>

ReconcileRollbackTidy(w) ==
    /\ call[w].pc = "rec_rollback"
    /\ LET g == call[w].snap.rollback
       IN IF g # 0 THEN DeleteArtifact(RolledBack(call[w].run, g), g)
                   ELSE UNCHANGED <<manifest, bundles>>
    /\ Goto(w, "rec_rollback_cas")
    /\ UNCHANGED <<runVars, pointerVars, stagedFiles>>

(* Mutant: an abandoned rollback is closed as done.                        *)
ReconcileRollbackCloses(w) ==
    /\ call[w].pc = "rec_rollback_cas"
    /\ ReconcilePut(w, RolledBackFrom(call[w].snap))
    /\ UNCHANGED <<pointerVars, store>>

ReconcileRollback(w) ==
    /\ call[w].pc = "rec_rollback_cas"
    /\ ReconcilePut(w, [call[w].snap EXCEPT !.status = "committed", !.lease = "none",
                                            !.rollback = 0])
    /\ UNCHANGED <<pointerVars, store>>

-----------------------------------------------------------------------------
(* rollback (rollbackReindexMigration and the compensation of a cutover).  *)

RollbackStart(w, r) ==
    /\ call[w].pc = "idle"
    /\ runs[r].status \in {"committed", "rolling_back"}
    /\ \/ /\ runs[r].status = "rolling_back"
          /\ RollbackMatches(r, runs[r], pointer)
          /\ Enter(w, r, "reconcile")
       \/ CurrentFor(r) /\ Enter(w, r, "rb_lease")
    /\ UNCHANGED <<runVars, pointerVars, store>>

(* Retries of a compensation present one operationId: a live lease of that *)
(* operation is handed to every one of them.                               *)
RollbackLease(w) ==
    /\ call[w].pc = "rb_lease"
    /\ LET r == call[w].run
       IN \/ /\ Live(r) /\ runs[r].lease = "operation" /\ w \in Compensators
             /\ call' = [call EXCEPT ![w].pc = "rb_read", ![w].fence = runs[r].gen,
                                     ![w].snap = runs[r]]
             /\ UNCHANGED runVars
          \/ /\ ~(Live(r) /\ runs[r].lease = "operation" /\ w \in Compensators)
             /\ TakeLease(w, IF w \in Compensators THEN "operation" ELSE "own",
                          {"committed", "rolling_back"}, "rolling_back", "rb_read")
    /\ UNCHANGED <<pointerVars, store>>

RollbackRead(w) ==
    /\ call[w].pc = "rb_read"
    /\ IF CurrentFor(call[w].run)
       THEN call' = [call EXCEPT ![w].pc = "rb_prepare", ![w].ptr = pointer]
       ELSE Goto(w, "rb_release")
    /\ UNCHANGED <<runVars, pointerVars, store>>

(* Both manifests must load, or the call throws and keeps its lease.       *)
Candidate(w) ==
    /\ manifest[Published(call[w].run)].state # "absent"
    /\ manifest[call[w].snap.prev].state # "absent"

(* prepareRollbackArtifact: every object is put if absent, so a call that  *)
(* shares its generation fails here and cleans the shared namespace.       *)
PrepareRollback(w) ==
    /\ call[w].pc = "rb_prepare"
    /\ LET a == RolledBack(call[w].run, call[w].fence)
           free == manifest[a].state = "absent" /\ <<a, call[w].fence>> \notin bundles
           sourced == \E g \in Gens : <<call[w].snap.prev, g>> \in bundles
       IN \/ ~Candidate(w) /\ Return(w) /\ UNCHANGED <<manifest, bundles>>
          \/ /\ Candidate(w) /\ free /\ sourced
             /\ bundles' = bundles \cup {<<a, call[w].fence>>}
             /\ manifest' = [manifest EXCEPT ![a] =
                   [state |-> "active", control |-> [art |-> a, gen |-> call[w].fence]]]
             /\ Goto(w, "rb_record")
          \/ /\ Candidate(w) /\ ~(free /\ sourced)
             /\ IF sourced THEN DeleteArtifact(a, call[w].fence)
                           ELSE UNCHANGED <<manifest, bundles>>
             /\ Goto(w, "rb_release")
    /\ UNCHANGED <<runVars, pointerVars, stagedFiles>>

RecordRollback(w) ==
    /\ call[w].pc = "rb_record"
    /\ \/ FencedUpdate(w, [call[w].snap EXCEPT !.status = "rolling_back",
                                               !.rollback = call[w].fence], "rb_validate")
       \/ Fenced(w, "rb_failed")
    /\ UNCHANGED <<pointerVars, store>>

ValidateRollback(w) ==
    /\ call[w].pc = "rb_validate"
    /\ IF /\ FenceHolds(w)
          /\ Intact(RolledBack(call[w].run, call[w].fence), call[w].fence)
          /\ Candidate(w)
       THEN Goto(w, "rb_assert")
       ELSE Goto(w, "rb_failed")
    /\ UNCHANGED <<runVars, pointerVars, store>>

(* The second fence check, the version of the pointer, the candidate.      *)
AssertRollback(w) ==
    /\ call[w].pc = "rb_assert"
    /\ IF FenceHolds(w) /\ pointer = call[w].ptr /\ Candidate(w)
       THEN Goto(w, "rb_cas")
       ELSE Goto(w, "rb_failed")
    /\ UNCHANGED <<runVars, pointerVars, store>>

(* Mutant: a rollback puts the previous artifact itself back.              *)
CasRollbackRestoresPrevious(w) ==
    /\ call[w].pc = "rb_cas"
    /\ LET a == call[w].snap.prev
       IN IF pointer = call[w].ptr
          THEN /\ pointer' = NewPointer(a, call[w].fence)
               /\ everActive' = everActive \cup {a}
               /\ Goto(w, "rb_finish")
          ELSE Goto(w, "rb_failed") /\ UNCHANGED pointerVars
    /\ UNCHANGED <<runVars, store>>

CasRollbackPointer(w) ==
    /\ call[w].pc = "rb_cas"
    /\ LET a == RolledBack(call[w].run, call[w].fence)
       IN IF pointer = call[w].ptr
          THEN /\ pointer' = NewPointer(a, call[w].fence)
               /\ everActive' = everActive \cup {a}
               /\ Goto(w, "rb_finish")
          ELSE Goto(w, "rb_failed") /\ UNCHANGED pointerVars
    /\ UNCHANGED <<runVars, store>>

(* finalizeRollbackArtifacts, then the fenced update to rolled_back.       *)
FinishRollback(w) ==
    /\ call[w].pc = "rb_finish"
    /\ IF /\ RollbackMatches(call[w].run, call[w].snap, pointer)
          /\ Intact(RolledBack(call[w].run, call[w].fence), call[w].fence)
       THEN FencedUpdate(w, RolledBackFrom(call[w].snap), "idle") \/ Fenced(w, "idle")
       ELSE Return(w) /\ UNCHANGED runVars
    /\ UNCHANGED <<pointerVars, store>>

RollbackFault(w) ==
    /\ call[w].pc \in {"rb_record", "rb_validate", "rb_assert", "rb_cas"}
    /\ Goto(w, "rb_failed")
    /\ UNCHANGED <<runVars, pointerVars, store>>

(* The pointer write took effect but its answer was lost.                  *)
RollbackAnswerLost(w) ==
    /\ call[w].pc = "rb_finish"
    /\ Goto(w, "rb_failed")
    /\ UNCHANGED <<runVars, pointerVars, store>>

RollbackFailed(w) ==
    /\ call[w].pc = "rb_failed"
    /\ LET attempt == [call[w].snap EXCEPT !.rollback = call[w].fence]
       IN IF RollbackMatches(call[w].run, attempt, pointer)
          THEN Return(w)
          ELSE Goto(w, "rb_cleanup")
    /\ UNCHANGED <<runVars, pointerVars, store>>

RollbackCleanup(w) ==
    /\ call[w].pc = "rb_cleanup"
    /\ DeleteArtifact(RolledBack(call[w].run, call[w].fence), call[w].fence)
    /\ Goto(w, "rb_release")
    /\ UNCHANGED <<runVars, pointerVars, stagedFiles>>

ReleaseRollbackForRetry(w) ==
    /\ call[w].pc = "rb_release"
    /\ \/ FencedUpdate(w, [call[w].snap EXCEPT !.status = "committed", !.lease = "none",
                                               !.rollback = 0], "idle")
       \/ Fenced(w, "idle")
    /\ UNCHANGED <<pointerVars, store>>

-----------------------------------------------------------------------------
(* The environment.                                                        *)

(* Labels at which a call still works under the lease it acquired.         *)
Holding == {"staging", "prepare", "record", "read_pointer", "cas_pointer", "finish",
            "finish_only", "commit_failed", "commit_cleanup", "commit_release",
            "rb_read", "rb_prepare", "rb_record", "rb_validate", "rb_assert", "rb_cas",
            "rb_finish", "rb_failed", "rb_cleanup", "rb_release"}

Held(r) == \E w \in Workers : /\ call[w].run = r
                              /\ call[w].pc \in Holding
                              /\ call[w].fence = runs[r].gen

(* Thirty seconds pass.  With Stalls = FALSE only an abandoned lease       *)
(* expires, which is what the lease length is chosen for.                  *)
Expire(r) ==
    /\ Live(r)
    /\ Stalls \/ ~Held(r)
    /\ expired' = [expired EXCEPT ![r] = TRUE]
    /\ UNCHANGED <<runs, pointerVars, store, call>>

(* The process of a call dies, or an error escapes the handlers above.     *)
Crash(w) ==
    /\ call[w].pc # "idle"
    /\ Return(w)
    /\ UNCHANGED <<runVars, pointerVars, store>>

Begin(w) ==
    \/ \E r \in Runs, a \in Artifacts : BeginRead(w, r, a)
    \/ Annotate(w) \/ CreateRun(w) \/ StageLease(w) \/ RecordStaged(w)

Commit(w) ==
    \/ \E r \in Runs : CommitStart(w, r)
    \/ CommitLease(w) \/ Prepare(w) \/ RecordPrepared(w) \/ ReadPointer(w)
    \/ CasPointer(w) \/ Finish(w) \/ FinishOnly(w) \/ SupersedePrevious(w)
    \/ CleanupStaged(w) \/ CommitFault(w) \/ CommitFailed(w) \/ CommitCleanup(w)
    \/ ReleaseCommitForRetry(w)

Reconcile(w) ==
    \/ \E r \in Runs : ReconcileStart(w, r)
    \/ ReconcileRead(w) \/ ReconcileRolledBack(w)
    \/ ReconcileCommittedTidy(w) \/ ReconcileCommitted(w)
    \/ ReconcileExpiredTidy(w) \/ ReconcileExpired(w)
    \/ ReconcileRollbackTidy(w) \/ ReconcileRollback(w)

Rollback(w) ==
    \/ \E r \in Runs : RollbackStart(w, r)
    \/ RollbackLease(w) \/ RollbackRead(w) \/ PrepareRollback(w) \/ RecordRollback(w)
    \/ ValidateRollback(w) \/ AssertRollback(w) \/ CasRollbackPointer(w)
    \/ FinishRollback(w) \/ RollbackFault(w) \/ RollbackAnswerLost(w)
    \/ RollbackFailed(w) \/ RollbackCleanup(w) \/ ReleaseRollbackForRetry(w)

Next ==
    \/ \E w \in Workers : Begin(w) \/ Commit(w) \/ Reconcile(w) \/ Rollback(w) \/ Crash(w)
    \/ \E r \in Runs : Expire(r)

Spec == Init /\ [][Next]_vars

-----------------------------------------------------------------------------
(* Properties.                                                             *)

(* isManifestCurrentPublication together with the readers' lifecycle check *)
Current(a) ==
    /\ manifest[a].state # "absent"
    /\ manifest[a].control \in {NoControl, ControlOf(pointer)}
    /\ manifest[a].control = NoControl \/ pointer.art = a

Visible(a) == Current(a) /\ manifest[a].state = "active"

(* The readers never mix two versions of the document: at no moment do two *)
(* manifests count as the current publication, the source that has not yet *)
(* been annotated with a pointer included (hybrid-retriever lists and      *)
(* filters by isManifestCurrentPublication).                               *)
AtMostOneVisible ==
    \A a, b \in Artifacts : Visible(a) /\ Visible(b) => a = b

(* Single winner: of the runs that were begun against the same active      *)
(* artifact at most one ever becomes active, whatever the order of their   *)
(* commits, retries and rollbacks.                                         *)
SingleWinner ==
    \A r, s \in Runs :
        /\ {Published(r), Published(s)} \subseteq everActive
        /\ runs[r].prev = runs[s].prev
        => r = s

(* The status a run record reports is backed by what the pointer did: a    *)
(* committed run was active, a run that is rolling back was active, a run  *)
(* that reports rolled_back was replaced by one of its own rollback copies. *)
StatusBackedByPointer ==
    \A r \in Runs :
        /\ runs[r].status \in {"committed", "rolling_back", "rolled_back"}
              => Published(r) \in everActive
        /\ runs[r].status = "rolled_back"
              => \E g \in Gens \ {0} : RolledBack(r, g) \in everActive

(* Fencing of the run record: of the calls that hold a lease of one run at *)
(* most one can still write it, except retries of one compensation, which  *)
(* share their lease on purpose.                                           *)
FencedWriterUnique ==
    \A v, w \in Workers :
        /\ call[v].run = call[w].run
        /\ call[v].pc \in Holding /\ FenceHolds(v)
        /\ call[w].pc \in Holding /\ FenceHolds(w)
        => v = w \/ {v, w} \subseteq Compensators

(* The coordinator implements the pointer's promise: an artifact that has  *)
(* left the pointer never returns to it.  A rollback publishes a new copy, *)
(* a late or repeated commit is refused by the conditional put.            *)
Promise == INSTANCE ActivePointer
              WITH Artifact <- Artifacts, None <- NoArtifact,
                   current <- pointer.art, ever <- everActive

PointerPromise == Promise!Spec

(* A run that has been published is never re-opened for another commit by  *)
(* a stale release or reconcile, and a rolled_back run is final.           *)
RunNeverReopened ==
    [][\A r \in Runs :
          /\ runs[r].status \in {"committed", "rolling_back", "rolled_back"}
                => runs'[r].status \in {"committed", "rolling_back", "rolled_back"}
          /\ runs[r].status = "rolled_back" => runs'[r].status = "rolled_back"]_vars

(* The pointer never names an artifact whose published objects and vectors *)
(* are gone.                                                               *)
PointerBundlePresent ==
    pointer # NoPointer => <<pointer.art, pointer.gen>> \in bundles

(* The last four are said of the code and do not hold of it in general     *)
(* (README, section 5).                                                    *)

(* README, publication invariants: a worker whose lease has expired cannot *)
(* commit, that is, the pointer is cut over only under the run's current   *)
(* and unexpired lease.                                                    *)
ExpiredCommitRejected ==
    [][\A r \in Runs :
          pointer'.art = Published(r) /\ pointer.art # Published(r)
          => pointer'.gen = runs[r].gen /\ Live(r)]_vars

(* "One durable pointer winner and exactly one visible artifact": the      *)
(* manifest of the artifact the pointer names exists, so that the readers  *)
(* find the winner.                                                        *)
PointerManifestPresent ==
    pointer # NoPointer => manifest[pointer.art].state # "absent"

(* A rollback whose pointer write took effect stays reconcilable: its run  *)
(* does not go back to committed, from where neither rollback nor          *)
(* reconcile can reach rolled_back.                                        *)
RollbackReconcilable ==
    \A r \in Runs : runs[r].status = "committed" =>
        \A g \in Gens \ {0} : pointer.art # RolledBack(r, g)

(* While the pointer names a rollback copy, the copy's manifest and its    *)
(* objects exist: failed attempts clean only what they own.                *)
RollbackCopyPresent ==
    \A r \in Runs, g \in Gens \ {0} :
        pointer.art = RolledBack(r, g) =>
            /\ manifest[RolledBack(r, g)].state # "absent"
            /\ <<RolledBack(r, g), g>> \in bundles
=============================================================================
