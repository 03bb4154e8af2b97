------------------------------- MODULE AsyncRun -------------------------------
(***************************************************************************)
(* Chat runs and document ingest runs: the request that starts a run, the  *)
(* worker and the failure marker that the state machine invokes, the run's *)
(* event log, the stream that a subscriber reads, and the cleanup of the   *)
(* runs of an owner who has been revoked.                                  *)
(*                                                                         *)
(* One run is followed.  Everybody works on the stored run: a chat worker  *)
(* by conditional writes, everybody else of an ingest run by plain ones.   *)
(* The answer, the document and the progress events in between are left    *)
(* out but for their presence; an event is numbered by its place.          *)
(***************************************************************************)
EXTENDS Naturals, Sequences

CONSTANTS
    Kinds,                  \* the kinds of run followed, of "chat" and "ingest"
    Workers,                \* invocations of the worker
    MaxFaults, MaxCrashes,
    Revocable,              \* the owner may be revoked
    Reinvoked               \* the state machine may invoke the worker again

ASSUME ConstantAssumption ==
    /\ Kinds \subseteq {"chat", "ingest"}
    /\ {MaxFaults, MaxCrashes} \subseteq Nat
    /\ {Revocable, Reinvoked} \subseteq BOOLEAN

VARIABLES
    kind,      \* of the run
    run,       \* the stored run
    events,    \* its event log
    allowed,   \* the owner may still do what the run does
    request,   \* progress of the request that starts the run
    machine,   \* progress of the state machine
    worker,    \* progress of each invocation of the worker
    marker,    \* progress of the failure markers, of the request and the machine;
               \* history: was a worker at work, or to come, when it looked?
    cleaner,   \* progress of the cleanup of the revoked owner's run
    artifact,  \* the document each ingest worker has produced
    upload,    \* the uploaded object is still there
    stream,    \* the subscriber's stream
    faults, crashes

bounds == <<faults, crashes>>
log == <<run, events>>
document == <<artifact, upload>>
vars == <<kind, run, events, allowed, request, machine, worker, marker, cleaner, artifact, upload,
          stream, faults, crashes>>

NoRun == [status |-> "none", code |-> "none", answer |-> FALSE, traced |-> FALSE]
Resting == [pc |-> "idle", then |-> "idle", claimed |-> FALSE, loaded |-> FALSE, revoked |-> FALSE]

Init ==
    /\ kind \in Kinds
    /\ run = NoRun /\ events = <<>> /\ allowed = TRUE
    /\ request = "create" /\ machine = "none"
    /\ worker = [w \in Workers |-> Resting]
    /\ marker = [m \in {"request", "machine"} |-> [pc |-> "idle", saw |-> "none", beside |-> FALSE]]
    /\ cleaner = "waiting"
    /\ artifact = [w \in Workers |-> "none"] /\ upload = TRUE
    /\ stream = [pos |-> 0, told |-> "nothing", checking |-> FALSE]
    /\ faults = 0 /\ crashes = 0

-----------------------------------------------------------------------------
Active(status) == status \in {"queued", "running"}
Alive == {w \in Workers : worker[w].pc \notin {"idle", "returned", "threw", "dead"}}
Quiet == Alive = {} /\ machine \notin {"invoke", "working"}

Fault == faults < MaxFaults /\ faults' = faults + 1
Go(w, rec) == worker' = [worker EXCEPT ![w] = rec]
To(w, pc) == Go(w, [worker[w] EXCEPT !.pc = pc])
Check(w, then) == [worker[w] EXCEPT !.pc = "check", !.then = then]
Catch(w) == [worker[w] EXCEPT !.pc = "caught"]
Say(type) == events' = Append(events, type)
Failed(code) == [run EXCEPT !.status = "failed", !.code = code, !.answer = FALSE, !.traced = kind = "ingest"]

(* A call of the store by worker w: done, or failed with or without effect. *)
Called(w, done, undone, next) ==
    \/ done /\ Go(w, next) /\ UNCHANGED faults
    \/ (done \/ undone) /\ Fault /\ Go(w, Catch(w))

(* A conditional write: what it found decides where the worker goes on.    *)
Conditional(w, from, new, next, otherwise) ==
    \/ run.status = from /\ Called(w, run' = new, UNCHANGED run, next)
    \/ run.status # from /\ UNCHANGED <<run, faults>> /\ Go(w, otherwise)

Returned(w) == [worker[w] EXCEPT !.pc = "returned"]

-----------------------------------------------------------------------------
(* The request.                                                            *)
Create ==
    /\ request = "create" /\ allowed
    /\ run' = [NoRun EXCEPT !.status = "queued"] /\ request' = "announce"
    /\ UNCHANGED <<kind, events, allowed, machine, worker, marker, cleaner, document, stream, bounds>>

(* A request that fails here leaves a queued run that nothing will start.  *)
Announce ==
    /\ request = "announce"
    /\ \/ Say("status") /\ request' = "execute" /\ UNCHANGED faults
       \/ request' = "done" /\ Fault /\ UNCHANGED events
    /\ UNCHANGED <<kind, run, allowed, machine, worker, marker, cleaner, document, stream, crashes>>

(* A start that failed is marked; the machine may run all the same.        *)
Execute ==
    /\ request = "execute" /\ request' = "done"
    /\ \/ machine' = "invoke" /\ UNCHANGED <<marker, faults>>
       \/ /\ Fault /\ machine' \in {"none", "invoke"}
          /\ marker' = [marker EXCEPT !["request"].pc = "look"]
    /\ UNCHANGED <<kind, log, allowed, worker, cleaner, document, stream, crashes>>

-----------------------------------------------------------------------------
(* The state machine: a worker that threw or died is marked, or invoked    *)
(* again if the service is to blame.                                       *)
Invoke(w) ==
    /\ machine = "invoke" /\ worker[w].pc = "idle"
    /\ machine' = "working" /\ To(w, "begin")
    /\ UNCHANGED <<kind, log, allowed, request, marker, cleaner, document, stream, bounds>>

Reinvoke ==
    /\ machine = "working" /\ Reinvoked
    /\ \E w \in Workers : worker[w].pc = "idle"
    /\ machine' = "invoke"
    /\ UNCHANGED <<kind, log, allowed, request, worker, marker, cleaner, document, stream, bounds>>

Finish(w) ==
    /\ machine = "working"
    /\ \/ worker[w].pc = "returned" /\ machine' = "done" /\ UNCHANGED marker
       \/ /\ worker[w].pc \in {"threw", "dead"} /\ machine' = "marking"
          /\ marker' = [marker EXCEPT !["machine"].pc = "look"]
    /\ UNCHANGED <<kind, log, allowed, request, worker, cleaner, document, stream, bounds>>

-----------------------------------------------------------------------------
(* Either worker checks the owner's authorization anew at every boundary;  *)
(* a lookup that fails counts as a revocation.                             *)
Authorize(w) ==
    /\ worker[w].pc = "check"
    /\ \/ allowed /\ To(w, worker[w].then) /\ UNCHANGED faults
       \/ /\ Go(w, [Catch(w) EXCEPT !.revoked = TRUE])
          /\ \/ ~allowed /\ UNCHANGED faults
             \/ allowed /\ Fault
    /\ UNCHANGED <<kind, log, allowed, request, machine, marker, cleaner, document, stream, crashes>>

ChatBegin(w) ==
    /\ kind = "chat" /\ worker[w].pc = "begin" /\ Go(w, Check(w, "claim"))
    /\ UNCHANGED <<kind, log, allowed, request, machine, marker, cleaner, document, stream, bounds>>

Claim(w) ==
    /\ worker[w].pc = "claim"
    /\ Conditional(w, "queued", [run EXCEPT !.status = "running"],
                   [Check(w, "load") EXCEPT !.claimed = TRUE], Returned(w))
    /\ UNCHANGED <<kind, events, allowed, request, machine, marker, cleaner, document, stream, crashes>>

Load(w) ==
    /\ worker[w].pc = "load"
    /\ \/ run.status = "running" /\ Go(w, [Check(w, "running") EXCEPT !.loaded = TRUE]) /\ UNCHANGED faults
       \/ run.status # "running" /\ Go(w, Returned(w)) /\ UNCHANGED faults
       \/ Fault /\ Go(w, Catch(w))
    /\ UNCHANGED <<kind, log, allowed, request, machine, marker, cleaner, document, stream, crashes>>

SayRunning(w) ==
    /\ worker[w].pc = "running"
    /\ Called(w, Say("status"), UNCHANGED events, Check(w, IF kind = "chat" THEN "answer" ELSE "read"))
    /\ UNCHANGED <<kind, run, allowed, request, machine, marker, cleaner, document, stream, crashes>>

(* The orchestration authorizes itself all along, and may fail anywhere.   *)
Answer(w) ==
    /\ worker[w].pc = "answer"
    /\ \/ Go(w, Check(w, "succeed")) /\ UNCHANGED faults
       \/ Fault /\ Go(w, Catch(w))
    /\ UNCHANGED <<kind, log, allowed, request, machine, marker, cleaner, document, stream, crashes>>

Succeed(w) ==
    /\ worker[w].pc = "succeed"
    /\ Conditional(w, "running", [run EXCEPT !.status = "succeeded", !.answer = TRUE],
                   [worker[w] EXCEPT !.pc = "final"], Returned(w))
    /\ UNCHANGED <<kind, events, allowed, request, machine, marker, cleaner, document, stream, crashes>>

SayFinal(w) ==
    /\ worker[w].pc = "final"
    /\ Called(w, Say("final"), UNCHANGED events, IF kind = "chat" THEN Returned(w) ELSE Check(w, "store"))
    /\ UNCHANGED <<kind, run, allowed, request, machine, marker, cleaner, document, stream, crashes>>

(* Mutant: what is caught fails the run however it stands.                 *)
ChatCaughtAnyhow(w) ==
    LET me == worker[w] IN
    /\ kind = "chat" /\ me.pc = "caught" /\ UNCHANGED faults
    /\ run' = Failed(IF me.revoked THEN "permission_revoked" ELSE "execution_error")
    /\ IF ~me.revoked /\ me.loaded THEN To(w, "report") ELSE To(w, "returned")
    /\ UNCHANGED <<kind, events, allowed, request, machine, marker, cleaner, document, stream, crashes>>

(* What is caught fails the run, if it is still as the worker knows it.    *)
ChatCaught(w) ==
    LET me == worker[w]
        new == Failed(IF me.revoked THEN "permission_revoked" ELSE "execution_error")
    IN
    /\ kind = "chat" /\ me.pc = "caught"
    /\ \/ /\ run.status = (IF me.claimed THEN "running" ELSE "queued") /\ run' = new /\ UNCHANGED faults
          /\ IF ~me.revoked /\ me.loaded THEN To(w, "report") ELSE To(w, "returned")
       \/ run.status # (IF me.claimed THEN "running" ELSE "queued") /\ UNCHANGED <<run, faults>> /\ To(w, "returned")
       \/ Fault /\ To(w, "threw") /\ UNCHANGED run
    /\ UNCHANGED <<kind, events, allowed, request, machine, marker, cleaner, document, stream, crashes>>

Report(w) ==
    /\ worker[w].pc = "report"
    /\ \/ allowed /\ Say("error") /\ To(w, "returned") /\ UNCHANGED faults
       \/ ~allowed /\ To(w, "threw") /\ UNCHANGED <<events, faults>>
       \/ Fault /\ To(w, "threw") /\ UNCHANGED events
    /\ UNCHANGED <<kind, run, allowed, request, machine, marker, cleaner, document, stream, crashes>>

-----------------------------------------------------------------------------
(* A terminal run that lacks its trace is given one, and an event for it.  *)
Trace(w) ==
    /\ run' = [run EXCEPT !.traced = TRUE]
    /\ IF run.traced THEN UNCHANGED events ELSE Say(IF run.status = "failed" THEN "error" ELSE "final")

IngestBegin(w) ==
    /\ kind = "ingest" /\ worker[w].pc = "begin"
    /\ \/ Active(run.status) /\ Go(w, Check(w, "mark_running")) /\ UNCHANGED log
       \/ ~Active(run.status) /\ Go(w, Returned(w)) /\ Trace(w)
    /\ UNCHANGED <<kind, allowed, request, machine, marker, cleaner, document, stream, bounds>>

MarkRunning(w) ==
    /\ worker[w].pc = "mark_running"
    /\ Called(w, run' = [run EXCEPT !.status = "running"], UNCHANGED run, [worker[w] EXCEPT !.pc = "running"])
    /\ UNCHANGED <<kind, events, allowed, request, machine, marker, cleaner, document, stream, crashes>>

Read(w) ==
    /\ worker[w].pc = "read"
    /\ Go(w, IF upload THEN Check(w, "ingest") ELSE Catch(w))
    /\ UNCHANGED <<kind, log, allowed, request, machine, marker, cleaner, document, stream, bounds>>

(* The pipeline takes back itself what it wrote before it failed.          *)
Ingest(w) ==
    /\ worker[w].pc = "ingest"
    /\ \/ /\ artifact' = [artifact EXCEPT ![w] = "committed"] /\ UNCHANGED faults
          /\ Go(w, Check(w, "consume"))
       \/ /\ Fault /\ artifact' \in {[artifact EXCEPT ![w] = a] : a \in {"discarded", "registered"}}
          /\ Go(w, Catch(w))
    /\ UNCHANGED <<kind, log, allowed, request, machine, marker, cleaner, upload, stream, crashes>>

Consume(w) ==
    /\ worker[w].pc = "consume"
    /\ Called(w, upload' = FALSE, UNCHANGED upload, Check(w, "final"))
    /\ UNCHANGED <<kind, log, allowed, request, machine, marker, cleaner, artifact, stream, crashes>>

(* Mutant: the last write is awaited under the worker's own catch.         *)
StoreAwaited(w) ==
    LET new == [run EXCEPT !.status = "succeeded", !.traced = TRUE] IN
    /\ worker[w].pc = "store"
    /\ Called(w, run' = new, UNCHANGED run, Returned(w))
    /\ UNCHANGED <<kind, events, allowed, request, machine, marker, cleaner, document, stream, crashes>>

(* The last write of all is not under the worker's own catch.              *)
Store(w) ==
    LET new == [run EXCEPT !.status = "succeeded", !.traced = TRUE] IN
    /\ worker[w].pc = "store"
    /\ \/ run' = new /\ To(w, "returned") /\ UNCHANGED faults
       \/ run' \in {run, new} /\ Fault /\ To(w, "threw")
    /\ UNCHANGED <<kind, events, allowed, request, machine, marker, cleaner, document, stream, crashes>>

IngestCaught(w) ==
    /\ kind = "ingest" /\ worker[w].pc = "caught"
    /\ \/ /\ artifact' = [artifact EXCEPT ![w] = IF @ = "committed" THEN "discarded" ELSE @]
          /\ To(w, "fail_event") /\ UNCHANGED faults
       \/ /\ artifact[w] = "committed" /\ Fault
          /\ \/ artifact' = [artifact EXCEPT ![w] = "registered"] /\ To(w, "fail_event")
             \/ To(w, "threw") /\ UNCHANGED artifact
    /\ UNCHANGED <<kind, log, allowed, request, machine, marker, cleaner, upload, stream, crashes>>

FailEvent(w) ==
    /\ worker[w].pc = "fail_event"
    /\ \/ Say("error") /\ To(w, "fail") /\ UNCHANGED faults
       \/ Fault /\ To(w, "threw") /\ UNCHANGED events
    /\ UNCHANGED <<kind, run, allowed, request, machine, marker, cleaner, document, stream, crashes>>

Fail(w) ==
    LET new == Failed(IF worker[w].revoked THEN "permission_revoked" ELSE "execution_error") IN
    /\ worker[w].pc = "fail"
    /\ \/ run' = new /\ To(w, "returned") /\ UNCHANGED faults
       \/ run' \in {run, new} /\ Fault /\ To(w, "threw")
    /\ UNCHANGED <<kind, events, allowed, request, machine, marker, cleaner, document, stream, crashes>>

-----------------------------------------------------------------------------
(* The failure markers look, say so, and store it.                         *)
Mark(m, pc, saw) == marker' = [marker EXCEPT ![m].pc = pc, ![m].saw = saw]

Look(m) ==
    /\ marker[m].pc = "look"
    /\ \/ /\ Active(run.status) /\ UNCHANGED <<log, faults>>
          /\ marker' = [marker EXCEPT ![m].pc = "say", ![m].saw = run.status, ![m].beside = @ \/ ~Quiet]
       \/ /\ ~Active(run.status) /\ Mark(m, "done", run.status) /\ UNCHANGED faults
          /\ IF kind = "ingest" THEN Trace(m) ELSE UNCHANGED log
       \/ Fault /\ Mark(m, "done", "none") /\ UNCHANGED log
    /\ UNCHANGED <<kind, allowed, request, machine, worker, cleaner, document, stream, crashes>>

SayFailed(m) ==
    /\ marker[m].pc = "say"
    /\ \/ Say("error") /\ Mark(m, "store", marker[m].saw) /\ UNCHANGED faults
       \/ Fault /\ Mark(m, "done", "none") /\ UNCHANGED events
    /\ UNCHANGED <<kind, run, allowed, request, machine, worker, cleaner, document, stream, crashes>>

StoreFailed(m) ==
    /\ marker[m].pc = "store" /\ Mark(m, "done", "none")
    /\ \/ kind = "ingest" /\ run' = Failed("execution_error") /\ UNCHANGED faults
       \/ kind = "chat" /\ UNCHANGED faults
          /\ run' = IF run.status = marker[m].saw THEN Failed("execution_error") ELSE run
       \/ Fault /\ UNCHANGED run
    /\ UNCHANGED <<kind, events, allowed, request, machine, worker, cleaner, document, stream, crashes>>

-----------------------------------------------------------------------------
(* The owner loses access; the cleanup stops the run if it is active.      *)
Revoke ==
    /\ Revocable /\ allowed /\ run.status # "none"
    /\ allowed' = FALSE /\ cleaner' = "look"
    /\ UNCHANGED <<kind, log, request, machine, worker, marker, document, stream, bounds>>

CleanerLook ==
    /\ cleaner = "look" /\ cleaner' = IF Active(run.status) THEN "stop" ELSE "done"
    /\ UNCHANGED <<kind, log, allowed, request, machine, worker, marker, document, stream, bounds>>

(* Mutant: the cleanup keeps the answer of the run it stops.               *)
CleanerStopKeeping ==
    /\ cleaner = "stop" /\ cleaner' = "done"
    /\ run' = [run EXCEPT !.status = "failed", !.code = "permission_revoked"]
    /\ UNCHANGED <<kind, events, allowed, request, machine, worker, marker, document, stream, bounds>>

CleanerStop ==
    /\ cleaner = "stop" /\ cleaner' = "done"
    /\ run' = [run EXCEPT !.status = "failed", !.code = "permission_revoked", !.answer = FALSE]
    /\ UNCHANGED <<kind, events, allowed, request, machine, worker, marker, document, stream, bounds>>

-----------------------------------------------------------------------------
(* The stream: in order, from where the subscriber was, to the first event *)
(* that ends it.  The final event of a chat run is shown while the run     *)
(* counts as succeeded, and passed over otherwise.                         *)
Following == stream.told = "nothing" /\ stream.pos < Len(events)
NextEvent == events[stream.pos + 1]
Shown(told) == stream' = [pos |-> stream.pos + 1, told |-> told, checking |-> FALSE]

Deliver ==
    \/ NextEvent = "status" /\ Shown("nothing")
    \/ NextEvent = "error" /\ Shown("error")
    \/ NextEvent = "final" /\ kind = "ingest" /\ Shown("final")
    \/ NextEvent = "final" /\ kind = "chat"
       /\ IF run.status = "succeeded" THEN stream' = [stream EXCEPT !.checking = TRUE] ELSE Shown("nothing")

(* A failing read of the stores ends the stream of a chat run in an error  *)
(* of the stream's own; that of an ingest run just ends and is resumed.    *)
Poll ==
    /\ ~stream.checking
    /\ \/ Following /\ Deliver /\ UNCHANGED faults
       \/ /\ kind = "chat" /\ run.status # "none" /\ stream.told = "nothing"
          /\ Fault /\ stream' = [stream EXCEPT !.told = "broken"]
    /\ UNCHANGED <<kind, log, allowed, request, machine, worker, marker, cleaner, document, crashes>>

Show ==
    /\ stream.checking /\ Shown("final")
    /\ UNCHANGED <<kind, log, allowed, request, machine, worker, marker, cleaner, document, bounds>>

Die(w) ==
    /\ w \in Alive /\ crashes < MaxCrashes /\ crashes' = crashes + 1 /\ To(w, "dead")
    /\ UNCHANGED <<kind, log, allowed, request, machine, marker, cleaner, document, stream, faults>>

ChatWorker(w) ==
    ChatBegin(w) \/ Claim(w) \/ Load(w) \/ Answer(w) \/ Succeed(w) \/ ChatCaught(w) \/ Report(w)
IngestWorker(w) ==
    \/ IngestBegin(w) \/ MarkRunning(w) \/ Read(w) \/ Ingest(w) \/ Consume(w) \/ Store(w)
    \/ IngestCaught(w) \/ FailEvent(w) \/ Fail(w)
WorkerStep(w) == Authorize(w) \/ ChatWorker(w) \/ IngestWorker(w) \/ SayRunning(w) \/ SayFinal(w)
MachineStep == \E w \in Workers : Invoke(w) \/ Finish(w)
Marking(m) == Look(m) \/ SayFailed(m) \/ StoreFailed(m)
Requesting == Create \/ Announce \/ Execute
Cleaning == CleanerLook \/ CleanerStop
Streaming == Poll \/ Show

Next ==
    \/ Requesting \/ MachineStep \/ Reinvoke
    \/ \E w \in Workers : WorkerStep(w) \/ Die(w)
    \/ \E m \in {"request", "machine"} : Marking(m)
    \/ Revoke \/ Cleaning \/ Streaming

Spec == Init /\ [][Next]_vars

(* Whatever has been started runs on, and the subscriber comes back.       *)
Fairness ==
    /\ WF_vars(Requesting) /\ WF_vars(MachineStep) /\ WF_vars(Cleaning) /\ WF_vars(Streaming)
    /\ \A w \in Workers : WF_vars(WorkerStep(w))
    /\ \A m \in {"request", "machine"} : WF_vars(Marking(m))
FairSpec == Spec /\ Fairness

-----------------------------------------------------------------------------
Status == {"queued", "running", "succeeded", "failed"}
WorkerRecord ==
    [pc : {"idle", "begin", "check", "claim", "load", "running", "answer", "succeed", "final", "caught", "report",
           "mark_running", "read", "ingest", "consume", "store", "fail_event", "fail", "returned", "threw", "dead"},
     then : {"idle", "claim", "load", "running", "answer", "succeed", "mark_running", "read", "ingest", "consume",
             "final", "store"},
     claimed : BOOLEAN, loaded : BOOLEAN, revoked : BOOLEAN]

TypeOK ==
    /\ kind \in Kinds
    /\ run \in [status : Status \cup {"none"}, code : {"none", "execution_error", "permission_revoked"},
                answer : BOOLEAN, traced : BOOLEAN]
    /\ events \in Seq({"status", "final", "error"})
    /\ allowed \in BOOLEAN /\ upload \in BOOLEAN
    /\ request \in {"create", "announce", "execute", "done"}
    /\ machine \in {"none", "invoke", "working", "marking", "done"}
    /\ worker \in [Workers -> WorkerRecord]
    /\ marker \in [{"request", "machine"} ->
                     [pc : {"idle", "look", "say", "store", "done"}, saw : Status \cup {"none"}, beside : BOOLEAN]]
    /\ cleaner \in {"waiting", "look", "stop", "done"}
    /\ artifact \in [Workers -> {"none", "committed", "discarded", "registered"}]
    /\ stream \in [pos : 0..Len(events), told : {"nothing", "final", "error", "broken"}, checking : BOOLEAN]
    /\ faults \in 0..MaxFaults /\ crashes \in 0..MaxCrashes

(* A chat run that an event called failed to its subscriber never          *)
(* succeeds, unless a marker looked at it while a worker was at work or to *)
(* come; one whose answer was shown does not fail but for a revocation.    *)
TruthTold ==
    kind = "chat" =>
        /\ stream.told = "error" =>
             run.status # "succeeded" \/ \E m \in {"request", "machine"} : marker[m].beside
        /\ stream.told = "final" => run.status = "succeeded" \/ run.code = "permission_revoked"

(* A run that has failed holds no answer, whoever failed it.               *)
FailedKeepsNoAnswer == run.status = "failed" => ~run.answer

(* An ingest run that counts as succeeded has a document to show for it,   *)
(* and has used up the upload.                                             *)
SucceededIsPublished ==
    kind = "ingest" /\ run.status = "succeeded" =>
        ~upload /\ \E w \in Workers : artifact[w] = "committed"

(* The subscriber of a run that has ended is told how it ended; not so if  *)
(* the event after the status fails, or a revocation ended the run.        *)
SubscriberIsTold == run.status \in {"succeeded", "failed"} ~> stream.told # "nothing"
=============================================================================
