--------------------------- MODULE AsyncRunProofs ---------------------------
(***************************************************************************)
(* Proofs about the runs: a failed run holds no answer, an ingest run that *)
(* counts as succeeded has its document, and a chat run ends as its        *)
(* subscriber was told, for any number of invocations of the worker and    *)
(* any failures and deaths.                                                *)
(***************************************************************************)
EXTENDS AsyncRun, TLAPS

-----------------------------------------------------------------------------
(* The inductive invariants.                                               *)

(* Where a worker is, or goes once its authorization is confirmed. *)
At(w) == IF worker[w].pc = "check" THEN worker[w].then ELSE worker[w].pc

(* Either worker keeps to its own labels. *)
LabelInv ==
    \A w \in Workers :
        /\ kind = "chat" => At(w) \notin {"mark_running", "read", "ingest", "consume", "store", "fail_event", "fail"}
        /\ kind = "ingest" => At(w) \notin {"claim", "load", "answer", "succeed", "report"}

(* An ingest worker past the pipeline has its document, and one past the   *)
(* upload has used it up.  The run counts as succeeded by the last write   *)
(* of a worker, which nothing of its own can follow.                       *)
IngestInv ==
    kind = "ingest" =>
        /\ \A w \in Workers :
              /\ At(w) \in {"consume", "final", "store"} => artifact[w] = "committed"
              /\ At(w) \in {"final", "store"} => ~upload
        /\ run.status = "succeeded" =>
              /\ ~upload
              /\ \E w \in Workers : artifact[w] = "committed" /\ worker[w].pc \in {"returned", "threw"}

PublishedInv == LabelInv /\ IngestInv /\ FailedKeepsNoAnswer

(* Before the run is started nobody works on it. *)
StartInv ==
    /\ request = "create" => run = NoRun /\ cleaner = "waiting"
    /\ request # "done" => machine = "none" /\ \A m \in {"request", "machine"} : marker[m].pc = "idle"
    /\ machine = "none" => \A w \in Workers : worker[w].pc = "idle"
    /\ cleaner # "waiting" => run.status # "none"

(* A chat run that has failed stays so, and its code tells of the failure. *)
(* What was shown as final had succeeded.                                  *)
ChatInv ==
    kind = "chat" =>
        /\ run.status # "failed" => run.code = "none"
        /\ stream.checking \/ stream.told = "final" =>
              run.status = "succeeded" \/ run.code = "permission_revoked"
        /\ \A w \in Workers : worker[w].pc = "report" => run.status = "failed"
        /\ \A m \in {"request", "machine"} : marker[m].pc \in {"say", "store"} => Active(marker[m].saw)

(* The subscriber has been, or is going to be, told of a failure. *)
Condemned ==
    \/ stream.told = "error"
    \/ \E i \in 1..Len(events) : events[i] = "error"
    \/ \E m \in {"request", "machine"} : marker[m].pc \in {"say", "store"}

(* A marker has looked at the run beside a worker, or before one.          *)
LookedBeside == \E m \in {"request", "machine"} : marker[m].beside

(* What is said of a failure stays true: it has been stored, or nobody is  *)
(* left to complete the run, unless a marker spoke beside a worker.        *)
MarkerInv ==
    kind = "chat" /\ Condemned =>
        \/ LookedBeside
        \/ run.status = "failed"
        \/ Quiet /\ request = "done" /\ run.status # "succeeded"

ShownInv == LabelInv /\ StartInv /\ ChatInv

-----------------------------------------------------------------------------
(* Types.                                                                  *)

Markers == {"request", "machine"}
RunRecord == [status : Status \cup {"none"}, code : {"none", "execution_error", "permission_revoked"},
              answer : BOOLEAN, traced : BOOLEAN]
MarkerRecord == [pc : {"idle", "look", "say", "store", "done"}, saw : Status \cup {"none"},
                 beside : BOOLEAN]
PcLabel == {"idle", "begin", "check", "claim", "load", "running", "answer", "succeed", "final", "caught", "report",
            "mark_running", "read", "ingest", "consume", "store", "fail_event", "fail", "returned", "threw", "dead"}
ThenLabel == {"idle", "claim", "load", "running", "answer", "succeed", "mark_running", "read", "ingest", "consume",
              "final", "store"}

LogTyped == kind \in Kinds /\ run \in RunRecord /\ events \in Seq({"status", "final", "error"})
WorkersTyped == worker \in [Workers -> WorkerRecord]
MarkersTyped == marker \in [Markers -> MarkerRecord]
DocumentTyped == artifact \in [Workers -> {"none", "committed", "discarded", "registered"}] /\ upload \in BOOLEAN
StreamTyped == stream \in [pos : 0..Len(events), told : {"nothing", "final", "error", "broken"}, checking : BOOLEAN]
ControlTyped ==
    /\ allowed \in BOOLEAN
    /\ request \in {"create", "announce", "execute", "done"}
    /\ machine \in {"none", "invoke", "working", "marking", "done"}
    /\ cleaner \in {"waiting", "look", "stop", "done"}
    /\ faults \in 0..MaxFaults /\ crashes \in 0..MaxCrashes

LEMMA TypeParts ==
    /\ TypeOK <=> LogTyped /\ WorkersTyped /\ MarkersTyped /\ DocumentTyped /\ StreamTyped /\ ControlTyped
    /\ TypeOK' <=> LogTyped' /\ WorkersTyped' /\ MarkersTyped' /\ DocumentTyped' /\ StreamTyped' /\ ControlTyped'
BY DEF TypeOK, LogTyped, WorkersTyped, MarkersTyped, DocumentTyped, StreamTyped, ControlTyped, RunRecord,
       MarkerRecord, Markers

(* The kinds are two. *)
LEMMA TwoKinds ==
    ASSUME ConstantAssumption, LogTyped
    PROVE  kind = "chat" \/ kind = "ingest"
BY DEF ConstantAssumption, LogTyped

(* The records that a worker goes on with. *)
LEMMA WorkerRecords ==
    ASSUME WorkersTyped, NEW w \in Workers
    PROVE  /\ worker[w] \in WorkerRecord
           /\ \A p \in PcLabel : /\ [worker[w] EXCEPT !.pc = p] \in WorkerRecord
                                 /\ [worker[w] EXCEPT !.pc = p].pc = p
           /\ \A t \in ThenLabel : /\ Check(w, t) \in WorkerRecord
                                   /\ Check(w, t).pc = "check" /\ Check(w, t).then = t
           /\ Catch(w) \in WorkerRecord /\ Catch(w).pc = "caught"
           /\ Returned(w) \in WorkerRecord /\ Returned(w).pc = "returned"
BY ZenonT(60) DEF WorkersTyped, WorkerRecord, PcLabel, ThenLabel, Check, Catch, Returned

(* A worker that goes on leaves the others where they are. *)
LEMMA Goes ==
    ASSUME WorkersTyped, NEW w \in Workers, NEW rec, Go(w, rec)
    PROVE  /\ worker'[w] = rec
           /\ \A v \in Workers \ {w} : worker'[v] = worker[v]
           /\ rec \in WorkerRecord => WorkersTyped'
BY DEF WorkersTyped, Go

(* Appending an event. *)
LEMMA Says ==
    ASSUME LogTyped, StreamTyped, NEW type \in {"status", "final", "error"}, Say(type)
    PROVE  /\ events' \in Seq({"status", "final", "error"})
           /\ Len(events') = Len(events) + 1
           /\ events'[Len(events) + 1] = type
           /\ \A i \in 1..Len(events) : events'[i] = events[i]
           /\ stream' = stream => StreamTyped'
BY DEF LogTyped, StreamTyped, Say

LEMMA FailedTyped ==
    ASSUME LogTyped, NEW code \in {"execution_error", "permission_revoked"}
    PROVE  /\ Failed(code) \in RunRecord
           /\ Failed(code).status = "failed" /\ Failed(code).code = code /\ ~Failed(code).answer
BY DEF LogTyped, RunRecord, Failed, Status

(* What any step of a worker may touch, and how. *)
WorkerEffect(w) ==
    /\ \E rec \in WorkerRecord : Go(w, rec)
    /\ run' \in RunRecord
    /\ UNCHANGED events \/ \E type \in {"status", "final", "error"} : Say(type)
    /\ DocumentTyped'
    /\ faults' \in 0..MaxFaults /\ crashes' \in 0..MaxCrashes
    /\ UNCHANGED <<kind, allowed, request, machine, marker, cleaner, stream>>

LEMMA WorkerStepEffect ==
    ASSUME ConstantAssumption, TypeOK, NEW w \in Workers, WorkerStep(w) \/ Die(w)
    PROVE  WorkerEffect(w)
<1>. USE DEF WorkerEffect, log, bounds
<1>t. LogTyped /\ WorkersTyped /\ DocumentTyped /\ ControlTyped
  BY TypeParts
<1>r. /\ worker[w] \in WorkerRecord /\ worker[w].then \in PcLabel
      /\ \A p \in PcLabel : [worker[w] EXCEPT !.pc = p] \in WorkerRecord
      /\ \A t \in ThenLabel : Check(w, t) \in WorkerRecord
      /\ Catch(w) \in WorkerRecord /\ Returned(w) \in WorkerRecord
  <2>1. worker[w] \in WorkerRecord
    BY <1>t, WorkerRecords
  <2>2. worker[w].then \in PcLabel
    BY <2>1 DEF WorkerRecord, PcLabel
  <2>. QED BY <1>t, <2>1, <2>2, WorkerRecords
<1>p. \A p \in PcLabel : To(w, p) => \E rec \in WorkerRecord : Go(w, rec)
  BY <1>r DEF To
<1>k. \A rec \in WorkerRecord : Go(w, rec) => \E new \in WorkerRecord : Go(w, new)
  OBVIOUS
<1>f. \A c \in {"execution_error", "permission_revoked"} : Failed(c) \in RunRecord
  BY <1>t, FailedTyped
<1>b. /\ Fault => faults' \in 0..MaxFaults
      /\ UNCHANGED faults => faults' \in 0..MaxFaults
      /\ UNCHANGED crashes => crashes' \in 0..MaxCrashes
  BY <1>t DEF ControlTyped, Fault, ConstantAssumption
<1>u. /\ UNCHANGED run => run' \in RunRecord
      /\ UNCHANGED document => DocumentTyped'
  BY <1>t DEF LogTyped, DocumentTyped, document
<1>l. /\ {"idle", "begin", "claim", "load", "running", "answer", "succeed", "final", "report", "store",
          "fail_event", "fail", "returned", "threw", "dead"} \subseteq PcLabel
      /\ {"claim", "load", "running", "answer", "succeed", "mark_running", "read", "ingest", "consume", "final",
          "store"} \subseteq ThenLabel
  BY DEF PcLabel, ThenLabel
<1>e. \A rec \in WorkerRecord : /\ [rec EXCEPT !.claimed = TRUE] \in WorkerRecord
                                /\ [rec EXCEPT !.loaded = TRUE] \in WorkerRecord
                                /\ [rec EXCEPT !.revoked = TRUE] \in WorkerRecord
  BY DEF WorkerRecord
<1>1. CASE Authorize(w)
  <2>1. [Catch(w) EXCEPT !.revoked = TRUE] \in WorkerRecord
    BY <1>r, <1>e
  <2>. QED BY <1>1, <2>1, <1>r, <1>p, <1>b, <1>u DEF Authorize
<1>2. CASE ChatBegin(w)
  BY <1>2, <1>r, <1>p, <1>b, <1>u, <1>l DEF ChatBegin
<1>3. CASE Claim(w)
  <2>1. [Check(w, "load") EXCEPT !.claimed = TRUE] \in WorkerRecord
    BY <1>r, <1>l, <1>e
  <2>2. [run EXCEPT !.status = "running"] \in RunRecord
    BY <1>t DEF LogTyped, RunRecord, Status
  <2>. QED BY <1>3, <2>1, <2>2, <1>r, <1>b, <1>u DEF Claim, Conditional, Called
<1>4. CASE Load(w)
  <2>1. [Check(w, "running") EXCEPT !.loaded = TRUE] \in WorkerRecord
    BY <1>r, <1>l, <1>e
  <2>. QED BY <1>4, <2>1, <1>r, <1>b, <1>u DEF Load
<1>5. CASE SayRunning(w)
  <2>. DEFINE next == Check(w, IF kind = "chat" THEN "answer" ELSE "read")
  <2>1. next \in WorkerRecord
    BY <1>r, <1>l
  <2>. HIDE DEF next
  <2>2. Called(w, Say("status"), UNCHANGED events, next) /\ UNCHANGED <<kind, run, allowed, request, machine, marker,
          cleaner, document, stream, crashes>>
    BY <1>5 DEF SayRunning, next
  <2>. QED BY <2>1, <2>2, <1>r, <1>b, <1>u DEF Called
<1>6. CASE Answer(w)
  BY <1>6, <1>r, <1>p, <1>b, <1>u, <1>l DEF Answer
<1>7. CASE Succeed(w)
  <2>1. [run EXCEPT !.status = "succeeded", !.answer = TRUE] \in RunRecord
    BY <1>t DEF LogTyped, RunRecord, Status
  <2>. QED BY <1>7, <2>1, <1>r, <1>b, <1>u, <1>l DEF Succeed, Conditional, Called
<1>8. CASE SayFinal(w)
  <2>. DEFINE next == IF kind = "chat" THEN Returned(w) ELSE Check(w, "store")
  <2>1. next \in WorkerRecord
    BY <1>r, <1>l
  <2>. HIDE DEF next
  <2>2. Called(w, Say("final"), UNCHANGED events, next) /\ UNCHANGED <<kind, run, allowed, request, machine, marker,
          cleaner, document, stream, crashes>>
    BY <1>8 DEF SayFinal, next
  <2>. QED BY <2>1, <2>2, <1>r, <1>b, <1>u DEF Called
<1>9. CASE ChatCaught(w)
  <2>. DEFINE new == Failed(IF worker[w].revoked THEN "permission_revoked" ELSE "execution_error")
  <2>1. new \in RunRecord
    BY <1>f
  <2>. QED BY <1>9, <2>1, <1>p, <1>b, <1>u, <1>l DEF ChatCaught
<1>10. CASE Report(w)
  BY <1>10, <1>r, <1>p, <1>b, <1>u, <1>l DEF Report
<1>11. CASE IngestBegin(w)
  <2>1. [run EXCEPT !.traced = TRUE] \in RunRecord
    BY <1>t DEF LogTyped, RunRecord
  <2>2. Trace(w) => /\ run' \in RunRecord
                    /\ UNCHANGED events \/ \E type \in {"status", "final", "error"} : Say(type)
    BY <2>1 DEF Trace
  <2>. QED BY <1>11, <2>2, <1>r, <1>b, <1>u, <1>l DEF IngestBegin
<1>12. CASE MarkRunning(w)
  <2>1. [run EXCEPT !.status = "running"] \in RunRecord
    BY <1>t DEF LogTyped, RunRecord, Status
  <2>. QED BY <1>12, <2>1, <1>r, <1>b, <1>u, <1>l DEF MarkRunning, Called
<1>13. CASE Read(w)
  BY <1>13, <1>r, <1>p, <1>b, <1>u, <1>l DEF Read
<1>14. CASE Ingest(w)
  <2>1. DocumentTyped'
    BY <1>14, <1>t DEF Ingest, DocumentTyped
  <2>. QED BY <1>14, <2>1, <1>r, <1>p, <1>b, <1>u, <1>l DEF Ingest
<1>15. CASE Consume(w)
  <2>1. DocumentTyped'
    BY <1>15, <1>t DEF Consume, Called, DocumentTyped
  <2>. QED BY <1>15, <2>1, <1>r, <1>b, <1>u, <1>l DEF Consume, Called
<1>16. CASE Store(w)
  <2>1. run \in RunRecord /\ [run EXCEPT !.status = "succeeded", !.traced = TRUE] \in RunRecord
    BY <1>t DEF LogTyped, RunRecord, Status
  <2>. QED BY <1>16, <2>1, <1>p, <1>b, <1>u, <1>l DEF Store
<1>17. CASE IngestCaught(w)
  <2>1. DocumentTyped'
    BY <1>17, <1>t DEF IngestCaught, DocumentTyped
  <2>. QED BY <1>17, <2>1, <1>r, <1>p, <1>b, <1>u, <1>l DEF IngestCaught
<1>18. CASE FailEvent(w)
  BY <1>18, <1>r, <1>p, <1>b, <1>u, <1>l DEF FailEvent
<1>19. CASE Fail(w)
  <2>. DEFINE new == Failed(IF worker[w].revoked THEN "permission_revoked" ELSE "execution_error")
  <2>1. run \in RunRecord /\ new \in RunRecord
    BY <1>t, <1>f DEF LogTyped
  <2>. QED BY <1>19, <2>1, <1>p, <1>b, <1>u, <1>l DEF Fail
<1>20. CASE Die(w)
  <2>1. crashes' \in 0..MaxCrashes
    BY <1>20, <1>t DEF Die, ControlTyped, ConstantAssumption
  <2>2. faults' \in 0..MaxFaults
    BY <1>20, <1>t DEF Die, ControlTyped
  <2>. QED BY <1>20, <2>1, <2>2, <1>p, <1>u, <1>l DEF Die
<1>. QED BY <1>1, <1>2, <1>3, <1>4, <1>5, <1>6, <1>7, <1>8, <1>9, <1>10, <1>11, <1>12, <1>13, <1>14, <1>15, <1>16, <1>17, <1>18, <1>19, <1>20 DEF WorkerStep, ChatWorker, IngestWorker

(* The final event that is being checked is still to come. *)
ReadInv == stream.checking => Following

LEMMA WorkerStepTyped ==
    ASSUME ConstantAssumption, TypeOK, NEW w \in Workers, WorkerStep(w) \/ Die(w)
    PROVE  TypeOK'
<1>1. WorkerEffect(w)
  BY WorkerStepEffect
<1>2. LogTyped /\ WorkersTyped /\ MarkersTyped /\ StreamTyped /\ ControlTyped
  BY TypeParts
<1>3. WorkersTyped'
  BY <1>1, <1>2, Goes DEF WorkerEffect
<1>4. LogTyped' /\ StreamTyped'
  BY <1>1, <1>2, Says DEF WorkerEffect, LogTyped, StreamTyped
<1>5. MarkersTyped' /\ ControlTyped' /\ DocumentTyped'
  BY <1>1, <1>2 DEF WorkerEffect, MarkersTyped, ControlTyped
<1>. QED BY <1>3, <1>4, <1>5, TypeParts

LEMMA InitTyped ==
    ASSUME ConstantAssumption, Init
    PROVE  TypeOK
<1>1. LogTyped /\ DocumentTyped
  BY DEF Init, LogTyped, DocumentTyped, NoRun, RunRecord
<1>2. WorkersTyped
  BY DEF Init, WorkersTyped, Resting, WorkerRecord
<1>3. MarkersTyped
  BY DEF Init, MarkersTyped, Markers, MarkerRecord
<1>4. StreamTyped
  <2>1. Len(events) = 0
    BY DEF Init
  <2>. QED BY <2>1 DEF Init, StreamTyped
<1>5. ControlTyped
  BY DEF Init, ControlTyped, ConstantAssumption
<1>. QED BY <1>1, <1>2, <1>3, <1>4, <1>5, TypeParts

(* The steps of the markers, of the cleanup and of the stream. *)
Looked(m, p, saw) ==
    marker' = [marker EXCEPT ![m].pc = p, ![m].saw = saw, ![m].beside = @ \/ ~Quiet]

LEMMA MarkingTyped ==
    ASSUME ConstantAssumption, TypeOK, NEW m \in Markers, Marking(m)
    PROVE  TypeOK'
<1>t. LogTyped /\ WorkersTyped /\ MarkersTyped /\ DocumentTyped /\ StreamTyped /\ ControlTyped
  BY TypeParts
<1>1. UNCHANGED <<kind, allowed, request, machine, worker, cleaner, document, stream, crashes>>
  BY DEF Marking, Look, SayFailed, StoreFailed
<1>2. faults' \in 0..MaxFaults
  BY <1>t DEF Marking, Look, SayFailed, StoreFailed, Fault, ControlTyped, ConstantAssumption
<1>3. run' \in RunRecord
  <2>1. run \in RunRecord /\ [run EXCEPT !.traced = TRUE] \in RunRecord /\ Failed("execution_error") \in RunRecord
    BY <1>t, FailedTyped DEF LogTyped, RunRecord
  <2>. QED BY <2>1 DEF Marking, Look, SayFailed, StoreFailed, Trace, log
<1>4. UNCHANGED events \/ \E type \in {"status", "final", "error"} : Say(type)
  BY DEF Marking, Look, SayFailed, StoreFailed, Trace, log
<1>5. MarkersTyped'
  <2>1. \E p \in {"say", "store", "done"}, saw \in Status \cup {"none"} :
          Mark(m, p, saw) \/ Looked(m, p, saw)
    <3>1. run.status \in Status \cup {"none"} /\ marker[m].saw \in Status \cup {"none"}
      BY <1>t DEF LogTyped, RunRecord, MarkersTyped, MarkerRecord
    <3>. QED BY <3>1 DEF Marking, Look, Looked, SayFailed, StoreFailed
  <2>. QED BY <2>1, <1>t DEF MarkersTyped, MarkerRecord, Mark, Looked
<1>6. LogTyped' /\ StreamTyped'
  BY <1>1, <1>3, <1>4, <1>t, Says DEF LogTyped, StreamTyped
<1>. QED BY <1>1, <1>2, <1>5, <1>6, <1>t, TypeParts DEF WorkersTyped, DocumentTyped, ControlTyped, document

(* What the stream does: it shows the next event, begins to show a final   *)
(* one, or breaks.                                                         *)
LEMMA StreamMoves ==
    ASSUME Streaming
    PROVE  /\ UNCHANGED <<kind, log, allowed, request, machine, worker, marker, cleaner, document, crashes>>
           /\ \/ /\ UNCHANGED faults /\ (Following \/ stream.checking)
                 /\ \E told \in {"nothing", "final", "error"} :
                       /\ Shown(told)
                       /\ told = "error" => Following /\ NextEvent = "error"
                       /\ told = "final" => stream.checking \/ kind = "ingest"
              \/ /\ UNCHANGED faults /\ Following
                 /\ run.status = "succeeded" /\ stream' = [stream EXCEPT !.checking = TRUE]
              \/ Fault /\ ~stream.checking /\ stream' = [stream EXCEPT !.told = "broken"]
BY DEF Streaming, Poll, Deliver, Show, bounds

LEMMA StreamingTyped ==
    ASSUME ConstantAssumption, TypeOK, ReadInv, Streaming
    PROVE  TypeOK'
<1>t. LogTyped /\ WorkersTyped /\ MarkersTyped /\ DocumentTyped /\ StreamTyped /\ ControlTyped
  BY TypeParts
<1>1. UNCHANGED <<kind, log, allowed, request, machine, worker, marker, cleaner, document, crashes>>
  BY StreamMoves
<1>2. StreamTyped'
  <2>1. \A told \in {"nothing", "final", "error"} : Shown(told) /\ Following => StreamTyped'
    BY <1>1, <1>t DEF StreamTyped, Shown, log, LogTyped, Following
  <2>2. stream' = [stream EXCEPT !.checking = TRUE] \/ stream' = [stream EXCEPT !.told = "broken"] => StreamTyped'
    BY <1>1, <1>t DEF StreamTyped, log
  <2>. QED BY <2>1, <2>2, StreamMoves DEF ReadInv
<1>3. faults' \in 0..MaxFaults
  <2>1. UNCHANGED faults \/ Fault
    BY StreamMoves
  <2>. QED BY <2>1, <1>t DEF Fault, ControlTyped, ConstantAssumption
<1>. QED BY <1>1, <1>2, <1>3, <1>t, TypeParts
         DEF LogTyped, WorkersTyped, MarkersTyped, DocumentTyped, ControlTyped, document, log

LEMMA TypeNext ==
    ASSUME ConstantAssumption, TypeOK, ReadInv, [Next]_vars
    PROVE  TypeOK'
<1>t. LogTyped /\ WorkersTyped /\ MarkersTyped /\ DocumentTyped /\ StreamTyped /\ ControlTyped
  BY TypeParts
<1>. USE DEF document, log, bounds
<1>1. CASE Create
  <2>1. run' \in RunRecord
    BY <1>1, <1>t DEF Create, NoRun, RunRecord, Status
  <2>. QED BY <1>1, <1>t, <2>1, TypeParts
           DEF Create, LogTyped, WorkersTyped, MarkersTyped, DocumentTyped, StreamTyped, ControlTyped
<1>2. CASE Announce
  <2>1. LogTyped' /\ StreamTyped'
    BY <1>2, <1>t, Says DEF Announce, LogTyped, StreamTyped
  <2>. QED BY <1>2, <1>t, <2>1, TypeParts
           DEF Announce, WorkersTyped, MarkersTyped, DocumentTyped, ControlTyped, Fault, ConstantAssumption
<1>3. CASE Execute
  <2>1. MarkersTyped'
    BY <1>3, <1>t DEF Execute, MarkersTyped, MarkerRecord, Markers
  <2>. QED BY <1>3, <1>t, <2>1, TypeParts
           DEF Execute, LogTyped, WorkersTyped, DocumentTyped, StreamTyped, ControlTyped, Fault, ConstantAssumption
<1>4. ASSUME NEW w \in Workers, Invoke(w) PROVE TypeOK'
  <2>1. WorkersTyped'
    BY ZenonT(60), <1>4, <1>t, Goes, WorkerRecords DEF Invoke, To, PcLabel
  <2>. QED BY <1>4, <1>t, <2>1, TypeParts
           DEF Invoke, LogTyped, MarkersTyped, DocumentTyped, StreamTyped, ControlTyped
<1>5. ASSUME NEW w \in Workers, Finish(w) PROVE TypeOK'
  <2>1. MarkersTyped'
    BY <1>5, <1>t DEF Finish, MarkersTyped, MarkerRecord, Markers
  <2>. QED BY <1>5, <1>t, <2>1, TypeParts
           DEF Finish, LogTyped, WorkersTyped, DocumentTyped, StreamTyped, ControlTyped
<1>6. CASE Reinvoke
  BY <1>6, <1>t, TypeParts
  DEF Reinvoke, LogTyped, WorkersTyped, MarkersTyped, DocumentTyped, StreamTyped, ControlTyped
<1>7. CASE Revoke \/ CleanerLook
  BY <1>7, <1>t, TypeParts
  DEF Revoke, CleanerLook, LogTyped, WorkersTyped, MarkersTyped, DocumentTyped, StreamTyped, ControlTyped
<1>8. CASE CleanerStop
  <2>1. run' \in RunRecord
    BY <1>8, <1>t DEF CleanerStop, LogTyped, RunRecord, Status
  <2>. QED BY <1>8, <1>t, <2>1, TypeParts
           DEF CleanerStop, LogTyped, WorkersTyped, MarkersTyped, DocumentTyped, StreamTyped, ControlTyped
<1>9. CASE UNCHANGED vars
  BY <1>9, <1>t, TypeParts
  DEF vars, LogTyped, WorkersTyped, MarkersTyped, DocumentTyped, StreamTyped, ControlTyped
<1>. QED BY <1>1, <1>2, <1>3, <1>4, <1>5, <1>6, <1>7, <1>8, <1>9, WorkerStepTyped, MarkingTyped, StreamingTyped
         DEF Next, Requesting, MachineStep, Cleaning, Markers

LEMMA ReadNext ==
    ASSUME ConstantAssumption, TypeOK, ReadInv, [Next]_vars
    PROVE  ReadInv'
<1>t. LogTyped /\ StreamTyped
  BY TypeParts
<1>. USE DEF ReadInv, Following, log
<1>1. CASE UNCHANGED stream /\ UNCHANGED events
  BY <1>1
<1>2. CASE UNCHANGED stream /\ \E type \in {"status", "final", "error"} : Say(type)
  BY <1>2, <1>t, Says DEF LogTyped, StreamTyped
<1>3. CASE Streaming
  <2>1. \A told : Shown(told) => ~stream'.checking
    BY DEF Shown
  <2>2. Len(events') = Len(events)
    BY <1>3, StreamMoves
  <2>3. CASE stream' = [stream EXCEPT !.checking = TRUE] /\ Following
    BY <2>2, <2>3, <1>t DEF StreamTyped
  <2>4. CASE stream' = [stream EXCEPT !.told = "broken"] /\ ~stream.checking
    BY <2>4, <1>t DEF StreamTyped
  <2>. QED BY <1>3, <2>1, <2>3, <2>4, StreamMoves
<1>4. ASSUME NEW w \in Workers, WorkerStep(w) \/ Die(w)
      PROVE  UNCHANGED stream /\ (UNCHANGED events \/ \E type \in {"status", "final", "error"} : Say(type))
  BY <1>4, WorkerStepEffect DEF WorkerEffect
<1>5. ASSUME NEW m \in Markers, Marking(m)
      PROVE  UNCHANGED stream /\ (UNCHANGED events \/ \E type \in {"status", "final", "error"} : Say(type))
  BY <1>5 DEF Marking, Look, SayFailed, StoreFailed, Trace
<1>6. ASSUME Requesting \/ MachineStep \/ Reinvoke \/ Revoke \/ Cleaning
      PROVE  UNCHANGED stream /\ (UNCHANGED events \/ \E type \in {"status", "final", "error"} : Say(type))
  BY <1>6 DEF Requesting, Create, Announce, Execute, MachineStep, Invoke, Finish, Reinvoke, Revoke, Cleaning,
              CleanerLook, CleanerStop
<1>7. CASE UNCHANGED vars
  BY <1>7 DEF vars
<1>. QED BY <1>1, <1>2, <1>3, <1>4, <1>5, <1>6, <1>7 DEF Next, Markers

(* Type correctness: the subscriber's place in the log is within the log,  *)
(* whatever the others append meanwhile.                                   *)
THEOREM TypeCorrect == Spec => []TypeOK
<1>1. Init => TypeOK /\ ReadInv
  BY InitTyped, ConstantAssumption DEF Init, ReadInv
<1>2. TypeOK /\ ReadInv /\ [Next]_vars => TypeOK' /\ ReadInv'
  BY TypeNext, ReadNext, ConstantAssumption
<1>. QED BY <1>1, <1>2, PTL DEF Spec

-----------------------------------------------------------------------------
(* Where the steps of a worker lead.                                       *)

LEMMA GoPlace ==
    ASSUME WorkersTyped, NEW w \in Workers, NEW rec, Go(w, rec)
    PROVE  /\ At(w)' = IF rec.pc = "check" THEN rec.then ELSE rec.pc
           /\ worker'[w].pc = rec.pc
           /\ \A v \in Workers \ {w} : worker'[v] = worker[v] /\ At(v)' = At(v)
BY Goes DEF At

(* The records of a worker, by their place. *)
LEMMA RecordPlaces ==
    ASSUME WorkersTyped, NEW w \in Workers
    PROVE  /\ \A p \in PcLabel \ {"check"} : To(w, p) => At(w)' = p /\ worker'[w].pc = p
           /\ \A t \in ThenLabel : Go(w, Check(w, t)) => At(w)' = t /\ worker'[w].pc = "check"
           /\ Go(w, Catch(w)) => At(w)' = "caught" /\ worker'[w].pc = "caught"
           /\ Go(w, Returned(w)) => At(w)' = "returned" /\ worker'[w].pc = "returned"
<1>1. ASSUME NEW p \in PcLabel \ {"check"}, To(w, p) PROVE At(w)' = p /\ worker'[w].pc = p
  <2>. DEFINE rec == [worker[w] EXCEPT !.pc = p]
  <2>1. rec.pc = p /\ p # "check"
    BY WorkerRecords
  <2>2. Go(w, rec)
    BY <1>1 DEF To
  <2>. HIDE DEF rec
  <2>. QED BY <2>1, <2>2, GoPlace
<1>2. ASSUME NEW t \in ThenLabel, Go(w, Check(w, t)) PROVE At(w)' = t /\ worker'[w].pc = "check"
  BY <1>2, GoPlace, WorkerRecords
<1>3. Go(w, Catch(w)) => At(w)' = "caught" /\ worker'[w].pc = "caught"
  BY GoPlace, WorkerRecords
<1>4. Go(w, Returned(w)) => At(w)' = "returned" /\ worker'[w].pc = "returned"
  BY GoPlace, WorkerRecords
<1>. QED BY <1>1, <1>2, <1>3, <1>4

(* Each step of a worker, by the places it leads to. *)
LEMMA Places ==
    ASSUME WorkersTyped, NEW w \in Workers
    PROVE  /\ Authorize(w) => /\ At(w)' \in {At(w), "caught"}
                               /\ worker'[w].pc # "check"
           /\ ChatBegin(w) => /\ At(w)' = "claim"
                               /\ worker'[w].pc = "check"
           /\ Claim(w) => /\ At(w)' \in {"load", "caught", "returned"}
                           /\ worker'[w].pc \in {"check", "caught", "returned"}
           /\ Load(w) => /\ At(w)' \in {"running", "caught", "returned"}
                          /\ worker'[w].pc \in {"check", "caught", "returned"}
           /\ SayRunning(w) => /\ At(w)' \in {"caught", IF kind = "chat" THEN "answer" ELSE "read"}
                                /\ worker'[w].pc \in {"check", "caught"}
           /\ Answer(w) => /\ At(w)' \in {"succeed", "caught"}
                            /\ worker'[w].pc \in {"check", "caught"}
           /\ Succeed(w) => /\ At(w)' \in {"final", "caught", "returned"}
                             /\ worker'[w].pc = At(w)'
           /\ SayFinal(w) => /\ At(w)' \in {"caught", IF kind = "chat" THEN "returned" ELSE "store"}
                              /\ worker'[w].pc \in {"check", "caught", "returned"}
           /\ ChatCaught(w) => /\ At(w)' \in {"report", "returned", "threw"}
                                /\ worker'[w].pc = At(w)'
           /\ Report(w) => /\ At(w)' \in {"returned", "threw"}
                            /\ worker'[w].pc = At(w)'
           /\ IngestBegin(w) => /\ At(w)' \in {"mark_running", "returned"}
                                 /\ worker'[w].pc \in {"check", "returned"}
           /\ MarkRunning(w) => /\ At(w)' \in {"running", "caught"}
                                 /\ worker'[w].pc = At(w)'
           /\ Read(w) => /\ At(w)' \in {"ingest", "caught"}
                          /\ worker'[w].pc \in {"check", "caught"}
           /\ Ingest(w) => /\ At(w)' \in {"consume", "caught"}
                            /\ worker'[w].pc \in {"check", "caught"}
           /\ Consume(w) => /\ At(w)' \in {"final", "caught"}
                             /\ worker'[w].pc \in {"check", "caught"}
           /\ Store(w) => /\ At(w)' \in {"returned", "threw"}
                           /\ worker'[w].pc = At(w)'
           /\ IngestCaught(w) => /\ At(w)' \in {"fail_event", "threw"}
                                  /\ worker'[w].pc = At(w)'
           /\ FailEvent(w) => /\ At(w)' \in {"fail", "threw"}
                               /\ worker'[w].pc = At(w)'
           /\ Fail(w) => /\ At(w)' \in {"returned", "threw"}
                          /\ worker'[w].pc = At(w)'
           /\ Die(w) => /\ At(w)' = "dead"
                         /\ worker'[w].pc = "dead"
<1>l. PcLabel \ {"check"} = {"idle", "begin", "claim", "load", "running", "answer", "succeed", "final", "caught",
          "report", "mark_running", "read", "ingest", "consume", "store", "fail_event", "fail", "returned", "threw",
          "dead"}
      /\ ThenLabel = {"idle", "claim", "load", "running", "answer", "succeed", "mark_running", "read", "ingest",
          "consume", "final", "store"}
  BY DEF PcLabel, ThenLabel
<1>r. worker[w] \in WorkerRecord
  BY WorkerRecords
<1>1. Authorize(w) => /\ At(w)' \in {At(w), "caught"}
                      /\ worker'[w].pc # "check"
  <2>. DEFINE rec == [Catch(w) EXCEPT !.revoked = TRUE]
  <2>1. rec.pc = "caught"
    BY <1>l, WorkerRecords DEF WorkerRecord
  <2>. HIDE DEF rec
  <2>2. Go(w, rec) => At(w)' = "caught" /\ worker'[w].pc = "caught"
    BY <2>1, GoPlace
  <2>3. worker[w].pc = "check" => worker[w].then \in PcLabel \ {"check"} /\ At(w) = worker[w].then
    BY <1>l, <1>r DEF WorkerRecord, At
  <2>. QED BY <2>2, <2>3, <1>l, RecordPlaces DEF Authorize, rec
<1>2. ChatBegin(w) => /\ At(w)' = "claim"
                      /\ worker'[w].pc = "check"
  BY <1>l, RecordPlaces DEF ChatBegin
<1>3. Claim(w) => /\ At(w)' \in {"load", "caught", "returned"}
                  /\ worker'[w].pc \in {"check", "caught", "returned"}
  <2>. DEFINE rec == [Check(w, "load") EXCEPT !.claimed = TRUE]
  <2>1. rec.pc = "check" /\ rec.then = "load"
    BY <1>l, WorkerRecords DEF WorkerRecord
  <2>. HIDE DEF rec
  <2>2. Go(w, rec) => At(w)' = "load" /\ worker'[w].pc = "check"
    BY <2>1, GoPlace
  <2>. QED BY <2>2, <1>l, RecordPlaces DEF Claim, rec, Conditional, Called
<1>4. Load(w) => /\ At(w)' \in {"running", "caught", "returned"}
                 /\ worker'[w].pc \in {"check", "caught", "returned"}
  <2>. DEFINE rec == [Check(w, "running") EXCEPT !.loaded = TRUE]
  <2>1. rec.pc = "check" /\ rec.then = "running"
    BY <1>l, WorkerRecords DEF WorkerRecord
  <2>. HIDE DEF rec
  <2>2. Go(w, rec) => At(w)' = "running" /\ worker'[w].pc = "check"
    BY <2>1, GoPlace
  <2>. QED BY <2>2, <1>l, RecordPlaces DEF Load, rec
<1>5. SayRunning(w) => /\ At(w)' \in {"caught", IF kind = "chat" THEN "answer" ELSE "read"}
                       /\ worker'[w].pc \in {"check", "caught"}
  BY <1>l, RecordPlaces DEF SayRunning, Called
<1>6. Answer(w) => /\ At(w)' \in {"succeed", "caught"}
                   /\ worker'[w].pc \in {"check", "caught"}
  BY <1>l, RecordPlaces DEF Answer
<1>7. Succeed(w) => /\ At(w)' \in {"final", "caught", "returned"}
                    /\ worker'[w].pc = At(w)'
  BY <1>l, RecordPlaces DEF Succeed, Conditional, Called, To
<1>8. SayFinal(w) => /\ At(w)' \in {"caught", IF kind = "chat" THEN "returned" ELSE "store"}
                     /\ worker'[w].pc \in {"check", "caught", "returned"}
  BY <1>l, RecordPlaces DEF SayFinal, Called
<1>9. ChatCaught(w) => /\ At(w)' \in {"report", "returned", "threw"}
                       /\ worker'[w].pc = At(w)'
  BY <1>l, RecordPlaces DEF ChatCaught
<1>10. Report(w) => /\ At(w)' \in {"returned", "threw"}
                    /\ worker'[w].pc = At(w)'
  BY <1>l, RecordPlaces DEF Report
<1>11. IngestBegin(w) => /\ At(w)' \in {"mark_running", "returned"}
                         /\ worker'[w].pc \in {"check", "returned"}
  BY <1>l, RecordPlaces DEF IngestBegin
<1>12. MarkRunning(w) => /\ At(w)' \in {"running", "caught"}
                         /\ worker'[w].pc = At(w)'
  BY <1>l, RecordPlaces DEF MarkRunning, Called, To
<1>13. Read(w) => /\ At(w)' \in {"ingest", "caught"}
                  /\ worker'[w].pc \in {"check", "caught"}
  BY <1>l, RecordPlaces DEF Read
<1>14. Ingest(w) => /\ At(w)' \in {"consume", "caught"}
                    /\ worker'[w].pc \in {"check", "caught"}
  BY <1>l, RecordPlaces DEF Ingest
<1>15. Consume(w) => /\ At(w)' \in {"final", "caught"}
                     /\ worker'[w].pc \in {"check", "caught"}
  BY <1>l, RecordPlaces DEF Consume, Called, To
<1>16. Store(w) => /\ At(w)' \in {"returned", "threw"}
                   /\ worker'[w].pc = At(w)'
  BY <1>l, RecordPlaces DEF Store
<1>17. IngestCaught(w) => /\ At(w)' \in {"fail_event", "threw"}
                          /\ worker'[w].pc = At(w)'
  BY <1>l, RecordPlaces DEF IngestCaught
<1>18. FailEvent(w) => /\ At(w)' \in {"fail", "threw"}
                       /\ worker'[w].pc = At(w)'
  BY <1>l, RecordPlaces DEF FailEvent
<1>19. Fail(w) => /\ At(w)' \in {"returned", "threw"}
                  /\ worker'[w].pc = At(w)'
  BY <1>l, RecordPlaces DEF Fail
<1>20. Die(w) => /\ At(w)' = "dead"
                 /\ worker'[w].pc = "dead"
  BY <1>l, RecordPlaces DEF Die
<1>. QED BY <1>1, <1>2, <1>3, <1>4, <1>5, <1>6, <1>7, <1>8, <1>9, <1>10, <1>11, <1>12, <1>13, <1>14, <1>15, <1>16, <1>17, <1>18, <1>19, <1>20

(* Whoever is not stepping stays, and the kind is settled. *)
LEMMA OthersStay ==
    ASSUME ConstantAssumption, TypeOK, NEW w \in Workers, WorkerStep(w) \/ Die(w)
    PROVE  /\ kind' = kind /\ marker' = marker /\ stream' = stream /\ machine' = machine /\ request' = request
           /\ \A v \in Workers \ {w} : worker'[v] = worker[v] /\ At(v)' = At(v)
<1>1. WorkerEffect(w) /\ WorkersTyped
  BY WorkerStepEffect, TypeParts
<1>2. PICK rec \in WorkerRecord : Go(w, rec)
  BY <1>1 DEF WorkerEffect
<1>. QED BY <1>1, <1>2, GoPlace DEF WorkerEffect

-----------------------------------------------------------------------------
(* A failed run holds no answer, and an ingest run that counts as          *)
(* succeeded has its document.                                             *)

(* What anybody stores as the run. *)
LEMMA StoredRun ==
    ASSUME LogTyped, [Next]_vars
    PROVE  \/ run'.status = "failed" => ~run'.answer
           \/ run'.status = run.status /\ run'.answer = run.answer
<1>f. \A c \in {"execution_error", "permission_revoked"} :
          Failed(c).status = "failed" /\ ~Failed(c).answer
  BY FailedTyped
<1>r. run \in RunRecord
  BY DEF LogTyped
<1>s. /\ [run EXCEPT !.traced = TRUE].status = run.status /\ [run EXCEPT !.traced = TRUE].answer = run.answer
      /\ [run EXCEPT !.status = "running"].status = "running"
      /\ [run EXCEPT !.status = "succeeded", !.answer = TRUE].status = "succeeded"
      /\ [run EXCEPT !.status = "succeeded", !.traced = TRUE].status = "succeeded"
      /\ [NoRun EXCEPT !.status = "queued"].status = "queued"
      /\ LET stopped == [run EXCEPT !.status = "failed", !.code = "permission_revoked", !.answer = FALSE]
         IN  stopped.status = "failed" /\ ~stopped.answer
  BY <1>r DEF RunRecord, NoRun
<1>1. CASE Requesting
  BY <1>1, <1>s DEF Requesting, Create, Announce, Execute, log
<1>2. CASE MachineStep \/ Reinvoke \/ Revoke \/ Streaming \/ UNCHANGED vars
  BY <1>2 DEF MachineStep, Invoke, Finish, Reinvoke, Revoke, Streaming, Poll, Show, log, vars
<1>3. CASE Cleaning
  BY <1>3, <1>s DEF Cleaning, CleanerLook, CleanerStop, log
<1>4. ASSUME NEW m \in Markers, Marking(m)
      PROVE  run' \in {run, [run EXCEPT !.traced = TRUE], Failed("execution_error")}
  BY <1>4 DEF Marking, Look, SayFailed, StoreFailed, Trace, log
<1>5. ASSUME NEW w \in Workers, WorkerStep(w) \/ Die(w)
      PROVE  run' \in {run, [run EXCEPT !.traced = TRUE], [run EXCEPT !.status = "running"],
                       [run EXCEPT !.status = "succeeded", !.answer = TRUE],
                       [run EXCEPT !.status = "succeeded", !.traced = TRUE],
                       Failed("execution_error"), Failed("permission_revoked")}
  <2>1. CASE Authorize(w) \/ Die(w) \/ SayRunning(w) \/ SayFinal(w)
    BY <2>1 DEF Authorize, Die, SayRunning, SayFinal, log
  <2>2. CASE ChatWorker(w)
    BY <2>2 DEF ChatWorker, ChatBegin, Claim, Load, Answer, Succeed, ChatCaught, Report, Conditional, Called, log
  <2>3. CASE IngestWorker(w)
    BY <2>3 DEF IngestWorker, IngestBegin, MarkRunning, Read, Ingest, Consume, Store, IngestCaught, FailEvent,
                Fail, Called, Trace, log
  <2>. QED BY <1>5, <2>1, <2>2, <2>3 DEF WorkerStep
<1>. QED BY <1>1, <1>2, <1>3, <1>4, <1>5, <1>s, <1>f DEF Next, Markers

LEMMA LabelNext ==
    ASSUME ConstantAssumption, TypeOK, LabelInv, [Next]_vars
    PROVE  LabelInv'
<1>t. LogTyped /\ WorkersTyped
  BY TypeParts
<1>1. ASSUME NEW w \in Workers, WorkerStep(w) \/ Die(w) PROVE LabelInv'
  <2>1. /\ kind' = kind
        /\ \A v \in Workers \ {w} : At(v)' = At(v)
    BY <1>1, OthersStay
  <2>2. kind = "chat" =>
            At(w)' \notin {"mark_running", "read", "ingest", "consume", "store", "fail_event", "fail"}
    <3>. SUFFICES ASSUME kind = "chat" PROVE
            At(w)' \notin {"mark_running", "read", "ingest", "consume", "store", "fail_event", "fail"}
      OBVIOUS
    <3>1. At(w) \notin {"mark_running", "read", "ingest", "consume", "store", "fail_event", "fail"}
      BY DEF LabelInv
    <3>2. ~IngestWorker(w)
      BY <3>1 DEF IngestWorker, IngestBegin, MarkRunning, Read, Ingest, Consume, Store, IngestCaught, FailEvent,
                  Fail, At
    <3>. QED BY <1>1, <1>t, <3>1, <3>2, Places DEF WorkerStep, ChatWorker
  <2>3. kind = "ingest" => At(w)' \notin {"claim", "load", "answer", "succeed", "report"}
    <3>. SUFFICES ASSUME kind = "ingest" PROVE At(w)' \notin {"claim", "load", "answer", "succeed", "report"}
      OBVIOUS
    <3>1. At(w) \notin {"claim", "load", "answer", "succeed", "report"}
      BY DEF LabelInv
    <3>2. ~ChatWorker(w)
      BY <3>1 DEF ChatWorker, ChatBegin, Claim, Load, Answer, Succeed, ChatCaught, Report, At
    <3>. QED BY <1>1, <1>t, <3>1, <3>2, Places DEF WorkerStep, IngestWorker
  <2>. QED BY <2>1, <2>2, <2>3 DEF LabelInv
<1>2. ASSUME NEW w \in Workers, Invoke(w) PROVE LabelInv'
  <2>1. /\ At(w)' = "begin" /\ kind' = kind
        /\ \A v \in Workers \ {w} : At(v)' = At(v)
    <3>1. PICK rec : Go(w, rec)
      BY <1>2 DEF Invoke, To
    <3>. QED BY <1>2, <1>t, <3>1, GoPlace, RecordPlaces DEF Invoke, PcLabel
  <2>. QED BY <2>1 DEF LabelInv
<1>3. ASSUME UNCHANGED <<kind, worker>> PROVE LabelInv'
  BY <1>3 DEF LabelInv, At
<1>4. CASE Requesting \/ (\E w \in Workers : Finish(w)) \/ Reinvoke \/ Revoke \/ Cleaning \/ Streaming
             \/ (\E m \in Markers : Marking(m)) \/ UNCHANGED vars
  BY <1>3, <1>4 DEF Requesting, Create, Announce, Execute, Finish, Reinvoke, Revoke, Cleaning, CleanerLook,
     CleanerStop, Streaming, Poll, Show, Marking, Look, SayFailed, StoreFailed, vars
<1>. QED BY <1>1, <1>2, <1>4 DEF Next, MachineStep, Markers

(* What holds of an ingest worker by its place. *)
PlaceInv(w) ==
    /\ At(w) \in {"consume", "final", "store"} => artifact[w] = "committed"
    /\ At(w) \in {"final", "store"} => ~upload

HasDocument(w) == artifact[w] = "committed" /\ worker[w].pc \in {"returned", "threw"}

LEMMA IngestParts ==
    /\ IngestInv <=> kind = "ingest" =>
           /\ \A w \in Workers : PlaceInv(w)
           /\ run.status = "succeeded" => ~upload /\ \E w \in Workers : HasDocument(w)
    /\ IngestInv' <=> kind' = "ingest" =>
           /\ \A w \in Workers : PlaceInv(w)'
           /\ run'.status = "succeeded" => ~upload' /\ \E w \in Workers : HasDocument(w)'
BY DEF IngestInv, PlaceInv, HasDocument

(* Only a worker at the last write makes the run count as succeeded, and   *)
(* only its own steps touch its document.                                  *)
LEMMA IngestStepEffect ==
    ASSUME ConstantAssumption, TypeOK, LabelInv, kind = "ingest", NEW w \in Workers, WorkerStep(w) \/ Die(w)
    PROVE  /\ worker[w].pc \notin {"returned", "threw"}
           /\ upload' => upload
           /\ \A v \in Workers \ {w} : artifact'[v] = artifact[v]
           /\ run'.status = "succeeded" => run.status = "succeeded" \/ Store(w)
           /\ ~ChatWorker(w)
<1>t. LogTyped /\ WorkersTyped /\ DocumentTyped
  BY TypeParts
<1>c. ~ChatWorker(w)
  BY DEF LabelInv, ChatWorker, ChatBegin, Claim, Load, Answer, Succeed, ChatCaught, Report, At
<1>f. \A c \in {"execution_error", "permission_revoked"} : Failed(c).status = "failed"
  BY <1>t, FailedTyped
<1>s. /\ [run EXCEPT !.traced = TRUE].status = run.status
      /\ [run EXCEPT !.status = "running"].status = "running"
  BY <1>t DEF LogTyped, RunRecord
<1>1. CASE Authorize(w) \/ Die(w) \/ SayRunning(w) \/ SayFinal(w)
  BY <1>1, <1>c DEF Authorize, Die, Alive, SayRunning, SayFinal, log, document
<1>2. CASE IngestBegin(w)
  BY <1>2, <1>c, <1>s DEF IngestBegin, Trace, document, log
<1>3. CASE MarkRunning(w)
  BY <1>3, <1>c, <1>s DEF MarkRunning, Called, document
<1>4. CASE Read(w) \/ FailEvent(w)
  BY <1>4, <1>c DEF Read, FailEvent, document, log
<1>5. CASE Ingest(w) \/ IngestCaught(w)
  BY <1>5, <1>c, <1>t DEF Ingest, IngestCaught, DocumentTyped, log
<1>6. CASE Consume(w)
  BY <1>6, <1>c DEF Consume, Called, log
<1>7. CASE Store(w)
  BY <1>7, <1>c DEF Store, document
<1>8. CASE Fail(w)
  BY <1>8, <1>c, <1>f DEF Fail, document
<1>. QED BY <1>c, <1>1, <1>2, <1>3, <1>4, <1>5, <1>6, <1>7, <1>8 DEF WorkerStep, IngestWorker

LEMMA IngestWorkerNext ==
    ASSUME ConstantAssumption, TypeOK, LabelInv, IngestInv, NEW w \in Workers, WorkerStep(w) \/ Die(w)
    PROVE  IngestInv'
<1>t. WorkersTyped /\ DocumentTyped
  BY TypeParts
<1>o. kind' = kind /\ \A v \in Workers \ {w} : worker'[v] = worker[v] /\ At(v)' = At(v)
  BY OthersStay
<1>. SUFFICES ASSUME kind = "ingest"
              PROVE  /\ \A v \in Workers : PlaceInv(v)'
                     /\ run'.status = "succeeded" => ~upload' /\ \E v \in Workers : HasDocument(v)'
  BY <1>o DEF IngestInv, PlaceInv, HasDocument
<1>i. /\ \A v \in Workers : PlaceInv(v)
      /\ run.status = "succeeded" => ~upload /\ \E v \in Workers : HasDocument(v)
  BY IngestParts
<1>e. /\ worker[w].pc \notin {"returned", "threw"} /\ ~ChatWorker(w)
      /\ upload' => upload
      /\ \A v \in Workers \ {w} : artifact'[v] = artifact[v]
      /\ run'.status = "succeeded" => run.status = "succeeded" \/ Store(w)
  BY IngestStepEffect
<1>1. ASSUME NEW v \in Workers \ {w} PROVE PlaceInv(v)'
  BY <1>o, <1>i, <1>e DEF PlaceInv
<1>2. PlaceInv(w)'
  <2>1. CASE Authorize(w) \/ Die(w) \/ SayRunning(w) \/ Read(w) \/ FailEvent(w)
    BY <2>1, <1>t, <1>i, Places DEF PlaceInv, Authorize, Die, SayRunning, Read, FailEvent, document
  <2>2. CASE SayFinal(w)
    BY <2>2, <1>t, <1>i, Places DEF PlaceInv, SayFinal, At, document
  <2>3. CASE IngestBegin(w) \/ MarkRunning(w) \/ Store(w) \/ Fail(w) \/ IngestCaught(w)
    BY <2>3, <1>t, Places DEF PlaceInv
  <2>4. CASE Ingest(w)
    <3>1. artifact'[w] = "committed" \/ At(w)' = "caught"
      BY <2>4, <1>t, RecordPlaces DEF Ingest, DocumentTyped
    <3>. QED BY <2>4, <3>1, <1>t, Places DEF PlaceInv
  <2>5. CASE Consume(w)
    <3>1. artifact'[w] = "committed"
      BY <2>5, <1>i DEF Consume, PlaceInv, At
    <3>2. ~upload' \/ At(w)' = "caught"
      BY <2>5, <1>t, RecordPlaces DEF Consume, Called
    <3>. QED BY <2>5, <3>1, <3>2, <1>t, Places DEF PlaceInv
  <2>. QED BY <1>e, <2>1, <2>2, <2>3, <2>4, <2>5 DEF WorkerStep, IngestWorker
<1>3. ASSUME run'.status = "succeeded" PROVE ~upload' /\ \E v \in Workers : HasDocument(v)'
  <2>1. CASE Store(w)
    <3>1. ~upload /\ artifact[w] = "committed"
      BY <2>1, <1>i DEF PlaceInv, Store, At
    <3>2. HasDocument(w)'
      BY <2>1, <3>1, <1>t, Places DEF HasDocument, Store, document
    <3>. QED BY <2>1, <3>1, <3>2 DEF Store, document
  <2>2. CASE run.status = "succeeded"
    <3>1. ~upload /\ \E v \in Workers : HasDocument(v)
      BY <1>i, <2>2
    <3>2. PICK v \in Workers : HasDocument(v)
      BY <3>1
    <3>3. v # w
      BY <3>2, <1>e DEF HasDocument
    <3>4. HasDocument(v)'
      BY <3>2, <3>3, <1>o, <1>e DEF HasDocument
    <3>. QED BY <3>1, <3>4, <1>e
  <2>. QED BY <1>3, <1>e, <2>1, <2>2
<1>. QED BY <1>1, <1>2, <1>3

LEMMA IngestNext ==
    ASSUME ConstantAssumption, TypeOK, LabelInv, IngestInv, [Next]_vars
    PROVE  IngestInv'
<1>t. LogTyped /\ WorkersTyped
  BY TypeParts
<1>1. ASSUME UNCHANGED <<kind, worker, artifact, upload>>, run'.status = "succeeded" => run.status = "succeeded"
      PROVE  IngestInv'
  BY <1>1 DEF IngestInv, At
<1>2. ASSUME NEW w \in Workers, Invoke(w) PROVE IngestInv'
  <2>1. PICK rec : Go(w, rec)
    BY <1>2 DEF Invoke, To
  <2>2. /\ At(w)' = "begin" /\ \A v \in Workers \ {w} : worker'[v] = worker[v] /\ At(v)' = At(v)
    BY <1>2, <2>1, <1>t, GoPlace, RecordPlaces DEF Invoke, PcLabel
  <2>3. UNCHANGED <<kind, run, artifact, upload>> /\ worker[w].pc = "idle"
    BY <1>2 DEF Invoke, log, document
  <2>4. \A v \in Workers : PlaceInv(v) => PlaceInv(v)'
    BY <2>2, <2>3 DEF PlaceInv
  <2>5. \A v \in Workers : HasDocument(v) => HasDocument(v)'
    BY <2>2, <2>3 DEF HasDocument
  <2>6. IngestInv => (IngestInv)'
    <3>. SUFFICES ASSUME kind = "ingest"
                  PROVE  /\ \A v \in Workers : PlaceInv(v)'
                         /\ run'.status = "succeeded" => ~upload' /\ \E v \in Workers : HasDocument(v)'
      BY <2>3 DEF IngestInv, PlaceInv, HasDocument
    <3>. QED BY <2>3, <2>4, <2>5, IngestParts
  <2>. QED BY <2>6
<1>3. CASE Create \/ CleanerStop
  <2>1. run'.status # "succeeded"
    BY <1>3, <1>t DEF Create, CleanerStop, NoRun, LogTyped, RunRecord
  <2>. QED BY <1>1, <1>3, <2>1 DEF Create, CleanerStop, document
<1>4. ASSUME NEW m \in Markers, Marking(m) PROVE IngestInv'
  <2>1. [run EXCEPT !.traced = TRUE].status = run.status /\ Failed("execution_error").status = "failed"
    BY <1>t, FailedTyped DEF LogTyped, RunRecord
  <2>2. run' \in {run, [run EXCEPT !.traced = TRUE], Failed("execution_error")}
    BY <1>4 DEF Marking, Look, SayFailed, StoreFailed, Trace, log
  <2>3. UNCHANGED <<kind, worker, artifact, upload>>
    BY <1>4 DEF Marking, Look, SayFailed, StoreFailed, document
  <2>. QED BY <1>1, <2>1, <2>2, <2>3
<1>5. CASE Announce \/ Execute \/ (\E w \in Workers : Finish(w)) \/ Reinvoke \/ Revoke \/ CleanerLook
           \/ Streaming \/ UNCHANGED vars
  BY <1>1, <1>5 DEF Announce, Execute, Finish, Reinvoke, Revoke, CleanerLook, Streaming, Poll, Show, vars, log,
     document
<1>. QED BY <1>2, <1>3, <1>4, <1>5, IngestWorkerNext DEF Next, Requesting, MachineStep, Cleaning, Markers

LEMMA PublishedNext ==
    ASSUME ConstantAssumption, TypeOK, PublishedInv, [Next]_vars
    PROVE  PublishedInv'
<1>1. LabelInv' /\ IngestInv'
  BY LabelNext, IngestNext DEF PublishedInv
<1>2. FailedKeepsNoAnswer'
  BY TypeParts, StoredRun DEF PublishedInv, FailedKeepsNoAnswer
<1>. QED BY <1>1, <1>2 DEF PublishedInv

LEMMA InitPublished ==
    ASSUME Init
    PROVE  PublishedInv
<1>1. \A w \in Workers : At(w) = "idle"
  BY DEF Init, Resting, At
<1>. QED BY <1>1 DEF Init, NoRun, PublishedInv, LabelInv, IngestInv, FailedKeepsNoAnswer

(* The invariant of the workers, for every value of the constants. *)
THEOREM PublishedInvariant == Spec => [](TypeOK /\ ReadInv /\ PublishedInv)
<1>1. Init => TypeOK /\ ReadInv /\ PublishedInv
  BY InitTyped, InitPublished, ConstantAssumption DEF Init, ReadInv
<1>2. TypeOK /\ ReadInv /\ PublishedInv /\ [Next]_vars => (TypeOK /\ ReadInv /\ PublishedInv)'
  BY TypeNext, ReadNext, PublishedNext, ConstantAssumption
<1>. QED BY <1>1, <1>2, PTL DEF Spec

(* A failed run holds no answer, though workers that overlap, markers and  *)
(* the cleanup of a revocation write it without asking each other.         *)
THEOREM NoAnswerOnFailure == Spec => []FailedKeepsNoAnswer
<1>1. PublishedInv => FailedKeepsNoAnswer
  BY DEF PublishedInv
<1>. QED BY <1>1, PublishedInvariant, PTL

(* An ingest run that counts as succeeded has a document to show and has   *)
(* used up its upload, however often its worker was invoked.               *)
THEOREM SucceededHasItsDocument == Spec => []SucceededIsPublished
<1>1. PublishedInv => SucceededIsPublished
  BY DEF PublishedInv, IngestInv, SucceededIsPublished
<1>. QED BY <1>1, PublishedInvariant, PTL

-----------------------------------------------------------------------------
(* A chat run ends as its subscriber was told.                             *)

(* Only a worker that is alive does anything. *)
LEMMA OnlyAliveStep ==
    ASSUME ConstantAssumption, NEW w \in Workers, WorkerStep(w) \/ Die(w)
    PROVE  w \in Alive
BY DEF WorkerStep, ChatWorker, IngestWorker, Authorize, ChatBegin, Claim, Load, SayRunning, Answer, Succeed,
       SayFinal, ChatCaught, Report, IngestBegin, MarkRunning, Read, Ingest, Consume, Store, IngestCaught,
       FailEvent, Fail, Die, Alive

(* How a chat run may change. *)
RunMove ==
    \/ UNCHANGED run
    \/ run = NoRun /\ run'.status = "queued" /\ run'.code = "none"
    \/ Alive # {} /\ run.status = "queued" /\ run'.status = "running" /\ run'.code = run.code
    \/ Alive # {} /\ run.status = "running" /\ run'.status = "succeeded" /\ run'.code = run.code
    \/ Active(run.status) /\ run'.status = "failed" /\ run'.code # "none"
    \/ run.status # "none" /\ run'.status = "failed" /\ run'.code = "permission_revoked"

LEMMA ChatWorkerMove ==
    ASSUME ConstantAssumption, TypeOK, LabelInv, kind = "chat", NEW w \in Workers, WorkerStep(w) \/ Die(w)
    PROVE  /\ RunMove
           /\ worker[w].pc # "report" /\ worker'[w].pc = "report" => run'.status = "failed"
           /\ UNCHANGED events \/ Say("status") \/ Say("final") \/ (Report(w) /\ Say("error"))
<1>t. LogTyped /\ WorkersTyped
  BY TypeParts
<1>c. ~IngestWorker(w)
  BY DEF LabelInv, IngestWorker, IngestBegin, MarkRunning, Read, Ingest, Consume, Store, IngestCaught, FailEvent,
         Fail, At
<1>a. Alive # {}
  BY OnlyAliveStep
<1>f. \A c \in {"execution_error", "permission_revoked"} : Failed(c).status = "failed" /\ Failed(c).code = c
  BY <1>t, FailedTyped
<1>s. /\ [run EXCEPT !.status = "running"].status = "running"
      /\ [run EXCEPT !.status = "running"].code = run.code
      /\ [run EXCEPT !.status = "succeeded", !.answer = TRUE].status = "succeeded"
      /\ [run EXCEPT !.status = "succeeded", !.answer = TRUE].code = run.code
  BY <1>t DEF LogTyped, RunRecord
<1>1. CASE Authorize(w)
  <2>1. At(w) # "report" \/ worker[w].pc = "report"
    BY <1>1, <1>t DEF Authorize, At, WorkersTyped, WorkerRecord
  <2>. QED BY <1>1, <1>t, <2>1, Places DEF Authorize, RunMove, log, At
<1>2. CASE Die(w) \/ SayRunning(w) \/ SayFinal(w) \/ ChatBegin(w) \/ Load(w) \/ Answer(w)
  BY <1>2, <1>t, Places DEF Die, SayRunning, SayFinal, ChatBegin, Load, Answer, Called, RunMove, log
<1>3. CASE Claim(w)
  BY <1>3, <1>t, <1>a, <1>s, Places DEF Claim, Conditional, Called, RunMove
<1>4. CASE Succeed(w)
  BY <1>4, <1>t, <1>a, <1>s, Places DEF Succeed, Conditional, Called, RunMove
<1>5. CASE ChatCaught(w)
  <2>. DEFINE code == IF worker[w].revoked THEN "permission_revoked" ELSE "execution_error"
  <2>1. Failed(code).status = "failed" /\ Failed(code).code # "none"
    BY <1>f
  <2>2. \/ /\ Active(run.status) /\ run' = Failed(code)
        \/ UNCHANGED run /\ (To(w, "returned") \/ To(w, "threw"))
    BY <1>5 DEF ChatCaught, Active
  <2>3. UNCHANGED events
    BY <1>5 DEF ChatCaught
  <2>4. To(w, "returned") \/ To(w, "threw") => worker'[w].pc # "report"
    BY <1>t, RecordPlaces DEF PcLabel
  <2>. QED BY <2>1, <2>2, <2>3, <2>4 DEF RunMove
<1>6. CASE Report(w)
  BY <1>6, <1>t, Places DEF Report, RunMove
<1>. QED BY <1>c, <1>1, <1>2, <1>3, <1>4, <1>5, <1>6 DEF WorkerStep, ChatWorker

(* Nobody begins before the run is created and started. *)
LEMMA StartNext ==
    ASSUME ConstantAssumption, TypeOK, StartInv, [Next]_vars
    PROVE  StartInv'
<1>t. LogTyped /\ WorkersTyped /\ MarkersTyped
  BY TypeParts
<1>1. ASSUME NEW w \in Workers, WorkerStep(w) \/ Die(w) PROVE StartInv'
  <2>1. worker[w].pc # "idle"
    BY <1>1, OnlyAliveStep DEF Alive
  <2>2. machine # "none" /\ request = "done"
    BY <2>1 DEF StartInv
  <2>3. WorkerEffect(w)
    BY <1>1, WorkerStepEffect
  <2>4. run.status # "none" => run'.status # "none"
    <3>1. /\ [run EXCEPT !.traced = TRUE].status = run.status
          /\ [run EXCEPT !.status = "running"].status = "running"
          /\ [run EXCEPT !.status = "succeeded", !.answer = TRUE].status = "succeeded"
          /\ [run EXCEPT !.status = "succeeded", !.traced = TRUE].status = "succeeded"
          /\ \A c \in {"execution_error", "permission_revoked"} : Failed(c).status = "failed"
      BY <1>t, FailedTyped DEF LogTyped, RunRecord
    <3>2. CASE Authorize(w) \/ Die(w) \/ SayRunning(w) \/ SayFinal(w)
      BY <3>2 DEF Authorize, Die, SayRunning, SayFinal, log
    <3>3. CASE ChatWorker(w)
      BY <3>1, <3>3
      DEF ChatWorker, ChatBegin, Claim, Load, Answer, Succeed, ChatCaught, Report, Conditional, Called, log
    <3>4. CASE IngestWorker(w)
      BY <3>1, <3>4
      DEF IngestWorker, IngestBegin, MarkRunning, Read, Ingest, Consume, Store, IngestCaught, FailEvent, Fail,
          Called, Trace, log
    <3>. QED BY <1>1, <3>2, <3>3, <3>4 DEF WorkerStep
  <2>. QED BY <2>2, <2>3, <2>4 DEF StartInv, WorkerEffect
<1>2. ASSUME NEW m \in Markers, Marking(m) PROVE StartInv'
  <2>1. request = "done"
    BY <1>2 DEF StartInv, Marking, Look, SayFailed, StoreFailed, Markers
  <2>2. UNCHANGED <<request, machine, worker, cleaner>>
    BY <1>2 DEF Marking, Look, SayFailed, StoreFailed
  <2>3. run' \in {run, [run EXCEPT !.traced = TRUE], Failed("execution_error")}
    BY <1>2 DEF Marking, Look, SayFailed, StoreFailed, Trace, log
  <2>4. run.status # "none" => run'.status # "none"
    BY <2>3, <1>t, FailedTyped DEF LogTyped, RunRecord
  <2>. QED BY <2>1, <2>2, <2>4 DEF StartInv
<1>3. CASE Requesting
  <2>1. CASE Create
    BY <2>1 DEF Create, StartInv, NoRun
  <2>2. CASE Announce
    BY <2>2 DEF Announce, StartInv
  <2>3. CASE Execute
    BY <2>3 DEF Execute, StartInv, log
  <2>. QED BY <1>3, <2>1, <2>2, <2>3 DEF Requesting
<1>4. CASE MachineStep \/ Reinvoke
  <2>1. request = "done" /\ machine # "none"
    BY <1>4 DEF MachineStep, Invoke, Finish, Reinvoke, StartInv
  <2>2. UNCHANGED <<run, request, cleaner>> /\ machine' # "none"
    BY <1>4 DEF MachineStep, Invoke, Finish, Reinvoke, log
  <2>. QED BY <2>1, <2>2 DEF StartInv
<1>5. CASE Revoke \/ CleanerLook \/ Streaming \/ UNCHANGED vars
  BY <1>5 DEF Revoke, CleanerLook, Streaming, Poll, Show, vars, log, StartInv, NoRun
<1>6. CASE CleanerStop
  <2>1. run'.status = "failed"
    BY <1>6, <1>t DEF CleanerStop, LogTyped, RunRecord
  <2>. QED BY <1>6, <2>1 DEF CleanerStop, StartInv
<1>. QED BY <1>1, <1>2, <1>3, <1>4, <1>5, <1>6 DEF Next, Cleaning, Markers

(* A chat run moves from queued to running to succeeded by the workers'    *)
(* conditional writes; anybody else can only fail it.                      *)
LEMMA ChatMove ==
    ASSUME ConstantAssumption, TypeOK, ShownInv, kind = "chat", [Next]_vars
    PROVE  RunMove
<1>t. LogTyped /\ WorkersTyped /\ MarkersTyped
  BY TypeParts
<1>1. ASSUME NEW w \in Workers, WorkerStep(w) \/ Die(w) PROVE RunMove
  BY <1>1, ChatWorkerMove DEF ShownInv
<1>2. ASSUME NEW m \in Markers, Marking(m) PROVE RunMove
  <2>1. Failed("execution_error").status = "failed" /\ Failed("execution_error").code # "none"
    BY <1>t, FailedTyped
  <2>2. run' = run \/ (Active(run.status) /\ run' = Failed("execution_error"))
    BY <1>2 DEF Marking, Look, SayFailed, StoreFailed, log, ShownInv, ChatInv, Markers
  <2>. QED BY <2>1, <2>2 DEF RunMove
<1>3. CASE Create
  BY <1>3 DEF Create, ShownInv, StartInv, RunMove, NoRun
<1>4. CASE CleanerStop
  <2>1. run'.status = "failed" /\ run'.code = "permission_revoked"
    BY <1>4, <1>t DEF CleanerStop, LogTyped, RunRecord
  <2>2. run.status # "none"
    BY <1>4 DEF CleanerStop, ShownInv, StartInv
  <2>. QED BY <2>1, <2>2 DEF RunMove
<1>5. CASE Announce \/ Execute \/ MachineStep \/ Reinvoke \/ Revoke \/ CleanerLook \/ Streaming \/ UNCHANGED vars
  BY <1>5 DEF Announce, Execute, MachineStep, Invoke, Finish, Reinvoke, Revoke, CleanerLook, Streaming, Poll, Show,
     vars, log, RunMove
<1>. QED BY <1>1, <1>2, <1>3, <1>4, <1>5 DEF Next, Requesting, Cleaning, Markers

LEMMA ChatNext ==
    ASSUME ConstantAssumption, TypeOK, ShownInv, [Next]_vars
    PROVE  ChatInv'
<1>t. LogTyped /\ WorkersTyped /\ MarkersTyped /\ StreamTyped
  BY TypeParts
<1>k. kind' = kind
  BY ZenonT(60) DEF Next, Requesting, Create, Announce, Execute, MachineStep, Invoke, Finish, Reinvoke, WorkerStep, ChatWorker,
         IngestWorker, Authorize, ChatBegin, Claim, Load, SayRunning, Answer, Succeed, SayFinal, ChatCaught, Report,
         IngestBegin, MarkRunning, Read, Ingest, Consume, Store, IngestCaught, FailEvent, Fail, Die, Marking, Look,
         SayFailed, StoreFailed, Revoke, Cleaning, CleanerLook, CleanerStop, Streaming, Poll, Show, vars
<1>. SUFFICES ASSUME kind = "chat"
              PROVE  /\ run'.status # "failed" => run'.code = "none"
                     /\ stream'.checking \/ stream'.told = "final" =>
                           run'.status = "succeeded" \/ run'.code = "permission_revoked"
                     /\ \A w \in Workers : worker'[w].pc = "report" => run'.status = "failed"
                     /\ \A m \in Markers : marker'[m].pc \in {"say", "store"} => Active(marker'[m].saw)
  BY <1>k DEF ChatInv, Active, Markers
<1>m. RunMove
  BY ChatMove
<1>i. /\ run.status # "failed" => run.code = "none"
      /\ stream.checking \/ stream.told = "final" => run.status = "succeeded" \/ run.code = "permission_revoked"
      /\ \A w \in Workers : worker[w].pc = "report" => run.status = "failed"
      /\ \A m \in Markers : marker[m].pc \in {"say", "store"} => Active(marker[m].saw)
  BY DEF ShownInv, ChatInv, Markers
<1>n. NoRun.status = "none"
  BY DEF NoRun
<1>1. run'.status # "failed" => run'.code = "none"
  BY <1>m, <1>i, <1>n DEF RunMove, Active
<1>2. run.status = "failed" => run'.status = "failed"
  BY <1>m, <1>n DEF RunMove, Active
<1>3. ASSUME run.status = "succeeded" \/ run.code = "permission_revoked"
      PROVE  run'.status = "succeeded" \/ run'.code = "permission_revoked"
  <2>1. run.status \in {"succeeded", "failed"}
    BY <1>3, <1>i
  <2>. QED BY <1>3, <2>1, <1>m, <1>n DEF RunMove, Active
<1>4. stream'.checking \/ stream'.told = "final" => run'.status = "succeeded" \/ run'.code = "permission_revoked"
  <2>1. CASE UNCHANGED stream
    BY <2>1, <1>3, <1>i
  <2>2. CASE Streaming
    <3>1. UNCHANGED run
      BY <2>2, StreamMoves DEF log
    <3>2. \A told : Shown(told) => ~stream'.checking /\ stream'.told = told
      BY DEF Shown
    <3>3. /\ [stream EXCEPT !.checking = TRUE].told = stream.told
          /\ [stream EXCEPT !.told = "broken"].told = "broken"
          /\ [stream EXCEPT !.told = "broken"].checking = stream.checking
      BY <1>t DEF StreamTyped
    <3>. QED BY <2>2, <3>1, <3>2, <3>3, <1>i, StreamMoves
  <2>3. ASSUME NEW w \in Workers, WorkerStep(w) \/ Die(w) PROVE UNCHANGED stream
    BY <2>3, OthersStay
  <2>4. Streaming \/ UNCHANGED stream
    BY <2>3 DEF Next, Requesting, Create, Announce, Execute, MachineStep, Invoke, Finish, Reinvoke, Marking, Look,
       SayFailed, StoreFailed, Revoke, Cleaning, CleanerLook, CleanerStop, vars
  <2>. QED BY <2>1, <2>2, <2>4
<1>5. ASSUME NEW v \in Workers, worker'[v].pc = "report" PROVE run'.status = "failed"
  <2>1. CASE worker[v].pc = "report"
    BY <2>1, <1>2, <1>i
  <2>2. ASSUME NEW w \in Workers, WorkerStep(w) \/ Die(w) PROVE run'.status = "failed"
    <3>1. CASE v = w
      BY <1>5, <2>1, <2>2, <3>1, ChatWorkerMove DEF ShownInv
    <3>. QED BY <1>5, <2>1, <2>2, <3>1, OthersStay
  <2>3. ASSUME NEW w \in Workers, Invoke(w) PROVE worker[v].pc = "report"
    <3>1. worker'[w].pc = "begin" /\ \A u \in Workers \ {w} : worker'[u] = worker[u]
      <4>1. PICK rec : Go(w, rec)
        BY <2>3 DEF Invoke, To
      <4>. QED BY <2>3, <4>1, <1>t, GoPlace, RecordPlaces DEF Invoke, PcLabel
    <3>. QED BY <1>5, <3>1
  <2>4. CASE UNCHANGED worker
    BY <1>5, <2>1, <2>4
  <2>5. Requesting \/ (\E w \in Workers : Finish(w)) \/ Reinvoke \/ Revoke \/ Cleaning \/ Streaming
             \/ (\E m \in Markers : Marking(m)) \/ UNCHANGED vars => UNCHANGED worker
    BY DEF Requesting, Create, Announce, Execute, Finish, Reinvoke, Revoke, Cleaning, CleanerLook, CleanerStop,
           Streaming, Poll, Show, Marking, Look, SayFailed, StoreFailed, vars
  <2>. QED BY <2>1, <2>2, <2>3, <2>4, <2>5 DEF Next, MachineStep, Markers
<1>6. ASSUME NEW m \in Markers, marker'[m].pc \in {"say", "store"} PROVE Active(marker'[m].saw)
  <2>1. ASSUME NEW n \in Markers, Marking(n) PROVE Active(marker'[m].saw)
    <3>1. n # m => marker'[m] = marker[m]
      BY <2>1, <1>t DEF Marking, Look, SayFailed, StoreFailed, Mark, MarkersTyped
    <3>3. CASE n = m
      <4>1. \/ Active(run.status) /\ Looked(m, "say", run.status)
            \/ marker[m].pc = "say" /\ Mark(m, "store", marker[m].saw)
            \/ \E saw : Mark(m, "done", saw)
        BY <2>1, <3>3 DEF Marking, Look, Looked, SayFailed, StoreFailed
      <4>2. CASE Active(run.status) /\ Looked(m, "say", run.status)
        BY <4>2, <1>t DEF Looked, MarkersTyped, MarkerRecord, Active
      <4>3. CASE marker[m].pc = "say" /\ Mark(m, "store", marker[m].saw)
        BY <4>3, <1>t, <1>i DEF Mark, MarkersTyped, MarkerRecord, Active
      <4>4. CASE \E saw : Mark(m, "done", saw)
        BY <4>4, <1>t, <1>6 DEF Mark, MarkersTyped, MarkerRecord
      <4>. QED BY <4>1, <4>2, <4>3, <4>4
    <3>. QED BY <1>6, <1>i, <3>1, <3>3
  <2>2. CASE UNCHANGED marker
    BY <1>6, <2>2, <1>i
  <2>3. CASE Execute \/ \E w \in Workers : Finish(w)
    <3>1. marker'[m] = marker[m] \/ marker'[m].pc = "look"
      BY <2>3, <1>t DEF Execute, Finish, MarkersTyped, MarkerRecord, Markers
    <3>. QED BY <1>6, <1>i, <3>1
  <2>4. ASSUME NEW w \in Workers, WorkerStep(w) \/ Die(w) PROVE UNCHANGED marker
    BY <2>4, OthersStay
  <2>5. Create \/ Announce \/ (\E w \in Workers : Invoke(w)) \/ Reinvoke \/ Revoke \/ Cleaning \/ Streaming
             \/ UNCHANGED vars => UNCHANGED marker
    BY DEF Create, Announce, Invoke, Reinvoke, Revoke, Cleaning, CleanerLook, CleanerStop, Streaming, Poll, Show,
           vars
  <2>. QED BY <2>1, <2>2, <2>3, <2>4, <2>5 DEF Next, Requesting, MachineStep, Markers
<1>. QED BY <1>1, <1>4, <1>5, <1>6

LEMMA InitShown ==
    ASSUME Init
    PROVE  ShownInv /\ MarkerInv
<1>1. \A w \in Workers : At(w) = "idle" /\ worker[w].pc = "idle"
  BY DEF Init, Resting, At
<1>2. \A m \in {"request", "machine"} : marker[m].pc = "idle"
  BY DEF Init
<1>3. ~Condemned
  <2>1. Len(events) = 0
    BY DEF Init
  <2>. QED BY <1>2, <2>1 DEF Condemned, Init
<1>. QED BY <1>1, <1>2, <1>3 DEF Init, NoRun, ShownInv, LabelInv, StartInv, ChatInv, MarkerInv

(* What was shown as the final answer, for every value of the constants:   *)
(* also if a worker goes on while a marker acts in its stead.              *)
THEOREM ShownInvariant == Spec => [](TypeOK /\ ReadInv /\ ShownInv)
<1>1. Init => TypeOK /\ ReadInv /\ ShownInv
  BY InitTyped, InitShown, ConstantAssumption DEF Init, ReadInv
<1>2. TypeOK /\ ReadInv /\ ShownInv /\ [Next]_vars => (TypeOK /\ ReadInv /\ ShownInv)'
  BY TypeNext, ReadNext, LabelNext, StartNext, ChatNext, ConstantAssumption DEF ShownInv
<1>. QED BY <1>1, <1>2, PTL DEF Spec

(* With nobody at work and nobody to come, it stays so.                    *)
LEMMA QuietStays ==
    ASSUME ConstantAssumption, TypeOK, Quiet, request = "done", [Next]_vars
    PROVE  Quiet' /\ request' = "done" /\ UNCHANGED worker
<1>1. ASSUME NEW w \in Workers PROVE ~(WorkerStep(w) \/ Die(w))
  BY OnlyAliveStep DEF Quiet
<1>2. ~MachineStep /\ ~Reinvoke /\ ~Requesting
  BY DEF Quiet, MachineStep, Invoke, Finish, Reinvoke, Requesting, Create, Announce, Execute
<1>3. ASSUME NEW m \in Markers, Marking(m) PROVE UNCHANGED <<worker, machine, request>>
  BY <1>3 DEF Marking, Look, SayFailed, StoreFailed
<1>4. CASE Revoke \/ Cleaning \/ UNCHANGED vars
  BY <1>4 DEF Revoke, Cleaning, CleanerLook, CleanerStop, vars, Quiet, Alive
<1>5. UNCHANGED <<worker, machine, request>> => Quiet' /\ request' = "done"
  BY DEF Quiet, Alive
<1>6. CASE Streaming
  BY <1>5, <1>6, StreamMoves
<1>. QED BY <1>1, <1>2, <1>3, <1>4, <1>5, <1>6 DEF Next, Markers

(* What a marker has looked beside is not forgotten.                       *)
LEMMA BesideStays ==
    ASSUME ConstantAssumption, TypeOK, LookedBeside, [Next]_vars
    PROVE  LookedBeside'
<1>t. MarkersTyped
  BY TypeParts
<1>1. ASSUME NEW m \in Markers, Marking(m) PROVE \A k \in Markers : marker[k].beside => marker'[k].beside
  <2>1. \E p, saw : Mark(m, p, saw) \/ Looked(m, p, saw)
    BY <1>1 DEF Marking, Look, Looked, SayFailed, StoreFailed
  <2>. QED BY <2>1, <1>t DEF Mark, Looked, MarkersTyped, MarkerRecord
<1>2. CASE Execute \/ \E w \in Workers : Finish(w)
  <2>1. \A k \in Markers : marker'[k].beside = marker[k].beside
    BY <1>2, <1>t DEF Execute, Finish, MarkersTyped, MarkerRecord
  <2>. QED BY <2>1 DEF LookedBeside, Markers
<1>3. ASSUME NEW w \in Workers, WorkerStep(w) \/ Die(w) PROVE UNCHANGED marker
  BY <1>3, OthersStay
<1>4. Create \/ Announce \/ (\E w \in Workers : Invoke(w)) \/ Reinvoke \/ Revoke \/ Cleaning
           \/ UNCHANGED vars => UNCHANGED marker
  BY DEF Create, Announce, Invoke, Reinvoke, Revoke, Cleaning, CleanerLook, CleanerStop, vars
<1>5. Streaming => UNCHANGED marker
  BY StreamMoves
<1>. QED BY <1>1, <1>2, <1>3, <1>4, <1>5 DEF Next, Requesting, MachineStep, Markers, LookedBeside

(* A failure is first told of by a worker that has just stored it, or by a *)
(* marker that has found the run active.                                   *)
LEMMA FirstTold ==
    ASSUME ConstantAssumption, TypeOK, ShownInv, kind = "chat", ~Condemned, Condemned', [Next]_vars
    PROVE  \/ run'.status = "failed"
           \/ LookedBeside'
           \/ Quiet /\ request = "done" /\ run'.status # "succeeded"
<1>t. LogTyped /\ WorkersTyped /\ MarkersTyped /\ StreamTyped
  BY TypeParts
<1>q. /\ stream.told # "error"
      /\ \A i \in 1..Len(events) : events[i] # "error"
      /\ \A m \in Markers : marker[m].pc \notin {"say", "store"}
  BY DEF Condemned, Markers
<1>n. ASSUME UNCHANGED <<stream, marker>>, UNCHANGED events \/ Say("status") \/ Say("final") PROVE FALSE
  <2>1. \A i \in 1..Len(events') : events'[i] # "error"
    BY <1>n, <1>q, <1>t, Says DEF LogTyped
  <2>. QED BY <1>n, <1>q, <2>1 DEF Condemned, Markers
<1>1. ASSUME NEW w \in Workers, WorkerStep(w) \/ Die(w) PROVE run'.status = "failed"
  <2>1. UNCHANGED <<stream, marker>>
    BY <1>1, OthersStay
  <2>2. UNCHANGED events \/ Say("status") \/ Say("final") \/ Report(w)
    BY <1>1, ChatWorkerMove DEF ShownInv
  <2>3. Report(w) => run'.status = "failed"
    BY DEF Report, ShownInv, ChatInv
  <2>. QED BY <1>n, <2>1, <2>2, <2>3
<1>2. ASSUME NEW m \in Markers, Marking(m)
      PROVE  LookedBeside' \/ (Quiet /\ request = "done" /\ run'.status # "succeeded")
  <2>1. Look(m)
    BY <1>2, <1>q DEF Marking, SayFailed, StoreFailed
  <2>2. ASSUME NEW saw, Mark(m, "done", saw) PROVE \A k \in Markers : marker'[k].pc \notin {"say", "store"}
    BY <2>2, <1>q, <1>t DEF Mark, MarkersTyped, MarkerRecord
  <2>3. UNCHANGED <<stream, machine, worker>>
    BY <2>1 DEF Look
  <2>4. Active(run.status) /\ UNCHANGED <<run, events>> /\ Looked(m, "say", run.status)
    <3>1. UNCHANGED <<run, events>>
      BY <2>1 DEF Look, log
    <3>2. ~\E saw : Mark(m, "done", saw)
      BY <2>2, <2>3, <3>1, <1>q DEF Condemned, Markers
    <3>. QED BY <2>1, <3>1, <3>2 DEF Look, Looked
  <2>5. marker[m].pc # "idle"
    BY <2>1 DEF Look
  <2>6. request = "done"
    BY <2>5 DEF ShownInv, StartInv, Markers
  <2>7. ~Quiet => marker'[m].beside
    BY <2>4, <1>t DEF Looked, MarkersTyped, MarkerRecord
  <2>. QED BY <2>4, <2>6, <2>7 DEF LookedBeside, Markers, Active
<1>3. CASE Execute \/ \E w \in Workers : Finish(w)
  <2>1. \A k \in Markers : marker'[k].pc \notin {"say", "store"}
    BY <1>3, <1>q, <1>t DEF Execute, Finish, MarkersTyped, MarkerRecord, Markers
  <2>2. UNCHANGED <<events, stream>>
    BY <1>3 DEF Execute, Finish, log
  <2>. QED BY <2>1, <2>2, <1>q DEF Condemned, Markers
<1>4. CASE Streaming
  <2>1. UNCHANGED <<events, marker>>
    BY <1>4, StreamMoves DEF log
  <2>2. stream'.told # "error"
    <3>1. Following => stream.pos + 1 \in 1..Len(events)
      BY <1>t DEF Following, StreamTyped, LogTyped
    <3>2. \A told : Shown(told) => stream'.told = told
      BY DEF Shown
    <3>3. /\ [stream EXCEPT !.checking = TRUE].told = stream.told
          /\ [stream EXCEPT !.told = "broken"].told = "broken"
      BY <1>t DEF StreamTyped
    <3>4. Following => NextEvent # "error"
      BY <3>1, <1>q DEF NextEvent
    <3>. QED BY <1>4, <3>2, <3>3, <3>4, <1>q, StreamMoves
  <2>. QED BY <2>1, <2>2, <1>q DEF Condemned, Markers
<1>5. CASE Create \/ Announce \/ (\E w \in Workers : Invoke(w)) \/ Reinvoke \/ Revoke \/ Cleaning \/ UNCHANGED vars
  <2>1. UNCHANGED <<stream, marker>> /\ (UNCHANGED events \/ Say("status"))
    BY <1>5 DEF Create, Announce, Invoke, Reinvoke, Revoke, Cleaning, CleanerLook, CleanerStop, vars, log
  <2>. QED BY <1>n, <2>1
<1>. QED BY <1>1, <1>2, <1>3, <1>4, <1>5 DEF Next, Requesting, MachineStep, Markers

LEMMA MarkerNext ==
    ASSUME ConstantAssumption, TypeOK, ShownInv, MarkerInv, [Next]_vars
    PROVE  MarkerInv'
<1>1. kind' = kind
  BY ZenonT(60) DEF Next, Requesting, Create, Announce, Execute, MachineStep, Invoke, Finish, Reinvoke, WorkerStep, ChatWorker,
         IngestWorker, Authorize, ChatBegin, Claim, Load, SayRunning, Answer, Succeed, SayFinal, ChatCaught, Report,
         IngestBegin, MarkRunning, Read, Ingest, Consume, Store, IngestCaught, FailEvent, Fail, Die, Marking, Look,
         SayFailed, StoreFailed, Revoke, Cleaning, CleanerLook, CleanerStop, Streaming, Poll, Show, vars
<1>. SUFFICES ASSUME kind = "chat", Condemned', ~LookedBeside', run'.status # "failed"
              PROVE  Quiet' /\ request' = "done" /\ run'.status # "succeeded"
  BY <1>1 DEF MarkerInv
<1>2. RunMove /\ ~LookedBeside
  BY ChatMove, BesideStays
<1>3. CASE Condemned
  <2>1. CASE run.status = "failed"
    BY <1>2, <2>1 DEF RunMove, Active, NoRun
  <2>2. CASE Quiet /\ request = "done" /\ run.status # "succeeded"
    <3>1. Quiet' /\ request' = "done"
      BY <2>2, QuietStays
    <3>2. run'.status # "succeeded"
      BY <1>2, <2>2 DEF RunMove, Quiet
    <3>. QED BY <3>1, <3>2
  <2>. QED BY <1>2, <1>3, <2>1, <2>2 DEF MarkerInv
<1>4. CASE ~Condemned
  BY <1>4, FirstTold, QuietStays
<1>. QED BY <1>3, <1>4

(* A chat run that an event called failed to its subscriber never          *)
(* succeeds, unless a marker looked at it beside a worker; one whose       *)
(* answer was shown fails at most by a revocation.  Workers may go on,     *)
(* come late or come twice, whatever the machine and the markers do.       *)
THEOREM SubscriberIsToldTheTruth == Spec => []TruthTold
<1>1. Init => TypeOK /\ ReadInv /\ ShownInv /\ MarkerInv
  BY InitTyped, InitShown, ConstantAssumption DEF Init, ReadInv
<1>2. TypeOK /\ ReadInv /\ ShownInv /\ MarkerInv /\ [Next]_vars => (TypeOK /\ ReadInv /\ ShownInv /\ MarkerInv)'
  BY TypeNext, ReadNext, LabelNext, StartNext, ChatNext, MarkerNext, ConstantAssumption DEF ShownInv
<1>3. ShownInv /\ MarkerInv => TruthTold
  BY DEF ShownInv, ChatInv, MarkerInv, Condemned, LookedBeside, TruthTold
<1>. QED BY <1>1, <1>2, <1>3, PTL DEF Spec
=============================================================================
