------------------------ MODULE AccountRemovalProofs ------------------------
(***************************************************************************)
(* Proofs about taking an account and its permissions away.  First the     *)
(* transfer of what the account owns and the deletion that follows it, for *)
(* any resources, heirs, failures and deaths; then revocations and their   *)
(* cleanup: the fence of a revocation and what a completed cleanup has     *)
(* removed, for any requests, batches, failures and deaths.                *)
(***************************************************************************)
EXTENDS PrincipalTransfer, RevocationCleanup, TLAPS

-----------------------------------------------------------------------------
(* The transfers' types, by the parts of the state that a step writes, and *)
(* what each request knows on its own: it works on a resource only while   *)
(* one is left to do, and looks again only until it has looked twice.      *)
ResourcesTyped ==
    /\ asset \in [Assets -> Asset]
    /\ index \in [Documents -> Heirs \cup {Source, "nobody"}]

FenceRecord ==
    [status : {"none", "blocking", "account_deny_confirmed", "released"},
     mode : {"administrative_change", "permanent_delete"}, op : 0..MaxToken,
     token : 0..MaxToken, heir : Heirs \cup {Source}, live : BOOLEAN]

FenceTyped == fence \in FenceRecord

IntentTyped ==
    /\ intent \in IntentRecord /\ current \subseteq Clients

OutcomeTyped == audit \in [1..MaxRequests -> [result : {"open", "success", "failed"}, moved : SUBSET Assets]]

AccountTyped ==
    /\ registry \in [state : {"none", "denied", "cleared"}, by : 0..MaxRequests]
    /\ idp \in {"enabled", "disabled", "gone"}
    /\ cleanup \in [1..MaxRequests -> OpenRepair \cup {"none", "cleanup_completed", "abandoned"}]

BoundsTyped ==
    /\ requests \in 0..MaxRequests /\ writes \in 0..MaxWrites
    /\ failures \in 0..MaxFailures /\ deaths \in 0..MaxDeaths

(* Where a request is, be it that it renews the fence first. *)
Label(c) == IF client[c].pc = "renew" THEN client[c].then ELSE client[c].pc

OnResource == {"put", "manifest", "take_back", "take_back_manifest"}
Denying == {"prepare_deny", "deny", "commit_deny", "confirm", "register", "disable", "delete"}
LookedTwice == {"drained", "commit", "assert", "release"} \cup Denying

ClientTyped ==
    /\ client \in [Clients -> ClientRecord]
    /\ \A c \in Clients :
         /\ Label(c) \in OnResource => client[c].todo # {}
         /\ client[c].empty = 2 => Label(c) \in LookedTwice

AllTyped ==
    /\ ResourcesTyped /\ FenceTyped /\ IntentTyped /\ OutcomeTyped /\ AccountTyped /\ BoundsTyped
    /\ ClientTyped /\ writing \in BOOLEAN

-----------------------------------------------------------------------------
(* What a step makes of a client.                                          *)

(* The client that took the step is at a label, with these fields of its   *)
(* record; the other clients have not moved.                               *)
Turned(c, label, op, copy, seen, todo, empty, failed) ==
    /\ client' \in [Clients -> ClientRecord]
    /\ \A b \in Clients \ {c} : client'[b] = client[b]
    /\ Label(c)' = label
    /\ client'[c].heir = client[c].heir
    /\ client'[c].op = op /\ client'[c].copy = copy /\ client'[c].seen = seen
    /\ client'[c].todo = todo /\ client'[c].empty = empty /\ client'[c].failed = failed

(* It has gone to another label, and nothing else of it has changed. *)
Goes(c, label) ==
    Turned(c, label, client[c].op, client[c].copy, client[c].seen, client[c].todo, client[c].empty,
           client[c].failed)

(* It has ended. *)
Ended(c) ==
    /\ client' \in [Clients -> ClientRecord]
    /\ \A b \in Clients \ {c} : client'[b] = client[b]
    /\ client'[c] = AtRest

(* Elementary types. *)
LEMMA Numbers ==
    /\ MaxToken \in Nat /\ MaxRequests \in Nat /\ MaxWrites \in Nat /\ MaxFailures \in Nat
    /\ MaxDeaths \in Nat
    /\ Nothing \in Asset /\ Mine \in Asset /\ NoAssets \in [Assets -> Asset]
    /\ NoIntent \in IntentRecord
<1>1. MaxToken \in Nat /\ MaxRequests \in Nat /\ MaxWrites \in Nat /\ MaxFailures \in Nat /\ MaxDeaths \in Nat
  BY TransferAssumption
<1>2. Nothing \in Asset /\ Mine \in Asset
  BY <1>1 DEF Nothing, Mine, Asset
<1>3. NoAssets \in [Assets -> Asset]
  BY <1>2 DEF NoAssets
<1>4. NoIntent \in IntentRecord
  BY <1>1, <1>3 DEF NoIntent, IntentRecord
<1>5. QED
  BY <1>1, <1>2, <1>3, <1>4

(* A request at rest has no label but its own, and nothing to do.          *)
LEMMA AtRestTyped ==
    /\ AtRest \in ClientRecord
    /\ AtRest.pc = "idle" /\ AtRest.then = "idle" /\ AtRest.todo = {} /\ AtRest.empty = 0 /\ AtRest.seen = NoAssets
<1>1. AtRest \in ClientRecord
  BY Numbers DEF AtRest, ClientRecord
<1>2. QED
  BY <1>1 DEF AtRest

(* The fields of a stored transfer have their types.                       *)
LEMMA IntentFields ==
    ASSUME NEW i \in IntentRecord
    PROVE  /\ i.op \in 0..MaxToken /\ i.heir \in Heirs \cup {Source} /\ i.moved \in [Assets -> Asset]
           /\ i.status \in {"none", "prepared", "transferring", "rollback_pending", "rolled_back", "committed"}
           /\ Moved(i) \subseteq Assets
           /\ [owner |-> i.heir, op |-> i.op] \in Asset
BY DEF IntentRecord, Moved, Asset

(* What a look finds names a giver for every resource.                     *)
LEMMA InventoryTyped ==
    ASSUME ResourcesTyped
    PROVE  Inventory \in [Assets -> Asset]
BY Numbers DEF ResourcesTyped, Inventory

(* The fields of a request have their types.                               *)
LEMMA ClientFields ==
    ASSUME ClientTyped, NEW c \in Clients
    PROVE  /\ client[c] \in ClientRecord
           /\ client[c].copy \in IntentRecord /\ client[c].seen \in [Assets -> Asset]
           /\ client[c].todo \in SUBSET Assets /\ client[c].op \in 0..MaxToken /\ client[c].asked \in 0..MaxToken
           /\ client[c].heir \in Heirs \cup {Source} /\ client[c].empty \in 0..2
           /\ client[c].failed \in BOOLEAN /\ client[c].request \in 0..MaxRequests
           /\ client[c].then \in {"idle", "look", "zero", "put", "inventory", "mark", "take_back", "undone"}
<1>1. client[c] \in ClientRecord
  BY DEF ClientTyped
<1>2. QED
  BY <1>1 DEF ClientRecord

(* A client becomes a record. *)
LEMMA BecomesRecord ==
    ASSUME ClientTyped, NEW c \in Clients, NEW rec \in ClientRecord, Becomes(c, rec)
    PROVE  /\ client' \in [Clients -> ClientRecord]
           /\ \A b \in Clients \ {c} : client'[b] = client[b]
           /\ client'[c] = rec
BY DEF ClientTyped, Becomes

(* A record that a request takes on turns it.                              *)
LEMMA RecordTurns ==
    ASSUME ClientTyped, NEW c \in Clients, NEW rec \in ClientRecord, Becomes(c, rec),
           rec.heir = client[c].heir
    PROVE  Turned(c, IF rec.pc = "renew" THEN rec.then ELSE rec.pc, rec.op, rec.copy, rec.seen, rec.todo,
                  rec.empty, rec.failed)
<1>1. client'[c] = rec
  BY BecomesRecord
<1>2. QED
  BY <1>1, BecomesRecord DEF Turned, Label

(* A request that renews first is at the label it goes on to.              *)
LEMMA RenewingTurns ==
    ASSUME ClientTyped, NEW c \in Clients, NEW rec \in ClientRecord, rec.heir = client[c].heir,
           NEW then \in {"look", "zero", "put", "inventory", "mark", "take_back", "undone"},
           Becomes(c, Renewing(rec, then))
    PROVE  Turned(c, then, rec.op, rec.copy, rec.seen, rec.todo, rec.empty, rec.failed)
<1> DEFINE new == [rec EXCEPT !.pc = "renew", !.then = then]
<1>1. new \in ClientRecord
  BY DEF ClientRecord
<1>2. /\ new.pc = "renew" /\ new.then = then /\ new.op = rec.op /\ new.copy = rec.copy
      /\ new.seen = rec.seen /\ new.todo = rec.todo /\ new.empty = rec.empty /\ new.failed = rec.failed
      /\ new.heir = rec.heir
  BY DEF ClientRecord
<1>3. Becomes(c, new)
  BY DEF Renewing
<1> HIDE DEF new
<1>4. QED
  BY <1>1, <1>2, <1>3, RecordTurns

(* Renewing alone changes nothing else of a request.                       *)
LEMMA RenewingGoes ==
    ASSUME ClientTyped, NEW c \in Clients,
           NEW then \in {"look", "zero", "put", "inventory", "mark", "take_back", "undone"},
           Becomes(c, Renewing(client[c], then))
    PROVE  Goes(c, then)
BY RenewingTurns, ClientFields DEF Goes

(* Entering a label changes nothing else of a request.                     *)
LEMMA EnterGoes ==
    ASSUME ClientTyped, NEW c \in Clients, NEW pc, Enter(c, pc),
           pc \in {"idle", "acquire", "look", "zero", "create", "merge", "apply", "put", "manifest",
                   "inventory", "drained", "commit", "assert", "release", "caught", "mark", "undo", "take_back",
                   "take_back_manifest", "undone", "rolled_back", "prepare_deny", "deny", "commit_deny",
                   "confirm", "register", "disable", "delete", "enable", "clear", "unfence"}
    PROVE  Goes(c, pc)
<1> DEFINE new == [client[c] EXCEPT !.pc = pc]
<1>1. client[c] \in ClientRecord
  BY DEF ClientTyped
<1>2. new \in ClientRecord
  BY <1>1 DEF ClientRecord
<1>3. /\ new.pc = pc /\ new.op = client[c].op /\ new.copy = client[c].copy
      /\ new.seen = client[c].seen /\ new.todo = client[c].todo /\ new.empty = client[c].empty
      /\ new.failed = client[c].failed /\ new.heir = client[c].heir
  BY <1>1 DEF ClientRecord
<1>4. Becomes(c, new)
  BY DEF Enter
<1> HIDE DEF new
<1>5. QED
  BY <1>2, <1>3, <1>4, RecordTurns DEF Goes

(* A request that ends is at rest.                                         *)
LEMMA EndEnds ==
    ASSUME ClientTyped, NEW c \in Clients, EndRequest(c)
    PROVE  Ended(c)
BY AtRestTyped, BecomesRecord DEF EndRequest, Ended

(* It keeps its type, if it has a resource where it works on one. *)
LEMMA TurnedTyped ==
    ASSUME ClientTyped, NEW c \in Clients, NEW label, NEW op, NEW copy, NEW seen, NEW todo, NEW empty,
           NEW failed, Turned(c, label, op, copy, seen, todo, empty, failed),
           label \in OnResource => todo # {}, empty = 2 => label \in LookedTwice
    PROVE  ClientTyped'
<1>1. \A b \in Clients \ {c} : Label(b)' = Label(b) /\ client'[b] = client[b]
  BY DEF Turned, Label
<1>2. /\ Label(c)' \in OnResource => client'[c].todo # {}
      /\ client'[c].empty = 2 => Label(c)' \in LookedTwice
  BY DEF Turned
<1>3. QED
  BY <1>1, <1>2 DEF ClientTyped, Turned

(* A request at rest is well typed.                                        *)
LEMMA EndedTyped ==
    ASSUME ClientTyped, NEW c \in Clients, Ended(c)
    PROVE  ClientTyped'
<1>1. \A b \in Clients \ {c} : Label(b)' = Label(b) /\ client'[b] = client[b]
  BY DEF Ended, Label
<1>2. Label(c)' = "idle" /\ client'[c].empty = 0
  BY AtRestTyped DEF Ended, Label
<1>3. QED
  BY <1>1, <1>2 DEF ClientTyped, Ended, OnResource

(* A stored transfer with another status and more resources. *)
Restated(i, status, moved) == [i EXCEPT !.status = status, !.moved = moved]

(* Restating a stored transfer keeps its operation and its heir.           *)
LEMMA RestatedFields ==
    ASSUME NEW i \in IntentRecord, NEW status, NEW moved, NEW next, next = Restated(i, status, moved)
    PROVE  /\ next.status = status /\ next.moved = moved
           /\ next.op = i.op /\ next.heir = i.heir
BY DEF IntentRecord, Restated

(* The shapes in which the transfer's steps leave a client. *)
LEMMA TakenTurns ==
    ASSUME ClientTyped, NEW c \in Clients, NEW op \in 0..MaxToken, NEW token \in 0..MaxToken,
           NEW acquired \in {"none", "blocking", "account_deny_confirmed"}, Taken(c, op, token, acquired)
    PROVE  Turned(c, "look", op, client[c].copy, client[c].seen, client[c].todo, client[c].empty,
                  client[c].failed)
<1> DEFINE new == [client[c] EXCEPT !.op = op, !.token = token, !.acquired = acquired]
<1>1. client[c] \in ClientRecord
  BY DEF ClientTyped
<1>2. new \in ClientRecord
  BY <1>1 DEF ClientRecord
<1>3. /\ new.op = op /\ new.copy = client[c].copy
      /\ new.seen = client[c].seen /\ new.todo = client[c].todo /\ new.empty = client[c].empty
      /\ new.failed = client[c].failed /\ new.heir = client[c].heir
  BY <1>1 DEF ClientRecord
<1>4. Becomes(c, Renewing(new, "look"))
  BY DEF Taken
<1> HIDE DEF new
<1>5. QED
  BY <1>2, <1>3, <1>4, RenewingTurns

(* The three ways in which a request writes the stored transfer.           *)
LEMMA AdvanceTurns ==
    ASSUME ClientTyped, IntentTyped, NEW c \in Clients, NEW rec \in ClientRecord, rec.heir = client[c].heir,
           rec.pc # "renew", NEW moved \in [Assets -> Asset],
           NEW status \in {"none", "prepared", "transferring", "rollback_pending", "rolled_back", "committed"},
           Advance(c, status, moved, rec)
    PROVE  \/ /\ c \in current /\ current' = {c} /\ intent' \in IntentRecord
              /\ intent' = Restated(client[c].copy, status, moved)
              /\ Turned(c, rec.pc, rec.op, intent', rec.seen, rec.todo, rec.empty, rec.failed)
           \/ /\ c \notin current /\ current' = current \cup {c} /\ intent' = intent
              /\ Turned(c, rec.pc, rec.op, intent, rec.seen, rec.todo, rec.empty, rec.failed)
           \/ c \notin current /\ current' = current /\ intent' = intent /\ Ended(c)
<1>1. \A i \in IntentRecord : Becomes(c, [rec EXCEPT !.copy = i]) =>
        Turned(c, rec.pc, rec.op, i, rec.seen, rec.todo, rec.empty, rec.failed)
  <2>1. SUFFICES ASSUME NEW i \in IntentRecord, Becomes(c, [rec EXCEPT !.copy = i])
                 PROVE  Turned(c, rec.pc, rec.op, i, rec.seen, rec.todo, rec.empty, rec.failed)
    OBVIOUS
  <2> DEFINE new == [rec EXCEPT !.copy = i]
  <2>2. new \in ClientRecord
    BY DEF ClientRecord
  <2>3. /\ new.op = rec.op /\ new.copy = i /\ new.pc = rec.pc
        /\ new.seen = rec.seen /\ new.todo = rec.todo /\ new.empty = rec.empty
        /\ new.failed = rec.failed /\ new.heir = rec.heir
    BY DEF ClientRecord
  <2>4. Becomes(c, new)
    BY <2>1
  <2> HIDE DEF new
  <2>5. QED
    BY <2>2, <2>3, <2>4, RecordTurns
<1>2. CASE c \in current
  <2> DEFINE next == [client[c].copy EXCEPT !.status = status, !.moved = moved]
  <2>1. next \in IntentRecord
    BY ClientFields DEF IntentRecord
  <2>2. intent' = next /\ current' = {c} /\ Becomes(c, [rec EXCEPT !.copy = next])
    BY <1>2 DEF Advance
  <2> HIDE DEF next
  <2>3. Turned(c, rec.pc, rec.op, next, rec.seen, rec.todo, rec.empty, rec.failed)
    BY <1>1, <2>1, <2>2
  <2>4. Turned(c, rec.pc, rec.op, intent', rec.seen, rec.todo, rec.empty, rec.failed)
    BY <2>2, <2>3
  <2>5. QED
    BY <1>2, <2>1, <2>2, <2>4 DEF next, Restated
<1>3. CASE c \notin current /\ intent.op = client[c].copy.op
  <2>1. intent' = intent /\ current' = current \cup {c} /\ Becomes(c, [rec EXCEPT !.copy = intent])
    BY <1>3 DEF Advance
  <2>2. QED
    BY <1>1, <1>3, <2>1 DEF IntentTyped
<1>4. CASE c \notin current /\ intent.op # client[c].copy.op
  BY <1>4, EndEnds DEF Advance
<1>5. QED
  BY <1>2, <1>3, <1>4

(* The ways in which a look goes on.                                       *)
LEMMA LookTurns ==
    ASSUME ClientTyped, IntentTyped, ResourcesTyped, NEW c \in Clients, Look(c)
    PROVE  \/ Ended(c) /\ current' = current
           \/ /\ current' = current \cup {c} /\ intent.status = "none" /\ Owned = {}
              /\ Turned(c, "zero", client[c].op, intent, Inventory, client[c].todo, client[c].empty,
                        client[c].failed)
           \/ /\ current' = current \cup {c}
              /\ Turned(c, "release", client[c].op, intent, Inventory, client[c].todo, client[c].empty,
                        client[c].failed)
           \/ /\ current' = current \cup {c} /\ intent.status = "rollback_pending"
              /\ Turned(c, "undo", client[c].op, intent, Inventory, Moved(intent), client[c].empty,
                        client[c].failed)
           \/ /\ current' = current \cup {c} /\ intent.status \in {"none", "rolled_back"}
              /\ Turned(c, "create", client[c].op, intent, Inventory, client[c].todo, client[c].empty,
                        client[c].failed)
           \/ /\ current' = current \cup {c} /\ intent.status \in {"prepared", "transferring", "committed"}
              /\ Turned(c, "merge", client[c].op, intent, Inventory, client[c].todo, client[c].empty,
                        client[c].failed)
<1> DEFINE me == [client[c] EXCEPT !.copy = intent, !.seen = Inventory]
<1>1. client[c] \in ClientRecord /\ intent \in IntentRecord /\ Inventory \in [Assets -> Asset]
      /\ Moved(intent) \in SUBSET Assets
  BY InventoryTyped, IntentFields DEF ClientTyped, IntentTyped
<1>2. me \in ClientRecord
  BY <1>1 DEF ClientRecord
<1>3. /\ me.op = client[c].op /\ me.copy = intent /\ me.seen = Inventory /\ me.todo = client[c].todo
      /\ me.empty = client[c].empty /\ me.failed = client[c].failed /\ me.heir = client[c].heir
  BY <1>1 DEF ClientRecord
<1>4. \A pc \in {"release", "create", "merge"} : Becomes(c, [me EXCEPT !.pc = pc]) =>
        Turned(c, pc, client[c].op, intent, Inventory, client[c].todo, client[c].empty, client[c].failed)
  <2>1. SUFFICES ASSUME NEW pc \in {"release", "create", "merge"}, Becomes(c, [me EXCEPT !.pc = pc])
                 PROVE  Turned(c, pc, client[c].op, intent, Inventory, client[c].todo, client[c].empty,
                               client[c].failed)
    OBVIOUS
  <2> DEFINE new == [me EXCEPT !.pc = pc]
  <2> HIDE DEF me
  <2>2. new \in ClientRecord
    BY <1>2 DEF ClientRecord
  <2>3. /\ new.op = me.op /\ new.copy = me.copy /\ new.pc = pc
        /\ new.seen = me.seen /\ new.todo = me.todo /\ new.empty = me.empty
        /\ new.failed = me.failed /\ new.heir = me.heir
    BY <1>2 DEF ClientRecord
  <2>4. Becomes(c, new)
    BY <2>1
  <2> HIDE DEF new
  <2>5. QED
    BY <1>3, <2>2, <2>3, <2>4, RecordTurns
<1>5. Becomes(c, [me EXCEPT !.pc = "undo", !.todo = Moved(intent)]) =>
        Turned(c, "undo", client[c].op, intent, Inventory, Moved(intent), client[c].empty, client[c].failed)
  <2>1. SUFFICES ASSUME Becomes(c, [me EXCEPT !.pc = "undo", !.todo = Moved(intent)])
                 PROVE  Turned(c, "undo", client[c].op, intent, Inventory, Moved(intent), client[c].empty,
                               client[c].failed)
    OBVIOUS
  <2> DEFINE new == [me EXCEPT !.pc = "undo", !.todo = Moved(intent)]
  <2> HIDE DEF me
  <2>2. new \in ClientRecord
    BY <1>1, <1>2 DEF ClientRecord
  <2>3. /\ new.op = me.op /\ new.copy = me.copy /\ new.pc = "undo"
        /\ new.seen = me.seen /\ new.todo = Moved(intent) /\ new.empty = me.empty
        /\ new.failed = me.failed /\ new.heir = me.heir
    BY <1>2 DEF ClientRecord
  <2>4. Becomes(c, new)
    BY <2>1
  <2> HIDE DEF new
  <2>5. QED
    BY <1>3, <2>2, <2>3, <2>4, RecordTurns
<1>6. Becomes(c, Renewing(me, "zero")) =>
        Turned(c, "zero", client[c].op, intent, Inventory, client[c].todo, client[c].empty, client[c].failed)
  <2> HIDE DEF me
  <2>1. QED
    BY <1>2, <1>3, RenewingTurns
<1>7. intent.status \in {"none", "prepared", "transferring", "rollback_pending", "rolled_back", "committed"}
  BY <1>1, IntentFields
<1>8. \/ EndRequest(c) /\ current' = current
      \/ /\ current' = current \cup {c}
         /\ CASE intent.status = "none" /\ Owned = {} -> Becomes(c, Renewing(me, "zero"))
              [] intent.status \notin {"none", "rolled_back"} /\ intent.heir # me.heir ->
                   Becomes(c, [me EXCEPT !.pc = "release"])
              [] intent.status = "rollback_pending" /\ intent.heir = me.heir ->
                   Becomes(c, [me EXCEPT !.pc = "undo", !.todo = Moved(intent)])
              [] intent.status \in {"none", "rolled_back"} /\ ~(intent.status = "none" /\ Owned = {}) ->
                   Becomes(c, [me EXCEPT !.pc = "create"])
              [] OTHER -> Becomes(c, [me EXCEPT !.pc = "merge"])
  BY DEF Look
<1> HIDE DEF me
<1>9. CASE EndRequest(c) /\ current' = current
  BY <1>9, EndEnds
<1>10. CASE ~(EndRequest(c) /\ current' = current)
  <2>1. current' = current \cup {c}
    BY <1>8, <1>10
  <2>2. CASE intent.status = "none" /\ Owned = {}
    <3>1. Becomes(c, Renewing(me, "zero"))
      BY <1>8, <1>10, <2>2
    <3>2. QED
      BY <1>6, <2>1, <2>2, <3>1
  <2>3. CASE ~(intent.status = "none" /\ Owned = {})
    <3>1. \/ Becomes(c, [me EXCEPT !.pc = "release"])
          \/ intent.status = "rollback_pending" /\ Becomes(c, [me EXCEPT !.pc = "undo", !.todo = Moved(intent)])
          \/ intent.status \in {"none", "rolled_back"} /\ Becomes(c, [me EXCEPT !.pc = "create"])
          \/ /\ intent.status \in {"prepared", "transferring", "committed"}
             /\ Becomes(c, [me EXCEPT !.pc = "merge"])
      BY <1>7, <1>8, <1>10, <2>3
    <3>2. QED
      BY <1>4, <1>5, <2>1, <3>1
  <2>4. QED
    BY <2>2, <2>3
<1>11. QED
  BY <1>9, <1>10

(* A single field of a client's record is written. *)
LEMMA EmptyWritten ==
    ASSUME NEW r \in ClientRecord, NEW e \in 0..2
    PROVE  [r EXCEPT !.empty = e] \in ClientRecord
BY DEF ClientRecord

(* A label may be written into a request.                                  *)
LEMMA PcWritten ==
    ASSUME NEW r \in ClientRecord,
           NEW pc \in {"create", "prepare_deny", "release", "merge", "apply", "drained"}
    PROVE  [r EXCEPT !.pc = pc] \in ClientRecord
BY DEF ClientRecord

(* The ways in which a request without anything to hand over goes on.      *)
LEMMA ZeroTurns ==
    ASSUME ClientTyped, ResourcesTyped, NEW c \in Clients, Zero(c)
    PROVE  \/ Turned(c, "create", client[c].op, client[c].copy, Inventory, client[c].todo, 0, client[c].failed)
           \/ /\ Owned = {}
              /\ Turned(c, "zero", client[c].op, client[c].copy, Inventory, client[c].todo, 1, client[c].failed)
           \/ /\ Owned = {} /\ c \in Deleters
              /\ Turned(c, "prepare_deny", client[c].op, client[c].copy, Inventory, client[c].todo, 2,
                        client[c].failed)
           \/ /\ Owned = {} /\ c \notin Deleters
              /\ Turned(c, "release", client[c].op, client[c].copy, Inventory, client[c].todo, 2,
                        client[c].failed)
<1> DEFINE me == [client[c] EXCEPT !.seen = Inventory]
<1>1. client[c] \in ClientRecord /\ Inventory \in [Assets -> Asset]
  BY InventoryTyped DEF ClientTyped
<1>2. me \in ClientRecord
  BY <1>1 DEF ClientRecord
<1>3. /\ me.op = client[c].op /\ me.copy = client[c].copy /\ me.seen = Inventory /\ me.todo = client[c].todo
      /\ me.empty = client[c].empty /\ me.failed = client[c].failed /\ me.heir = client[c].heir
  BY <1>1 DEF ClientRecord
<1>4. me.empty \in {0, 1}
  <2>1. client[c].pc = "zero"
    BY DEF Zero
  <2>2. Label(c) \notin LookedTwice
    BY <2>1 DEF Label, LookedTwice, Denying
  <2>3. client[c].empty \in 0..2 /\ client[c].empty # 2
    BY <2>2, ClientFields DEF ClientTyped
  <2>4. QED
    BY <1>3, <2>3
<1>5. Becomes(c, CASE Owned # {} -> [me EXCEPT !.pc = "create", !.empty = 0]
                   [] Owned = {} /\ me.empty = 0 -> Renewing([me EXCEPT !.empty = 1], "zero")
                   [] Owned = {} /\ me.empty = 1 ->
                        [me EXCEPT !.empty = 2, !.pc = IF c \in Deleters THEN "prepare_deny" ELSE "release"])
  BY DEF Zero
<1> HIDE DEF me
<1>6. CASE Owned # {}
  <2> DEFINE new == [me EXCEPT !.pc = "create", !.empty = 0]
  <2>1. new \in ClientRecord
    <3>1. [me EXCEPT !.pc = "create"] \in ClientRecord
      BY <1>2, PcWritten
    <3>2. 0 \in 0..2
      OBVIOUS
    <3>3. QED
      BY <3>1, <3>2, EmptyWritten, Zenon
  <2>2. /\ new.op = me.op /\ new.copy = me.copy /\ new.pc = "create"
        /\ new.seen = me.seen /\ new.todo = me.todo /\ new.empty = 0
        /\ new.failed = me.failed /\ new.heir = me.heir
    BY <1>2 DEF ClientRecord
  <2>3. Becomes(c, new)
    BY <1>5, <1>6
  <2> HIDE DEF new
  <2>4. QED
    BY <1>3, <2>1, <2>2, <2>3, RecordTurns
<1>7. CASE Owned = {} /\ me.empty = 0
  <2> DEFINE new == [me EXCEPT !.empty = 1]
  <2>1. new \in ClientRecord
    BY <1>2 DEF ClientRecord
  <2>2. /\ new.op = me.op /\ new.copy = me.copy
        /\ new.seen = me.seen /\ new.todo = me.todo /\ new.empty = 1
        /\ new.failed = me.failed /\ new.heir = me.heir
    BY <1>2 DEF ClientRecord
  <2>3. Becomes(c, Renewing(new, "zero"))
    BY <1>5, <1>7
  <2> HIDE DEF new
  <2>4. QED
    BY <1>3, <1>7, <2>1, <2>2, <2>3, RenewingTurns
<1>8. CASE Owned = {} /\ me.empty = 1
  <2> DEFINE pc == IF c \in Deleters THEN "prepare_deny" ELSE "release"
             new == [me EXCEPT !.empty = 2, !.pc = pc]
  <2>1. new \in ClientRecord
    <3>1. [me EXCEPT !.empty = 2] \in ClientRecord
      <4>1. 2 \in 0..2
        OBVIOUS
      <4>2. QED
        BY <1>2, <4>1, EmptyWritten, Zenon
    <3>2. pc \in {"create", "prepare_deny", "release", "merge", "apply", "drained"}
      OBVIOUS
    <3>3. QED
      BY <3>1, <3>2, PcWritten
  <2>2. /\ new.op = me.op /\ new.copy = me.copy /\ new.pc = pc
        /\ new.seen = me.seen /\ new.todo = me.todo /\ new.empty = 2
        /\ new.failed = me.failed /\ new.heir = me.heir
    BY <1>2 DEF ClientRecord
  <2>3. Becomes(c, new)
    <3>1. me.empty # 0
      BY <1>8
    <3>2. QED
      BY <1>5, <1>8, <3>1
  <2> HIDE DEF new
  <2>4. QED
    BY <1>3, <1>8, <2>1, <2>2, <2>3, RecordTurns
<1>9. QED
  BY <1>4, <1>6, <1>7, <1>8

(* The stored transfer that a request begins. *)
New(c) == [status |-> "prepared", op |-> client[c].op, heir |-> client[c].heir, moved |-> client[c].seen,
           audit |-> client[c].request]

(* The ways in which a transfer is stored for the first time.              *)
LEMMA CreateTurns ==
    ASSUME ClientTyped, IntentTyped, NEW c \in Clients, Create(c)
    PROVE  \/ /\ c \in current /\ intent' = New(c) /\ intent' \in IntentRecord /\ current' = {c}
              /\ Turned(c, "merge", client[c].op, intent', client[c].seen, client[c].todo, client[c].empty,
                        client[c].failed)
           \/ /\ c \notin current /\ intent' = intent /\ current' = current \cup {c}
              /\ Turned(c, "merge", client[c].op, intent, client[c].seen, client[c].todo, client[c].empty,
                        client[c].failed)
           \/ c \notin current /\ intent' = intent /\ current' = current /\ Goes(c, "release")
<1>1. client[c] \in ClientRecord
  BY DEF ClientTyped
<1>2. New(c) \in IntentRecord
  BY ClientFields DEF New, IntentRecord
<1>3. \A i \in IntentRecord : Becomes(c, [client[c] EXCEPT !.copy = i, !.pc = "merge"]) =>
        Turned(c, "merge", client[c].op, i, client[c].seen, client[c].todo, client[c].empty, client[c].failed)
  <2>1. SUFFICES ASSUME NEW i \in IntentRecord, Becomes(c, [client[c] EXCEPT !.copy = i, !.pc = "merge"])
                 PROVE  Turned(c, "merge", client[c].op, i, client[c].seen, client[c].todo, client[c].empty,
                               client[c].failed)
    OBVIOUS
  <2> DEFINE new == [client[c] EXCEPT !.copy = i, !.pc = "merge"]
  <2>2. new \in ClientRecord
    BY <1>1 DEF ClientRecord
  <2>3. /\ new.op = client[c].op /\ new.copy = i /\ new.pc = "merge"
        /\ new.seen = client[c].seen /\ new.todo = client[c].todo /\ new.empty = client[c].empty
        /\ new.failed = client[c].failed /\ new.heir = client[c].heir
    BY <1>1 DEF ClientRecord
  <2>4. Becomes(c, new)
    BY <2>1
  <2> HIDE DEF new
  <2>5. QED
    BY <2>2, <2>3, <2>4, RecordTurns
<1>4. CASE c \in current
  <2>1. intent' = New(c) /\ current' = {c} /\ Becomes(c, [client[c] EXCEPT !.copy = New(c), !.pc = "merge"])
    BY <1>4 DEF Create, New
  <2>2. QED
    BY <1>2, <1>3, <1>4, <2>1
<1>5. CASE c \notin current
  <2>1. \/ /\ intent' = intent /\ current' = current \cup {c}
           /\ Becomes(c, [client[c] EXCEPT !.copy = intent, !.pc = "merge"])
        \/ intent' = intent /\ current' = current /\ Enter(c, "release")
    BY <1>5 DEF Create
  <2>2. QED
    BY <1>3, <1>5, <2>1, EnterGoes DEF IntentTyped
<1>6. QED
  BY <1>4, <1>5

(* What a request records in addition, once it has looked. *)
Added(c) == {a \in Assets : client[c].seen[a] # Nothing /\ client[c].copy.moved[a] = Nothing}
Both(c) == [a \in Assets |-> IF a \in Added(c) THEN client[c].seen[a] ELSE client[c].copy.moved[a]]

(* The ways in which what was found is merged into the stored transfer.    *)
LEMMA MergeTurns ==
    ASSUME ClientTyped, IntentTyped, NEW c \in Clients, Merge(c)
    PROVE  \/ /\ client[c].copy.status \notin {"prepared", "committed"} /\ Added(c) = {}
              /\ intent' = intent /\ current' = current
              /\ Turned(c, "apply", client[c].op, client[c].copy, client[c].seen, Moved(client[c].copy),
                        client[c].empty, client[c].failed)
           \/ /\ c \in current /\ current' = {c} /\ intent' \in IntentRecord
              /\ intent' = Restated(client[c].copy, "transferring", Both(c))
              /\ Turned(c, "merge", client[c].op, intent', NoAssets, client[c].todo, client[c].empty,
                        client[c].failed)
           \/ /\ c \notin current /\ current' = current \cup {c} /\ intent' = intent
              /\ Turned(c, "merge", client[c].op, intent, NoAssets, client[c].todo, client[c].empty,
                        client[c].failed)
           \/ c \notin current /\ current' = current /\ intent' = intent /\ Ended(c)
<1>1. client[c] \in ClientRecord /\ Moved(client[c].copy) \in SUBSET Assets
      /\ client[c].copy.moved \in [Assets -> Asset] /\ client[c].seen \in [Assets -> Asset]
  BY ClientFields, IntentFields
<1>2. Both(c) \in [Assets -> Asset]
  BY <1>1 DEF Both
<1>3. CASE Added(c) = {} /\ client[c].copy.status \notin {"prepared", "committed"}
  <2> DEFINE new == [client[c] EXCEPT !.pc = "apply", !.todo = Moved(client[c].copy)]
  <2>1. new \in ClientRecord
    BY <1>1 DEF ClientRecord
  <2>2. /\ new.op = client[c].op /\ new.copy = client[c].copy /\ new.pc = "apply"
        /\ new.seen = client[c].seen /\ new.todo = Moved(client[c].copy) /\ new.empty = client[c].empty
        /\ new.failed = client[c].failed /\ new.heir = client[c].heir
    BY <1>1 DEF ClientRecord
  <2>3. Becomes(c, new) /\ intent' = intent /\ current' = current
    BY <1>3 DEF Merge, Added
  <2> HIDE DEF new
  <2>4. QED
    BY <1>3, <2>1, <2>2, <2>3, RecordTurns
<1>4. CASE ~(Added(c) = {} /\ client[c].copy.status \notin {"prepared", "committed"})
  <2> DEFINE next == [client[c] EXCEPT !.seen = NoAssets, !.pc = "merge"]
  <2>1. next \in ClientRecord
    BY <1>1, Numbers DEF ClientRecord
  <2>2. /\ next.op = client[c].op /\ next.pc = "merge"
        /\ next.seen = NoAssets /\ next.todo = client[c].todo /\ next.empty = client[c].empty
        /\ next.failed = client[c].failed /\ next.heir = client[c].heir
    BY <1>1 DEF ClientRecord
  <2>3. Advance(c, "transferring", Both(c), next)
    BY <1>4 DEF Merge, Added, Both
  <2> HIDE DEF next
  <2>4. QED
    BY <1>2, <2>1, <2>2, <2>3, AdvanceTurns
<1>5. QED
  BY <1>3, <1>4

(* A resource that has been given is not to be given any more.             *)
LEMMA AppliedTurns ==
    ASSUME ClientTyped, NEW c \in Clients, Becomes(c, Applied(c))
    PROVE  Turned(c, "apply", client[c].op, client[c].copy, client[c].seen,
                  client[c].todo \ {First(client[c].todo)}, client[c].empty, client[c].failed)
<1> DEFINE todo == client[c].todo \ {First(client[c].todo)}
           new == [client[c] EXCEPT !.pc = "apply", !.todo = todo]
<1>1. client[c] \in ClientRecord /\ todo \in SUBSET Assets
  BY ClientFields
<1>2. Becomes(c, new)
  BY <1>1 DEF Applied, ClientRecord
<1> HIDE DEF todo
<1>3. new \in ClientRecord
  BY <1>1 DEF ClientRecord
<1>4. /\ new.op = client[c].op /\ new.copy = client[c].copy /\ new.pc = "apply"
      /\ new.seen = client[c].seen /\ new.todo = todo /\ new.empty = client[c].empty
      /\ new.failed = client[c].failed /\ new.heir = client[c].heir
  BY <1>1 DEF ClientRecord
<1> HIDE DEF new
<1>5. QED
  BY <1>2, <1>3, <1>4, RecordTurns DEF todo

(* A resource that has been seen to is not to be taken back any more.      *)
LEMMA UndoneTurns ==
    ASSUME ClientTyped, NEW c \in Clients, NEW ok \in BOOLEAN, Becomes(c, Undone(c, ok))
    PROVE  Turned(c, "undo", client[c].op, client[c].copy, client[c].seen,
                  client[c].todo \ {First(client[c].todo)}, client[c].empty, client[c].failed \/ ~ok)
<1> DEFINE todo == client[c].todo \ {First(client[c].todo)}
           failed == client[c].failed \/ ~ok
           new == [client[c] EXCEPT !.pc = "undo", !.todo = todo, !.failed = failed]
<1>1. client[c] \in ClientRecord /\ todo \in SUBSET Assets /\ failed \in BOOLEAN
  BY ClientFields
<1>2. Becomes(c, new)
  BY <1>1 DEF Undone, ClientRecord
<1> HIDE DEF todo, failed
<1>3. new \in ClientRecord
  BY <1>1 DEF ClientRecord
<1>4. /\ new.op = client[c].op /\ new.copy = client[c].copy /\ new.pc = "undo"
      /\ new.seen = client[c].seen /\ new.todo = todo /\ new.empty = client[c].empty
      /\ new.failed = failed /\ new.heir = client[c].heir
  BY <1>1 DEF ClientRecord
<1> HIDE DEF new
<1>5. QED
  BY <1>2, <1>3, <1>4, RecordTurns DEF todo, failed

(* The ways in which a further look goes on.                               *)
LEMMA LookAgainTurns ==
    ASSUME ClientTyped, ResourcesTyped, NEW c \in Clients, LookAgain(c)
    PROVE  \/ Goes(c, "caught")
           \/ Turned(c, "merge", client[c].op, client[c].copy, Inventory, client[c].todo, 0, client[c].failed)
           \/ /\ Owned = {}
              /\ Turned(c, "apply", client[c].op, client[c].copy, client[c].seen, Moved(client[c].copy), 1,
                        client[c].failed)
           \/ /\ Owned = {}
              /\ Turned(c, "drained", client[c].op, client[c].copy, client[c].seen, client[c].todo, 2,
                        client[c].failed)
<1> DEFINE me == client[c]
<1>1. me \in ClientRecord /\ Inventory \in [Assets -> Asset] /\ Moved(me.copy) \in SUBSET Assets
  BY InventoryTyped, ClientFields, IntentFields
<1>2. me.empty \in {0, 1}
  <2>1. client[c].pc = "inventory"
    BY DEF LookAgain
  <2>2. Label(c) \notin LookedTwice
    BY <2>1 DEF Label, LookedTwice, Denying
  <2>3. client[c].empty \in 0..2 /\ client[c].empty # 2
    BY <2>2, ClientFields DEF ClientTyped
  <2>4. QED
    BY <2>3
<1>3. \/ Enter(c, "caught")
      \/ Becomes(c, CASE Owned # {} -> [me EXCEPT !.pc = "merge", !.seen = Inventory, !.empty = 0]
                      [] Owned = {} /\ me.empty = 0 ->
                           [me EXCEPT !.pc = "apply", !.todo = Moved(me.copy), !.empty = 1]
                      [] Owned = {} /\ me.empty = 1 -> [me EXCEPT !.pc = "drained", !.empty = 2])
  BY DEF LookAgain
<1>4. CASE Enter(c, "caught")
  BY <1>4, EnterGoes
<1>5. CASE Owned # {} /\ ~Enter(c, "caught")
  <2> DEFINE old == [me EXCEPT !.pc = "merge", !.seen = Inventory]
             new == [old EXCEPT !.empty = 0]
  <2> HIDE DEF me
  <2>1. old \in ClientRecord
    BY <1>1 DEF ClientRecord
  <2>2. /\ old.op = me.op /\ old.copy = me.copy /\ old.pc = "merge"
        /\ old.seen = Inventory /\ old.todo = me.todo
        /\ old.failed = me.failed /\ old.heir = me.heir
    BY <1>1 DEF ClientRecord
  <2>3. Becomes(c, new)
    BY <1>3, <1>5
  <2> HIDE DEF old
  <2>4. new \in ClientRecord
    <3>1. 0 \in 0..2
      OBVIOUS
    <3>2. QED
      BY <2>1, <3>1, EmptyWritten, Zenon
  <2>5. /\ new.op = old.op /\ new.copy = old.copy /\ new.pc = old.pc
        /\ new.seen = old.seen /\ new.todo = old.todo /\ new.empty = 0
        /\ new.failed = old.failed /\ new.heir = old.heir
    BY <2>1 DEF ClientRecord
  <2> HIDE DEF new
  <2>6. QED
    BY <2>2, <2>3, <2>4, <2>5, RecordTurns DEF me
<1>6. CASE Owned = {} /\ me.empty = 0 /\ ~Enter(c, "caught")
  <2> DEFINE old == [me EXCEPT !.pc = "apply", !.todo = Moved(me.copy)]
             new == [old EXCEPT !.empty = 1]
  <2> HIDE DEF me
  <2>1. old \in ClientRecord
    BY <1>1 DEF ClientRecord
  <2>2. /\ old.op = me.op /\ old.copy = me.copy /\ old.pc = "apply"
        /\ old.seen = me.seen /\ old.todo = Moved(me.copy)
        /\ old.failed = me.failed /\ old.heir = me.heir
    BY <1>1 DEF ClientRecord
  <2>3. Becomes(c, new)
    BY <1>3, <1>6
  <2> HIDE DEF old
  <2>4. new \in ClientRecord
    <3>1. 1 \in 0..2
      OBVIOUS
    <3>2. QED
      BY <2>1, <3>1, EmptyWritten, Zenon
  <2>5. /\ new.op = old.op /\ new.copy = old.copy /\ new.pc = old.pc
        /\ new.seen = old.seen /\ new.todo = old.todo /\ new.empty = 1
        /\ new.failed = old.failed /\ new.heir = old.heir
    BY <2>1 DEF ClientRecord
  <2> HIDE DEF new
  <2>6. QED
    BY <1>6, <2>2, <2>3, <2>4, <2>5, RecordTurns DEF me
<1>7. CASE Owned = {} /\ me.empty = 1 /\ ~Enter(c, "caught")
  <2> DEFINE old == [me EXCEPT !.pc = "drained"]
             new == [old EXCEPT !.empty = 2]
  <2> HIDE DEF me
  <2>1. old \in ClientRecord
    BY <1>1 DEF ClientRecord
  <2>2. /\ old.op = me.op /\ old.copy = me.copy /\ old.pc = "drained"
        /\ old.seen = me.seen /\ old.todo = me.todo
        /\ old.failed = me.failed /\ old.heir = me.heir
    BY <1>1 DEF ClientRecord
  <2>3. Becomes(c, new)
    <3>1. me.empty # 0
      BY <1>7
    <3>2. QED
      BY <1>3, <1>7, <3>1
  <2> HIDE DEF old
  <2>4. new \in ClientRecord
    <3>1. 2 \in 0..2
      OBVIOUS
    <3>2. QED
      BY <2>1, <3>1, EmptyWritten, Zenon
  <2>5. /\ new.op = old.op /\ new.copy = old.copy /\ new.pc = old.pc
        /\ new.seen = old.seen /\ new.todo = old.todo /\ new.empty = 2
        /\ new.failed = old.failed /\ new.heir = old.heir
    BY <2>1 DEF ClientRecord
  <2> HIDE DEF new
  <2>6. QED
    BY <1>7, <2>2, <2>3, <2>4, <2>5, RecordTurns DEF me
<1>8. QED
  BY <1>2, <1>4, <1>5, <1>6, <1>7

(* An advance of the stored transfer that records no more resources. *)
LEMMA StatusTurns ==
    ASSUME ClientTyped, IntentTyped, NEW c \in Clients, NEW rec \in ClientRecord, rec.heir = client[c].heir,
           rec.pc # "renew",
           NEW status \in {"none", "prepared", "transferring", "rollback_pending", "rolled_back", "committed"},
           Advance(c, status, client[c].copy.moved, rec)
    PROVE  \/ /\ c \in current /\ current' = {c} /\ intent' \in IntentRecord
              /\ intent' = Restated(client[c].copy, status, client[c].copy.moved)
              /\ Turned(c, rec.pc, rec.op, intent', rec.seen, rec.todo, rec.empty, rec.failed)
           \/ /\ c \notin current /\ current' = current \cup {c} /\ intent' = intent
              /\ Turned(c, rec.pc, rec.op, intent, rec.seen, rec.todo, rec.empty, rec.failed)
           \/ c \notin current /\ current' = current /\ intent' = intent /\ Ended(c)
<1>1. client[c].copy.moved \in [Assets -> Asset]
  BY ClientFields, IntentFields
<1>2. QED
  BY <1>1, AdvanceTurns

(* What the stored transfer becomes at a label, or what the request finds. *)
Advanced(c, status, label, todo) ==
    \/ /\ c \in current /\ current' = {c} /\ intent' \in IntentRecord
       /\ intent' = Restated(client[c].copy, status, client[c].copy.moved)
       /\ Turned(c, label, client[c].op, intent', client[c].seen, todo, client[c].empty, client[c].failed)
    \/ /\ c \notin current /\ current' = current \cup {c} /\ intent' = intent
       /\ Turned(c, label, client[c].op, intent, client[c].seen, todo, client[c].empty, client[c].failed)
    \/ c \notin current /\ current' = current /\ intent' = intent /\ Ended(c)

(* A new status of the stored transfer, and the next label.                *)
LEMMA EnterAdvances ==
    ASSUME ClientTyped, IntentTyped, NEW c \in Clients, NEW pc \in {"assert", "release"},
           NEW status \in {"committed", "rolled_back"},
           Advance(c, status, client[c].copy.moved, [client[c] EXCEPT !.pc = pc])
    PROVE  Advanced(c, status, pc, client[c].todo)
<1> DEFINE new == [client[c] EXCEPT !.pc = pc]
<1>1. client[c] \in ClientRecord
  BY DEF ClientTyped
<1>2. new \in ClientRecord
  BY <1>1 DEF ClientRecord
<1>3. /\ new.op = client[c].op /\ new.pc = pc
      /\ new.seen = client[c].seen /\ new.todo = client[c].todo /\ new.empty = client[c].empty
      /\ new.failed = client[c].failed /\ new.heir = client[c].heir
  BY <1>1 DEF ClientRecord
<1>4. Advance(c, status, client[c].copy.moved, new)
  OBVIOUS
<1> HIDE DEF new
<1>5. QED
  BY <1>2, <1>3, <1>4, StatusTurns DEF Advanced

(* A commit restates the stored transfer.                                  *)
LEMMA CommitTurns ==
    ASSUME ClientTyped, IntentTyped, NEW c \in Clients, Commit(c)
    PROVE  Advanced(c, "committed", IF c \in Deleters THEN "assert" ELSE "release", client[c].todo)
<1> DEFINE pc == IF c \in Deleters THEN "assert" ELSE "release"
<1>1. pc \in {"assert", "release"}
  OBVIOUS
<1>2. Advance(c, "committed", client[c].copy.moved, [client[c] EXCEPT !.pc = pc])
  BY DEF Commit
<1> HIDE DEF pc
<1>3. Advanced(c, "committed", pc, client[c].todo)
  BY <1>1, <1>2, EnterAdvances
<1>4. QED
  BY <1>3 DEF pc

(* So does the end of a rollback.                                          *)
LEMMA RolledBackTurns ==
    ASSUME ClientTyped, IntentTyped, NEW c \in Clients, RolledBack(c)
    PROVE  Advanced(c, "rolled_back", "release", client[c].todo)
BY EnterAdvances DEF RolledBack

(* So does its beginning.                                                  *)
LEMMA MarkTurns ==
    ASSUME ClientTyped, IntentTyped, NEW c \in Clients, Mark(c)
    PROVE  Advanced(c, "rollback_pending", "undo", Moved(client[c].copy))
<1> DEFINE todo == Moved(client[c].copy)
           new == [client[c] EXCEPT !.pc = "undo", !.todo = todo]
<1>1. client[c] \in ClientRecord /\ todo \in SUBSET Assets
  BY ClientFields, IntentFields
<1>2. Advance(c, "rollback_pending", client[c].copy.moved, new)
  BY DEF Mark
<1> HIDE DEF todo
<1>3. new \in ClientRecord
  BY <1>1 DEF ClientRecord
<1>4. /\ new.op = client[c].op /\ new.pc = "undo"
      /\ new.seen = client[c].seen /\ new.todo = todo /\ new.empty = client[c].empty
      /\ new.failed = client[c].failed /\ new.heir = client[c].heir
  BY <1>1 DEF ClientRecord
<1> HIDE DEF new
<1>5. Advanced(c, "rollback_pending", "undo", todo)
  BY <1>2, <1>3, <1>4, StatusTurns DEF Advanced
<1>6. QED
  BY <1>5 DEF todo

(* A deletion goes on only while it has the fence.                         *)
LEMMA AssertTurns ==
    ASSUME ClientTyped, NEW c \in Clients, AssertHeld(c)
    PROVE  \/ Ended(c)
           \/ Turned(c, "prepare_deny", client[c].copy.op, client[c].copy, client[c].seen, client[c].todo,
                     client[c].empty, client[c].failed)
<1> DEFINE op == client[c].copy.op
           new == [client[c] EXCEPT !.pc = "prepare_deny", !.op = op]
<1>1. client[c] \in ClientRecord /\ op \in 0..MaxToken
  BY ClientFields, IntentFields
<1>2. Becomes(c, new) \/ EndRequest(c)
  BY DEF AssertHeld
<1> HIDE DEF op
<1>3. new \in ClientRecord
  BY <1>1 DEF ClientRecord
<1>4. /\ new.op = op /\ new.pc = "prepare_deny" /\ new.copy = client[c].copy
      /\ new.seen = client[c].seen /\ new.todo = client[c].todo /\ new.empty = client[c].empty
      /\ new.failed = client[c].failed /\ new.heir = client[c].heir
  BY <1>1 DEF ClientRecord
<1> HIDE DEF new
<1>5. QED
  BY <1>2, <1>3, <1>4, RecordTurns, EndEnds DEF op

(* A request begins. *)
LEMMA StartTurns ==
    ASSUME ClientTyped, IntentTyped, BoundsTyped, NEW c \in Clients, Start(c)
    PROVE  /\ client' \in [Clients -> ClientRecord]
           /\ \A b \in Clients \ {c} : client'[b] = client[b]
           /\ client'[c].pc = "acquire" /\ client'[c].heir \in Heirs
           /\ client'[c].seen = NoAssets /\ client'[c].empty = 0
<1>1. PICK h \in Heirs :
        Becomes(c, [AtRest EXCEPT !.pc = "acquire", !.heir = h, !.request = requests + 1,
                      !.asked = IF intent.status \notin {"none", "rolled_back"} /\ intent.heir = h
                                  THEN intent.op ELSE 0])
  BY DEF Start
<1> DEFINE asked == IF intent.status \notin {"none", "rolled_back"} /\ intent.heir = h THEN intent.op ELSE 0
           request == requests + 1
           new == [AtRest EXCEPT !.pc = "acquire", !.heir = h, !.request = request, !.asked = asked]
<1>2. asked \in 0..MaxToken
  <2>1. intent.op \in 0..MaxToken
    BY IntentFields DEF IntentTyped
  <2>2. 0 \in 0..MaxToken
    BY Numbers
  <2>3. QED
    BY <2>1, <2>2
<1>3. request \in 0..MaxRequests
  BY Numbers DEF Start, BoundsTyped
<1>4. Becomes(c, new)
  BY <1>1
<1> HIDE DEF asked, request
<1>5. new \in ClientRecord
  BY <1>2, <1>3, AtRestTyped DEF ClientRecord
<1>6. new.pc = "acquire" /\ new.heir = h /\ new.seen = NoAssets /\ new.empty = 0
  <2>1. new.pc = "acquire" /\ new.heir = h /\ new.seen = AtRest.seen /\ new.empty = AtRest.empty
    BY DEF AtRest
  <2> HIDE DEF new
  <2>2. QED
    BY <2>1, AtRestTyped
<1> HIDE DEF new
<1>7. QED
  BY <1>4, <1>5, <1>6, BecomesRecord

-----------------------------------------------------------------------------
(* Type correctness, for any clients.                                      *)
LEMMA FirstIsIn ==
    ASSUME NEW S, S # {}
    PROVE  First(S) \in S
BY DEF First

(* The initial states are well typed.                                      *)
LEMMA TransferTypeInit == TransferInit => AllTyped
<1> SUFFICES ASSUME TransferInit PROVE AllTyped
  OBVIOUS
<1>1. ResourcesTyped
  <2>1. asset \in [Assets -> Asset] /\ \A a \in Assets : asset[a] \in {Nothing, Mine}
    BY Numbers DEF TransferInit
  <2>2. \A d \in Documents : asset[d].owner \in Heirs \cup {Source, "nobody"}
    BY <2>1 DEF Assets, Nothing, Mine
  <2>3. QED
    BY <2>1, <2>2 DEF TransferInit, ResourcesTyped
<1>2. FenceTyped
  BY Numbers DEF TransferInit, FenceTyped, FenceRecord
<1>3. IntentTyped
  BY Numbers DEF TransferInit, IntentTyped
<1>4. OutcomeTyped /\ AccountTyped /\ BoundsTyped /\ writing \in BOOLEAN
  <2>1. OutcomeTyped
    BY DEF TransferInit, OutcomeTyped
  <2>2. AccountTyped
    <3>1. [state |-> "none", by |-> 0] \in [state : {"none", "denied", "cleared"}, by : 0..MaxRequests]
      BY Numbers
    <3>2. [r \in 1..MaxRequests |-> "none"]
            \in [1..MaxRequests -> OpenRepair \cup {"none", "cleanup_completed", "abandoned"}]
      OBVIOUS
    <3>3. QED
      BY <3>1, <3>2 DEF TransferInit, AccountTyped
  <2>3. requests = 0 /\ writes = 0 /\ failures = 0 /\ deaths = 0 /\ writing \in BOOLEAN
    BY DEF TransferInit
  <2>4. BoundsTyped
    BY <2>3, Numbers DEF BoundsTyped
  <2>5. QED
    BY <2>1, <2>2, <2>3, <2>4
<1>5. ClientTyped
  <2>1. client \in [Clients -> ClientRecord] /\ \A c \in Clients : client[c] = AtRest
    BY AtRestTyped DEF TransferInit
  <2>2. \A c \in Clients : Label(c) = "idle" /\ client[c].empty = 0
    BY <2>1, AtRestTyped DEF Label
  <2>3. QED
    BY <2>1, <2>2 DEF ClientTyped, OnResource
<1>6. QED
  BY <1>1, <1>2, <1>3, <1>4, <1>5 DEF AllTyped

(* What a step leaves alone keeps its type. *)
LEMMA PartsKept ==
    ASSUME AllTyped
    PROVE  /\ UNCHANGED resources => ResourcesTyped'
           /\ UNCHANGED fence => FenceTyped'
           /\ UNCHANGED intent /\ current' \subseteq Clients => IntentTyped'
           /\ UNCHANGED audit => OutcomeTyped'
           /\ UNCHANGED account => AccountTyped'
           /\ UNCHANGED bounds => BoundsTyped'
           /\ UNCHANGED client => ClientTyped'
           /\ UNCHANGED writing => writing' \in BOOLEAN
<1>1. UNCHANGED client => ClientTyped'
  BY DEF AllTyped, ClientTyped, Label
<1>2. QED
  BY <1>1 DEF AllTyped, ResourcesTyped, FenceTyped, IntentTyped, OutcomeTyped, AccountTyped, BoundsTyped,
           resources, account, bounds

(* A failure is counted within its bound.                                  *)
LEMMA FailureTyped ==
    ASSUME BoundsTyped, Failure, UNCHANGED <<requests, writes, deaths>>
    PROVE  BoundsTyped'
BY Numbers DEF BoundsTyped, Failure

(* The bounds hold where nothing is counted.                               *)
LEMMA FailuresKept ==
    ASSUME BoundsTyped, UNCHANGED failures, UNCHANGED <<requests, writes, deaths>>
    PROVE  BoundsTyped'
BY DEF BoundsTyped

(* A request that only goes to another label is well typed.                *)
LEMMA GoesTyped ==
    ASSUME ClientTyped, NEW c \in Clients, NEW label, Goes(c, label),
           label \in OnResource => client[c].todo # {},
           client[c].empty = 2 => label \in LookedTwice
    PROVE  ClientTyped'
BY TurnedTyped DEF Goes

(* A request that has not looked twice, and one that has a resource. *)
LEMMA ByLabel ==
    ASSUME ClientTyped, NEW c \in Clients
    PROVE  /\ Label(c) \notin LookedTwice => client[c].empty # 2
           /\ Label(c) \in OnResource => client[c].todo # {} /\ First(client[c].todo) \in Assets
<1>1. Label(c) \in OnResource => client[c].todo # {} /\ client[c].todo \in SUBSET Assets
  BY ClientFields DEF ClientTyped
<1>2. QED
  BY <1>1, FirstIsIn DEF ClientTyped

(* A request that starts keeps the types.                                  *)
LEMMA StartTyped ==
    ASSUME AllTyped, NEW c \in Clients, Start(c)
    PROVE  AllTyped'
<1>1. ClientTyped'
  <2>1. /\ client' \in [Clients -> ClientRecord]
        /\ \A b \in Clients \ {c} : client'[b] = client[b]
        /\ client'[c].pc = "acquire" /\ client'[c].empty = 0
    BY StartTurns DEF AllTyped
  <2>2. \A b \in Clients \ {c} : Label(b)' = Label(b)
    BY <2>1 DEF Label
  <2>3. Label(c)' = "acquire"
    BY <2>1 DEF Label
  <2>4. QED
    BY <2>1, <2>2, <2>3 DEF AllTyped, ClientTyped, OnResource
<1>2. BoundsTyped'
  BY Numbers DEF Start, AllTyped, BoundsTyped
<1>3. UNCHANGED <<resources, fence, stored, account, writing>>
  BY DEF Start
<1>4. UNCHANGED <<intent, current, audit>>
  BY <1>3 DEF stored
<1>5. QED
  BY <1>1, <1>2, <1>3, <1>4, PartsKept DEF AllTyped, IntentTyped

(* Who acquires the fence looks next, under an operation that is its own   *)
(* or the one that it resumes.                                             *)
LEMMA AcquireTurns ==
    ASSUME AllTyped, NEW c \in Clients, Acquire(c)
    PROVE  \/ Ended(c) /\ UNCHANGED fence
           \/ /\ fence.status = "account_deny_confirmed" /\ fence.mode = Mode(c) /\ UNCHANGED fence
              /\ Turned(c, "look", fence.op, client[c].copy, client[c].seen, client[c].todo, client[c].empty,
                        client[c].failed)
           \/ /\ ~Blocking \/ (fence.status = "blocking" /\ fence.mode = Mode(c))
              /\ fence' \in FenceRecord /\ fence'.status = "blocking" /\ fence'.mode = Mode(c)
              /\ Blocking => fence'.op = fence.op
              /\ ~Blocking => fence'.op >= 1
              /\ Turned(c, "look", fence'.op, client[c].copy, client[c].seen, client[c].todo, client[c].empty,
                        client[c].failed)
<1> DEFINE me == client[c]
           fresh == fence.token + 1
           same == fence.mode = Mode(c) /\ fence.heir = me.heir /\ me.asked \in {0, fence.op}
           op == IF Blocking THEN fence.op ELSE IF me.asked = 0 THEN fresh ELSE me.asked
           next == [status |-> "blocking", mode |-> Mode(c), op |-> op, token |-> fresh,
                    heir |-> me.heir, live |-> TRUE]
<1>1. \/ EndRequest(c) /\ UNCHANGED fence
      \/ fence.status = "account_deny_confirmed" /\ same
         /\ Taken(c, op, fence.token, fence.status) /\ UNCHANGED fence
      \/ /\ ~Blocking \/ (fence.status = "blocking" /\ same /\ ~fence.live)
         /\ fresh <= MaxToken /\ fence' = next /\ Taken(c, op, fresh, "blocking")
  BY DEF Acquire
<1>2. /\ fence \in FenceRecord /\ fence.op \in 0..MaxToken /\ fence.token \in 0..MaxToken
      /\ me.asked \in 0..MaxToken /\ me.heir \in Heirs \cup {Source} /\ MaxToken \in Nat
  BY ClientFields, Numbers DEF AllTyped, FenceTyped, FenceRecord
<1>3. Mode(c) \in {"administrative_change", "permanent_delete"}
  BY DEF Mode
<1>4. CASE fresh <= MaxToken
  <2>1. fresh \in 0..MaxToken /\ op \in 0..MaxToken
    BY <1>2, <1>4
  <2>2. /\ Blocking => op = fence.op
        /\ ~Blocking => op >= 1
    BY <1>2
  <2> HIDE DEF op, fresh, me
  <2>3. next \in FenceRecord /\ next.status = "blocking" /\ next.mode = Mode(c) /\ next.op = op
    BY <1>2, <1>3, <2>1 DEF FenceRecord
  <2>4. Taken(c, op, fresh, "blocking") =>
          Turned(c, "look", op, client[c].copy, client[c].seen, client[c].todo, client[c].empty,
                 client[c].failed)
    BY <2>1, TakenTurns DEF AllTyped
  <2>5. fence.status = "account_deny_confirmed" => op = fence.op
    BY <2>2 DEF Blocking
  <2>6. fence.status = "account_deny_confirmed" /\ Taken(c, op, fence.token, fence.status) =>
          Turned(c, "look", fence.op, client[c].copy, client[c].seen, client[c].todo, client[c].empty,
                 client[c].failed)
    BY <1>2, <2>5, TakenTurns DEF AllTyped
  <2> HIDE DEF next
  <2>7. QED
    BY <1>1, <2>2, <2>3, <2>4, <2>6, EndEnds DEF AllTyped
<1>5. CASE ~(fresh <= MaxToken)
  <2>1. fence.status = "account_deny_confirmed" => op = fence.op
    BY DEF Blocking
  <2> HIDE DEF op, fresh, me
  <2>2. fence.status = "account_deny_confirmed" /\ Taken(c, op, fence.token, fence.status) =>
          Turned(c, "look", fence.op, client[c].copy, client[c].seen, client[c].todo, client[c].empty,
                 client[c].failed)
    BY <1>2, <2>1, TakenTurns DEF AllTyped
  <2>3. QED
    BY <1>1, <1>5, <2>2, EndEnds DEF AllTyped
<1>6. QED
  BY <1>4, <1>5

(* A request that asks for the fence keeps the types.                      *)
LEMMA AcquireTyped ==
    ASSUME AllTyped, NEW c \in Clients, Acquire(c)
    PROVE  AllTyped'
<1>1. client[c].empty # 2
  <2>1. Label(c) = "acquire"
    BY DEF Acquire, Label
  <2>2. QED
    BY <2>1, ByLabel DEF AllTyped, LookedTwice, Denying
<1>2. ClientTyped' /\ FenceTyped'
  BY <1>1, AcquireTurns, EndedTyped, TurnedTyped DEF AllTyped, FenceTyped, OnResource
<1>3. UNCHANGED <<resources, stored, account, writing, bounds>>
  BY DEF Acquire
<1>4. UNCHANGED <<intent, current, audit>>
  BY <1>3 DEF stored
<1>5. QED
  BY <1>2, <1>3, <1>4, PartsKept DEF AllTyped, IntentTyped

(* Steps of the fence and of the search for something to hand over. *)
LEMMA RenewTurns ==
    ASSUME ClientTyped, NEW c \in Clients, Renew(c)
    PROVE  \/ Ended(c) /\ UNCHANGED fence
           \/ fence' = [fence EXCEPT !.live = TRUE] /\ Goes(c, Label(c))
<1>1. client[c].pc = "renew"
  BY DEF Renew
<1>2. Label(c) = client[c].then
  BY <1>1 DEF Label
<1>3. Enter(c, client[c].then) => Goes(c, client[c].then)
  BY ClientFields, EnterGoes
<1>4. QED
  BY <1>2, <1>3, EndEnds DEF Renew

(* A renewal keeps the types.                                              *)
LEMMA RenewTyped ==
    ASSUME AllTyped, NEW c \in Clients, Renew(c)
    PROVE  AllTyped'
<1>1. [fence EXCEPT !.live = TRUE] \in FenceRecord
  BY DEF AllTyped, FenceTyped, FenceRecord
<1>2. FenceTyped'
  BY <1>1 DEF Renew, AllTyped, FenceTyped
<1>3. Goes(c, Label(c)) => ClientTyped'
  BY GoesTyped DEF AllTyped, ClientTyped
<1>4. ClientTyped'
  BY <1>3, RenewTurns, EndedTyped DEF AllTyped
<1>5. UNCHANGED <<resources, stored, account, writing, bounds>>
  BY DEF Renew
<1>6. UNCHANGED <<intent, current, audit>>
  BY <1>5 DEF stored
<1>7. QED
  BY <1>2, <1>4, <1>5, <1>6, PartsKept DEF AllTyped, IntentTyped

(* Steps that write nothing but the fence, after which a client has ended. *)
LEMMA ReleaseTyped ==
    ASSUME AllTyped, NEW c \in Clients, Release(c) \/ ReleaseAfterRestore(c)
    PROVE  AllTyped'
<1>1. [fence EXCEPT !.status = "released"] \in FenceRecord
  BY DEF AllTyped, FenceTyped, FenceRecord
<1>2. FenceTyped'
  BY <1>1 DEF Release, ReleaseAfterRestore, AllTyped, FenceTyped
<1>3. ClientTyped'
  BY EndEnds, EndedTyped DEF AllTyped, Release, ReleaseAfterRestore
<1>4. UNCHANGED <<resources, stored, account, writing, bounds>>
  BY DEF Release, ReleaseAfterRestore
<1>5. UNCHANGED <<intent, current, audit>>
  BY <1>4 DEF stored
<1>6. QED
  BY <1>2, <1>3, <1>4, <1>5, PartsKept DEF AllTyped, IntentTyped

(* A lease that runs out keeps the types.                                  *)
LEMMA ExpireTyped ==
    ASSUME AllTyped, Expire
    PROVE  AllTyped'
<1>1. [fence EXCEPT !.live = FALSE] \in FenceRecord
  BY DEF AllTyped, FenceTyped, FenceRecord
<1>2. FenceTyped'
  BY <1>1 DEF Expire, FenceTyped
<1>4. UNCHANGED <<resources, stored, account, client, writing, bounds>>
  BY DEF Expire
<1>5. UNCHANGED <<intent, current, audit>>
  BY <1>4 DEF stored
<1>6. QED
  BY <1>2, <1>4, <1>5, PartsKept DEF AllTyped, IntentTyped

(* A look keeps the types.                                                 *)
LEMMA LookTyped ==
    ASSUME AllTyped, NEW c \in Clients, Look(c)
    PROVE  AllTyped'
<1>1. client[c].empty # 2
  <2>1. Label(c) = "look"
    BY DEF Look, Label
  <2>2. QED
    BY <2>1, ByLabel DEF AllTyped, LookedTwice, Denying
<1>2. current' \subseteq Clients
  BY DEF Look, AllTyped, IntentTyped
<1>3. ClientTyped'
  BY <1>1, LookTurns, EndedTyped, TurnedTyped DEF AllTyped, OnResource
<1>4. BoundsTyped'
  BY FailureTyped, FailuresKept DEF Look, AllTyped
<1>5. UNCHANGED <<resources, fence, intent, audit, account, writing>>
  BY DEF Look
<1>6. QED
  BY <1>2, <1>3, <1>4, <1>5, PartsKept DEF AllTyped

(* Steps that write nothing but their own client's record. *)
Private(c) == Zero(c) \/ Apply(c) \/ Undo(c) \/ Caught(c) \/ AssertHeld(c)

(* The next resource to give, or a further look.                           *)
LEMMA ApplyTurns ==
    ASSUME ClientTyped, NEW c \in Clients, Apply(c)
    PROVE  Goes(c, IF client[c].todo = {} THEN "inventory" ELSE "put")
<1>1. CASE client[c].todo = {}
  BY <1>1, RenewingGoes DEF Apply
<1>2. CASE client[c].todo # {}
  BY <1>2, RenewingGoes DEF Apply
<1>3. QED
  BY <1>1, <1>2

(* The next resource to take back, or the end of the rollback.             *)
LEMMA UndoTurns ==
    ASSUME ClientTyped, NEW c \in Clients, Undo(c)
    PROVE  \/ Ended(c)
           \/ client[c].todo = {} /\ ~client[c].failed /\ Goes(c, "undone")
           \/ client[c].todo # {} /\ Goes(c, "take_back")
<1>1. CASE client[c].todo = {} /\ client[c].failed
  BY <1>1, EndEnds DEF Undo
<1>2. CASE client[c].todo = {} /\ ~client[c].failed
  BY <1>2, RenewingGoes DEF Undo
<1>3. CASE client[c].todo # {}
  BY <1>3, RenewingGoes DEF Undo
<1>4. QED
  BY <1>1, <1>2, <1>3

(* A failure ends the request or leads to a rollback.                      *)
LEMMA CaughtTurns ==
    ASSUME ClientTyped, NEW c \in Clients, Caught(c)
    PROVE  Ended(c) \/ Goes(c, "mark")
BY RenewingGoes, EndEnds DEF Caught

(* A step that only the request itself sees keeps the types.               *)
LEMMA PrivateTyped ==
    ASSUME AllTyped, NEW c \in Clients, Private(c)
    PROVE  AllTyped'
<1>1. ClientTyped'
  <2>1. CASE Zero(c)
    BY <2>1, ZeroTurns, TurnedTyped DEF AllTyped, OnResource, LookedTwice, Denying
  <2>2. CASE Apply(c)
    <3>1. Label(c) = "apply"
      BY <2>2 DEF Apply, Label
    <3>2. client[c].empty # 2
      BY <3>1, ByLabel DEF AllTyped, LookedTwice, Denying
    <3>3. QED
      BY <2>2, <3>2, ApplyTurns, GoesTyped DEF AllTyped, OnResource
  <2>3. CASE Undo(c)
    <3>1. Label(c) = "undo"
      BY <2>3 DEF Undo, Label
    <3>2. client[c].empty # 2
      BY <3>1, ByLabel DEF AllTyped, LookedTwice, Denying
    <3>3. QED
      BY <2>3, <3>2, UndoTurns, GoesTyped, EndedTyped DEF AllTyped, OnResource
  <2>4. CASE Caught(c)
    <3>1. Label(c) = "caught"
      BY <2>4 DEF Caught, Label
    <3>2. client[c].empty # 2
      BY <3>1, ByLabel DEF AllTyped, LookedTwice, Denying
    <3>3. QED
      BY <2>4, <3>2, CaughtTurns, GoesTyped, EndedTyped DEF AllTyped, OnResource
  <2>5. CASE AssertHeld(c)
    BY <2>5, AssertTurns, TurnedTyped, EndedTyped DEF AllTyped, OnResource, LookedTwice, Denying
  <2>6. QED
    BY <2>1, <2>2, <2>3, <2>4, <2>5 DEF Private
<1>2. UNCHANGED <<resources, fence, stored, account, writing, bounds>>
  BY DEF Private, Zero, Apply, Undo, Caught, AssertHeld
<1>3. UNCHANGED <<intent, current, audit>>
  BY <1>2 DEF stored
<1>4. QED
  BY <1>1, <1>2, <1>3, PartsKept DEF AllTyped, IntentTyped

(* Steps that advance the stored transfer. *)
Advancing(c) == Create(c) \/ Merge(c) \/ Commit(c) \/ Mark(c) \/ RolledBack(c)

(* A restated transfer is well typed.                                      *)
LEMMA AdvancedTyped ==
    ASSUME AllTyped, NEW c \in Clients, NEW label, NEW status, NEW todo,
           Advanced(c, status, label, todo),
           label \notin OnResource, client[c].empty = 2 => label \in LookedTwice
    PROVE  ClientTyped' /\ intent' \in IntentRecord /\ current' \subseteq Clients
BY TurnedTyped, EndedTyped DEF Advanced, AllTyped, IntentTyped

(* A step that writes the stored transfer keeps the types.                 *)
LEMMA AdvancingTyped ==
    ASSUME AllTyped, NEW c \in Clients, Advancing(c)
    PROVE  AllTyped'
<1>1. ClientTyped' /\ intent' \in IntentRecord /\ current' \subseteq Clients
  <2>1. CASE Create(c)
    <3>1. Label(c) = "create"
      BY <2>1 DEF Create, Label
    <3>2. client[c].empty # 2
      BY <3>1, ByLabel DEF AllTyped, LookedTwice, Denying
    <3>3. Goes(c, "release") => ClientTyped'
      BY <3>2, GoesTyped DEF AllTyped, OnResource
    <3>4. \A i : Turned(c, "merge", client[c].op, i, client[c].seen, client[c].todo, client[c].empty,
                       client[c].failed) => ClientTyped'
      BY <3>2, TurnedTyped DEF AllTyped, OnResource
    <3>5. QED
      BY <2>1, <3>3, <3>4, CreateTurns DEF AllTyped, IntentTyped
  <2>2. CASE Merge(c)
    <3>1. Label(c) = "merge"
      BY <2>2 DEF Merge, Label
    <3>2. client[c].empty # 2
      BY <3>1, ByLabel DEF AllTyped, LookedTwice, Denying
    <3>3. QED
      BY <2>2, <3>2, MergeTurns, TurnedTyped, EndedTyped DEF AllTyped, IntentTyped, OnResource
  <2>3. CASE Commit(c)
    BY <2>3, CommitTurns, AdvancedTyped DEF AllTyped, OnResource, LookedTwice
  <2>4. CASE Mark(c)
    <3>1. Label(c) = "mark"
      BY <2>4 DEF Mark, Label
    <3>2. client[c].empty # 2
      BY <3>1, ByLabel DEF AllTyped, LookedTwice, Denying
    <3>3. QED
      BY <2>4, <3>2, MarkTurns, AdvancedTyped DEF AllTyped, OnResource
  <2>5. CASE RolledBack(c)
    BY <2>5, RolledBackTurns, AdvancedTyped DEF AllTyped, OnResource, LookedTwice
  <2>6. QED
    BY <2>1, <2>2, <2>3, <2>4, <2>5 DEF Advancing
<1>2. UNCHANGED <<resources, fence, audit, account, writing, bounds>>
  BY DEF Advancing, Create, Merge, Commit, Mark, RolledBack
<1>3. QED
  BY <1>1, <1>2, PartsKept DEF AllTyped, IntentTyped

(* Steps that record an outcome. *)
LEMMA RecordTyped ==
    ASSUME AllTyped, NEW c \in Clients, Record(c) \/ RecordRollback(c)
    PROVE  AllTyped'
<1>1. ClientTyped'
  <2>1. CASE Record(c)
    <3>1. Goes(c, "commit") \/ Ended(c)
      BY <2>1, EnterGoes, EndEnds DEF Record, AllTyped
    <3>2. QED
      BY <3>1, GoesTyped, EndedTyped DEF AllTyped, OnResource, LookedTwice
  <2>2. CASE RecordRollback(c)
    <3>1. Label(c) = "undone"
      BY <2>2 DEF RecordRollback, Label
    <3>2. client[c].empty # 2
      BY <3>1, ByLabel DEF AllTyped, LookedTwice, Denying
    <3>3. Goes(c, "rolled_back") \/ Ended(c)
      BY <2>2, EnterGoes, EndEnds DEF RecordRollback, AllTyped
    <3>4. QED
      BY <3>2, <3>3, GoesTyped, EndedTyped DEF AllTyped, OnResource
  <2>3. QED
    BY <2>1, <2>2
<1>2. OutcomeTyped'
  <2>1. \A result \in {"success", "failed"} :
          Entry(c, result) \in [result : {"open", "success", "failed"}, moved : SUBSET Assets]
    BY ClientFields, IntentFields DEF Entry, AllTyped
  <2>2. PICK result \in {"success", "failed"} :
          audit' = audit \/ audit' = [audit EXCEPT ![client[c].copy.audit] = Entry(c, result)]
    <3>1. CASE Record(c)
      BY <3>1 DEF Record, Recorded
    <3>2. CASE RecordRollback(c)
      BY <3>2 DEF RecordRollback, Recorded
    <3>3. QED
      BY <3>1, <3>2
  <2>3. QED
    BY <2>1, <2>2 DEF AllTyped, OutcomeTyped
<1>3. UNCHANGED <<resources, fence, intent, current, account, writing, bounds>>
  BY DEF Record, RecordRollback
<1>4. QED
  BY <1>1, <1>2, <1>3, PartsKept DEF AllTyped, IntentTyped

-----------------------------------------------------------------------------
(* The hand-over and the return of a resource.                             *)
Resource(c) == First(client[c].todo)

(* A resource is given to the heir, or back to the account; the rest stays. *)
Given(c, a) == asset' = [asset EXCEPT ![a] = Target(c)]
Restored(c, a) == asset' = [asset EXCEPT ![a] = client[c].copy.moved[a]]
Shown(a, name) == index' = [index EXCEPT ![a] = name]

(* The ways in which a resource group is given.                            *)
LEMMA PutGroupTurns ==
    ASSUME ClientTyped, NEW c \in Clients, PutGroup(c)
    PROVE  /\ Resource(c) \in Groups /\ index' = index
           /\ \/ /\ asset[Resource(c)] = Target(c) /\ asset' = asset
                 /\ Becomes(c, Applied(c))
              \/ Given(c, Resource(c)) /\ Becomes(c, Applied(c))
                 /\ asset[Resource(c)] = client[c].copy.moved[Resource(c)]
              \/ /\ asset' = asset \/ (Given(c, Resource(c)) /\ asset[Resource(c)] = client[c].copy.moved[Resource(c)])
                 /\ Goes(c, "caught")
<1>1. Enter(c, "caught") => Goes(c, "caught")
  BY EnterGoes
<1>2. QED
  BY <1>1 DEF PutGroup, Resource, Given, resources

(* The ways in which the index entry of a document is rewritten.           *)
LEMMA PutIndexTurns ==
    ASSUME ClientTyped, NEW c \in Clients, PutIndex(c)
    PROVE  /\ Resource(c) \in Documents /\ asset' = asset
           /\ \/ /\ asset[Resource(c)].op = client[c].copy.op /\ Shown(Resource(c), client[c].copy.heir)
                 /\ Becomes(c, Applied(c))
              \/ /\ asset[Resource(c)].op # client[c].copy.op
                 /\ asset[Resource(c)] = client[c].copy.moved[Resource(c)]
                 /\ Shown(Resource(c), client[c].copy.heir)
                 /\ Goes(c, "manifest")
              \/ index' = index /\ Goes(c, "caught")
              \/ Shown(Resource(c), client[c].copy.heir) /\ Goes(c, "caught")
<1>1. /\ Enter(c, "caught") => Goes(c, "caught")
      /\ Enter(c, "manifest") => Goes(c, "manifest")
  BY EnterGoes
<1>2. QED
  BY <1>1 DEF PutIndex, Resource, Shown

(* The ways in which the document itself is given.                         *)
LEMMA PutManifestTurns ==
    ASSUME ClientTyped, NEW c \in Clients, PutManifest(c)
    PROVE  \/ /\ asset[Resource(c)] = client[c].copy.moved[Resource(c)]
              /\ Given(c, Resource(c)) /\ index' = index /\ Becomes(c, Applied(c))
           \/ /\ Shown(Resource(c), Source) /\ Goes(c, "caught")
              /\ \/ asset' = asset
                 \/ Given(c, Resource(c)) /\ asset[Resource(c)] = client[c].copy.moved[Resource(c)]
<1>1. Enter(c, "caught") => Goes(c, "caught")
  BY EnterGoes
<1>2. QED
  BY <1>1 DEF PutManifest, Resource, Given, Shown

(* The ways in which a resource group is taken back.                       *)
LEMMA TakeBackGroupTurns ==
    ASSUME ClientTyped, NEW c \in Clients, TakeBackGroup(c)
    PROVE  /\ Resource(c) \in Groups /\ index' = index
           /\ \/ /\ asset[Resource(c)] = client[c].copy.moved[Resource(c)] /\ asset' = asset
                 /\ Becomes(c, Undone(c, TRUE))
              \/ asset[Resource(c)] = Target(c) /\ Restored(c, Resource(c)) /\ Becomes(c, Undone(c, TRUE))
              \/ asset' = asset /\ Becomes(c, Undone(c, FALSE))
BY DEF TakeBackGroup, Resource, Restored

(* The ways in which an index entry is set back.                           *)
LEMMA TakeBackIndexTurns ==
    ASSUME ClientTyped, NEW c \in Clients, TakeBackIndex(c)
    PROVE  /\ Resource(c) \in Documents /\ asset' = asset
           /\ \/ /\ asset[Resource(c)].op # client[c].copy.op /\ asset[Resource(c)].owner = Source
                 /\ Shown(Resource(c), Source) /\ Becomes(c, Undone(c, TRUE))
              \/ /\ asset[Resource(c)].op = client[c].copy.op
                 /\ Shown(Resource(c), Source) /\ Goes(c, "take_back_manifest")
              \/ index' = index /\ Becomes(c, Undone(c, FALSE))
              \/ Shown(Resource(c), Source) /\ Becomes(c, Undone(c, FALSE))
<1>1. Enter(c, "take_back_manifest") => Goes(c, "take_back_manifest")
  BY EnterGoes
<1>2. QED
  BY <1>1 DEF TakeBackIndex, Resource, Shown

(* The ways in which a document is taken back.                             *)
LEMMA TakeBackManifestTurns ==
    ASSUME ClientTyped, NEW c \in Clients, TakeBackManifest(c)
    PROVE  /\ index' = index
           /\ \/ asset[Resource(c)] = Target(c) /\ Restored(c, Resource(c)) /\ Becomes(c, Undone(c, TRUE))
              \/ asset' = asset /\ Becomes(c, Undone(c, FALSE)) /\ asset[Resource(c)] # Target(c)
BY DEF TakeBackManifest, Resource, Restored

Handing(c) ==
    PutGroup(c) \/ PutIndex(c) \/ PutManifest(c) \/ TakeBackGroup(c) \/ TakeBackIndex(c) \/ TakeBackManifest(c)

(* Giving and taking back keep the types.                                  *)
LEMMA HandingTyped ==
    ASSUME AllTyped, NEW c \in Clients, Handing(c)
    PROVE  AllTyped'
<1> DEFINE a == Resource(c)
<1>1. Label(c) \in OnResource
  BY DEF Handing, PutGroup, PutIndex, PutManifest, TakeBackGroup, TakeBackIndex, TakeBackManifest, Label, OnResource
<1>2. a \in Assets /\ client[c].todo # {} /\ client[c].empty # 2
  BY <1>1, ByLabel DEF AllTyped, Resource, OnResource, LookedTwice, Denying
<1>3. Target(c) \in Asset /\ client[c].copy.moved[a] \in Asset /\ client[c].copy.heir \in Heirs \cup {Source}
  BY <1>2, ClientFields, IntentFields DEF AllTyped, Target
<1> HIDE DEF a
<1>4. ResourcesTyped'
  <2>1. /\ Given(c, a) => asset' \in [Assets -> Asset]
        /\ Restored(c, a) => asset' \in [Assets -> Asset]
        /\ asset' = asset => asset' \in [Assets -> Asset]
    BY <1>2, <1>3 DEF Given, Restored, AllTyped, ResourcesTyped
  <2>2. /\ Shown(a, Source) => index' \in [Documents -> Heirs \cup {Source, "nobody"}]
        /\ Shown(a, client[c].copy.heir) => index' \in [Documents -> Heirs \cup {Source, "nobody"}]
        /\ index' = index => index' \in [Documents -> Heirs \cup {Source, "nobody"}]
    BY <1>2, <1>3 DEF Shown, AllTyped, ResourcesTyped
  <2>3. asset' = asset \/ Given(c, a) \/ Restored(c, a)
    BY PutGroupTurns, PutIndexTurns, PutManifestTurns, TakeBackGroupTurns, TakeBackIndexTurns,
       TakeBackManifestTurns DEF Handing, a, AllTyped
  <2>4. index' = index \/ Shown(a, Source) \/ Shown(a, client[c].copy.heir)
    BY PutGroupTurns, PutIndexTurns, PutManifestTurns, TakeBackGroupTurns, TakeBackIndexTurns,
       TakeBackManifestTurns DEF Handing, a, AllTyped
  <2>5. QED
    BY <2>1, <2>2, <2>3, <2>4 DEF ResourcesTyped
<1>5. ClientTyped'
  <2>1. Becomes(c, Applied(c)) => ClientTyped'
    <3>1. SUFFICES ASSUME Becomes(c, Applied(c)) PROVE ClientTyped'
      OBVIOUS
    <3> DEFINE todo == client[c].todo \ {First(client[c].todo)}
    <3>2. Turned(c, "apply", client[c].op, client[c].copy, client[c].seen, todo, client[c].empty,
                 client[c].failed)
      BY <3>1, AppliedTurns DEF AllTyped
    <3>3. "apply" \notin OnResource
      BY DEF OnResource
    <3> HIDE DEF todo
    <3>4. QED
      BY <1>2, <3>2, <3>3, TurnedTyped DEF AllTyped
  <2>2. \A ok \in BOOLEAN : Becomes(c, Undone(c, ok)) => ClientTyped'
    <3>1. SUFFICES ASSUME NEW ok \in BOOLEAN, Becomes(c, Undone(c, ok)) PROVE ClientTyped'
      OBVIOUS
    <3> DEFINE todo == client[c].todo \ {First(client[c].todo)}
               failed == client[c].failed \/ ~ok
    <3>2. Turned(c, "undo", client[c].op, client[c].copy, client[c].seen, todo, client[c].empty, failed)
      BY <3>1, UndoneTurns DEF AllTyped
    <3>3. "undo" \notin OnResource
      BY DEF OnResource
    <3> HIDE DEF todo, failed
    <3>4. QED
      BY <1>2, <3>2, <3>3, TurnedTyped DEF AllTyped
  <2>3. \A label : Goes(c, label) => ClientTyped'
    BY <1>2, GoesTyped DEF AllTyped
  <2>4. \/ Becomes(c, Applied(c)) \/ Becomes(c, Undone(c, TRUE)) \/ Becomes(c, Undone(c, FALSE))
        \/ Goes(c, "caught") \/ Goes(c, "manifest") \/ Goes(c, "take_back_manifest")
    <3>1. CASE PutGroup(c) \/ PutIndex(c) \/ PutManifest(c)
      BY <3>1, PutGroupTurns, PutIndexTurns, PutManifestTurns DEF AllTyped
    <3>2. CASE TakeBackGroup(c) \/ TakeBackIndex(c) \/ TakeBackManifest(c)
      BY <3>2, TakeBackGroupTurns, TakeBackIndexTurns, TakeBackManifestTurns DEF AllTyped
    <3>3. QED
      BY <3>1, <3>2 DEF Handing
  <2>5. QED
    BY <2>1, <2>2, <2>3, <2>4
<1>6. BoundsTyped'
  <2>1. \/ UNCHANGED <<failures, requests, writes, deaths>>
        \/ Failure /\ UNCHANGED <<requests, writes, deaths>>
    BY DEF Handing, PutGroup, PutIndex, PutManifest, TakeBackGroup, TakeBackIndex, TakeBackManifest, bounds
  <2>2. QED
    BY <2>1, FailureTyped, FailuresKept DEF AllTyped
<1>7. UNCHANGED <<fence, stored, account, writing>>
  BY DEF Handing, PutGroup, PutIndex, PutManifest, TakeBackGroup, TakeBackIndex, TakeBackManifest
<1>8. UNCHANGED <<intent, current, audit>>
  BY <1>7 DEF stored
<1>9. QED
  BY <1>4, <1>5, <1>6, <1>7, <1>8, PartsKept DEF AllTyped, IntentTyped

(* A further look keeps the types.                                         *)
LEMMA LookAgainTyped ==
    ASSUME AllTyped, NEW c \in Clients, LookAgain(c)
    PROVE  AllTyped'
<1>1. client[c].empty # 2
  <2>1. Label(c) = "inventory"
    BY DEF LookAgain, Label
  <2>2. QED
    BY <2>1, ByLabel DEF AllTyped, LookedTwice, Denying
<1>2. ClientTyped'
  <2>1. Goes(c, "caught") => ClientTyped'
    BY <1>1, GoesTyped DEF AllTyped, OnResource
  <2>2. QED
    BY <2>1, LookAgainTurns, TurnedTyped DEF AllTyped, OnResource, LookedTwice
<1>3. BoundsTyped'
  BY FailureTyped, FailuresKept DEF LookAgain, AllTyped
<1>4. UNCHANGED <<resources, fence, stored, account, writing>>
  BY DEF LookAgain
<1>5. UNCHANGED <<intent, current, audit>>
  BY <1>4 DEF stored
<1>6. QED
  BY <1>2, <1>3, <1>4, <1>5, PartsKept DEF AllTyped, IntentTyped

-----------------------------------------------------------------------------
(* The types of a deletion's and a restoration's steps, each of which only *)
(* moves its client to the next label or ends it.                          *)
Ruling(c) ==
    \/ PrepareDeny(c) \/ DenyAccount(c) \/ CommitDeny(c) \/ Confirm(c) \/ RegisterDeletion(c) \/ Disable(c)
    \/ Enable(c) \/ Clear(c)

(* The labels that a deletion or a restoration passes.                     *)
LEMMA RulingTurns ==
    ASSUME ClientTyped, NEW c \in Clients, Ruling(c)
    PROVE  \/ Ended(c)
           \/ PrepareDeny(c) /\ Goes(c, "deny")
           \/ DenyAccount(c) /\ Goes(c, "commit_deny") /\ registry' = [state |-> "denied", by |-> client[c].request]
           \/ CommitDeny(c) /\ Goes(c, "confirm")
           \/ Confirm(c) /\ Goes(c, "register")
           \/ RegisterDeletion(c) /\ Goes(c, "disable")
           \/ Disable(c) /\ client[c].pc = "disable" /\ Goes(c, "delete")
           \/ Enable(c) /\ Goes(c, "clear")
           \/ Clear(c) /\ Goes(c, "unfence")
<1>1. \A pc \in {"deny", "commit_deny", "confirm", "register", "disable", "delete", "clear", "unfence"} :
        Enter(c, pc) => Goes(c, pc)
  BY EnterGoes
<1>2. EndRequest(c) => Ended(c)
  BY EndEnds
<1>3. CASE PrepareDeny(c) \/ RegisterDeletion(c) \/ Clear(c)
  BY <1>1, <1>3 DEF PrepareDeny, RegisterDeletion, Clear
<1>4. CASE DenyAccount(c)
  BY <1>1, <1>2, <1>4 DEF DenyAccount
<1>5. CASE CommitDeny(c) \/ Confirm(c) \/ Enable(c)
  BY <1>1, <1>2, <1>5 DEF CommitDeny, Confirm, Enable
<1>6. CASE Disable(c)
  BY <1>1, <1>2, <1>6 DEF Disable
<1>7. QED
  BY <1>3, <1>4, <1>5, <1>6 DEF Ruling

(* The cleanup intents and the registry keep their types. *)
CleanupTyped == cleanup \in [1..MaxRequests -> OpenRepair \cup {"none", "cleanup_completed", "abandoned"}]

(* A status may be written into a cleanup intent.                          *)
LEMMA CleanupWritten ==
    ASSUME CleanupTyped, NEW r, NEW s \in OpenRepair \cup {"none", "cleanup_completed", "abandoned"}
    PROVE  [cleanup EXCEPT ![r] = s] \in [1..MaxRequests -> OpenRepair \cup {"none", "cleanup_completed", "abandoned"}]
BY DEF CleanupTyped

(* The cleanup intents stay well typed.                                    *)
LEMMA CleanupRuled ==
    ASSUME AllTyped, NEW c \in Clients, Ruling(c)
    PROVE  CleanupTyped'
<1> DEFINE r == client[c].request
           fell == IF cleanup[r] \in {"prepared", "deny_committed"} THEN "abandoned" ELSE cleanup[r]
           kept == IF cleanup[r] = "deny_committed" THEN "cleanup_registered" ELSE cleanup[r]
           States == OpenRepair \cup {"none", "cleanup_completed", "abandoned"}
<1>1. CleanupTyped
  BY DEF AllTyped, AccountTyped, CleanupTyped
<1>2. \/ cleanup' = cleanup
      \/ cleanup' = [cleanup EXCEPT ![r] = "prepared"]
      \/ cleanup' = [cleanup EXCEPT ![r] = "deny_committed"]
      \/ cleanup' = [cleanup EXCEPT ![r] = fell]
      \/ cleanup' = [cleanup EXCEPT ![r] = kept]
  BY DEF Ruling, PrepareDeny, DenyAccount, CommitDeny, Confirm, RegisterDeletion, Disable, Enable, Clear, account
<1>3. \A s \in States : [cleanup EXCEPT ![r] = s] \in [1..MaxRequests -> States]
  BY <1>1, CleanupWritten
<1>4. CASE r \in 1..MaxRequests
  <2>1. cleanup[r] \in States
    BY <1>1, <1>4 DEF CleanupTyped
  <2>2. {"prepared", "deny_committed", fell, kept} \subseteq States
    BY <2>1 DEF OpenRepair
  <2> HIDE DEF fell, kept, r
  <2>3. QED
    BY <1>1, <1>2, <1>3, <2>2 DEF CleanupTyped
<1>5. CASE r \notin 1..MaxRequests
  BY <1>1, <1>2, <1>5 DEF CleanupTyped
<1>6. QED
  BY <1>4, <1>5

(* The steps of a deletion or a restoration keep the types.                *)
LEMMA RulingTyped ==
    ASSUME AllTyped, NEW c \in Clients, Ruling(c)
    PROVE  AllTyped'
<1>1. ClientTyped'
  <2>1. Ended(c) => ClientTyped'
    BY EndedTyped DEF AllTyped
  <2>2. \A label \in {"deny", "commit_deny", "confirm", "register", "disable", "delete"} :
          Goes(c, label) => ClientTyped'
    BY GoesTyped DEF AllTyped, OnResource, LookedTwice, Denying
  <2>3. Enable(c) \/ Clear(c) => client[c].empty # 2
    <3>1. Enable(c) \/ Clear(c) => Label(c) \in {"enable", "clear"}
      BY DEF Enable, Clear, Label
    <3>2. QED
      BY <3>1, ByLabel DEF AllTyped, LookedTwice, Denying
  <2>4. \A label \in {"clear", "unfence"} : client[c].empty # 2 /\ Goes(c, label) => ClientTyped'
    BY GoesTyped DEF AllTyped, OnResource
  <2>5. QED
    BY <2>1, <2>2, <2>3, <2>4, RulingTurns DEF AllTyped
<1>2. AccountTyped'
  <2>1. [state |-> "denied", by |-> client[c].request] \in [state : {"none", "denied", "cleared"}, by : 0..MaxRequests]
    BY ClientFields DEF AllTyped
  <2>2. [state |-> "cleared", by |-> 0] \in [state : {"none", "denied", "cleared"}, by : 0..MaxRequests]
    BY Numbers
  <2>3. registry' \in {registry, [state |-> "denied", by |-> client[c].request], [state |-> "cleared", by |-> 0]}
    BY DEF Ruling, PrepareDeny, DenyAccount, CommitDeny, Confirm, RegisterDeletion, Disable, Enable, Clear, account
  <2>4. idp' \in {idp, "disabled", "gone", "enabled"}
    BY DEF Ruling, PrepareDeny, DenyAccount, CommitDeny, Confirm, RegisterDeletion, Disable, Enable, Clear, account
  <2>5. QED
    BY <2>1, <2>2, <2>3, <2>4, CleanupRuled DEF AllTyped, AccountTyped, CleanupTyped
<1>3. FenceTyped'
  <2>1. [fence EXCEPT !.status = "account_deny_confirmed"] \in FenceRecord
    BY DEF AllTyped, FenceTyped, FenceRecord
  <2>2. fence' \in {fence, [fence EXCEPT !.status = "account_deny_confirmed"]}
    BY DEF Ruling, PrepareDeny, DenyAccount, CommitDeny, Confirm, RegisterDeletion, Disable, Enable, Clear
  <2>3. QED
    BY <2>1, <2>2 DEF AllTyped, FenceTyped
<1>4. BoundsTyped'
  <2>1. \/ UNCHANGED bounds
        \/ UNCHANGED <<failures, requests, writes, deaths>>
        \/ Failure /\ UNCHANGED <<requests, writes, deaths>>
    BY DEF Ruling, PrepareDeny, DenyAccount, CommitDeny, Confirm, RegisterDeletion, Disable, Enable, Clear
  <2>2. QED
    BY <2>1, FailureTyped, FailuresKept, PartsKept DEF AllTyped
<1>5. UNCHANGED <<resources, stored, writing>>
  BY DEF Ruling, PrepareDeny, DenyAccount, CommitDeny, Confirm, RegisterDeletion, Disable, Enable, Clear
<1>6. UNCHANGED <<intent, current, audit>>
  BY <1>5 DEF stored
<1>7. QED
  BY <1>1, <1>2, <1>3, <1>4, <1>5, <1>6, PartsKept DEF AllTyped, IntentTyped

(* The account's own writes, the cleanup batch, and deaths. *)
LEMMA BatchTyped ==
    ASSUME AllTyped, NEW r \in 1..MaxRequests, Batch(r)
    PROVE  AllTyped'
<1> DEFINE s == CASE cleanup[r] = "prepared" -> "deny_committed"
                  [] cleanup[r] = "deny_committed" -> "cleanup_registered"
                  [] cleanup[r] = "cleanup_registered" -> "cleanup_completed"
<1>1. CleanupTyped
  BY DEF AllTyped, AccountTyped, CleanupTyped
<1>2. cleanup[r] \in OpenRepair /\ cleanup' = [cleanup EXCEPT ![r] = s]
  BY DEF Batch
<1>3. s \in OpenRepair \cup {"none", "cleanup_completed", "abandoned"}
  BY <1>2 DEF OpenRepair
<1> HIDE DEF s
<1>4. CleanupTyped'
  BY <1>1, <1>2, <1>3, CleanupWritten DEF CleanupTyped
<1>5. UNCHANGED <<resources, fence, stored, registry, idp, client, writing, bounds>>
  BY DEF Batch
<1>6. AccountTyped'
  BY <1>4, <1>5 DEF AllTyped, AccountTyped, CleanupTyped
<1>7. UNCHANGED <<intent, current, audit>>
  BY <1>5 DEF stored
<1>8. QED
  BY <1>5, <1>6, <1>7, PartsKept DEF AllTyped, IntentTyped

(* A restoration that starts keeps the types.                              *)
LEMMA StartRestoreTyped ==
    ASSUME AllTyped, NEW c \in Clients, StartRestore(c)
    PROVE  AllTyped'
<1>1. Goes(c, "enable")
  BY EnterGoes DEF StartRestore, AllTyped
<1>2. client[c].empty # 2
  <2>1. Label(c) = "idle"
    BY DEF StartRestore, Label
  <2>2. QED
    BY <2>1, ByLabel DEF AllTyped, LookedTwice, Denying
<1>3. ClientTyped'
  BY <1>1, <1>2, GoesTyped DEF AllTyped, OnResource
<1>4. BoundsTyped'
  BY Numbers DEF StartRestore, AllTyped, BoundsTyped
<1>5. UNCHANGED <<resources, fence, stored, account, writing>>
  BY DEF StartRestore
<1>6. UNCHANGED <<intent, current, audit>>
  BY <1>5 DEF stored
<1>7. QED
  BY <1>3, <1>4, <1>5, <1>6, PartsKept DEF AllTyped, IntentTyped

(* A write that is admitted keeps the types.                               *)
LEMMA AdmitTyped ==
    ASSUME AllTyped, Admit
    PROVE  AllTyped'
<1>1. BoundsTyped' /\ writing' \in BOOLEAN
  BY Numbers DEF Admit, AllTyped, BoundsTyped
<1>2. UNCHANGED <<resources, fence, stored, account, client>>
  BY DEF Admit
<1>3. UNCHANGED <<intent, current, audit>>
  BY <1>2 DEF stored
<1>4. QED
  BY <1>1, <1>2, <1>3, PartsKept DEF AllTyped, IntentTyped

(* What a write of the account leaves: nothing changed, or a resource more. *)
LEMMA LandWrites ==
    ASSUME AllTyped, Land
    PROVE  \/ UNCHANGED resources
           \/ \E a \in Assets :
                /\ asset[a] = Nothing /\ (SlowWrites \/ InTime)
                /\ asset' = [asset EXCEPT ![a] = Mine]
                /\ a \in Documents => Shown(a, Source)
                /\ a \notin Documents => index' = index
BY DEF Land, Shown

(* A write that lands keeps the types.                                     *)
LEMMA LandTyped ==
    ASSUME AllTyped, Land
    PROVE  AllTyped'
<1>1. ResourcesTyped'
  <2>1. CASE UNCHANGED resources
    BY <2>1, PartsKept
  <2>2. CASE ~UNCHANGED resources
    <3>1. PICK a \in Assets : /\ asset' = [asset EXCEPT ![a] = Mine]
                              /\ a \in Documents => Shown(a, Source)
                              /\ a \notin Documents => index' = index
      BY <2>2, LandWrites
    <3>2. QED
      BY <3>1, Numbers DEF AllTyped, ResourcesTyped, Shown
  <2>3. QED
    BY <2>1, <2>2
<1>2. UNCHANGED <<fence, stored, account, client, bounds>> /\ writing' \in BOOLEAN
  BY DEF Land
<1>3. UNCHANGED <<intent, current, audit>>
  BY <1>2 DEF stored
<1>4. QED
  BY <1>1, <1>2, <1>3, PartsKept DEF AllTyped, IntentTyped

(* A request that dies keeps the types.                                    *)
LEMMA CrashTyped ==
    ASSUME AllTyped, NEW c \in Clients, Crash(c)
    PROVE  AllTyped'
<1>1. ClientTyped'
  BY EndEnds, EndedTyped DEF AllTyped, Crash
<1>2. BoundsTyped'
  BY Numbers DEF Crash, AllTyped, BoundsTyped
<1>3. UNCHANGED <<resources, fence, stored, account, writing>>
  BY DEF Crash
<1>4. UNCHANGED <<intent, current, audit>>
  BY <1>3 DEF stored
<1>5. QED
  BY <1>1, <1>2, <1>3, <1>4, PartsKept DEF AllTyped, IntentTyped

(* Every step keeps the types.                                             *)
LEMMA TransferTypeStep == AllTyped /\ [TransferNext]_transferVars => AllTyped'
<1> SUFFICES ASSUME AllTyped, [TransferNext]_transferVars PROVE AllTyped'
  OBVIOUS
<1>1. CASE UNCHANGED transferVars
  BY <1>1, PartsKept DEF transferVars, resources, account, bounds, AllTyped, IntentTyped
<1>2. CASE TransferNext
  <2>1. ASSUME NEW c \in Clients, Transfer(c) PROVE AllTyped'
    BY <2>1, StartTyped, AcquireTyped, RenewTyped, ReleaseTyped, LookTyped, PrivateTyped,
       AdvancingTyped, RecordTyped, HandingTyped, LookAgainTyped DEF Transfer, Private, Advancing, Handing
  <2>2. ASSUME NEW c \in Clients, Delete(c) \/ Restore(c) PROVE AllTyped'
    BY <2>2, PrivateTyped, RulingTyped, StartRestoreTyped, ReleaseTyped DEF Delete, Restore, Private, Ruling
  <2>3. ASSUME NEW c \in Clients, ClientStep(c) \/ Crash(c) PROVE AllTyped'
    BY <2>1, <2>2, <2>3, CrashTyped DEF ClientStep
  <2>4. QED
    BY <1>2, <2>3, BatchTyped, ExpireTyped, AdmitTyped, LandTyped DEF TransferNext
<1>3. QED
  BY <1>1, <1>2

(* The transfers' types hold for any clients, resources and bounds.        *)
THEOREM TransferTypeCorrect == TransferSpec => []TransferTypeOK
<1>1. AllTyped => TransferTypeOK
  BY DEF AllTyped, TransferTypeOK, ResourcesTyped, FenceTyped, FenceRecord, IntentTyped, OutcomeTyped,
         AccountTyped, BoundsTyped, ClientTyped
<1>2. QED
  BY <1>1, TransferTypeInit, TransferTypeStep, PTL DEF TransferSpec

-----------------------------------------------------------------------------
(* The fence.  It changes hands with a new token, so that of the requests  *)
(* that hold one which no deletion has confirmed only one is the holder,   *)
(* however many died or stalled with it before.                            *)
Movers == Changers \cup Deleters
Serving(c) == client[c].pc \notin {"idle", "acquire"}

FenceHeld ==
    /\ Blocking => fence.op >= 1
    /\ \A c \in Movers : Serving(c) => fence.status # "none" /\ client[c].token <= fence.token
    /\ fence.status = "blocking" =>
         \A b, c \in Movers :
             Serving(b) /\ Serving(c) /\ client[b].token = fence.token /\ client[c].token = fence.token => b = c

(* The fence has kept its token; it is blocking only if it was, and is not *)
(* taken up again.                                                         *)
SameFence ==
    /\ fence'.op = fence.op /\ fence'.token = fence.token
    /\ \/ fence'.status = fence.status
       \/ fence.status # "released" /\ fence'.status = "account_deny_confirmed"
       \/ fence.status # "none" /\ fence'.status = "released"

NobodyStarts ==
    \A b \in Clients : Serving(b)' => Serving(b) /\ client'[b].token = client[b].token

(* The steps of a request that is at work already. *)
Occupied(c) ==
    \/ Renew(c) \/ Release(c) \/ ReleaseAfterRestore(c) \/ Look(c) \/ Private(c) \/ Advancing(c)
    \/ Record(c) \/ RecordRollback(c) \/ Handing(c) \/ LookAgain(c) \/ Ruling(c)

(* Such a step ends the request or leaves it its token.                    *)
LEMMA TokenStays ==
    ASSUME ClientTyped, NEW c \in Clients, Crash(c) \/ Occupied(c)
    PROVE  /\ \E rec : Becomes(c, rec)
           /\ client'[c] = AtRest \/ client'[c].token = client[c].token
<1> DEFINE Stays == (\E rec : Becomes(c, rec)) /\ (client'[c] = AtRest \/ client'[c].token = client[c].token)
<1>1. client[c] \in ClientRecord /\ client \in [Clients -> ClientRecord]
  BY DEF ClientTyped
<1>2. ASSUME EndRequest(c)
      PROVE  Stays
  BY <1>1, <1>2 DEF EndRequest, Becomes
<1>3. ASSUME NEW rec, Becomes(c, rec), rec.token = client[c].token
      PROVE  Stays
  BY <1>1, <1>3 DEF Becomes
<1>4. ASSUME NEW pc, Enter(c, pc)
      PROVE  Stays
  <2>1. [client[c] EXCEPT !.pc = pc].token = client[c].token
    BY <1>1 DEF ClientRecord
  <2>2. QED
    BY <1>3, <1>4, <2>1 DEF Enter
<1>5. ASSUME NEW status, NEW moved, NEW rec, rec.token = client[c].token, DOMAIN rec = DOMAIN client[c],
             rec = [f \in DOMAIN rec |-> rec[f]], Advance(c, status, moved, rec)
      PROVE  Stays
  <2>1. \A i : [rec EXCEPT !.copy = i].token = client[c].token
    BY <1>1, <1>5 DEF ClientRecord
  <2>2. EndRequest(c) \/ \E i : Becomes(c, [rec EXCEPT !.copy = i])
    BY <1>5 DEF Advance
  <2>3. QED
    BY <1>2, <1>3, <2>1, <2>2
<1> SUFFICES Stays
  OBVIOUS
<1> HIDE DEF Stays
<1>6. CASE Crash(c) \/ Renew(c) \/ Release(c) \/ ReleaseAfterRestore(c)
  BY <1>2, <1>4, <1>6 DEF Crash, Renew, Release, ReleaseAfterRestore
<1>7. CASE Look(c)
  <2> DEFINE me == [client[c] EXCEPT !.copy = intent, !.seen = Inventory]
  <2>1. /\ Renewing(me, "zero").token = client[c].token
        /\ [me EXCEPT !.pc = "release"].token = client[c].token
        /\ [me EXCEPT !.pc = "undo", !.todo = Moved(intent)].token = client[c].token
        /\ [me EXCEPT !.pc = "create"].token = client[c].token
        /\ [me EXCEPT !.pc = "merge"].token = client[c].token
    BY <1>1 DEF Renewing, ClientRecord
  <2>2. \/ EndRequest(c)
        \/ Becomes(c, Renewing(me, "zero")) \/ Becomes(c, [me EXCEPT !.pc = "release"])
        \/ Becomes(c, [me EXCEPT !.pc = "undo", !.todo = Moved(intent)])
        \/ Becomes(c, [me EXCEPT !.pc = "create"]) \/ Becomes(c, [me EXCEPT !.pc = "merge"])
    BY <1>7 DEF Look
  <2> HIDE DEF me
  <2>3. QED
    BY <1>2, <1>3, <2>1, <2>2
<1>8. CASE Private(c)
  <2>1. CASE Zero(c)
    <3> DEFINE me == [client[c] EXCEPT !.seen = Inventory]
    <3>1. /\ [me EXCEPT !.pc = "create", !.empty = 0].token = client[c].token
          /\ Renewing([me EXCEPT !.empty = 1], "zero").token = client[c].token
          /\ \A pc : [me EXCEPT !.empty = 2, !.pc = pc].token = client[c].token
      BY <1>1 DEF Renewing, ClientRecord
    <3>2. \/ Becomes(c, [me EXCEPT !.pc = "create", !.empty = 0])
          \/ Becomes(c, Renewing([me EXCEPT !.empty = 1], "zero"))
          \/ \E pc : Becomes(c, [me EXCEPT !.empty = 2, !.pc = pc])
          \/ Owned = {} /\ me.empty \notin {0, 1}
      BY <2>1 DEF Zero
    <3>3. Owned = {} => me.empty \in {0, 1}
      <4>1. Label(c) = "zero" /\ me.empty = client[c].empty
        BY <1>1, <2>1 DEF Zero, Label, ClientRecord
      <4>2. client[c].empty # 2 /\ client[c].empty \in 0..2
        BY <4>1, ByLabel, ClientFields DEF LookedTwice, Denying
      <4>3. QED
        BY <4>1, <4>2
    <3> HIDE DEF me
    <3>4. QED
      BY <1>3, <3>1, <3>2, <3>3
  <2>2. CASE Apply(c) \/ Undo(c) \/ Caught(c) \/ AssertHeld(c)
    <3>1. /\ \A then : Renewing(client[c], then).token = client[c].token
          /\ \A op : [client[c] EXCEPT !.pc = "prepare_deny", !.op = op].token = client[c].token
      BY <1>1 DEF Renewing, ClientRecord
    <3>2. \/ EndRequest(c)
          \/ \E then : Becomes(c, Renewing(client[c], then))
          \/ \E op : Becomes(c, [client[c] EXCEPT !.pc = "prepare_deny", !.op = op])
      BY <2>2 DEF Apply, Undo, Caught, AssertHeld
    <3>3. QED
      BY <1>2, <1>3, <3>1, <3>2
  <2>3. QED
    BY <1>8, <2>1, <2>2 DEF Private
<1>9. CASE Advancing(c)
  <2>1. CASE Create(c)
    <3>1. \/ Enter(c, "release")
          \/ \E i : Becomes(c, [client[c] EXCEPT !.copy = i, !.pc = "merge"])
      BY <2>1 DEF Create
    <3>2. \A i : [client[c] EXCEPT !.copy = i, !.pc = "merge"].token = client[c].token
      BY <1>1 DEF ClientRecord
    <3>3. QED
      BY <1>3, <1>4, <3>1, <3>2
  <2>2. ASSUME NEW status, NEW moved, NEW pc, NEW todo, NEW seen,
               \/ Advance(c, status, moved, [client[c] EXCEPT !.pc = pc])
               \/ Advance(c, status, moved, [client[c] EXCEPT !.pc = pc, !.todo = todo])
               \/ Advance(c, status, moved, [client[c] EXCEPT !.seen = seen, !.pc = pc])
        PROVE  Stays
    <3>1. /\ [client[c] EXCEPT !.pc = pc].token = client[c].token
          /\ [client[c] EXCEPT !.pc = pc, !.todo = todo].token = client[c].token
          /\ [client[c] EXCEPT !.seen = seen, !.pc = pc].token = client[c].token
      BY <1>1 DEF ClientRecord
    <3>2. /\ DOMAIN [client[c] EXCEPT !.pc = pc] = DOMAIN client[c]
          /\ DOMAIN [client[c] EXCEPT !.pc = pc, !.todo = todo] = DOMAIN client[c]
          /\ DOMAIN [client[c] EXCEPT !.seen = seen, !.pc = pc] = DOMAIN client[c]
      OBVIOUS
    <3>3. \A rec : (\/ rec = [client[c] EXCEPT !.pc = pc]
                    \/ rec = [client[c] EXCEPT !.pc = pc, !.todo = todo]
                    \/ rec = [client[c] EXCEPT !.seen = seen, !.pc = pc]) => rec = [f \in DOMAIN rec |-> rec[f]]
      OBVIOUS
    <3>4. QED
      BY <1>5, <2>2, <3>1, <3>2, <3>3
  <2>3. CASE Merge(c)
    <3>1. \/ Becomes(c, [client[c] EXCEPT !.pc = "apply", !.todo = Moved(client[c].copy)])
          \/ \E moved : Advance(c, "transferring", moved, [client[c] EXCEPT !.seen = NoAssets, !.pc = "merge"])
      BY <2>3 DEF Merge
    <3>2. [client[c] EXCEPT !.pc = "apply", !.todo = Moved(client[c].copy)].token = client[c].token
      BY <1>1 DEF ClientRecord
    <3>3. QED
      BY <1>3, <2>2, <3>1, <3>2
  <2>4. CASE Commit(c) \/ Mark(c) \/ RolledBack(c)
    BY <2>2, <2>4 DEF Commit, Mark, RolledBack
  <2>5. QED
    BY <1>9, <2>1, <2>3, <2>4 DEF Advancing
<1>10. CASE Record(c) \/ RecordRollback(c)
  BY <1>2, <1>4, <1>10 DEF Record, RecordRollback
<1>11. CASE Handing(c)
  <2>1. Applied(c).token = client[c].token /\ \A ok \in BOOLEAN : Undone(c, ok).token = client[c].token
    BY <1>1 DEF Applied, Undone, ClientRecord
  <2>2. \/ Becomes(c, Applied(c)) \/ Becomes(c, Undone(c, TRUE)) \/ Becomes(c, Undone(c, FALSE))
        \/ \E pc : Enter(c, pc)
    BY <1>11 DEF Handing, PutGroup, PutIndex, PutManifest, TakeBackGroup, TakeBackIndex, TakeBackManifest
  <2>3. QED
    BY <1>3, <1>4, <2>1, <2>2
<1>12. CASE LookAgain(c)
  <2>1. /\ [client[c] EXCEPT !.pc = "merge", !.seen = Inventory, !.empty = 0].token = client[c].token
        /\ \A todo : [client[c] EXCEPT !.pc = "apply", !.todo = todo, !.empty = 1].token = client[c].token
        /\ [client[c] EXCEPT !.pc = "drained", !.empty = 2].token = client[c].token
    BY <1>1 DEF ClientRecord
  <2>2. \/ Enter(c, "caught")
        \/ Becomes(c, [client[c] EXCEPT !.pc = "merge", !.seen = Inventory, !.empty = 0])
        \/ \E todo : Becomes(c, [client[c] EXCEPT !.pc = "apply", !.todo = todo, !.empty = 1])
        \/ Becomes(c, [client[c] EXCEPT !.pc = "drained", !.empty = 2])
        \/ Owned = {} /\ client[c].empty \notin {0, 1}
    BY <1>12 DEF LookAgain
  <2>3. client[c].empty \in {0, 1}
    <3>1. Label(c) = "inventory"
      BY <1>12 DEF LookAgain, Label
    <3>2. client[c].empty # 2 /\ client[c].empty \in 0..2
      BY <3>1, ByLabel, ClientFields DEF LookedTwice, Denying
    <3>3. QED
      BY <3>2
  <2>4. QED
    BY <1>3, <1>4, <2>1, <2>2, <2>3
<1>13. CASE Ruling(c)
  BY <1>2, <1>4, <1>13 DEF Ruling, PrepareDeny, DenyAccount, CommitDeny, Confirm, RegisterDeletion, Disable,
      Enable, Clear
<1>14. QED
  BY <1>6, <1>7, <1>8, <1>9, <1>10, <1>11, <1>12, <1>13 DEF Occupied, Stays

(* A step of a client moves no other. *)
LEMMA OthersStay ==
    ASSUME ClientTyped, NEW c \in Clients, Start(c) \/ Acquire(c) \/ StartRestore(c) \/ Crash(c) \/ Occupied(c)
    PROVE  \A b \in Clients \ {c} : client'[b] = client[b] /\ Label(b)' = Label(b) /\ Serving(b)' = Serving(b)
<1>1. (\E rec : Becomes(c, rec)) => \A b \in Clients \ {c} : client'[b] = client[b]
  BY DEF Becomes, ClientTyped
<1>2. \E rec : Becomes(c, rec)
  <2>1. CASE Start(c)
    BY <2>1 DEF Start
  <2>2. CASE Acquire(c) \/ StartRestore(c)
    BY <2>2 DEF Acquire, StartRestore, Taken, EndRequest, Enter
  <2>3. QED
    BY <2>1, <2>2, TokenStays
<1>3. QED
  BY <1>1, <1>2 DEF Label, Serving

(* A request that takes such a step is at work.                            *)
LEMMA OccupiedWorks ==
    ASSUME NEW c \in Clients, Occupied(c)
    PROVE  Serving(c) /\ client[c].pc # "idle"
<1>1. CASE Renew(c) \/ Release(c) \/ ReleaseAfterRestore(c) \/ Look(c) \/ LookAgain(c)
  BY <1>1 DEF Renew, Release, ReleaseAfterRestore, Look, LookAgain, Serving
<1>2. CASE Private(c) \/ Advancing(c)
  BY <1>2 DEF Private, Zero, Apply, Undo, Caught, AssertHeld, Advancing, Create, Merge, Commit, Mark, RolledBack,
              Serving
<1>3. CASE Record(c) \/ RecordRollback(c) \/ Handing(c)
  BY <1>3 DEF Record, RecordRollback, Handing, PutGroup, PutIndex, PutManifest, TakeBackGroup, TakeBackIndex,
              TakeBackManifest, Serving
<1>4. CASE Ruling(c)
  BY <1>4 DEF Ruling, PrepareDeny, DenyAccount, CommitDeny, Confirm, RegisterDeletion, Disable, Enable, Clear,
      Serving
<1>5. QED
  BY <1>1, <1>2, <1>3, <1>4 DEF Occupied

(* Such a step starts no other request, and gives nobody a token.          *)
LEMMA OccupiedStarts ==
    ASSUME ClientTyped, NEW c \in Clients, Crash(c) \/ Occupied(c)
    PROVE  NobodyStarts
<1>1. \A b \in Clients \ {c} : client'[b] = client[b] /\ Serving(b)' = Serving(b)
  BY OthersStay
<1>2. Serving(c)' => client'[c] # AtRest
  BY AtRestTyped DEF Serving
<1>3. Serving(c)' => Serving(c)
  <2>1. CASE Crash(c)
    <3>1. client'[c] = AtRest
      BY <2>1 DEF Crash, EndRequest, Becomes, ClientTyped
    <3>2. QED
      BY <1>2, <3>1
  <2>2. QED
    BY <2>1, OccupiedWorks
<1>4. QED
  BY <1>1, <1>2, <1>3, TokenStays DEF NobodyStarts

(* A step that takes no fence and starts nobody keeps it held.             *)
LEMMA FenceKept ==
    ASSUME AllTyped, FenceHeld, SameFence, NobodyStarts,
           fence'.status = "account_deny_confirmed" => fence.status # "none"
    PROVE  FenceHeld'
<1>1. Movers \subseteq Clients
  BY DEF Movers, Clients
<1>2. Blocking' => Blocking
  BY DEF SameFence, Blocking, AllTyped, FenceTyped, FenceRecord
<1>3. QED
  BY <1>1, <1>2 DEF FenceHeld, SameFence, NobodyStarts

(* The token that a request gets with the fence.                           *)
LEMMA AcquireToken ==
    ASSUME AllTyped, NEW c \in Clients, Acquire(c)
    PROVE  \/ Ended(c) /\ UNCHANGED fence
           \/ /\ client'[c].token = fence.token /\ UNCHANGED fence
              /\ fence.status = "account_deny_confirmed"
           \/ /\ client'[c].token = fence'.token /\ fence'.token = fence.token + 1
              /\ fence'.status = "blocking" /\ fence.token \in Nat
<1>1. client \in [Clients -> ClientRecord] /\ client[c] \in ClientRecord
  BY DEF AllTyped, ClientTyped
<1>2. \A op, token, acquired : Taken(c, op, token, acquired) => client'[c].token = token
  BY <1>1 DEF Taken, Renewing, Becomes, ClientRecord
<1>3. fence.token \in Nat
  BY Numbers DEF AllTyped, FenceTyped, FenceRecord
<1>4. \/ EndRequest(c) /\ UNCHANGED fence
      \/ /\ fence.status = "account_deny_confirmed" /\ UNCHANGED fence
         /\ \E op : Taken(c, op, fence.token, fence.status)
      \/ /\ fence'.status = "blocking" /\ fence'.token = fence.token + 1
         /\ \E op : Taken(c, op, fence.token + 1, "blocking")
  BY DEF Acquire
<1>5. QED
  BY <1>2, <1>3, <1>4, EndEnds DEF AllTyped

(* A request is at work once it has the fence.                             *)
LEMMA AcquireFence ==
    ASSUME AllTyped, FenceHeld, NEW c \in Movers, Acquire(c)
    PROVE  FenceHeld'
<1>1. c \in Clients /\ Movers \subseteq Clients
  BY DEF Movers, Clients
<1>2. \A b \in Clients \ {c} : client'[b] = client[b] /\ Serving(b)' = Serving(b)
  BY <1>1, OthersStay DEF AllTyped
<1>3. \A b \in Clients : client[b].token \in Nat
  BY Numbers DEF AllTyped, ClientTyped, ClientRecord
<1>4. CASE Ended(c) /\ UNCHANGED fence
  <2>1. ~Serving(c)'
    BY <1>4, AtRestTyped DEF Ended, Serving
  <2>2. QED
    BY <1>1, <1>2, <1>4, <2>1 DEF FenceHeld, Blocking
<1>5. CASE client'[c].token = fence.token /\ UNCHANGED fence /\ fence.status = "account_deny_confirmed"
  <2>1. fence.token \in Nat
    BY Numbers DEF AllTyped, FenceTyped, FenceRecord
  <2>2. QED
    BY <1>1, <1>2, <1>5, <2>1 DEF FenceHeld, Blocking
<1>6. CASE /\ client'[c].token = fence'.token /\ fence'.token = fence.token + 1
           /\ fence'.status = "blocking" /\ fence.token \in Nat
  <2>1. \A b \in Movers \ {c} : Serving(b)' => client'[b].token <= fence.token
    BY <1>1, <1>2 DEF FenceHeld
  <2>2. \A b \in Movers \ {c} : Serving(b)' => client'[b].token < fence'.token
    BY <1>1, <1>2, <1>3, <1>6, <2>1
  <2>3. fence'.op >= 1
    <3>1. fence'.op >= 1 \/ (Blocking /\ fence'.op = fence.op)
      BY <1>1, <1>6, AcquireTurns
    <3>2. QED
      BY <3>1 DEF FenceHeld
  <2>4. QED
    BY <1>1, <1>2, <1>3, <1>6, <2>2, <2>3 DEF FenceHeld
<1>7. QED
  BY <1>1, <1>4, <1>5, <1>6, AcquireToken

(* No other step takes the fence.                                          *)
LEMMA FenceUnmoved ==
    ASSUME AllTyped, FenceHeld, NEW c \in Clients, Occupied(c), c \in Movers \/ ~Confirm(c)
    PROVE  SameFence /\ (fence'.status = "account_deny_confirmed" => fence.status # "none")
<1>1. fence \in FenceRecord
  BY DEF AllTyped, FenceTyped
<1>2. CASE Renew(c)
  BY <1>1, <1>2 DEF Renew, SameFence, FenceRecord
<1>3. CASE Release(c)
  BY <1>1, <1>3 DEF Release, SameFence, FenceRecord
<1>4. CASE ReleaseAfterRestore(c)
  BY <1>1, <1>4 DEF ReleaseAfterRestore, SameFence, FenceRecord
<1>5. CASE Confirm(c)
  <2>1. Serving(c) /\ c \in Movers
    BY <1>5, OccupiedWorks
  <2>2. fence.status # "none"
    BY <2>1 DEF FenceHeld
  <2>3. QED
    BY <1>1, <1>5, <2>2 DEF Confirm, SameFence, FenceRecord
<1>6. CASE ~Renew(c) /\ ~Release(c) /\ ~ReleaseAfterRestore(c) /\ ~Confirm(c)
  <2>1. UNCHANGED fence
    <3>1. CASE Look(c) \/ LookAgain(c) \/ Record(c) \/ RecordRollback(c)
      BY <3>1 DEF Look, LookAgain, Record, RecordRollback
    <3>2. CASE Private(c) \/ Advancing(c)
      BY <3>2 DEF Private, Zero, Apply, Undo, Caught, AssertHeld, Advancing, Create, Merge, Commit, Mark,
                  RolledBack
    <3>3. CASE Handing(c)
      BY <3>3 DEF Handing, PutGroup, PutIndex, PutManifest, TakeBackGroup, TakeBackIndex, TakeBackManifest
    <3>4. CASE Ruling(c)
      BY <1>6, <3>4 DEF Ruling, PrepareDeny, DenyAccount, CommitDeny, RegisterDeletion, Disable, Enable, Clear
    <3>5. QED
      BY <1>6, <3>1, <3>2, <3>3, <3>4 DEF Occupied
  <2>2. QED
    BY <2>1 DEF SameFence
<1>7. QED
  BY <1>2, <1>3, <1>4, <1>5, <1>6

(* Every step is one of these.                                             *)
Elsewhere == (\E r \in 1..MaxRequests : Batch(r)) \/ Expire \/ Admit \/ Land

(* The steps, by who takes them.                                           *)
LEMMA StepCases ==
    ASSUME TransferNext
    PROVE  \/ \E c \in Movers : Start(c) \/ Acquire(c)
           \/ \E c \in Restorers : StartRestore(c)
           \/ \E c \in Clients : Crash(c)
           \/ \E c \in Movers : Occupied(c) /\ ~ReleaseAfterRestore(c)
           \/ \E c \in Restorers : Enable(c) \/ Clear(c) \/ ReleaseAfterRestore(c)
           \/ Elsewhere
<1>1. ASSUME NEW c \in Movers, Transfer(c)
      PROVE  Start(c) \/ Acquire(c) \/ (Occupied(c) /\ ~ReleaseAfterRestore(c))
  <2>1. Start(c) \/ Acquire(c) \/ Occupied(c)
    BY <1>1 DEF Transfer, Occupied, Private, Advancing, Handing
  <2>2. ~ReleaseAfterRestore(c)
    BY <1>1 DEF Transfer, ReleaseAfterRestore, Start, Acquire, Renew, Release, Look, Zero, Create, Merge, Apply,
                PutGroup, PutIndex, PutManifest, LookAgain, Record, Commit, Caught, Mark, Undo, TakeBackGroup,
                TakeBackIndex, TakeBackManifest, RecordRollback, RolledBack
  <2>3. QED
    BY <2>1, <2>2
<1>2. ASSUME NEW c \in Movers, Delete(c)
      PROVE  Occupied(c) /\ ~ReleaseAfterRestore(c)
  <2>1. Occupied(c)
    BY <1>2 DEF Delete, Occupied, Private, Ruling
  <2>2. ~ReleaseAfterRestore(c)
    BY <1>2 DEF Delete, ReleaseAfterRestore, AssertHeld, PrepareDeny, DenyAccount, CommitDeny, Confirm,
        RegisterDeletion,
                Disable
  <2>3. QED
    BY <2>1, <2>2
<1>3. QED
  BY <1>1, <1>2 DEF TransferNext, ClientStep, Movers, Restore, Elsewhere

(* A request that dies holds nothing any more.                             *)
LEMMA CrashStarts ==
    ASSUME ClientTyped, NEW c \in Clients, Crash(c)
    PROVE  NobodyStarts /\ Ended(c)
BY EndEnds, OccupiedStarts DEF Crash

(* A request that starts has no token yet.                                 *)
LEMMA StartFence ==
    ASSUME AllTyped, FenceHeld, NEW c \in Clients, (c \in Movers /\ Start(c)) \/ (c \in Restorers /\ StartRestore(c))
    PROVE  FenceHeld'
<1>1. Movers \subseteq Clients /\ UNCHANGED fence
  BY DEF Movers, Clients, Start, StartRestore
<1>2. \A b \in Clients \ {c} : client'[b] = client[b] /\ Serving(b)' = Serving(b)
  BY OthersStay DEF AllTyped
<1>3. c \in Movers => ~Serving(c)'
  <2>1. c \in Movers => Start(c)
    BY TransferAssumption DEF Movers
  <2>2. Start(c) => client'[c].pc = "acquire"
    BY StartTurns DEF AllTyped
  <2>3. QED
    BY <2>1, <2>2 DEF Serving
<1>4. QED
  BY <1>1, <1>2, <1>3 DEF FenceHeld, Blocking

(* Every step leaves a token with one holder.                              *)
LEMMA FenceHeldStep ==
    ASSUME AllTyped, FenceHeld, [TransferNext]_transferVars
    PROVE  FenceHeld'
<1>1. CASE UNCHANGED transferVars
  BY <1>1 DEF transferVars, FenceHeld, Blocking, Serving
<1>2. Movers \subseteq Clients /\ Restorers \subseteq Clients
  BY DEF Movers, Clients
<1>3. ASSUME NEW c \in Clients, Crash(c)
      PROVE  FenceHeld'
  <2>1. SameFence /\ fence' = fence
    BY <1>3 DEF Crash, SameFence
  <2>2. fence.status = "account_deny_confirmed" => fence.status # "none"
    OBVIOUS
  <2>3. QED
    BY <1>3, <2>1, <2>2, CrashStarts, FenceKept DEF AllTyped
<1>4. ASSUME NEW c \in Clients, Occupied(c), c \in Movers \/ ~Confirm(c)
      PROVE  FenceHeld'
  BY <1>4, FenceUnmoved, OccupiedStarts, FenceKept DEF AllTyped
<1>5. ASSUME NEW c \in Restorers, Enable(c) \/ Clear(c) \/ ReleaseAfterRestore(c)
      PROVE  FenceHeld'
  <2>1. Occupied(c) /\ ~Confirm(c)
    BY <1>5 DEF Occupied, Ruling, Enable, Clear, ReleaseAfterRestore, Confirm
  <2>2. QED
    BY <1>2, <1>4, <2>1
<1>6. CASE Elsewhere
  <2>1. UNCHANGED client
    BY <1>6 DEF Elsewhere, Batch, Expire, Admit, Land
  <2>2. fence'.status = fence.status /\ fence'.op = fence.op /\ fence'.token = fence.token
    BY <1>6 DEF Elsewhere, Batch, Expire, Admit, Land, AllTyped, FenceTyped, FenceRecord
  <2>3. NobodyStarts
    BY <2>1 DEF NobodyStarts, Serving
  <2>4. QED
    BY <2>2, <2>3, FenceKept DEF SameFence
<1>7. QED
  BY <1>1, <1>2, <1>3, <1>4, <1>5, <1>6, StepCases, StartFence, AcquireFence

(* Nobody works at first.                                                  *)
LEMMA FenceHeldInit == TransferInit => FenceHeld
<1> SUFFICES ASSUME TransferInit PROVE FenceHeld
  OBVIOUS
<1>1. \A c \in Clients : client[c].pc = "idle"
  BY AtRestTyped DEF TransferInit
<1>2. fence.status = "none"
  BY DEF TransferInit
<1>3. QED
  BY <1>1, <1>2 DEF FenceHeld, Blocking, Serving, Movers, Clients

(* Of the requests that work with the token of a fence that no deletion    *)
(* has confirmed only one is left, for any requests that take the fence    *)
(* over from one another.                                                  *)
OneHolder ==
    fence.status = "blocking" =>
        \A b, c \in Movers : Serving(b) /\ Serving(c) /\ Held(b) /\ Held(c) => b = c

THEOREM TransferFenceInvariant == TransferSpec => [](AllTyped /\ FenceHeld /\ OneHolder)
<1>1. AllTyped /\ FenceHeld /\ [TransferNext]_transferVars => (AllTyped /\ FenceHeld)'
  BY TransferTypeStep, FenceHeldStep
<1>2. TransferInit => AllTyped /\ FenceHeld
  BY TransferTypeInit, FenceHeldInit
<1>3. FenceHeld => OneHolder
  BY DEF FenceHeld, OneHolder, Held
<1>4. QED
  BY <1>1, <1>2, <1>3, PTL DEF TransferSpec

(* The steps between two renewals of the fence.  Whoever is at one of them *)
(* has the fence: no lease is outlived by what is done under it, and no    *)
(* restoration takes a confirmed fence away from a deletion that works.    *)
Steps ==
    {"look", "zero", "create", "merge", "apply", "put", "manifest", "inventory", "drained", "commit", "caught",
     "mark", "undo", "take_back", "take_back_manifest", "undone", "rolled_back"}
Timely == \A c \in Movers : client[c].pc \in Steps => Held(c)

(* A confirmed deletion that is repeated is repeated by one request at a   *)
(* time; its requests share the token.                                     *)
Holding(c) == Label(c) \in Steps /\ Held(c)
OneRepeats ==
    fence.status = "account_deny_confirmed" => \A b, c \in Movers : Holding(b) /\ Holding(c) => b = c

(* A request at such a step is at work.                                    *)
LEMMA TimelyWorks ==
    ASSUME Timely, NEW c \in Movers, client[c].pc \in Steps
    PROVE  Holding(c) /\ Label(c) = client[c].pc
BY DEF Timely, Holding, Label, Steps

(* Nobody else works.                                                      *)
LEMMA AloneAtWork ==
    ASSUME AllTyped, FenceHeld, OneRepeats, NEW b \in Movers, NEW c \in Movers, Holding(b), Holding(c)
    PROVE  b = c
<1>1. Serving(b) /\ Serving(c)
  BY DEF Holding, Serving, Steps, Label
<1>2. fence.status \in {"blocking", "account_deny_confirmed"}
  BY <1>1 DEF Holding, Held, FenceHeld, AllTyped, FenceTyped, FenceRecord
<1>3. QED
  BY <1>1, <1>2 DEF Holding, Held, FenceHeld, OneRepeats

(* Which steps may write a resource that somebody owns.                    *)
LEMMA ResourcesWritten ==
    ASSUME AllTyped, TransferNext, NEW a \in Assets, asset[a] # Nothing, asset'[a] # asset[a]
    PROVE  \E c \in Movers : Handing(c)
<1>1. ASSUME NEW c \in Clients, Occupied(c), ~Handing(c)
      PROVE  UNCHANGED resources
  <2>1. CASE Renew(c) \/ Release(c) \/ ReleaseAfterRestore(c) \/ Look(c) \/ LookAgain(c)
    BY <2>1 DEF Renew, Release, ReleaseAfterRestore, Look, LookAgain
  <2>2. CASE Private(c) \/ Advancing(c)
    BY <2>2 DEF Private, Zero, Apply, Undo, Caught, AssertHeld, Advancing, Create, Merge, Commit, Mark, RolledBack
  <2>3. CASE Record(c) \/ RecordRollback(c)
    BY <2>3 DEF Record, RecordRollback
  <2>4. CASE Ruling(c)
    BY <2>4 DEF Ruling, PrepareDeny, DenyAccount, CommitDeny, Confirm, RegisterDeletion, Disable, Enable, Clear
  <2>5. QED
    BY <1>1, <2>1, <2>2, <2>3, <2>4 DEF Occupied
<1>2. ASSUME NEW c \in Clients, Start(c) \/ Acquire(c) \/ StartRestore(c) \/ Crash(c)
      PROVE  UNCHANGED resources
  BY <1>2 DEF Start, Acquire, StartRestore, Crash
<1>3. Elsewhere => UNCHANGED asset \/ \E b \in Assets : asset[b] = Nothing /\ asset' = [asset EXCEPT ![b] = Mine]
  BY LandWrites DEF Elsewhere, Batch, Expire, Admit, resources
<1>4. ~Elsewhere
  BY <1>3 DEF AllTyped, ResourcesTyped
<1>5. \A c \in Restorers : Enable(c) \/ Clear(c) \/ ReleaseAfterRestore(c) => Occupied(c)
  BY DEF Occupied, Ruling
<1>6. \A c \in Restorers : Enable(c) \/ Clear(c) \/ ReleaseAfterRestore(c) => UNCHANGED resources
  BY DEF Enable, Clear, ReleaseAfterRestore
<1>7. ~UNCHANGED resources
  BY DEF resources
<1>8. Movers \subseteq Clients /\ Restorers \subseteq Clients
  BY DEF Movers, Clients
<1>9. QED
  BY <1>1, <1>2, <1>4, <1>6, <1>7, <1>8, StepCases

(* A resource changes hands only while the account cannot be used, before  *)
(* the step and after it, whoever took the fence over from whom.           *)
THEOREM HandedOverUnderFence == TransferSpec /\ []Timely => MovedUnderFence
<1> DEFINE Unused == \A a \in Assets : asset[a] # Nothing /\ asset'[a].owner # asset[a].owner => ~Usable /\ ~Usable'
<1>1. AllTyped /\ FenceHeld /\ Timely /\ [TransferNext]_transferVars => Unused
  <2> SUFFICES ASSUME AllTyped, FenceHeld, Timely, [TransferNext]_transferVars, NEW a \in Assets,
                      asset[a] # Nothing, asset'[a].owner # asset[a].owner
               PROVE  ~Usable /\ ~Usable'
    OBVIOUS
  <2>1. TransferNext
    BY DEF transferVars
  <2>2. PICK c \in Movers : Handing(c)
    BY <2>1, ResourcesWritten
  <2>3. client[c].pc \in Steps /\ UNCHANGED fence
    BY <2>2 DEF Handing, PutGroup, PutIndex, PutManifest, TakeBackGroup, TakeBackIndex, TakeBackManifest, Steps
  <2>4. Held(c) /\ fence.status # "none"
    BY <2>3 DEF Timely, FenceHeld, Serving, Steps
  <2>5. Blocking
    BY <2>4 DEF Held, Blocking, AllTyped, FenceTyped, FenceRecord
  <2>6. QED
    BY <2>3, <2>5 DEF Usable, Blocking
<1>2. [Unused]_transferVars => [\A a \in Assets :
         asset[a] # Nothing /\ asset'[a].owner # asset[a].owner => ~Usable /\ ~Usable']_transferVars
  OBVIOUS
<1> HIDE DEF Unused
<1>3. TransferSpec => [](AllTyped /\ FenceHeld)
  BY TransferFenceInvariant, PTL
<1>4. QED
  BY <1>1, <1>2, <1>3, PTL DEF TransferSpec, MovedUnderFence

-----------------------------------------------------------------------------
(* The resources.  Each is where the stored transfer says: one that it has *)
(* not recorded is nobody's or the account's, one that it has is the       *)
(* account's or the heir's.                                                *)
GivenBy(i) == [owner |-> i.heir, op |-> i.op]
ShownAs(a, names) == a \in Documents => index[a] \in names
Whole(a) == asset[a] = GivenBy(intent) /\ ShownAs(a, {intent.heir})
Back(a) == asset[a] = Mine /\ ShownAs(a, {Source})
Kept(a) == asset[a] \in {Nothing, Mine} /\ ShownAs(a, {asset[a].owner})

IntentStored ==
    /\ intent.status = "none" => intent = NoIntent
    /\ intent.status # "none" => intent.op >= 1 /\ intent.heir \in Heirs
    /\ \A a \in Assets : intent.moved[a] \in {Nothing, Mine}

ResourceInv(a) ==
    /\ intent.moved[a] = Nothing => Kept(a)
    /\ intent.moved[a] = Mine => asset[a] \in {Mine, GivenBy(intent)} /\ ShownAs(a, {Source, intent.heir})
    /\ intent.status = "committed" /\ intent.moved[a] = Mine => Whole(a)
    /\ intent.status = "rolled_back" => Kept(a)

(* The request that works knows the stored transfer since it has looked;   *)
(* what it has done already is whole, or back.                             *)
Putting == {"apply", "put", "manifest"}
Ending == {"inventory", "drained", "commit"}
Failing == {"caught", "mark"}
TakingBack == {"undo", "take_back", "take_back_manifest"}
Returned == {"undone", "rolled_back"}

Seen(c) ==
    \A a \in Assets : client[c].seen[a] \in {Nothing, Mine}
                      /\ (client[c].seen[a] = Mine => asset[a] # Nothing)

Informed(c) == Label(c) \notin {"idle", "acquire", "look"} => c \in current /\ client[c].copy = intent

Named(c) == Label(c) \in {"acquire", "look", "zero", "create"} =>
              client[c].heir \in Heirs /\ (Label(c) # "acquire" => client[c].op >= 1)

Status(c) ==
    /\ Label(c) = "zero" => intent.status = "none"
    /\ Label(c) = "create" => intent.status \in {"none", "rolled_back"}
    /\ Label(c) = "merge" => intent.status \in {"prepared", "transferring", "committed"}
    /\ Label(c) \in Putting \cup Ending \cup Failing => intent.status = "transferring"
    /\ Label(c) \in TakingBack \cup Returned => intent.status = "rollback_pending"

DoneSoFar(c) ==
    /\ Label(c) \in Putting \cup TakingBack => client[c].todo \subseteq Moved(intent)
    /\ Label(c) \in Putting => \A a \in Moved(intent) \ client[c].todo : Whole(a)
    /\ Label(c) \in Ending => \A a \in Moved(intent) : Whole(a)
    /\ Label(c) \in TakingBack /\ ~client[c].failed => \A a \in Moved(intent) \ client[c].todo : Back(a)
    /\ Label(c) \in Returned => \A a \in Moved(intent) : Back(a)

Document(c) ==
    LET a == First(client[c].todo) IN
    /\ Label(c) = "manifest" => a \in Documents /\ asset[a] = Mine /\ index[a] = intent.heir
    /\ Label(c) = "take_back_manifest" =>
         a \in Documents /\ asset[a] = GivenBy(intent) /\ index[a] = Source

MoverInv(c) == Seen(c) /\ Informed(c) /\ Named(c) /\ Status(c) /\ DoneSoFar(c) /\ Document(c)

(* A request that has lost the fence knows nothing any more.               *)
Trusted(c) == Label(c) \in {"idle", "acquire"} \/ Holding(c)

TransferInv ==
    /\ AllTyped /\ FenceHeld /\ IntentStored
    /\ \A a \in Assets : ResourceInv(a)
    /\ \A c \in Movers : Trusted(c) => MoverInv(c)

(* The values that tell who has a resource are distinct. *)
LEMMA Distinct ==
    /\ Mine # Nothing /\ Mine.owner = Source /\ Mine.op = 0 /\ Nothing.owner = "nobody" /\ Nothing.op = 0
    /\ Source # "nobody"
    /\ \A h \in Heirs : h # Source /\ h # "nobody"
BY TransferAssumption DEF Mine, Nothing

(* What the heir has been given is told from what the account has.         *)
LEMMA GivenApart ==
    ASSUME AllTyped, IntentStored, intent.status # "none"
    PROVE  /\ intent.heir \in Heirs /\ intent.op >= 1 /\ intent.op # 0
           /\ GivenBy(intent).owner = intent.heir /\ GivenBy(intent).op = intent.op
           /\ GivenBy(intent) # Mine /\ GivenBy(intent) # Nothing
<1>1. intent.op \in Nat /\ intent.op >= 1 /\ intent.heir \in Heirs
  <2>1. intent \in IntentRecord
    BY DEF AllTyped, IntentTyped
  <2>2. intent.op \in 0..MaxToken /\ MaxToken \in Nat
    BY <2>1, Numbers, IntentFields
  <2>3. QED
    BY <2>2 DEF IntentStored
<1>2. GivenBy(intent).owner = intent.heir /\ GivenBy(intent).op = intent.op
  BY DEF GivenBy
<1>3. QED
  BY <1>1, <1>2, Distinct

(* What the account owns it has not been given by a transfer.              *)
LEMMA OwnedIsMine ==
    ASSUME AllTyped, IntentStored, NEW a \in Assets, ResourceInv(a), asset[a].owner = Source
    PROVE  asset[a] = Mine
<1>1. CASE intent.moved[a] = Nothing
  BY <1>1, Distinct DEF ResourceInv, Kept
<1>2. CASE intent.moved[a] = Mine
  <2>1. intent.status # "none"
    BY <1>2, Distinct DEF IntentStored, NoIntent, NoAssets
  <2>2. asset[a] \in {Mine, GivenBy(intent)}
    BY <1>2 DEF ResourceInv
  <2>3. QED
    BY <2>1, <2>2, GivenApart, Distinct
<1>3. QED
  BY <1>1, <1>2 DEF IntentStored

(* A look finds only what somebody owns.                                   *)
LEMMA InventorySeen ==
    ASSUME AllTyped, IntentStored, NEW a \in Assets, ResourceInv(a)
    PROVE  Inventory[a] \in {Nothing, Mine} /\ (Inventory[a] = Mine => asset[a] # Nothing)
<1>1. Inventory[a] = IF asset[a].owner = Source THEN asset[a] ELSE Nothing
  BY DEF Inventory, Owned
<1>2. QED
  BY <1>1, OwnedIsMine, Distinct

(* What is recorded was the account's. *)
LEMMA MovedIsMine ==
    ASSUME IntentStored, NEW a \in Assets
    PROVE  (a \in Moved(intent)) = (intent.moved[a] = Mine)
BY Distinct DEF IntentStored, Moved

(* Others keep what they know. *)
LEMMA EndedFits ==
    ASSUME NEW c \in Clients, Ended(c)
    PROVE  MoverInv(c)'
<1>1. /\ client'[c].pc = "idle" /\ client'[c].seen = NoAssets
  BY AtRestTyped DEF Ended
<1>2. Label(c)' = "idle"
  BY <1>1 DEF Label
<1>3. Seen(c)'
  BY <1>1, Distinct DEF Seen, NoAssets
<1>4. Informed(c)' /\ Named(c)' /\ Document(c)'
  BY <1>2 DEF Informed, Named, Document
<1>5. Status(c)' /\ DoneSoFar(c)'
  BY <1>2 DEF Status, DoneSoFar, Putting, Ending, Failing, TakingBack, Returned
<1>6. QED
  BY <1>3, <1>4, <1>5 DEF MoverInv

(* A request that has not stepped knows what it knew if nothing was written.*)
LEMMA StillKeep ==
    ASSUME NEW b \in Clients, MoverInv(b), client'[b] = client[b], UNCHANGED <<asset, index, intent>>,
           b \in current => b \in current'
    PROVE  MoverInv(b)'
<1>1. Label(b)' = Label(b)
  BY DEF Label
<1>2. Seen(b)' /\ Informed(b)' /\ Named(b)' /\ Status(b)'
  BY <1>1 DEF MoverInv, Seen, Informed, Named, Status
<1>3. DoneSoFar(b)' /\ Document(b)'
  BY <1>1 DEF MoverInv, DoneSoFar, Document, Moved, Whole, Back, ShownAs, GivenBy
<1>4. QED
  BY <1>2, <1>3 DEF MoverInv

(* A request that is not at work only remembers what it has seen.          *)
LEMMA RestKeeps ==
    ASSUME NEW b \in Clients, MoverInv(b), Label(b) \in {"idle", "acquire"}, client'[b] = client[b],
           \A a \in Assets : asset[a] # Nothing => asset'[a] # Nothing
    PROVE  MoverInv(b)'
<1>1. Label(b)' = Label(b) /\ Label(b) \in {"idle", "acquire"}
  BY DEF Label
<1>2. Seen(b)' /\ Informed(b)' /\ Named(b)' /\ Document(b)'
  BY <1>1 DEF MoverInv, Seen, Informed, Named, Document
<1>3. Status(b)' /\ DoneSoFar(b)'
  BY <1>1 DEF Status, DoneSoFar, Putting, Ending, Failing, TakingBack, Returned
<1>4. QED
  BY <1>2, <1>3 DEF MoverInv

(* Nobody gets the fence by what another does.                             *)
LEMMA TrustedBefore ==
    ASSUME AllTyped, FenceHeld, NEW c \in Clients, NEW b \in Movers, b # c, Trusted(b)',
           Start(c) \/ Acquire(c) \/ StartRestore(c) \/ Crash(c) \/ (Occupied(c) /\ (c \in Movers \/ ~Confirm(c)))
    PROVE  Trusted(b)
<1>1. b \in Clients
  BY DEF Movers, Clients
<1>2. client'[b] = client[b] /\ Label(b)' = Label(b)
  BY <1>1, OthersStay DEF AllTyped
<1>3. SUFFICES ASSUME Label(b) \in Steps, Held(b)'
               PROVE  Held(b)
  BY <1>2 DEF Trusted, Holding
<1>4. CASE Start(c) \/ StartRestore(c) \/ Crash(c)
  BY <1>2, <1>3, <1>4 DEF Start, StartRestore, Crash, Held
<1>5. CASE Occupied(c) /\ (c \in Movers \/ ~Confirm(c))
  BY <1>2, <1>3, <1>5, FenceUnmoved DEF SameFence, Held
<1>6. CASE Acquire(c)
  <2>1. client[b].token <= fence.token
    BY <1>3 DEF FenceHeld, Serving, Steps, Label
  <2>2. client[b].token \in Nat /\ fence.token \in Nat
    BY <1>1, Numbers DEF AllTyped, ClientTyped, ClientRecord, FenceTyped, FenceRecord
  <2>3. fence'.token # fence.token + 1
    BY <1>2, <1>3, <2>1, <2>2 DEF Held
  <2>4. UNCHANGED fence
    BY <1>6, <2>3, AcquireToken
  <2>5. QED
    BY <1>2, <1>3, <2>4 DEF Held
<1>7. QED
  BY <1>4, <1>5, <1>6

(* A step that leaves the fence alone trusts whom it trusted.              *)
LEMMA TrustedStill ==
    ASSUME NEW b \in Clients, client'[b] = client[b], UNCHANGED fence
    PROVE  Trusted(b)' = Trusted(b)
BY DEF Trusted, Holding, Label, Held

(* The step of a request at work leaves the others with what they know.    *)
LEMMA OthersKeep ==
    ASSUME TransferInv, OneRepeats, NEW c \in Movers, Holding(c), Occupied(c),
           \A a \in Assets : asset[a] # Nothing => asset'[a] # Nothing
    PROVE  \A b \in Movers \ {c} : Trusted(b)' => MoverInv(b)'
<1>1. c \in Clients /\ Movers \subseteq Clients /\ AllTyped /\ FenceHeld
  BY DEF Movers, Clients, TransferInv
<1>2. ASSUME NEW b \in Movers \ {c}, Trusted(b)'
      PROVE  MoverInv(b)'
  <2>1. client'[b] = client[b] /\ b \in Clients
    BY <1>1, <1>2, OthersStay DEF AllTyped
  <2>2. Trusted(b)
    BY <1>1, <1>2, TrustedBefore
  <2>3. Label(b) \in {"idle", "acquire"}
    BY <1>1, <1>2, <2>2, AloneAtWork DEF Trusted
  <2>4. MoverInv(b)
    BY <2>2 DEF TransferInv
  <2>5. QED
    BY <2>1, <2>3, <2>4, RestKeeps
<1>3. QED
  BY <1>2

(* The stored transfer and the resources have not changed.                 *)
StoreKept == UNCHANGED <<asset, index, intent>>

(* Where nothing is written every resource stays where it belongs.         *)
LEMMA ResourcesKept ==
    ASSUME IntentStored, \A a \in Assets : ResourceInv(a), StoreKept
    PROVE  IntentStored' /\ \A a \in Assets : ResourceInv(a)'
<1>1. IntentStored'
  BY DEF StoreKept, IntentStored
<1>2. QED
  BY <1>1 DEF StoreKept, ResourceInv, Kept, Whole, ShownAs, GivenBy

(* A request that works goes to a label at which these things hold.        *)
LEMMA GoesFits ==
    ASSUME TransferInv, NEW c \in Movers, Trusted(c), StoreKept, current' = current, NEW label, Goes(c, label),
           Label(c) \notin {"idle", "acquire", "look"},
           label \notin {"idle", "acquire", "look", "zero", "create", "merge"},
           label \in Putting \cup Ending \cup Failing => intent.status = "transferring",
           label \in TakingBack \cup Returned => intent.status = "rollback_pending",
           label \in Putting \cup TakingBack => client[c].todo \subseteq Moved(intent),
           label \in Putting => \A a \in Moved(intent) \ client[c].todo : Whole(a),
           label \in Ending => \A a \in Moved(intent) : Whole(a),
           label \in TakingBack /\ ~client[c].failed => \A a \in Moved(intent) \ client[c].todo : Back(a),
           label \in Returned => \A a \in Moved(intent) : Back(a),
           label \notin {"manifest", "take_back_manifest"}
    PROVE  MoverInv(c)'
<1>1. c \in Clients /\ MoverInv(c)
  BY DEF Movers, Clients, TransferInv
<1>2. /\ Label(c)' = label /\ client'[c].copy = client[c].copy /\ client'[c].seen = client[c].seen
      /\ client'[c].todo = client[c].todo /\ client'[c].failed = client[c].failed
  BY DEF Goes, Turned
<1>3. Seen(c)' /\ Informed(c)' /\ Named(c)' /\ Status(c)' /\ Document(c)'
  BY <1>1, <1>2 DEF StoreKept, MoverInv, Seen, Informed, Named, Status, Document
<1>4. DoneSoFar(c)'
  BY <1>2 DEF StoreKept, DoneSoFar, Moved, Whole, Back, ShownAs, GivenBy
<1>5. QED
  BY <1>3, <1>4 DEF MoverInv

(* What each step of a request makes of what that request knows, first     *)
(* where it writes nothing that others see.                                *)
LEMMA RenewFits ==
    ASSUME TransferInv, NEW c \in Movers, Renew(c)
    PROVE  MoverInv(c)'
<1>1. c \in Clients /\ ClientTyped
  BY DEF Movers, Clients, TransferInv, AllTyped
<1>2. UNCHANGED <<asset, index, intent, current>>
  BY DEF Renew, resources, stored
<1>3. CASE Ended(c)
  BY <1>1, <1>3, EndedFits
<1>4. CASE Goes(c, Label(c)) /\ Held(c)
  <2>0. MoverInv(c)
    <3>1. Label(c) \in {"idle"} \cup Steps
      BY <1>1, ClientFields DEF Renew, Label, Steps
    <3>2. QED
      BY <1>4, <3>1 DEF Trusted, Holding, TransferInv
  <2>1. /\ Label(c)' = Label(c) /\ client'[c].copy = client[c].copy /\ client'[c].seen = client[c].seen
        /\ client'[c].todo = client[c].todo /\ client'[c].failed = client[c].failed
        /\ client'[c].op = client[c].op /\ client'[c].heir = client[c].heir
    BY <1>4 DEF Goes, Turned
  <2>2. Seen(c)' /\ Informed(c)' /\ Named(c)' /\ Status(c)' /\ Document(c)'
    BY <1>1, <1>2, <2>0, <2>1 DEF MoverInv, Seen, Informed, Named, Status, Document, GivenBy
  <2>3. DoneSoFar(c)'
    BY <1>1, <1>2, <2>0, <2>1 DEF MoverInv, DoneSoFar, Moved, Whole, Back, ShownAs, GivenBy
  <2>4. QED
    BY <2>2, <2>3 DEF MoverInv
<1>5. QED
  <2>1. Goes(c, Label(c)) \/ Ended(c)
    BY <1>1, RenewTurns
  <2>2. ~Held(c) => Ended(c)
    BY <1>1, EndEnds DEF Renew
  <2>3. QED
    BY <1>3, <1>4, <2>1, <2>2

(* A request that starts knows nothing, and claims nothing.                *)
LEMMA StartFits ==
    ASSUME TransferInv, NEW c \in Movers, Start(c)
    PROVE  MoverInv(c)'
<1>1. client'[c].pc = "acquire" /\ client'[c].heir \in Heirs /\ client'[c].seen = NoAssets
  BY StartTurns DEF TransferInv, AllTyped, Movers, Clients
<1>2. Label(c)' = "acquire"
  BY <1>1 DEF Label
<1>3. Seen(c)' /\ Informed(c)' /\ Named(c)' /\ Document(c)'
  BY <1>1, <1>2, Distinct DEF Seen, NoAssets, Informed, Named, Document
<1>4. Status(c)' /\ DoneSoFar(c)'
  BY <1>2 DEF Status, DoneSoFar, Putting, Ending, Failing, TakingBack, Returned
<1>5. QED
  BY <1>3, <1>4 DEF MoverInv

(* A request that gets the fence has an operation to work under.           *)
LEMMA AcquireFits ==
    ASSUME TransferInv, NEW c \in Movers, Acquire(c)
    PROVE  MoverInv(c)'
<1>1. c \in Clients /\ MoverInv(c) /\ AllTyped /\ FenceHeld /\ client[c].pc = "acquire"
  BY DEF Movers, Clients, TransferInv, Acquire, Trusted, Label
<1>2. UNCHANGED <<asset, index, intent, current>>
  BY DEF Acquire, resources, stored
<1>3. Label(c) = "acquire"
  BY <1>1 DEF Label
<1>4. CASE Ended(c)
  BY <1>1, <1>4, EndedFits
<1>5. ASSUME NEW op, op >= 1, Turned(c, "look", op, client[c].copy, client[c].seen, client[c].todo,
                                     client[c].empty, client[c].failed)
      PROVE  MoverInv(c)'
  <2>1. /\ Label(c)' = "look" /\ client'[c].seen = client[c].seen /\ client'[c].op = op
        /\ client'[c].heir = client[c].heir
    BY <1>5 DEF Turned
  <2>2. Seen(c)' /\ Informed(c)' /\ Named(c)' /\ Document(c)'
    BY <1>1, <1>2, <1>3, <1>5, <2>1 DEF MoverInv, Seen, Informed, Named, Document
  <2>3. Status(c)' /\ DoneSoFar(c)'
    BY <2>1 DEF Status, DoneSoFar, Putting, Ending, Failing, TakingBack, Returned
  <2>4. QED
    BY <2>2, <2>3 DEF MoverInv
<1>6. Blocking => fence.op >= 1
  BY <1>1 DEF FenceHeld
<1>7. Blocking' => fence'.op >= 1
  BY <1>1, AcquireFence DEF FenceHeld
<1>8. CASE fence.status = "account_deny_confirmed" /\ UNCHANGED fence
  BY <1>1, <1>4, <1>5, <1>6, <1>8, AcquireTurns DEF Blocking
<1>9. CASE fence'.status = "blocking" /\ Turned(c, "look", fence'.op, client[c].copy, client[c].seen,
                                                client[c].todo, client[c].empty, client[c].failed)
  <2>1. fence'.op >= 1
    BY <1>7, <1>9 DEF Blocking
  <2>2. QED
    BY <1>5, <1>9, <2>1
<1>10. QED
  BY <1>1, <1>4, <1>8, <1>9, AcquireTurns

(* The steps that only change the label of a request.                      *)
LEMMA QuietFits ==
    ASSUME TransferInv, NEW c \in Movers, Trusted(c),
           Apply(c) \/ Undo(c) \/ Caught(c) \/ Record(c) \/ RecordRollback(c)
    PROVE  MoverInv(c)'
<1>1. c \in Clients /\ MoverInv(c) /\ ClientTyped
  BY DEF Movers, Clients, TransferInv, AllTyped
<1>2. StoreKept /\ current' = current
  BY DEF Apply, Undo, Caught, Record, RecordRollback, StoreKept, resources, stored
<1>3. CASE Ended(c)
  BY <1>1, <1>3, EndedFits
<1>4. Status(c) /\ DoneSoFar(c)
  BY <1>1 DEF MoverInv
<1>5. CASE Apply(c)
  <2>1. Label(c) = "apply"
    BY <1>5 DEF Apply, Label
  <2>2. CASE client[c].todo = {}
    <3>1. Goes(c, "inventory")
      BY <1>1, <1>5, <2>2, ApplyTurns
    <3>2. QED
      BY <1>2, <1>4, <2>1, <2>2, <3>1, GoesFits DEF Status, DoneSoFar, Putting, Ending, Failing, TakingBack,
          Returned
  <2>3. CASE client[c].todo # {}
    <3>1. Goes(c, "put")
      BY <1>1, <1>5, <2>3, ApplyTurns
    <3>2. QED
      BY <1>2, <1>4, <2>1, <3>1, GoesFits DEF Status, DoneSoFar, Putting, Ending, Failing, TakingBack, Returned
  <2>4. QED
    BY <2>2, <2>3
<1>6. CASE Undo(c)
  <2>1. Label(c) = "undo"
    BY <1>6 DEF Undo, Label
  <2>2. CASE client[c].todo = {} /\ ~client[c].failed /\ Goes(c, "undone")
    BY <1>2, <1>4, <2>1, <2>2, GoesFits DEF Status, DoneSoFar, Putting, Ending, Failing, TakingBack, Returned
  <2>3. CASE client[c].todo # {} /\ Goes(c, "take_back")
    BY <1>2, <1>4, <2>1, <2>3, GoesFits DEF Status, DoneSoFar, Putting, Ending, Failing, TakingBack, Returned
  <2>4. QED
    BY <1>1, <1>3, <1>6, <2>2, <2>3, UndoTurns
<1>7. CASE Caught(c)
  <2>1. Label(c) = "caught"
    BY <1>7 DEF Caught, Label
  <2>2. CASE Goes(c, "mark")
    BY <1>2, <1>4, <2>1, <2>2, GoesFits DEF Status, Putting, Ending, Failing, TakingBack, Returned
  <2>3. QED
    BY <1>1, <1>3, <1>7, <2>2, CaughtTurns
<1>8. CASE Record(c)
  <2>1. Label(c) = "drained"
    BY <1>8 DEF Record, Label
  <2>2. CASE Goes(c, "commit")
    BY <1>2, <1>4, <2>1, <2>2, GoesFits DEF Status, DoneSoFar, Putting, Ending, Failing, TakingBack, Returned
  <2>3. QED
    BY <1>1, <1>3, <1>8, <2>2, EnterGoes, EndEnds DEF Record
<1>9. CASE RecordRollback(c)
  <2>1. Label(c) = "undone"
    BY <1>9 DEF RecordRollback, Label
  <2>2. CASE Goes(c, "rolled_back")
    BY <1>2, <1>4, <2>1, <2>2, GoesFits DEF Status, DoneSoFar, Putting, Ending, Failing, TakingBack, Returned
  <2>3. QED
    BY <1>1, <1>3, <1>9, <2>2, EnterGoes, EndEnds DEF RecordRollback
<1>10. QED
  BY <1>5, <1>6, <1>7, <1>8, <1>9

(* What a request does once the transfer is settled.                       *)
LEMMA BeyondFits ==
    ASSUME TransferInv, NEW c \in Movers, Release(c) \/ Ruling(c) \/ AssertHeld(c)
    PROVE  StoreKept /\ current' = current /\ (Trusted(c)' => MoverInv(c)')
<1>1. c \in Clients /\ ClientTyped
  BY DEF Movers, Clients, TransferInv, AllTyped
<1>2. StoreKept /\ current' = current
  <2>1. CASE Release(c) \/ AssertHeld(c)
    BY <2>1 DEF Release, AssertHeld, StoreKept, resources, stored
  <2>2. CASE Ruling(c)
    BY <2>2 DEF Ruling, PrepareDeny, DenyAccount, CommitDeny, Confirm, RegisterDeletion, Disable, Enable, Clear,
        StoreKept, resources, stored
  <2>3. QED
    BY <2>1, <2>2
<1>3. \/ Ended(c)
      \/ Label(c)' \in {"prepare_deny", "deny", "commit_deny", "confirm", "register", "disable", "delete", "clear",
                       "unfence"}
  <2>1. CASE Release(c)
    BY <1>1, <2>1, EndEnds DEF Release
  <2>2. CASE Ruling(c)
    BY <1>1, <2>2, RulingTurns DEF Goes, Turned
  <2>3. CASE AssertHeld(c)
    BY <1>1, <2>3, AssertTurns DEF Turned
  <2>4. QED
    BY <2>1, <2>2, <2>3
<1>4. ~Ended(c) => ~Trusted(c)'
  BY <1>3 DEF Trusted, Holding, Steps
<1>5. QED
  BY <1>1, <1>2, <1>4, EndedFits

(* A look learns the stored transfer.                                      *)
LEMMA LookFits ==
    ASSUME TransferInv, NEW c \in Movers, Trusted(c), Look(c)
    PROVE  MoverInv(c)'
<1>1. c \in Clients /\ MoverInv(c) /\ ClientTyped /\ IntentTyped /\ ResourcesTyped
  BY DEF Movers, Clients, TransferInv, AllTyped
<1>2. StoreKept /\ client[c].pc = "look"
  BY DEF Look, StoreKept, resources
<1>3. Label(c) = "look"
  BY <1>2 DEF Label
<1>4. \A a \in Assets : Inventory[a] \in {Nothing, Mine} /\ (Inventory[a] = Mine => asset[a] # Nothing)
  BY InventorySeen DEF TransferInv
<1>5. ASSUME NEW label, NEW todo, current' = current \cup {c},
             Turned(c, label, client[c].op, intent, Inventory, todo, client[c].empty, client[c].failed),
             \/ label = "release"
             \/ label = "zero" /\ intent.status = "none"
             \/ label = "undo" /\ intent.status = "rollback_pending" /\ todo = Moved(intent)
             \/ label = "create" /\ intent.status \in {"none", "rolled_back"}
             \/ label = "merge" /\ intent.status \in {"prepared", "transferring", "committed"}
      PROVE  MoverInv(c)'
  <2>1. /\ Label(c)' = label /\ client'[c].copy = intent /\ client'[c].seen = Inventory
        /\ client'[c].todo = todo /\ client'[c].op = client[c].op /\ client'[c].heir = client[c].heir
    BY <1>5 DEF Turned
  <2>2. Seen(c)'
    BY <1>2, <1>4, <2>1 DEF StoreKept, Seen
  <2>3. Informed(c)' /\ Named(c)'
    BY <1>1, <1>2, <1>3, <1>5, <2>1 DEF StoreKept, MoverInv, Informed, Named
  <2>4. Document(c)'
    BY <1>5, <2>1 DEF Document
  <2>5. Status(c)'
    BY <1>2, <1>5, <2>1 DEF StoreKept, Status, Putting, Ending, Failing, TakingBack, Returned
  <2>6. DoneSoFar(c)'
    BY <1>2, <1>5, <2>1 DEF StoreKept, DoneSoFar, Putting, Ending, TakingBack, Returned, Moved
  <2>7. QED
    BY <2>2, <2>3, <2>4, <2>5, <2>6 DEF MoverInv
<1>6. CASE Ended(c)
  BY <1>1, <1>6, EndedFits
<1>7. QED
  BY <1>1, <1>5, <1>6, LookTurns

(* A request without anything to hand over has stored nothing.             *)
LEMMA ZeroFits ==
    ASSUME TransferInv, NEW c \in Movers, Trusted(c), Zero(c)
    PROVE  MoverInv(c)'
<1>1. c \in Clients /\ MoverInv(c) /\ ClientTyped /\ ResourcesTyped
  BY DEF Movers, Clients, TransferInv, AllTyped
<1>2. StoreKept /\ client[c].pc = "zero" /\ current' = current
  BY DEF Zero, StoreKept, resources, stored
<1>3. Label(c) = "zero"
  BY <1>2 DEF Label
<1>4. \A a \in Assets : Inventory[a] \in {Nothing, Mine} /\ (Inventory[a] = Mine => asset[a] # Nothing)
  BY InventorySeen DEF TransferInv
<1>5. intent.status = "none"
  BY <1>1, <1>3 DEF MoverInv, Status
<1>6. ASSUME NEW label \in {"create", "zero", "prepare_deny", "release"}, NEW empty,
             Turned(c, label, client[c].op, client[c].copy, Inventory, client[c].todo, empty, client[c].failed)
      PROVE  MoverInv(c)'
  <2>1. /\ Label(c)' = label /\ client'[c].copy = client[c].copy /\ client'[c].seen = Inventory
        /\ client'[c].todo = client[c].todo /\ client'[c].op = client[c].op /\ client'[c].heir = client[c].heir
    BY <1>6 DEF Turned
  <2>2. Seen(c)'
    BY <1>2, <1>4, <2>1 DEF StoreKept, Seen
  <2>3. Informed(c)' /\ Named(c)' /\ Document(c)'
    BY <1>1, <1>2, <1>3, <2>1 DEF StoreKept, MoverInv, Informed, Named, Document
  <2>4. Status(c)' /\ DoneSoFar(c)'
    BY <1>2, <1>5, <2>1 DEF StoreKept, Status, DoneSoFar, Putting, Ending, Failing, TakingBack, Returned
  <2>5. QED
    BY <2>2, <2>3, <2>4 DEF MoverInv
<1>7. QED
  BY <1>1, <1>6, ZeroTurns

(* A further look, with everything given.                                  *)
LEMMA LookAgainFits ==
    ASSUME TransferInv, NEW c \in Movers, Trusted(c), LookAgain(c)
    PROVE  MoverInv(c)'
<1>1. c \in Clients /\ MoverInv(c) /\ ClientTyped /\ ResourcesTyped
  BY DEF Movers, Clients, TransferInv, AllTyped
<1>2. StoreKept /\ client[c].pc = "inventory" /\ current' = current
  BY DEF LookAgain, StoreKept, resources, stored
<1>3. Label(c) = "inventory"
  BY <1>2 DEF Label
<1>4. \A a \in Assets : Inventory[a] \in {Nothing, Mine} /\ (Inventory[a] = Mine => asset[a] # Nothing)
  BY InventorySeen DEF TransferInv
<1>5. intent.status = "transferring" /\ (\A a \in Moved(intent) : Whole(a)) /\ client[c].copy = intent
  BY <1>1, <1>3 DEF MoverInv, Status, DoneSoFar, Informed, Ending
<1>6. ASSUME NEW label \in {"merge", "apply", "drained", "caught"}, NEW seen \in {Inventory, client[c].seen},
             NEW todo, NEW empty, label = "apply" => todo = Moved(intent),
             Turned(c, label, client[c].op, client[c].copy, seen, todo, empty, client[c].failed)
      PROVE  MoverInv(c)'
  <2>1. /\ Label(c)' = label /\ client'[c].copy = client[c].copy /\ client'[c].seen = seen
        /\ client'[c].todo = todo
    BY <1>6 DEF Turned
  <2>2. Seen(c)'
    BY <1>1, <1>2, <1>4, <2>1 DEF StoreKept, MoverInv, Seen
  <2>3. Informed(c)' /\ Named(c)' /\ Document(c)'
    BY <1>1, <1>2, <1>3, <2>1 DEF StoreKept, MoverInv, Informed, Named, Document
  <2>4. Status(c)'
    BY <1>2, <1>5, <2>1 DEF StoreKept, Status, Putting, Ending, Failing, TakingBack, Returned
  <2>5. DoneSoFar(c)'
    BY <1>2, <1>5, <1>6, <2>1 DEF StoreKept, DoneSoFar, Putting, Ending, TakingBack, Returned, Moved, Whole,
        ShownAs,
                                  GivenBy
  <2>6. QED
    BY <2>2, <2>3, <2>4, <2>5 DEF MoverInv
<1>7. CASE Goes(c, "caught")
  BY <1>6, <1>7 DEF Goes
<1>8. QED
  BY <1>1, <1>5, <1>6, <1>7, LookAgainTurns

(* Steps that write the stored transfer.                                   *)
StoredWell == IntentStored /\ \A a \in Assets : ResourceInv(a)

(* A transfer is stored with nothing but what the account has.             *)
LEMMA CreateKeeps ==
    ASSUME TransferInv, NEW c \in Movers, Trusted(c), Create(c)
    PROVE  StoredWell' /\ MoverInv(c)'
<1>1. c \in Clients /\ MoverInv(c) /\ ClientTyped /\ IntentTyped
  BY DEF Movers, Clients, TransferInv, AllTyped
<1>2. UNCHANGED <<asset, index>> /\ client[c].pc = "create"
  BY DEF Create, resources
<1>3. Label(c) = "create"
  BY <1>2 DEF Label
<1>4. /\ c \in current /\ intent.status \in {"none", "rolled_back"} /\ client[c].heir \in Heirs /\ client[c].op >= 1
      /\ \A a \in Assets : client[c].seen[a] \in {Nothing, Mine} /\ (client[c].seen[a] = Mine => asset[a] # Nothing)
  BY <1>1, <1>3 DEF MoverInv, Informed, Status, Named, Seen
<1>5. /\ intent' = New(c) /\ current' = {c}
      /\ Turned(c, "merge", client[c].op, intent', client[c].seen, client[c].todo, client[c].empty,
                client[c].failed)
  BY <1>1, <1>4, CreateTurns
<1>6. /\ intent'.status = "prepared" /\ intent'.op = client[c].op /\ intent'.heir = client[c].heir
      /\ intent'.moved = client[c].seen
  BY <1>5 DEF New
<1>7. IntentStored'
  BY <1>4, <1>6 DEF IntentStored
<1>8. ASSUME NEW a \in Assets
      PROVE  ResourceInv(a)'
  <2>1. Kept(a)
    BY <1>4, Distinct DEF TransferInv, ResourceInv, IntentStored, NoIntent, NoAssets
  <2>2. Kept(a)'
    BY <1>2, <2>1 DEF Kept, ShownAs
  <2>3. intent'.moved[a] = Mine => asset[a] = Mine /\ ShownAs(a, {Source})
    BY <1>4, <1>6, <2>1, Distinct DEF Kept, ShownAs
  <2>4. QED
    BY <1>2, <1>6, <2>2, <2>3 DEF ResourceInv, ShownAs
<1>9. MoverInv(c)'
  <2>1. Label(c)' = "merge" /\ client'[c].copy = intent' /\ client'[c].seen = client[c].seen
    BY <1>5 DEF Turned
  <2>2. Seen(c)'
    BY <1>2, <1>4, <2>1 DEF Seen
  <2>3. Informed(c)' /\ Named(c)' /\ Document(c)'
    BY <1>5, <2>1 DEF Informed, Named, Document
  <2>4. Status(c)' /\ DoneSoFar(c)'
    BY <1>6, <2>1 DEF Status, DoneSoFar, Putting, Ending, Failing, TakingBack, Returned
  <2>5. QED
    BY <2>2, <2>3, <2>4 DEF MoverInv
<1>10. QED
  BY <1>7, <1>8, <1>9 DEF StoredWell

(* So is what is merged into it.                                           *)
LEMMA MergeKeeps ==
    ASSUME TransferInv, NEW c \in Movers, Trusted(c), Merge(c)
    PROVE  StoredWell' /\ MoverInv(c)'
<1>1. c \in Clients /\ MoverInv(c) /\ ClientTyped /\ IntentTyped /\ StoredWell
  BY DEF Movers, Clients, TransferInv, AllTyped, StoredWell
<1>2. UNCHANGED <<asset, index>> /\ client[c].pc = "merge"
  BY DEF Merge, resources
<1>3. Label(c) = "merge"
  BY <1>2 DEF Label
<1>4. /\ c \in current /\ intent.status \in {"prepared", "transferring", "committed"} /\ client[c].copy = intent
      /\ \A a \in Assets : client[c].seen[a] \in {Nothing, Mine} /\ (client[c].seen[a] = Mine => asset[a] # Nothing)
  BY <1>1, <1>3 DEF MoverInv, Informed, Status, Seen
<1>5. CASE /\ client[c].copy.status \notin {"prepared", "committed"}
           /\ intent' = intent /\ current' = current
           /\ Turned(c, "apply", client[c].op, client[c].copy, client[c].seen, Moved(client[c].copy),
                     client[c].empty, client[c].failed)
  <2>1. StoreKept
    BY <1>2, <1>5 DEF StoreKept
  <2>2. StoredWell'
    BY <1>1, <2>1, ResourcesKept DEF StoredWell
  <2>3. /\ Label(c)' = "apply" /\ client'[c].copy = intent /\ client'[c].seen = client[c].seen
        /\ client'[c].todo = Moved(intent)
    BY <1>4, <1>5 DEF Turned
  <2>4. Seen(c)' /\ Informed(c)' /\ Named(c)' /\ Document(c)'
    BY <1>2, <1>4, <1>5, <2>3 DEF Seen, Informed, Named, Document
  <2>5. intent.status = "transferring"
    BY <1>4, <1>5
  <2>6. Status(c)' /\ DoneSoFar(c)'
    BY <1>5, <2>3, <2>5 DEF Status, DoneSoFar, Putting, Ending, Failing, TakingBack, Returned, Moved
  <2>7. QED
    BY <2>2, <2>4, <2>6 DEF MoverInv
<1>6. CASE /\ current' = {c} /\ intent' = Restated(client[c].copy, "transferring", Both(c))
           /\ Turned(c, "merge", client[c].op, intent', NoAssets, client[c].todo, client[c].empty,
                     client[c].failed)
  <2>1. intent'.status = "transferring" /\ intent'.moved = Both(c) /\ intent'.op = intent.op /\ intent'.heir = intent.heir
    BY <1>1, <1>4, <1>6, RestatedFields DEF IntentTyped
  <2>2. \A a \in Assets : /\ Both(c)[a] \in {Nothing, Mine}
                          /\ Both(c)[a] = Nothing => intent.moved[a] = Nothing
                          /\ Both(c)[a] = Mine => intent.moved[a] = Mine \/ (intent.moved[a] = Nothing /\ asset[a] # Nothing)
    BY <1>1, <1>4, Distinct DEF Both, Added, StoredWell, IntentStored
  <2>3. intent.status # "none"
    BY <1>4
  <2>4. IntentStored'
    BY <1>1, <2>1, <2>2, <2>3 DEF StoredWell, IntentStored
  <2>5. ASSUME NEW a \in Assets
        PROVE  ResourceInv(a)'
    <3>1. Kept(a) => Kept(a)'
      BY <1>2 DEF Kept, ShownAs
    <3>2. ResourceInv(a)
      BY <1>1 DEF StoredWell
    <3>3. intent'.moved[a] = Nothing => Kept(a)'
      BY <2>1, <2>2, <3>1, <3>2 DEF ResourceInv
    <3>4. intent'.moved[a] = Mine => asset[a] \in {Mine, GivenBy(intent)} /\ ShownAs(a, {Source, intent.heir})
      BY <2>1, <2>2, <3>2, Distinct DEF ResourceInv, Kept, ShownAs
    <3>5. QED
      BY <1>2, <2>1, <3>3, <3>4 DEF ResourceInv, ShownAs, GivenBy
  <2>6. MoverInv(c)'
    <3>1. Label(c)' = "merge" /\ client'[c].copy = intent' /\ client'[c].seen = NoAssets
      BY <1>6 DEF Turned
    <3>2. Seen(c)' /\ Informed(c)' /\ Named(c)' /\ Document(c)'
      BY <1>6, <3>1, Distinct DEF Seen, NoAssets, Informed, Named, Document
    <3>3. Status(c)' /\ DoneSoFar(c)'
      BY <2>1, <3>1 DEF Status, DoneSoFar, Putting, Ending, Failing, TakingBack, Returned
    <3>4. QED
      BY <3>2, <3>3 DEF MoverInv
  <2>7. QED
    BY <2>4, <2>5, <2>6 DEF StoredWell
<1>7. QED
  BY <1>1, <1>4, <1>5, <1>6, MergeTurns

(* A request at work that restates the stored transfer writes it.          *)
LEMMA AdvancedStored ==
    ASSUME TransferInv, NEW c \in Movers, Trusted(c), Label(c) \notin {"idle", "acquire", "look"}, NEW status, NEW label, NEW todo,
           Advanced(c, status, label, todo)
    PROVE  /\ current' = {c} /\ client[c].copy = intent
           /\ intent'.status = status /\ intent'.moved = intent.moved /\ intent'.op = intent.op
           /\ intent'.heir = intent.heir
           /\ Turned(c, label, client[c].op, intent', client[c].seen, todo, client[c].empty, client[c].failed)
<1>1. c \in current /\ client[c].copy = intent /\ intent \in IntentRecord
  BY DEF TransferInv, AllTyped, IntentTyped, MoverInv, Informed
<1>2. /\ current' = {c} /\ intent' = Restated(client[c].copy, status, client[c].copy.moved)
      /\ Turned(c, label, client[c].op, intent', client[c].seen, todo, client[c].empty, client[c].failed)
  BY <1>1 DEF Advanced
<1>3. QED
  BY <1>1, <1>2, RestatedFields

(* A transfer is committed when everything it recorded is given.           *)
LEMMA CommitKeeps ==
    ASSUME TransferInv, NEW c \in Movers, Trusted(c), Commit(c)
    PROVE  StoredWell' /\ MoverInv(c)'
<1>1. c \in Clients /\ MoverInv(c) /\ ClientTyped /\ IntentTyped /\ StoredWell
  BY DEF Movers, Clients, TransferInv, AllTyped, StoredWell
<1>2. UNCHANGED <<asset, index>> /\ client[c].pc = "commit"
  BY DEF Commit, resources
<1>3. Label(c) = "commit"
  BY <1>2 DEF Label
<1>4. intent.status = "transferring" /\ \A a \in Moved(intent) : Whole(a)
  BY <1>1, <1>3 DEF MoverInv, Status, DoneSoFar, Ending
<1> DEFINE label == IF c \in Deleters THEN "assert" ELSE "release"
<1>5. /\ current' = {c} /\ intent'.status = "committed" /\ intent'.moved = intent.moved /\ intent'.op = intent.op
      /\ intent'.heir = intent.heir
      /\ Turned(c, label, client[c].op, intent', client[c].seen, client[c].todo, client[c].empty,
                client[c].failed)
  BY <1>1, <1>3, CommitTurns, AdvancedStored
<1>6. label \in {"assert", "release"}
  OBVIOUS
<1> HIDE DEF label
<1>7. IntentStored'
  BY <1>1, <1>4, <1>5 DEF StoredWell, IntentStored
<1>8. ASSUME NEW a \in Assets
      PROVE  ResourceInv(a)'
  <2>1. intent.moved[a] = Mine => Whole(a)
    BY <1>1, <1>4, MovedIsMine DEF StoredWell
  <2>2. Whole(a) => Whole(a)'
    BY <1>2, <1>5 DEF Whole, GivenBy, ShownAs
  <2>3. intent.moved[a] = Nothing => Kept(a)'
    BY <1>1, <1>2 DEF StoredWell, ResourceInv, Kept, ShownAs
  <2>4. Whole(a)' => asset'[a] = GivenBy(intent)' /\ ShownAs(a, {Source, intent.heir})'
    BY <1>5 DEF Whole, ShownAs
  <2>5. QED
    BY <1>5, <2>1, <2>2, <2>3, <2>4 DEF ResourceInv
<1>9. MoverInv(c)'
  <2>1. Label(c)' = label /\ client'[c].copy = intent' /\ client'[c].seen = client[c].seen
    BY <1>5 DEF Turned
  <2>2. Seen(c)'
    BY <1>1, <1>2, <2>1 DEF MoverInv, Seen
  <2>3. Informed(c)' /\ Named(c)' /\ Document(c)'
    BY <1>5, <1>6, <2>1 DEF Informed, Named, Document
  <2>4. Status(c)' /\ DoneSoFar(c)'
    BY <1>6, <2>1 DEF Status, DoneSoFar, Putting, Ending, Failing, TakingBack, Returned
  <2>5. QED
    BY <2>2, <2>3, <2>4 DEF MoverInv
<1>10. QED
  BY <1>7, <1>8, <1>9 DEF StoredWell

(* A rollback may begin at any resource.                                   *)
LEMMA MarkKeeps ==
    ASSUME TransferInv, NEW c \in Movers, Trusted(c), Mark(c)
    PROVE  StoredWell' /\ MoverInv(c)'
<1>1. c \in Clients /\ MoverInv(c) /\ ClientTyped /\ IntentTyped /\ StoredWell
  BY DEF Movers, Clients, TransferInv, AllTyped, StoredWell
<1>2. UNCHANGED <<asset, index>> /\ client[c].pc = "mark"
  BY DEF Mark, resources
<1>3. Label(c) = "mark"
  BY <1>2 DEF Label
<1>4. intent.status = "transferring"
  BY <1>1, <1>3 DEF MoverInv, Status, Failing
<1>5. /\ current' = {c} /\ intent'.status = "rollback_pending" /\ intent'.moved = intent.moved
      /\ intent'.op = intent.op /\ intent'.heir = intent.heir
      /\ Turned(c, "undo", client[c].op, intent', client[c].seen, Moved(intent), client[c].empty,
                client[c].failed)
  BY <1>1, <1>3, MarkTurns, AdvancedStored
<1>6. IntentStored'
  BY <1>1, <1>4, <1>5 DEF StoredWell, IntentStored
<1>7. \A a \in Assets : ResourceInv(a)'
  BY <1>1, <1>2, <1>5 DEF StoredWell, ResourceInv, Kept, ShownAs, GivenBy
<1>8. MoverInv(c)'
  <2>1. /\ Label(c)' = "undo" /\ client'[c].copy = intent' /\ client'[c].seen = client[c].seen
        /\ client'[c].todo = Moved(intent)
    BY <1>5 DEF Turned
  <2>2. Seen(c)'
    BY <1>1, <1>2, <2>1 DEF MoverInv, Seen
  <2>3. Informed(c)' /\ Named(c)' /\ Document(c)'
    BY <1>5, <2>1 DEF Informed, Named, Document
  <2>4. Moved(intent)' = Moved(intent)
    BY <1>5 DEF Moved
  <2>5. Status(c)' /\ DoneSoFar(c)'
    BY <1>5, <2>1, <2>4 DEF Status, DoneSoFar, Putting, Ending, Failing, TakingBack, Returned
  <2>6. QED
    BY <2>2, <2>3, <2>5 DEF MoverInv
<1>9. QED
  BY <1>6, <1>7, <1>8 DEF StoredWell

(* It ends when everything is back.                                        *)
LEMMA RolledBackKeeps ==
    ASSUME TransferInv, NEW c \in Movers, Trusted(c), RolledBack(c)
    PROVE  StoredWell' /\ MoverInv(c)'
<1>1. c \in Clients /\ MoverInv(c) /\ ClientTyped /\ IntentTyped /\ StoredWell
  BY DEF Movers, Clients, TransferInv, AllTyped, StoredWell
<1>2. UNCHANGED <<asset, index>> /\ client[c].pc = "rolled_back"
  BY DEF RolledBack, resources
<1>3. Label(c) = "rolled_back"
  BY <1>2 DEF Label
<1>4. intent.status = "rollback_pending" /\ \A a \in Moved(intent) : Back(a)
  BY <1>1, <1>3 DEF MoverInv, Status, DoneSoFar, Returned
<1>5. /\ current' = {c} /\ intent'.status = "rolled_back" /\ intent'.moved = intent.moved
      /\ intent'.op = intent.op /\ intent'.heir = intent.heir
      /\ Turned(c, "release", client[c].op, intent', client[c].seen, client[c].todo, client[c].empty,
                client[c].failed)
  BY <1>1, <1>3, RolledBackTurns, AdvancedStored
<1>6. IntentStored'
  BY <1>1, <1>4, <1>5 DEF StoredWell, IntentStored
<1>7. ASSUME NEW a \in Assets
      PROVE  ResourceInv(a)'
  <2>1. intent.moved[a] = Mine => Back(a)
    BY <1>1, <1>4, MovedIsMine DEF StoredWell
  <2>2. intent.moved[a] = Nothing => Kept(a)
    BY <1>1 DEF StoredWell, ResourceInv
  <2>3. Kept(a)
    BY <1>1, <2>1, <2>2, Distinct DEF StoredWell, IntentStored, Kept, Back
  <2>4. Kept(a)'
    BY <1>2, <2>3 DEF Kept, ShownAs
  <2>5. intent.moved[a] = Mine => asset'[a] = Mine /\ ShownAs(a, {Source, intent.heir})'
    BY <1>2, <2>1 DEF Back, ShownAs
  <2>6. QED
    BY <1>5, <2>4, <2>5 DEF ResourceInv
<1>8. MoverInv(c)'
  <2>1. Label(c)' = "release" /\ client'[c].copy = intent' /\ client'[c].seen = client[c].seen
    BY <1>5 DEF Turned
  <2>2. Seen(c)'
    BY <1>1, <1>2, <2>1 DEF MoverInv, Seen
  <2>3. Informed(c)' /\ Named(c)' /\ Document(c)'
    BY <1>5, <2>1 DEF Informed, Named, Document
  <2>4. Status(c)' /\ DoneSoFar(c)'
    BY <2>1 DEF Status, DoneSoFar, Putting, Ending, Failing, TakingBack, Returned
  <2>5. QED
    BY <2>2, <2>3, <2>4 DEF MoverInv
<1>9. QED
  BY <1>6, <1>7, <1>8 DEF StoredWell

-----------------------------------------------------------------------------
(* The hand-over and the return keep the invariant: they touch one         *)
(* resource, which the request has left to do.                             *)
Touched(a) ==
    \A b \in Assets \ {a} : asset'[b] = asset[b] /\ (b \in Documents => index'[b] = index[b])

(* What a request knows of the resource that it gives or takes back.       *)
LEMMA HandingFacts ==
    ASSUME TransferInv, NEW c \in Movers, Trusted(c), Handing(c)
    PROVE  /\ Resource(c) \in Assets /\ Resource(c) \in client[c].todo /\ intent.moved[Resource(c)] = Mine
           /\ client[c].copy = intent /\ c \in current /\ intent.status # "none"
           /\ asset[Resource(c)] \in {Mine, GivenBy(intent)} /\ ShownAs(Resource(c), {Source, intent.heir})
           /\ Target(c) = GivenBy(intent) /\ UNCHANGED <<intent, current>>
           /\ Label(c) = client[c].pc /\ Label(c) \in OnResource
           /\ Label(c) \in Putting => intent.status = "transferring"
           /\ Label(c) \in TakingBack => intent.status = "rollback_pending"
<1>1. c \in Clients /\ MoverInv(c) /\ ClientTyped /\ IntentStored
  BY DEF Movers, Clients, TransferInv, AllTyped
<1>2. client[c].pc \in OnResource /\ UNCHANGED <<intent, current>>
  BY DEF Handing, PutGroup, PutIndex, PutManifest, TakeBackGroup, TakeBackIndex, TakeBackManifest, OnResource,
      stored
<1>3. Label(c) = client[c].pc /\ Label(c) \in OnResource
  BY <1>2 DEF Label, OnResource
<1>4. Resource(c) \in Assets /\ client[c].todo # {}
  BY <1>1, <1>3, ByLabel DEF Resource
<1>5. Resource(c) \in client[c].todo
  BY <1>4, FirstIsIn DEF Resource
<1>6. /\ client[c].copy = intent /\ c \in current /\ client[c].todo \subseteq Moved(intent)
      /\ Label(c) \in Putting => intent.status = "transferring"
      /\ Label(c) \in TakingBack => intent.status = "rollback_pending"
      /\ Label(c) \in Putting \cup TakingBack
  BY <1>1, <1>3 DEF MoverInv, Informed, Status, DoneSoFar, OnResource, Putting, TakingBack
<1>7. intent.moved[Resource(c)] = Mine /\ intent.status # "none"
  BY <1>1, <1>4, <1>5, <1>6, MovedIsMine
<1>8. asset[Resource(c)] \in {Mine, GivenBy(intent)} /\ ShownAs(Resource(c), {Source, intent.heir})
  BY <1>4, <1>7 DEF TransferInv, ResourceInv
<1>9. Target(c) = GivenBy(intent)
  BY <1>6 DEF Target, GivenBy
<1>10. QED
  BY <1>2, <1>3, <1>4, <1>5, <1>6, <1>7, <1>8, <1>9

(* What the resources are afterwards. *)
LEMMA HandedStored ==
    ASSUME TransferInv, NEW a \in Assets, intent.moved[a] = Mine,
           intent.status \in {"transferring", "rollback_pending"}, UNCHANGED intent, Touched(a),
           asset'[a] \in {Mine, GivenBy(intent)}, a \in Documents => index'[a] \in {Source, intent.heir}
    PROVE  StoredWell' /\ \A b \in Assets : asset[b] # Nothing => asset'[b] # Nothing
<1>1. IntentStored /\ AllTyped /\ \A b \in Assets : ResourceInv(b)
  BY DEF TransferInv
<1>2. IntentStored'
  BY <1>1 DEF IntentStored
<1>3. ASSUME NEW b \in Assets
      PROVE  ResourceInv(b)'
  <2>1. CASE b = a
    BY <1>1, <2>1, Distinct DEF ResourceInv, ShownAs, GivenBy
  <2>2. CASE b # a
    BY <1>1, <2>2 DEF Touched, ResourceInv, Kept, Whole, ShownAs, GivenBy
  <2>3. QED
    BY <2>1, <2>2
<1>4. asset'[a] # Nothing
  BY <1>1, GivenApart, Distinct
<1>5. \A b \in Assets : asset[b] # Nothing => asset'[b] # Nothing
  BY <1>4 DEF Touched
<1>6. QED
  BY <1>2, <1>3, <1>5 DEF StoredWell

(* What the request knows afterwards. *)
LEMMA HandedFits ==
    ASSUME TransferInv, NEW c \in Movers, Trusted(c), NEW a \in Assets, a \in client[c].todo, Touched(a),
           UNCHANGED <<intent, current>>, \A b \in Assets : asset[b] # Nothing => asset'[b] # Nothing,
           NEW label \in {"apply", "caught", "manifest", "undo", "take_back_manifest"},
           label \in {"apply", "caught", "manifest"} => Label(c) \in Putting,
           label \in {"undo", "take_back_manifest"} => Label(c) \in TakingBack,
           NEW todo \in {client[c].todo, client[c].todo \ {a}}, NEW failed,
           Turned(c, label, client[c].op, client[c].copy, client[c].seen, todo, client[c].empty, failed),
           label = "apply" /\ a \notin todo => asset'[a] = GivenBy(intent) /\ (a \in Documents => index'[a] = intent.heir),
           label \in {"undo", "take_back_manifest"} /\ ~failed => ~client[c].failed,
           label = "undo" /\ ~failed => asset'[a] = Mine /\ (a \in Documents => index'[a] = Source),
           label \in {"manifest", "take_back_manifest"} => todo = client[c].todo /\ a = First(todo) /\ a \in Documents,
           label = "manifest" => asset'[a] = Mine /\ index'[a] = intent.heir,
           label = "take_back_manifest" => asset'[a] = GivenBy(intent) /\ index'[a] = Source
    PROVE  MoverInv(c)'
<1>1. c \in Clients /\ MoverInv(c) /\ Moved(intent) \subseteq Assets
  BY DEF Movers, Clients, TransferInv, Moved
<1>2. /\ Label(c)' = label /\ client'[c].copy = client[c].copy /\ client'[c].seen = client[c].seen
      /\ client'[c].todo = todo /\ client'[c].failed = failed
  BY DEF Turned
<1>3. Label(c) \in Putting \cup TakingBack
  OBVIOUS
<1>4. Label(c) \notin {"idle", "acquire", "look"}
  BY <1>3 DEF Putting, TakingBack
<1>5. Seen(c)' /\ Informed(c)' /\ Named(c)'
  BY <1>1, <1>2, <1>4 DEF MoverInv, Seen, Informed, Named
<1>6. Document(c)'
  BY <1>2 DEF Document, GivenBy
<1>7. Status(c)'
  BY <1>1, <1>2, <1>3 DEF MoverInv, Status, Putting, Ending, Failing, TakingBack, Returned
<1>8. UNCHANGED Moved(intent) /\ \A b \in Assets \ {a} : Whole(b)' = Whole(b) /\ Back(b)' = Back(b)
  BY DEF Moved, Touched, Whole, Back, ShownAs, GivenBy
<1>9. DoneSoFar(c)'
  <2>1. todo \subseteq Moved(intent)
    BY <1>1, <1>3 DEF MoverInv, DoneSoFar
  <2>2. label \in Putting => \A b \in Moved(intent) \ todo : Whole(b)'
    <3>1. SUFFICES ASSUME label \in Putting, NEW b \in Moved(intent) \ todo PROVE Whole(b)'
      OBVIOUS
    <3>2. label \in {"apply", "manifest"} /\ Label(c) \in Putting
      BY <3>1 DEF Putting
    <3>3. CASE b = a
      BY <3>1, <3>2, <3>3 DEF Whole, ShownAs, GivenBy
    <3>4. CASE b # a
      BY <1>1, <1>8, <3>1, <3>2, <3>4 DEF MoverInv, DoneSoFar
    <3>5. QED
      BY <3>3, <3>4
  <2>3. label \in TakingBack /\ ~failed => \A b \in Moved(intent) \ todo : Back(b)'
    <3>1. SUFFICES ASSUME label \in TakingBack, ~failed, NEW b \in Moved(intent) \ todo PROVE Back(b)'
      OBVIOUS
    <3>2. label \in {"undo", "take_back_manifest"} /\ Label(c) \in TakingBack /\ ~client[c].failed
      BY <3>1 DEF TakingBack
    <3>3. CASE b = a
      BY <3>1, <3>2, <3>3 DEF Back, ShownAs
    <3>4. CASE b # a
      BY <1>1, <1>8, <3>1, <3>2, <3>4 DEF MoverInv, DoneSoFar
    <3>5. QED
      BY <3>3, <3>4
  <2>4. label \notin Ending \cup Returned
    BY DEF Ending, Returned
  <2>5. QED
    BY <1>2, <1>8, <2>1, <2>2, <2>3, <2>4 DEF DoneSoFar
<1>10. QED
  BY <1>5, <1>6, <1>7, <1>9 DEF MoverInv

(* What a write of a resource and of its index entry touches. *)
LEMMA Touches ==
    ASSUME ResourcesTyped, NEW c \in Clients, NEW a \in Assets, NEW n,
           asset' = asset \/ Given(c, a) \/ Restored(c, a), index' = index \/ Shown(a, n)
    PROVE  /\ Touched(a)
           /\ Given(c, a) => asset'[a] = Target(c)
           /\ Restored(c, a) => asset'[a] = client[c].copy.moved[a]
           /\ Shown(a, n) /\ a \in Documents => index'[a] = n
BY DEF ResourcesTyped, Touched, Given, Restored, Shown

NothingLost == \A b \in Assets : asset[b] # Nothing => asset'[b] # Nothing

(* The shapes in which a hand-over leaves its request. *)
LEMMA AppliedFits ==
    ASSUME TransferInv, NEW c \in Movers, Trusted(c), Handing(c), Label(c) \in Putting, Touched(Resource(c)), NothingLost,
           Becomes(c, Applied(c)), asset'[Resource(c)] = GivenBy(intent),
           Resource(c) \in Documents => index'[Resource(c)] = intent.heir
    PROVE  MoverInv(c)'
<1> DEFINE a == Resource(c)
           todo == client[c].todo \ {a}
<1>1. c \in Clients /\ ClientTyped
  BY DEF Movers, Clients, TransferInv, AllTyped
<1>2. Turned(c, "apply", client[c].op, client[c].copy, client[c].seen, todo, client[c].empty, client[c].failed)
  BY <1>1, AppliedTurns DEF Resource
<1>3. todo \in {client[c].todo, client[c].todo \ {a}}
  OBVIOUS
<1>4. a \in Assets /\ a \in client[c].todo /\ UNCHANGED <<intent, current>>
  BY HandingFacts
<1> HIDE DEF a, todo
<1>5. QED
  BY <1>2, <1>3, <1>4, HandedFits DEF a, NothingLost

(* A resource that could not be taken back is remembered as a failure.     *)
LEMMA UndoneFits ==
    ASSUME TransferInv, NEW c \in Movers, Trusted(c), Handing(c), Label(c) \in TakingBack, Touched(Resource(c)), NothingLost,
           NEW ok \in BOOLEAN, Becomes(c, Undone(c, ok)),
           ok => asset'[Resource(c)] = Mine /\ (Resource(c) \in Documents => index'[Resource(c)] = Source)
    PROVE  MoverInv(c)'
<1> DEFINE a == Resource(c)
           todo == client[c].todo \ {a}
           failed == client[c].failed \/ ~ok
<1>1. c \in Clients /\ ClientTyped
  BY DEF Movers, Clients, TransferInv, AllTyped
<1>2. Turned(c, "undo", client[c].op, client[c].copy, client[c].seen, todo, client[c].empty, failed)
  BY <1>1, UndoneTurns DEF Resource
<1>3. todo \in {client[c].todo, client[c].todo \ {a}}
  OBVIOUS
<1>4. a \in Assets /\ a \in client[c].todo /\ UNCHANGED <<intent, current>>
  BY HandingFacts
<1>5. ~failed => ~client[c].failed /\ asset'[a] = Mine /\ (a \in Documents => index'[a] = Source)
  OBVIOUS
<1> HIDE DEF a, todo, failed
<1>6. QED
  BY <1>2, <1>3, <1>4, <1>5, HandedFits DEF a, NothingLost

(* A failure in the middle of a resource claims nothing of it.             *)
LEMMA CaughtFits ==
    ASSUME TransferInv, NEW c \in Movers, Trusted(c), Handing(c), Label(c) \in Putting, Touched(Resource(c)), NothingLost,
           Goes(c, "caught")
    PROVE  MoverInv(c)'
<1> DEFINE a == Resource(c)
<1>1. Turned(c, "caught", client[c].op, client[c].copy, client[c].seen, client[c].todo, client[c].empty,
             client[c].failed)
  BY DEF Goes
<1>2. a \in Assets /\ a \in client[c].todo /\ UNCHANGED <<intent, current>>
  BY HandingFacts
<1> HIDE DEF a
<1>3. QED
  BY <1>1, <1>2, HandedFits DEF a, NothingLost

(* The index entry of a document goes first, there and back.               *)
LEMMA ManifestFits ==
    ASSUME TransferInv, NEW c \in Movers, Trusted(c), Handing(c), Touched(Resource(c)), NothingLost,
           Resource(c) \in Documents,
           \/ /\ Label(c) \in Putting /\ Goes(c, "manifest")
              /\ asset'[Resource(c)] = Mine /\ index'[Resource(c)] = intent.heir
           \/ /\ Label(c) \in TakingBack /\ Goes(c, "take_back_manifest")
              /\ asset'[Resource(c)] = GivenBy(intent) /\ index'[Resource(c)] = Source
    PROVE  MoverInv(c)'
<1> DEFINE a == Resource(c)
<1>1. \A label : Goes(c, label) =>
        Turned(c, label, client[c].op, client[c].copy, client[c].seen, client[c].todo, client[c].empty,
               client[c].failed)
  BY DEF Goes
<1>2. a \in Assets /\ a \in client[c].todo /\ UNCHANGED <<intent, current>> /\ a = First(client[c].todo)
  BY HandingFacts DEF Resource
<1> HIDE DEF a
<1>3. QED
  BY <1>1, <1>2, HandedFits DEF a, NothingLost

(* The six steps. *)
LEMMA PutGroupKeeps ==
    ASSUME TransferInv, NEW c \in Movers, Trusted(c), PutGroup(c)
    PROVE  StoredWell' /\ NothingLost /\ MoverInv(c)'
<1> DEFINE a == Resource(c)
<1>1. c \in Clients /\ ClientTyped /\ ResourcesTyped /\ Handing(c) /\ client[c].pc = "put"
  BY DEF Movers, Clients, TransferInv, AllTyped, Handing, PutGroup
<1>2. /\ a \in Assets /\ intent.moved[a] = Mine /\ Label(c) \in Putting /\ UNCHANGED intent
      /\ intent.status = "transferring" /\ asset[a] \in {Mine, GivenBy(intent)} /\ Target(c) = GivenBy(intent)
      /\ client[c].copy = intent
  BY <1>1, HandingFacts DEF Putting
<1>3. a \notin Documents /\ index' = index
  BY <1>1, PutGroupTurns, TransferAssumption
<1>4. asset' = asset \/ Given(c, a)
  BY <1>1, PutGroupTurns
<1>5. Touched(a) /\ (Given(c, a) => asset'[a] = GivenBy(intent))
  BY <1>1, <1>2, <1>3, <1>4, Touches
<1>6. StoredWell' /\ NothingLost
  BY <1>2, <1>3, <1>4, <1>5, HandedStored DEF NothingLost
<1>7. CASE Becomes(c, Applied(c))
  <2>1. asset'[a] = GivenBy(intent)
    <3>1. \/ asset[a] = Target(c) /\ asset' = asset
          \/ Given(c, a)
          \/ Goes(c, "caught")
      BY <1>1, PutGroupTurns
    <3>2. Goes(c, "caught") => ~Becomes(c, Applied(c))
      <4>1. SUFFICES ASSUME Goes(c, "caught"), Becomes(c, Applied(c)) PROVE FALSE
        OBVIOUS
      <4>2. Label(c)' = "caught" /\ Label(c)' = "apply"
        BY <1>1, <4>1, AppliedTurns DEF Goes, Turned
      <4>3. QED
        BY <4>2
    <3>3. QED
      BY <1>2, <1>5, <1>7, <3>1, <3>2
  <2>2. QED
    BY <1>1, <1>2, <1>3, <1>5, <1>6, <1>7, <2>1, AppliedFits
<1>8. CASE Goes(c, "caught")
  BY <1>1, <1>2, <1>5, <1>6, <1>8, CaughtFits
<1>9. QED
  BY <1>1, <1>6, <1>7, <1>8, PutGroupTurns

(* A document is shown as the heir's before it is.                         *)
LEMMA PutIndexKeeps ==
    ASSUME TransferInv, NEW c \in Movers, Trusted(c), PutIndex(c)
    PROVE  StoredWell' /\ NothingLost /\ MoverInv(c)'
<1> DEFINE a == Resource(c)
<1>1. c \in Clients /\ ClientTyped /\ ResourcesTyped /\ Handing(c) /\ client[c].pc = "put" /\ AllTyped /\ IntentStored
  BY DEF Movers, Clients, TransferInv, AllTyped, Handing, PutIndex
<1>2. /\ a \in Assets /\ intent.moved[a] = Mine /\ Label(c) \in Putting /\ UNCHANGED intent
      /\ intent.status = "transferring" /\ asset[a] \in {Mine, GivenBy(intent)}
      /\ client[c].copy = intent /\ (a \in Documents => index[a] \in {Source, intent.heir})
  BY <1>1, HandingFacts DEF Putting, ShownAs
<1>3. a \in Documents /\ asset' = asset
  BY <1>1, PutIndexTurns
<1>4. index' = index \/ Shown(a, intent.heir)
  BY <1>1, <1>2, PutIndexTurns
<1>5. Touched(a) /\ (Shown(a, intent.heir) => index'[a] = intent.heir)
  BY <1>1, <1>2, <1>3, <1>4, Touches
<1>6. StoredWell' /\ NothingLost
  BY <1>2, <1>3, <1>4, <1>5, HandedStored DEF NothingLost
<1>7. intent.op # 0 /\ Mine.op = 0 /\ GivenBy(intent).op = intent.op
  BY <1>1, <1>2, GivenApart, Distinct
<1>8. CASE asset[a].op = client[c].copy.op /\ Shown(a, client[c].copy.heir) /\ Becomes(c, Applied(c))
  BY <1>1, <1>2, <1>3, <1>5, <1>6, <1>7, <1>8, AppliedFits
<1>9. CASE /\ asset[a].op # client[c].copy.op /\ asset[a] = client[c].copy.moved[a]
           /\ Shown(a, client[c].copy.heir) /\ Goes(c, "manifest")
  BY <1>1, <1>2, <1>3, <1>5, <1>6, <1>9, ManifestFits
<1>10. CASE Goes(c, "caught")
  BY <1>1, <1>2, <1>5, <1>6, <1>10, CaughtFits
<1>11. QED
  BY <1>1, <1>6, <1>8, <1>9, <1>10, PutIndexTurns

(* A document that cannot be given is shown as the account's again.        *)
LEMMA PutManifestKeeps ==
    ASSUME TransferInv, NEW c \in Movers, Trusted(c), PutManifest(c)
    PROVE  StoredWell' /\ NothingLost /\ MoverInv(c)'
<1> DEFINE a == Resource(c)
<1>1. c \in Clients /\ ClientTyped /\ ResourcesTyped /\ Handing(c) /\ client[c].pc = "manifest" /\ MoverInv(c)
  BY DEF Movers, Clients, TransferInv, AllTyped, Handing, PutManifest
<1>2. /\ a \in Assets /\ intent.moved[a] = Mine /\ Label(c) = "manifest" /\ Label(c) \in Putting /\ UNCHANGED intent
      /\ intent.status = "transferring" /\ asset[a] \in {Mine, GivenBy(intent)} /\ Target(c) = GivenBy(intent)
      /\ client[c].copy = intent
  BY <1>1, HandingFacts DEF Putting
<1>3. a \in Documents /\ index[a] = intent.heir
  BY <1>1, <1>2 DEF MoverInv, Document, Resource
<1>4. (asset' = asset \/ Given(c, a)) /\ (index' = index \/ Shown(a, Source))
  BY <1>1, PutManifestTurns
<1>5. /\ Touched(a)
      /\ Given(c, a) => asset'[a] = GivenBy(intent)
      /\ Shown(a, Source) => index'[a] = Source
  BY <1>1, <1>2, <1>3, <1>4, Touches
<1>6. StoredWell' /\ NothingLost
  BY <1>2, <1>3, <1>4, <1>5, HandedStored DEF NothingLost
<1>7. CASE Given(c, a) /\ index' = index /\ Becomes(c, Applied(c))
  BY <1>1, <1>2, <1>3, <1>5, <1>6, <1>7, AppliedFits
<1>8. CASE Goes(c, "caught")
  BY <1>1, <1>2, <1>5, <1>6, <1>8, CaughtFits
<1>9. QED
  BY <1>1, <1>6, <1>7, <1>8, PutManifestTurns

(* A resource group is taken back at once.                                 *)
LEMMA TakeBackGroupKeeps ==
    ASSUME TransferInv, NEW c \in Movers, Trusted(c), TakeBackGroup(c)
    PROVE  StoredWell' /\ NothingLost /\ MoverInv(c)'
<1> DEFINE a == Resource(c)
<1>1. c \in Clients /\ ClientTyped /\ ResourcesTyped /\ Handing(c) /\ client[c].pc = "take_back"
  BY DEF Movers, Clients, TransferInv, AllTyped, Handing, TakeBackGroup
<1>2. /\ a \in Assets /\ intent.moved[a] = Mine /\ Label(c) \in TakingBack /\ UNCHANGED intent
      /\ intent.status = "rollback_pending" /\ asset[a] \in {Mine, GivenBy(intent)}
      /\ client[c].copy = intent
  BY <1>1, HandingFacts DEF TakingBack
<1>3. a \notin Documents /\ index' = index
  BY <1>1, TakeBackGroupTurns, TransferAssumption
<1>4. asset' = asset \/ Restored(c, a)
  BY <1>1, TakeBackGroupTurns
<1>5. Touched(a) /\ (Restored(c, a) => asset'[a] = Mine)
  BY <1>1, <1>2, <1>3, <1>4, Touches
<1>6. StoredWell' /\ NothingLost
  BY <1>2, <1>3, <1>4, <1>5, HandedStored DEF NothingLost
<1>7. CASE Becomes(c, Undone(c, TRUE)) /\ (Restored(c, a) \/ (asset' = asset /\ asset[a] = client[c].copy.moved[a]))
  <2>1. asset'[a] = Mine
    BY <1>2, <1>5, <1>7
  <2>2. QED
    BY <1>1, <1>2, <1>3, <1>5, <1>6, <1>7, <2>1, UndoneFits
<1>8. CASE Becomes(c, Undone(c, FALSE))
  BY <1>1, <1>2, <1>5, <1>6, <1>8, UndoneFits
<1>9. QED
  BY <1>1, <1>6, <1>7, <1>8, TakeBackGroupTurns

(* A document is shown as the account's before it is.                      *)
LEMMA TakeBackIndexKeeps ==
    ASSUME TransferInv, NEW c \in Movers, Trusted(c), TakeBackIndex(c)
    PROVE  StoredWell' /\ NothingLost /\ MoverInv(c)'
<1> DEFINE a == Resource(c)
<1>1. c \in Clients /\ ClientTyped /\ ResourcesTyped /\ Handing(c) /\ client[c].pc = "take_back"
      /\ AllTyped /\ IntentStored
  BY DEF Movers, Clients, TransferInv, AllTyped, Handing, TakeBackIndex
<1>2. /\ a \in Assets /\ intent.moved[a] = Mine /\ Label(c) \in TakingBack /\ UNCHANGED intent
      /\ intent.status = "rollback_pending" /\ asset[a] \in {Mine, GivenBy(intent)}
      /\ client[c].copy = intent /\ (a \in Documents => index[a] \in {Source, intent.heir})
  BY <1>1, HandingFacts DEF TakingBack, ShownAs
<1>3. a \in Documents /\ asset' = asset
  BY <1>1, TakeBackIndexTurns
<1>4. index' = index \/ Shown(a, Source)
  BY <1>1, TakeBackIndexTurns
<1>5. Touched(a) /\ (Shown(a, Source) => index'[a] = Source)
  BY <1>1, <1>2, <1>3, <1>4, Touches
<1>6. StoredWell' /\ NothingLost
  BY <1>2, <1>3, <1>4, <1>5, HandedStored DEF NothingLost
<1>7. intent.op # 0 /\ Mine.op = 0 /\ GivenBy(intent).op = intent.op
  BY <1>1, <1>2, GivenApart, Distinct
<1>8. CASE asset[a].op # client[c].copy.op /\ Shown(a, Source) /\ Becomes(c, Undone(c, TRUE))
  BY <1>1, <1>2, <1>3, <1>5, <1>6, <1>7, <1>8, UndoneFits
<1>9. CASE asset[a].op = client[c].copy.op /\ Shown(a, Source) /\ Goes(c, "take_back_manifest")
  BY <1>1, <1>2, <1>3, <1>5, <1>6, <1>7, <1>9, ManifestFits
<1>10. CASE Becomes(c, Undone(c, FALSE))
  BY <1>1, <1>2, <1>5, <1>6, <1>10, UndoneFits
<1>11. QED
  BY <1>1, <1>6, <1>8, <1>9, <1>10, TakeBackIndexTurns

(* A document that has been given is taken back.                           *)
LEMMA TakeBackManifestKeeps ==
    ASSUME TransferInv, NEW c \in Movers, Trusted(c), TakeBackManifest(c)
    PROVE  StoredWell' /\ NothingLost /\ MoverInv(c)'
<1> DEFINE a == Resource(c)
<1>1. c \in Clients /\ ClientTyped /\ ResourcesTyped /\ Handing(c) /\ client[c].pc = "take_back_manifest" /\ MoverInv(c)
  BY DEF Movers, Clients, TransferInv, AllTyped, Handing, TakeBackManifest
<1>2. /\ a \in Assets /\ intent.moved[a] = Mine /\ Label(c) = "take_back_manifest" /\ Label(c) \in TakingBack
      /\ UNCHANGED intent /\ intent.status = "rollback_pending" /\ asset[a] \in {Mine, GivenBy(intent)}
      /\ client[c].copy = intent
  BY <1>1, HandingFacts DEF TakingBack
<1>3. a \in Documents /\ index[a] = Source /\ index' = index
  BY <1>1, <1>2, TakeBackManifestTurns DEF MoverInv, Document, Resource
<1>4. asset' = asset \/ Restored(c, a)
  BY <1>1, TakeBackManifestTurns
<1>5. Touched(a) /\ (Restored(c, a) => asset'[a] = Mine)
  BY <1>1, <1>2, <1>3, <1>4, Touches
<1>6. StoredWell' /\ NothingLost
  BY <1>2, <1>3, <1>4, <1>5, HandedStored DEF NothingLost
<1>7. CASE Restored(c, a) /\ Becomes(c, Undone(c, TRUE))
  BY <1>1, <1>2, <1>3, <1>5, <1>6, <1>7, UndoneFits
<1>8. CASE Becomes(c, Undone(c, FALSE))
  BY <1>1, <1>2, <1>5, <1>6, <1>8, UndoneFits
<1>9. QED
  BY <1>1, <1>6, <1>7, <1>8, TakeBackManifestTurns

(* A step of a request that works keeps the stored transfer true, loses no *)
(* resource, and leaves the request knowing what it has done.              *)
LEMMA StoreLoses ==
    ASSUME TransferInv, StoreKept
    PROVE  StoredWell' /\ NothingLost
<1>1. StoredWell'
  BY ResourcesKept DEF TransferInv, StoredWell
<1>2. NothingLost
  BY DEF StoreKept, NothingLost
<1>3. QED
  BY <1>1, <1>2

(* The steps that write neither the stored transfer nor a resource.        *)
LEMMA QuietStepKeeps ==
    ASSUME TransferInv, Timely, NEW c \in Movers,
           \/ Renew(c) \/ Release(c) \/ Look(c) \/ Private(c) \/ Record(c) \/ RecordRollback(c)
           \/ LookAgain(c) \/ Ruling(c)
    PROVE  StoreKept /\ current \subseteq current' /\ (Trusted(c)' => MoverInv(c)')
<1>1. CASE Release(c) \/ Ruling(c) \/ AssertHeld(c)
  BY <1>1, BeyondFits
<1>2. CASE Renew(c)
  BY <1>2, RenewFits DEF Renew, StoreKept, resources, stored
<1>3. CASE \/ Look(c) \/ Zero(c) \/ Apply(c) \/ Undo(c) \/ Caught(c) \/ Record(c) \/ RecordRollback(c)
           \/ LookAgain(c)
  <2>1. client[c].pc \in Steps
    BY <1>3 DEF Look, Zero, Apply, Undo, Caught, Record, RecordRollback, LookAgain, Steps
  <2>2. Trusted(c)
    BY <2>1, TimelyWorks DEF Trusted
  <2>3. StoreKept /\ current \subseteq current'
    BY <1>3 DEF Look, Zero, Apply, Undo, Caught, Record, RecordRollback, LookAgain, StoreKept, resources, stored
  <2>4. QED
    BY <1>3, <2>2, <2>3, QuietFits, LookFits, ZeroFits, LookAgainFits
<1>4. QED
  BY <1>1, <1>2, <1>3 DEF Private

(* The steps that write one of them.                                       *)
LEMMA WritingKeeps ==
    ASSUME TransferInv, NEW c \in Movers, Trusted(c), Advancing(c) \/ Handing(c)
    PROVE  StoredWell' /\ NothingLost /\ MoverInv(c)'
<1>1. CASE Advancing(c)
  <2>1. UNCHANGED asset
    BY <1>1 DEF Advancing, Create, Merge, Commit, Mark, RolledBack, resources
  <2>2. NothingLost
    BY <2>1 DEF NothingLost
  <2>3. QED
    BY <1>1, <2>2, CreateKeeps, MergeKeeps, CommitKeeps, MarkKeeps, RolledBackKeeps DEF Advancing
<1>2. CASE Handing(c)
  BY <1>2, PutGroupKeeps, PutIndexKeeps, PutManifestKeeps, TakeBackGroupKeeps, TakeBackIndexKeeps,
     TakeBackManifestKeeps DEF Handing
<1>3. QED
  BY <1>1, <1>2

(* What the account itself writes is not part of the stored transfer.      *)
LEMMA LandKeeps ==
    ASSUME TransferInv, Land
    PROVE  StoredWell' /\ \A c \in Movers : Trusted(c)' => MoverInv(c)'
<1>1. UNCHANGED <<intent, current, client>> /\ \A c \in Movers : Trusted(c)' = Trusted(c)
  BY DEF Land, stored, Trusted, Holding, Label, Held
<1>2. CASE UNCHANGED resources
  <2>1. StoreKept
    BY <1>1, <1>2 DEF StoreKept, resources
  <2>2. \A c \in Movers : Trusted(c)' => MoverInv(c)'
    BY <1>1, <2>1, StillKeep DEF StoreKept, TransferInv, Movers, Clients
  <2>3. QED
    BY <2>1, <2>2, StoreLoses
<1>3. ASSUME NEW a \in Assets, asset[a] = Nothing, asset' = [asset EXCEPT ![a] = Mine],
             a \in Documents => Shown(a, Source), a \notin Documents => index' = index
      PROVE  StoredWell' /\ \A c \in Movers : Trusted(c)' => MoverInv(c)'
  <2>1. /\ asset'[a] = Mine /\ \A b \in Assets \ {a} : asset'[b] = asset[b]
        /\ a \in Documents => index'[a] = Source
        /\ \A b \in Documents \ {a} : index'[b] = index[b]
    BY <1>3 DEF TransferInv, AllTyped, ResourcesTyped, Shown
  <2>2. intent.status # "none" => GivenBy(intent) # Nothing
    BY GivenApart DEF TransferInv
  <2>3. intent.moved[a] = Nothing
    BY <1>3, <2>2, Distinct DEF TransferInv, ResourceInv, IntentStored, NoIntent, NoAssets
  <2>4. \A b \in Assets : intent.moved[b] = Mine => b # a
    BY <2>3, Distinct
  <2>5. Kept(a)'
    BY <2>1, Distinct DEF Kept, ShownAs
  <2>6. ResourceInv(a)'
    BY <1>1, <2>3, <2>5, Distinct DEF ResourceInv
  <2>7. \A b \in Assets \ {a} : ResourceInv(b)'
    BY <1>1, <2>1 DEF TransferInv, ResourceInv, Kept, Whole, ShownAs, GivenBy
  <2>8. IntentStored'
    BY <1>1 DEF TransferInv, IntentStored
  <2>9. ASSUME NEW c \in Movers, Trusted(c)'
        PROVE  MoverInv(c)'
    <3>1. MoverInv(c) /\ Label(c)' = Label(c)
      BY <1>1, <2>9 DEF TransferInv, Label
    <3>2. Seen(c)'
      BY <1>1, <2>1, <3>1, Distinct DEF MoverInv, Seen
    <3>3. Informed(c)' /\ Named(c)' /\ Status(c)'
      BY <1>1, <3>1 DEF MoverInv, Informed, Named, Status
    <3>4. \A b \in Moved(intent) : (Whole(b) => Whole(b)') /\ (Back(b) => Back(b)')
      <4>1. \A b \in Moved(intent) : b \in Assets /\ b # a
        BY <2>3 DEF Moved
      <4>2. QED
        BY <1>1, <2>1, <4>1 DEF Whole, Back, ShownAs, GivenBy
    <3>5. DoneSoFar(c)'
      <4>1. Moved(intent)' = Moved(intent) /\ client'[c] = client[c]
        BY <1>1 DEF Moved
      <4>2. QED
        BY <3>1, <3>4, <4>1 DEF MoverInv, DoneSoFar
    <3>6. Document(c)'
      <4>1. ASSUME Label(c) \in {"manifest", "take_back_manifest"}
            PROVE  First(client[c].todo) # a
        <5>1. First(client[c].todo) \in client[c].todo /\ client[c].todo \subseteq Moved(intent)
          BY <3>1, <4>1, FirstIsIn DEF MoverInv, DoneSoFar, Putting, TakingBack, TransferInv, AllTyped, ClientTyped,
                                       OnResource, Movers, Clients
        <5>2. QED
          BY <2>3, <5>1 DEF Moved
      <4>2. First(client'[c].todo) = First(client[c].todo) /\ Documents \subseteq Assets
        BY <1>1 DEF Assets
      <4>3. QED
        BY <1>1, <2>1, <3>1, <4>1, <4>2 DEF MoverInv, Document, GivenBy
    <3>7. QED
      BY <3>2, <3>3, <3>5, <3>6 DEF MoverInv
  <2>10. QED
    BY <2>6, <2>7, <2>8, <2>9 DEF StoredWell
<1>4. QED
  BY <1>2, <1>3, LandWrites DEF TransferInv

(* At first every resource is nobody's or the account's.                   *)
LEMMA TransferInvInit == TransferInit => TransferInv
<1> SUFFICES ASSUME TransferInit PROVE TransferInv
  OBVIOUS
<1>1. AllTyped /\ FenceHeld
  BY TransferTypeInit, FenceHeldInit
<1>2. intent = NoIntent
  BY DEF TransferInit
<1>3. IntentStored
  BY <1>2 DEF IntentStored, NoIntent, NoAssets
<1>4. ASSUME NEW a \in Assets
      PROVE  ResourceInv(a)
  <2>1. intent.moved[a] = Nothing /\ intent.status = "none"
    BY <1>2 DEF NoIntent, NoAssets
  <2>2. asset[a] \in {Nothing, Mine} /\ (a \in Documents => index[a] = asset[a].owner)
    BY DEF TransferInit
  <2>3. QED
    BY <2>1, <2>2, Distinct DEF ResourceInv, Kept, ShownAs
<1>5. ASSUME NEW c \in Movers
      PROVE  MoverInv(c)
  <2>1. client[c] = AtRest
    BY DEF TransferInit, Movers, Clients
  <2>2. Label(c) = "idle" /\ client[c].seen = NoAssets
    BY <2>1, AtRestTyped DEF Label
  <2>3. Seen(c) /\ Informed(c) /\ Named(c) /\ Document(c)
    BY <2>2, Distinct DEF Seen, NoAssets, Informed, Named, Document
  <2>4. Status(c) /\ DoneSoFar(c)
    BY <2>2 DEF Status, DoneSoFar, Putting, Ending, Failing, TakingBack, Returned
  <2>5. QED
    BY <2>3, <2>4 DEF MoverInv
<1>6. QED
  BY <1>1, <1>3, <1>4, <1>5 DEF TransferInv

(* Every step keeps the invariant of the transfer.                         *)
LEMMA TransferInvStep ==
    ASSUME TransferInv, Timely, OneRepeats, [TransferNext]_transferVars
    PROVE  TransferInv'
<1>1. AllTyped' /\ FenceHeld'
  BY TransferTypeStep, FenceHeldStep DEF TransferInv
<1>2. Movers \subseteq Clients /\ Restorers \subseteq Clients /\ Movers \cap Restorers = {}
  BY TransferAssumption DEF Movers, Clients
<1>3. (\A c \in Movers : Trusted(c) => MoverInv(c)) /\ ClientTyped /\ AllTyped /\ FenceHeld
  BY DEF TransferInv, AllTyped
<1>4. ASSUME NEW d, StoreKept, current \subseteq current',
             \A b \in Movers \ {d} : client'[b] = client[b] /\ (Trusted(b)' => Trusted(b)),
             d \in Movers => (Trusted(d)' => MoverInv(d)')
      PROVE  StoredWell' /\ \A c \in Movers : Trusted(c)' => MoverInv(c)'
  <2>1. ASSUME NEW b \in Movers \ {d}, Trusted(b)'
        PROVE  MoverInv(b)'
    BY <1>2, <1>3, <1>4, <2>1, StillKeep DEF StoreKept
  <2>2. QED
    BY <1>4, <2>1, StoreLoses
<1>5. ASSUME StoreKept, current' = current, client' = client,
             fence'.status = fence.status /\ fence'.op = fence.op /\ fence'.token = fence.token
      PROVE  StoredWell' /\ \A c \in Movers : Trusted(c)' => MoverInv(c)'
  <2>1. \A b \in Movers : Trusted(b)' = Trusted(b)
    BY <1>5 DEF Trusted, Holding, Label, Held
  <2>2. QED
    BY <1>2, <1>3, <1>5, <2>1, StillKeep, StoreLoses DEF StoreKept
<1>6. ASSUME NEW c \in Movers, Start(c) \/ Acquire(c)
      PROVE  StoredWell' /\ \A b \in Movers : Trusted(b)' => MoverInv(b)'
  <2>1. StoreKept /\ current' = current
    BY <1>6 DEF Start, Acquire, StoreKept, resources, stored
  <2>2. \A b \in Movers \ {c} : client'[b] = client[b] /\ (Trusted(b)' => Trusted(b))
    BY <1>2, <1>3, <1>6, OthersStay, TrustedBefore
  <2>3. MoverInv(c)'
    BY <1>6, StartFits, AcquireFits
  <2>4. QED
    BY <1>4, <2>1, <2>2, <2>3
<1>7. ASSUME NEW c \in Restorers, StartRestore(c) \/ Enable(c) \/ Clear(c) \/ ReleaseAfterRestore(c)
      PROVE  StoredWell' /\ \A b \in Movers : Trusted(b)' => MoverInv(b)'
  <2>1. StoreKept /\ current' = current
    BY <1>7 DEF StartRestore, Enable, Clear, ReleaseAfterRestore, StoreKept, resources, stored
  <2>2. StartRestore(c) \/ (Occupied(c) /\ ~Confirm(c))
    BY <1>7 DEF Occupied, Ruling, Enable, Clear, ReleaseAfterRestore, Confirm
  <2>3. c \notin Movers
    BY <1>2
  <2>4. \A b \in Movers \ {c} : client'[b] = client[b] /\ (Trusted(b)' => Trusted(b))
    BY <1>2, <1>3, <2>2, <2>3, OthersStay, TrustedBefore
  <2>5. QED
    BY <1>4, <2>1, <2>3, <2>4
<1>8. ASSUME NEW c \in Clients, Crash(c)
      PROVE  StoredWell' /\ \A b \in Movers : Trusted(b)' => MoverInv(b)'
  <2>1. StoreKept /\ current' = current
    BY <1>8 DEF Crash, StoreKept, resources, stored
  <2>2. \A b \in Movers \ {c} : client'[b] = client[b] /\ (Trusted(b)' => Trusted(b))
    BY <1>2, <1>3, <1>8, OthersStay, TrustedBefore
  <2>3. MoverInv(c)'
    BY <1>3, <1>8, CrashStarts, EndedFits
  <2>4. QED
    BY <1>4, <2>1, <2>2, <2>3
<1>9. ASSUME NEW c \in Movers, Occupied(c), ~ReleaseAfterRestore(c)
      PROVE  StoredWell' /\ \A b \in Movers : Trusted(b)' => MoverInv(b)'
  <2>1. CASE \/ Renew(c) \/ Release(c) \/ Look(c) \/ Private(c) \/ Record(c) \/ RecordRollback(c)
             \/ LookAgain(c) \/ Ruling(c)
    <3>1. StoreKept /\ current \subseteq current' /\ (Trusted(c)' => MoverInv(c)')
      BY <2>1, QuietStepKeeps
    <3>2. \A b \in Movers \ {c} : client'[b] = client[b] /\ (Trusted(b)' => Trusted(b))
      BY <1>2, <1>3, <1>9, OthersStay, TrustedBefore
    <3>3. QED
      BY <1>4, <3>1, <3>2
  <2>2. CASE Advancing(c) \/ Handing(c)
    <3>1. client[c].pc \in Steps
      BY <2>2 DEF Advancing, Create, Merge, Commit, Mark, RolledBack, Handing, PutGroup, PutIndex, PutManifest,
                  TakeBackGroup, TakeBackIndex, TakeBackManifest, Steps
    <3>2. Holding(c) /\ Trusted(c)
      BY <3>1, TimelyWorks DEF Trusted
    <3>3. StoredWell' /\ NothingLost /\ MoverInv(c)'
      BY <2>2, <3>2, WritingKeeps
    <3>4. \A b \in Movers \ {c} : Trusted(b)' => MoverInv(b)'
      BY <1>9, <3>2, <3>3, OthersKeep DEF NothingLost
    <3>5. QED
      BY <3>3, <3>4
  <2>3. QED
    BY <1>9, <2>1, <2>2 DEF Occupied
<1>10. ASSUME Elsewhere
       PROVE  StoredWell' /\ \A b \in Movers : Trusted(b)' => MoverInv(b)'
  <2>1. CASE (\E r \in 1..MaxRequests : Batch(r)) \/ Expire \/ Admit
    <3>1. /\ StoreKept /\ current' = current /\ client' = client
          /\ fence'.status = fence.status /\ fence'.op = fence.op /\ fence'.token = fence.token
      BY <1>3, <2>1 DEF Batch, Expire, Admit, StoreKept, resources, stored, AllTyped, FenceTyped, FenceRecord
    <3>2. QED
      BY <1>5, <3>1
  <2>2. CASE Land
    BY <2>2, LandKeeps
  <2>3. QED
    BY <1>10, <2>1, <2>2 DEF Elsewhere
<1>11. ASSUME UNCHANGED transferVars
       PROVE  StoredWell' /\ \A b \in Movers : Trusted(b)' => MoverInv(b)'
  BY <1>5, <1>11 DEF transferVars, StoreKept
<1>12. QED
  BY <1>1, <1>6, <1>7, <1>8, <1>9, <1>10, <1>11, StepCases DEF TransferInv, StoredWell

(* Every resource is where the stored transfer says, and the request that  *)
(* has the fence knows how far it has come, however often it was taken     *)
(* over.                                                                   *)
THEOREM TransferInvariant == TransferSpec /\ [](Timely /\ OneRepeats) => []TransferInv
<1>1. TransferInv /\ (Timely /\ OneRepeats) /\ [TransferNext]_transferVars => TransferInv'
  BY TransferInvStep
<1>2. QED
  BY <1>1, TransferInvInit, PTL DEF TransferSpec

(* A settled transfer took all that it recorded, or nothing, and what the  *)
(* indexes show agrees.                                                    *)
THEOREM SettledTransferIsWhole == TransferSpec /\ [](Timely /\ OneRepeats) => []SettledIsWhole
<1>1. TransferInv => SettledIsWhole
  <2> SUFFICES ASSUME TransferInv PROVE SettledIsWhole
    OBVIOUS
  <2>1. \A a \in Moved(intent) : a \in Assets /\ intent.moved[a] = Mine
    BY MovedIsMine DEF TransferInv, Moved
  <2>2. intent.status = "committed" => \A a \in Moved(intent) : asset[a].owner = intent.heir
    BY <2>1 DEF TransferInv, ResourceInv, Whole, GivenBy
  <2>3. ASSUME intent.status = "rolled_back", NEW a \in Moved(intent)
        PROVE  asset[a] = intent.moved[a]
    BY <2>1, <2>3, GivenApart, Distinct DEF TransferInv, ResourceInv, Kept
  <2>4. ASSUME intent.status \in {"committed", "rolled_back"}, NEW d \in Documents
        PROVE  index[d] = asset[d].owner
    <3>1. d \in Assets
      BY DEF Assets
    <3>2. QED
      BY <2>4, <3>1 DEF TransferInv, IntentStored, ResourceInv, Kept, Whole, GivenBy, ShownAs
  <2>5. QED
    BY <2>2, <2>3, <2>4 DEF SettledIsWhole
<1>2. QED
  BY <1>1, TransferInvariant, PTL

-----------------------------------------------------------------------------
(* Types, by parts.                                                        *)

RequestLabels ==
    {"idle", "prepare", "deny", "abandon", "mark", "register", "registered", "fence", "grant", "done",
     "failed"}

(* Labels at which a batch works on the operation op, and among them those *)
(* at which its copy of the manifest is going to be written.               *)
Working == {"discover", "recheck", "clean", "progress", "verify", "final", "complete"}
Engaged == Working \cup {"register", "registered", "close"}

PolicyType ==
    /\ granted \in BOOLEAN
    /\ denier \in Revokes \cup {NoOp}
    /\ readers \subseteq Revokes \cup Grants

RepairType == repair \in [Revokes -> {"none"} \cup Open \cup Closed]

ManifestType ==
    /\ manifest \in [Revokes -> ManifestRecord]
    /\ holders \in [Revokes -> SUBSET Workers]

RequestType == req \in [Revokes \cup Grants -> RequestLabels]

WorkerType ==
    /\ worker \in [Workers -> WorkerRecord]
    /\ \A w \in Workers : worker[w].pc \in Engaged => worker[w].op \in Revokes

EnvType == artifacts \subseteq Artifacts /\ faults \in 0..MaxFaults /\ crashes \in 0..MaxCrashes

Types == PolicyType /\ RepairType /\ ManifestType /\ RequestType /\ WorkerType /\ EnvType

LEMMA TypesGiveTypeOK == Types => TypeOK
  BY DEF Types, TypeOK, PolicyType, RepairType, ManifestType, RequestType, WorkerType, EnvType,
         RequestLabels

LEMMA InitTypes == Init => Types
  BY ConstantAssumption
  DEF Init, Types, PolicyType, RepairType, ManifestType, RequestType, WorkerType, EnvType,
      RequestLabels, WorkerRecord, ManifestRecord, NoManifest, Idle, Working, Engaged

(* Nothing of the batch w but its record changes. *)
LEMMA StepTypes ==
    ASSUME WorkerType, NEW w \in Workers, NEW rec \in WorkerRecord,
           rec.pc \in Engaged => rec.op \in Revokes, Step(w, rec)
    PROVE  WorkerType'
  BY DEF WorkerType, Step

IdleOrDone == {Idle, [Idle EXCEPT !.pc = "done"]}

LEMMA RestingRecord ==
    ASSUME NEW rec \in IdleOrDone
    PROVE  rec \in WorkerRecord /\ rec.pc \notin Engaged /\ rec.pc \in {"idle", "done"} /\ rec.op = NoOp
<1>1. CASE rec = Idle
  BY <1>1, ConstantAssumption DEF Idle, WorkerRecord, Engaged, Working
<1>2. CASE rec = [Idle EXCEPT !.pc = "done"]
  BY <1>2, ConstantAssumption DEF Idle, WorkerRecord, Engaged, Working
<1>. QED
  BY <1>1, <1>2 DEF IdleOrDone

LEMMA EndStep ==
    ASSUME NEW w \in Workers, End(w)
    PROVE  \E rec \in IdleOrDone : Step(w, rec)
<1>1. CASE w \in Repeating
  BY <1>1 DEF End, IdleOrDone
<1>2. CASE w \notin Repeating
  BY <1>2 DEF End, IdleOrDone
<1>. QED
  BY <1>1, <1>2

LEMMA EndTypes ==
    ASSUME WorkerType, NEW w \in Workers, End(w)
    PROVE  WorkerType'
  BY EndStep, RestingRecord, StepTypes

LEMMA ToTypes ==
    ASSUME WorkerType, NEW w \in Workers, NEW pc \in Engaged \cup {"repairs", "manifests"},
           pc \in Engaged => worker[w].op \in Revokes, To(w, pc)
    PROVE  WorkerType'
<1>. DEFINE rec == [worker[w] EXCEPT !.pc = pc]
<1>1. rec \in WorkerRecord /\ rec.pc = pc /\ rec.op = worker[w].op
  BY DEF WorkerType, WorkerRecord, Engaged, Working
<1>. QED
  BY <1>1, StepTypes DEF To

LEMMA GotoTypes ==
    ASSUME RequestType, NEW r \in Revokes \cup Grants, NEW pc \in RequestLabels, Goto(r, pc)
    PROVE  RequestType' /\ req'[r] = pc /\ \A q \in (Revokes \cup Grants) \ {r} : req'[q] = req[q]
  BY DEF RequestType, Goto

(* An intent that is there stays, a closed one stays closed, and none      *)
(* comes from nothing.                                                     *)
Forward ==
    \A p \in Revokes :
        /\ repair[p] = "none" <=> repair'[p] = "none"
        /\ repair[p] \in Closed => repair'[p] \in Closed

LEMMA TransitionForward ==
    ASSUME RepairType, NEW o \in Revokes, NEW to \in Open \cup Closed, Transition(o, to)
    PROVE  RepairType' /\ Forward
<1>1. ~TransitionAllowed("none", to)
  BY DEF TransitionAllowed
<1>2. \A from \in Closed : ~TransitionAllowed(from, to)
  BY DEF TransitionAllowed, Closed
<1>3. RepairType'
  BY DEF RepairType, Transition, Set
<1>4. ASSUME NEW p \in Revokes PROVE (repair[p] = "none" <=> repair'[p] = "none")
                                      /\ (repair[p] \in Closed => repair'[p] \in Closed)
  <2>1. repair'[p] = IF p = o /\ TransitionAllowed(repair[o], to) THEN to ELSE repair[p]
    BY DEF RepairType, Transition, Set
  <2>. QED
    BY <1>1, <1>2, <2>1 DEF Open, Closed
<1>. QED
  BY <1>3, <1>4 DEF Forward

LEMMA RepairStays ==
    ASSUME RepairType, UNCHANGED repair
    PROVE  RepairType' /\ Forward
  BY DEF RepairType, Forward

LEMMA RegisterTypes ==
    ASSUME ManifestType, NEW o \in Revokes, Register(o), UNCHANGED holders
    PROVE  ManifestType'
<1>1. Registered \in ManifestRecord
  BY ConstantAssumption DEF Registered, ManifestRecord, Pending
<1>. QED
  BY <1>1 DEF ManifestType, Register

(* What Persist does to the batch: it moves on, or it ends. *)
LEMMA PersistTypes ==
    ASSUME ManifestType, WorkerType, NEW w \in Workers, NEW status \in Pending \cup Final,
           NEW next \in WorkerRecord, next.op \in Revokes, Persist(w, status, next)
    PROVE  ManifestType' /\ WorkerType'
<1>1. CASE w \in holders[next.op]
  <2>1. [status |-> status, targets |-> next.targets, cleaned |-> next.cleaned] \in ManifestRecord
    BY DEF ManifestRecord, WorkerRecord
  <2>2. ManifestType'
    BY <1>1, <2>1 DEF Persist, ManifestType
  <2>. QED
    BY <1>1, <2>2, StepTypes DEF Persist
<1>2. CASE w \notin holders[next.op]
  BY <1>2, EndTypes DEF Persist, ManifestType
<1>. QED
  BY <1>1, <1>2

LEMMA HandOverTypes ==
    ASSUME ManifestType, WorkerType, NEW w \in Workers, worker[w].op \in Revokes,
           NEW rec \in WorkerRecord, rec.op \in Revokes, Supersede(w) \/ GiveUp(w, rec)
    PROVE  ManifestType' /\ WorkerType'
<1>1. CASE Supersede(w)
  <2>. DEFINE next == [worker[w] EXCEPT !.pc = "close"]
  <2>1. next \in WorkerRecord /\ next.op \in Revokes
    BY DEF WorkerType, WorkerRecord
  <2>. QED
    BY <1>1, <2>1, PersistTypes DEF Supersede, Final
<1>2. CASE GiveUp(w, rec)
  <2>. DEFINE next == [rec EXCEPT !.pc = "manifests"]
  <2>1. next \in WorkerRecord /\ next.op \in Revokes
    BY DEF WorkerRecord
  <2>. QED
    BY <1>2, <2>1, PersistTypes DEF GiveUp, Pending
<1>. QED
  BY <1>1, <1>2

(* Batches touch intents through transitions only. *)
LEMMA WorkerKeepsRepair ==
    ASSUME RepairType, WorkerType, NEW w \in Workers, WorkerStep(w) \/ CrashWorker(w)
    PROVE  RepairType' /\ Forward
<1>1. CASE RepairRegistered(w) \/ Close(w)
  <2>1. worker[w].op \in Revokes
    BY <1>1 DEF RepairRegistered, Close, WorkerType, Engaged
  <2>. QED
    BY <1>1, <2>1, TransitionForward DEF RepairRegistered, Close, Open, Closed
<1>2. ASSUME NEW o \in Revokes, Repair(w, o) PROVE RepairType' /\ Forward
  BY <1>2, TransitionForward, RepairStays DEF Repair, Open, Closed
<1>3. CASE UNCHANGED repair
  BY <1>3, RepairStays
<1>4. (WorkerStep(w) \/ CrashWorker(w)) =>
         RepairRegistered(w) \/ Close(w) \/ (\E o \in Revokes : Repair(w, o)) \/ UNCHANGED repair
  BY DEF WorkerStep, CrashWorker, Begin, RepairRegister, List, EndBatch, Discover, Recheck, Clean,
         Progress, Verify, FinalCheck, Complete, Load, ledger
<1>. QED
  BY <1>1, <1>2, <1>3, <1>4

(* The types a step of the batch w keeps: its own record, the manifests,   *)
(* the artifacts and the counters.                                         *)
BatchTypes == ManifestType /\ WorkerType /\ EnvType

LEMMA FaultTypes ==
    ASSUME EnvType
    PROVE  /\ Fault => faults' \in 0..MaxFaults
           /\ crashes < MaxCrashes /\ crashes' = crashes + 1 => crashes' \in 0..MaxCrashes
  BY ConstantAssumption DEF EnvType, Fault

LEMMA WorkerKeepsTypes ==
    ASSUME BatchTypes, RepairType, NEW w \in Workers, WorkerStep(w) \/ CrashWorker(w)
    PROVE  BatchTypes'
<1>. DEFINE me == worker[w]
<1>a. me \in WorkerRecord /\ (me.pc \in Engaged => me.op \in Revokes)
  BY DEF BatchTypes, WorkerType
<1>e. EnvType'
  BY <1>a, FaultTypes
  DEF WorkerStep, CrashWorker, Begin, RepairRegister, RepairRegistered, List, EndBatch, Discover,
      Recheck, Clean, Progress, Verify, FinalCheck, Complete, Close, Repair, Load, BatchTypes, EnvType
<1>m. UNCHANGED <<manifest, holders>> => ManifestType'
  BY DEF BatchTypes, ManifestType
<1>1. CASE Begin(w) \/ List(w) \/ EndBatch(w) \/ CrashWorker(w)
  <2>1. {o \in Revokes : repair[o] \in {"prepared", "deny_committed"}} \in SUBSET Revokes
        /\ {o \in Revokes : manifest[o].status \in Pending} \in SUBSET Revokes
    OBVIOUS
  <2>2. WorkerType'
    <3>1. CASE EndBatch(w) \/ CrashWorker(w)
      BY <3>1, EndTypes DEF EndBatch, CrashWorker, BatchTypes
    <3>2. \A queue \in SUBSET Revokes, pc \in {"repairs", "manifests"} :
             LET rec == [Idle EXCEPT !.pc = pc, !.queue = queue]
             IN  rec \in WorkerRecord /\ rec.pc \notin Engaged
      BY ConstantAssumption DEF Idle, WorkerRecord, Engaged, Working
    <3>3. CASE Begin(w) \/ List(w)
      BY <2>1, <3>2, <3>3, StepTypes DEF Begin, List, BatchTypes
    <3>. QED
      BY <1>1, <3>1, <3>3
  <2>. QED
    BY <1>1, <1>e, <1>m, <2>2 DEF BatchTypes, Begin, List, EndBatch, CrashWorker, ledger
<1>2. ASSUME NEW o \in Revokes, Repair(w, o) PROVE BatchTypes'
  <2>1. \A pc \in {"repairs", "register"} :
           LET rec == [me EXCEPT !.queue = me.queue \ {o}, !.op = o, !.pc = pc]
           IN  rec \in WorkerRecord /\ rec.op \in Revokes
    BY <1>a DEF WorkerRecord
  <2>2. LET rec == [me EXCEPT !.queue = me.queue \ {o}]
        IN  rec \in WorkerRecord /\ rec.op = me.op /\ rec.pc = me.pc
    BY <1>a DEF WorkerRecord
  <2>3. WorkerType'
    BY <1>2, <1>a, <2>1, <2>2, StepTypes, EndTypes DEF Repair, BatchTypes
  <2>. QED
    BY <1>2, <1>e, <1>m, <2>3 DEF BatchTypes, Repair
<1>3. CASE RepairRegister(w)
  BY <1>3, <1>a, <1>e, ToTypes, RegisterTypes DEF RepairRegister, BatchTypes, Engaged
<1>4. CASE RepairRegistered(w)
  BY <1>4, <1>a, <1>e, <1>m, ToTypes DEF RepairRegistered, BatchTypes, Engaged
<1>5. CASE Close(w)
  BY <1>5, <1>a, <1>e, <1>m, ToTypes, EndTypes DEF Close, BatchTypes, Engaged
<1>6. ASSUME NEW o \in Revokes, Load(w, o) PROVE BatchTypes'
  <2>. DEFINE rec == [me EXCEPT !.op = o, !.queue = @ \ {o}, !.tried = {}, !.failed = FALSE,
                         !.targets = manifest[o].targets, !.cleaned = manifest[o].cleaned,
                         !.pc = IF manifest[o].status \in Final THEN "close" ELSE "discover"]
  <2>1. rec \in WorkerRecord /\ rec.op \in Revokes
    BY <1>a DEF WorkerRecord, BatchTypes, ManifestType, ManifestRecord
  <2>2. WorkerType'
    BY <1>6, <2>1, StepTypes DEF Load, BatchTypes
  <2>3. ManifestType'
    BY <1>6 DEF Load, BatchTypes, ManifestType
  <2>. QED
    BY <1>e, <2>2, <2>3 DEF BatchTypes
<1>7. CASE Discover(w)
  <2>1. me.op \in Revokes
    BY <1>7, <1>a DEF Discover, Engaged, Working
  <2>2. CASE Supersede(w) \/ GiveUp(w, me)
    BY <1>a, <1>e, <2>1, <2>2, HandOverTypes DEF BatchTypes
  <2>3. ASSUME NEW found \in Findings, NEW status \in Pending, NEW missed \in BOOLEAN,
               Persist(w, status, [me EXCEPT !.targets = @ \cup found, !.failed = missed, !.pc = "recheck"])
        PROVE  BatchTypes'
    <3>1. found \subseteq Artifacts
      BY DEF Findings, Discoverable, BatchTypes, EnvType
    <3>2. LET rec == [me EXCEPT !.targets = @ \cup found, !.failed = missed, !.pc = "recheck"]
          IN  rec \in WorkerRecord /\ rec.op \in Revokes
      BY <1>a, <2>1, <3>1 DEF WorkerRecord
    <3>. QED
      BY <1>e, <2>3, <3>2, PersistTypes DEF BatchTypes
  <2>. QED
    BY <1>7, <2>2, <2>3 DEF Discover, Pending
<1>8. CASE Recheck(w)
  <2>1. me.op \in Revokes
    BY <1>8, <1>a DEF Recheck, Engaged, Working
  <2>2. CASE Supersede(w) \/ GiveUp(w, me)
    BY <1>a, <1>e, <2>1, <2>2, HandOverTypes DEF BatchTypes
  <2>3. ASSUME NEW t \in me.targets, UNCHANGED <<manifest, holders>>,
               Step(w, [me EXCEPT !.pc = "clean", !.target = t, !.tried = @ \cup {t}])
        PROVE  BatchTypes'
    <3>1. LET rec == [me EXCEPT !.pc = "clean", !.target = t, !.tried = @ \cup {t}]
          IN  rec \in WorkerRecord /\ rec.op \in Revokes
      BY <1>a, <2>1 DEF WorkerRecord
    <3>. QED
      BY <1>e, <1>m, <2>3, <3>1, StepTypes DEF BatchTypes
  <2>4. CASE To(w, "verify") /\ UNCHANGED <<manifest, holders>>
    BY <1>e, <1>m, <2>1, <2>4, ToTypes DEF BatchTypes, Engaged, Working
  <2>. QED
    BY <1>8, <2>2, <2>3, <2>4 DEF Recheck
<1>9. CASE Clean(w)
  <2>1. \A failed \in BOOLEAN, cleaned \in SUBSET Artifacts :
           LET rec == [me EXCEPT !.pc = "progress", !.failed = failed, !.cleaned = cleaned]
           IN  rec \in WorkerRecord
    BY <1>a DEF WorkerRecord
  <2>2. me.op \in Revokes /\ me.target \in Artifacts /\ me.cleaned \subseteq Artifacts
    BY <1>9, <1>a DEF Clean, Engaged, Working, WorkerRecord
  <2>3. \E rec \in WorkerRecord : rec.op = me.op /\ Step(w, rec)
    <3>1. LET rec == [me EXCEPT !.pc = "progress", !.cleaned = @ \cup {me.target}]
          IN  rec \in WorkerRecord /\ rec.op = me.op
      BY <1>a, <2>2 DEF WorkerRecord
    <3>2. LET rec == [me EXCEPT !.pc = "progress", !.failed = TRUE]
          IN  rec \in WorkerRecord /\ rec.op = me.op
      BY <1>a DEF WorkerRecord
    <3>. QED
      BY <1>9, <3>1, <3>2 DEF Clean
  <2>. QED
    BY <1>9, <1>e, <1>m, <2>2, <2>3, StepTypes DEF Clean, ledger, BatchTypes
<1>10. CASE Progress(w) \/ Complete(w)
  <2>1. me.op \in Revokes
    BY <1>10, <1>a DEF Progress, Complete, Engaged, Working
  <2>2. \A pc \in {"recheck", "close"} :
           LET rec == [me EXCEPT !.pc = pc] IN rec \in WorkerRecord /\ rec.op \in Revokes
    BY <1>a, <2>1 DEF WorkerRecord
  <2>. QED
    BY <1>10, <1>e, <2>2, PersistTypes DEF Progress, Complete, BatchTypes, Pending, Final
<1>11. CASE Verify(w)
  <2>. DEFINE residual == (me.targets \cap artifacts) \cup Discoverable
              rec == [me EXCEPT !.targets = @ \cup residual, !.cleaned = @ \ residual]
  <2>1. me.op \in Revokes
    BY <1>11, <1>a DEF Verify, Engaged, Working
  <2>2. rec \in WorkerRecord /\ rec.op \in Revokes
    BY <1>a, <2>1 DEF WorkerRecord, Discoverable, BatchTypes, EnvType
  <2>3. CASE GiveUp(w, me) \/ GiveUp(w, rec)
    BY <1>a, <1>e, <2>1, <2>2, <2>3, HandOverTypes DEF BatchTypes
  <2>4. CASE To(w, "final") /\ UNCHANGED <<manifest, holders>>
    BY <1>e, <1>m, <2>1, <2>4, ToTypes DEF BatchTypes, Engaged, Working
  <2>. QED
    BY <1>11, <2>3, <2>4 DEF Verify
<1>12. CASE FinalCheck(w)
  <2>1. me.op \in Revokes
    BY <1>12, <1>a DEF FinalCheck, Engaged, Working
  <2>2. CASE Supersede(w) \/ GiveUp(w, me)
    BY <1>a, <1>e, <2>1, <2>2, HandOverTypes DEF BatchTypes
  <2>3. CASE To(w, "complete") /\ UNCHANGED <<manifest, holders>>
    BY <1>e, <1>m, <2>1, <2>3, ToTypes DEF BatchTypes, Engaged, Working
  <2>. QED
    BY <1>12, <2>2, <2>3 DEF FinalCheck
<1>. QED
  BY <1>1, <1>2, <1>3, <1>4, <1>5, <1>6, <1>7, <1>8, <1>9, <1>10, <1>11, <1>12 DEF WorkerStep

LEMMA NextTypes == Types /\ [Next]_vars => Types'
<1>. SUFFICES ASSUME Types, [Next]_vars PROVE Types'
  OBVIOUS
<1>. USE ConstantAssumption DEF Types
<1>1. ASSUME NEW r \in Revokes \cup Grants, Read(r) \/ CrashRequest(r) PROVE Types'
  <2>1. RequestType'
    BY <1>1, GotoTypes DEF Read, CrashRequest, RequestLabels
  <2>. QED
    BY <1>1, <2>1
    DEF Read, CrashRequest, policy, ledger, PolicyType, RepairType, ManifestType, WorkerType, EnvType
<1>2. CASE ReplaceForOthers
  BY <1>2 DEF ReplaceForOthers, ledger, PolicyType, RepairType, ManifestType, RequestType, WorkerType, EnvType
<1>3. ASSUME NEW o \in Revokes, RevokeStep(o) PROVE Types'
  <2>1. RequestType'
    BY <1>3, GotoTypes
    DEF RevokeStep, Prepare, Deny, Abandon, MarkDeny, RegisterCleanup, MarkRegistered, RequestLabels
  <2>2. RepairType'
    <3>1. CASE Prepare(o)
      BY <3>1 DEF Prepare, Set, RepairType, Open
    <3>2. CASE Deny(o) \/ RegisterCleanup(o) \/ (Abandon(o) /\ UNCHANGED repair)
      BY <3>2 DEF Deny, RegisterCleanup, ledger, RepairType
    <3>3. CASE (Abandon(o) /\ ~UNCHANGED repair) \/ MarkDeny(o) \/ MarkRegistered(o)
      BY <3>3, TransitionForward DEF Abandon, MarkDeny, MarkRegistered, Open, Closed
    <3>. QED
      BY <1>3, <3>1, <3>2, <3>3 DEF RevokeStep
  <2>3. ManifestType'
    <3>1. CASE RegisterCleanup(o)
      BY <3>1, RegisterTypes DEF RegisterCleanup
    <3>2. CASE ~RegisterCleanup(o)
      BY <1>3, <3>2
      DEF RevokeStep, Prepare, Deny, Abandon, MarkDeny, MarkRegistered, ledger, ManifestType
    <3>. QED
      BY <3>1, <3>2
  <2>4. PolicyType'
    BY <1>3
    DEF RevokeStep, Prepare, Deny, DenyLands, Abandon, MarkDeny, RegisterCleanup, MarkRegistered, policy,
        PolicyType
  <2>5. WorkerType' /\ EnvType'
    BY <1>3
    DEF RevokeStep, Prepare, Deny, Abandon, MarkDeny, RegisterCleanup, MarkRegistered, WorkerType, EnvType,
        Fault
  <2>. QED
    BY <2>1, <2>2, <2>3, <2>4, <2>5
<1>4. ASSUME NEW g \in Grants, GrantStep(g) PROVE Types'
  <2>1. RequestType'
    BY <1>4, GotoTypes DEF GrantStep, CheckFence, Grant, RequestLabels
  <2>. QED
    BY <1>4, <2>1
    DEF GrantStep, CheckFence, Grant, policy, ledger, PolicyType, RepairType, ManifestType, WorkerType, EnvType
<1>5. ASSUME NEW a \in Artifacts, Produce(a) PROVE Types'
  BY <1>5
  DEF Produce, policy, ledger, PolicyType, RepairType, ManifestType, RequestType, WorkerType, EnvType
<1>6. ASSUME NEW w \in Workers, WorkerStep(w) \/ CrashWorker(w) PROVE Types'
  <2>1. PolicyType' /\ RequestType'
    BY <1>6
    DEF WorkerStep, CrashWorker, Begin, RepairRegister, RepairRegistered, List, EndBatch, Discover,
        Recheck, Clean, Progress, Verify, FinalCheck, Complete, Close, Repair, Load, policy,
        PolicyType, RequestType
  <2>2. RepairType'
    BY <1>6, WorkerKeepsRepair
  <2>3. ManifestType' /\ WorkerType' /\ EnvType'
    BY <1>6, WorkerKeepsTypes DEF BatchTypes
  <2>. QED
    BY <2>1, <2>2, <2>3
<1>7. CASE UNCHANGED vars
  BY <1>7
  DEF vars, PolicyType, RepairType, ManifestType, RequestType, WorkerType, EnvType
<1>. QED
  BY <1>1, <1>2, <1>3, <1>4, <1>5, <1>6, <1>7 DEF Next

(* Every variable keeps its type, for any requests, batches and artifacts. *)
THEOREM TypeCorrect == Spec => []TypeOK
<1>1. Types /\ [Next]_vars => Types'
  BY NextTypes
<1>. QED
  BY <1>1, InitTypes, TypesGiveTypeOK, PTL DEF Spec

-----------------------------------------------------------------------------
(* The fence.                                                              *)

RevokeLabels == {"idle", "prepare", "deny", "abandon", "mark", "register", "registered", "done", "failed"}

LabelInv ==
    /\ \A o \in Revokes : req[o] \in RevokeLabels
    /\ \A g \in Grants : req[g] \in {"idle", "fence", "grant", "done"}

(* A deny is in force while the permission is gone, and its operation has  *)
(* prepared an intent before it wrote it.                                  *)
DenyInv ==
    /\ granted <=> denier = NoOp
    /\ denier # NoOp => /\ req[denier] \in {"mark", "abandon", "register", "registered", "done", "failed"}
                         /\ repair[denier] # "none"

IntentInv ==
    \A o \in Revokes :
        /\ req[o] \in {"idle", "prepare"} => repair[o] = "none"
        /\ req[o] = "deny" => repair[o] # "none"

(* What the version of the policy keeps for a request that gives the       *)
(* permission back: the deny it read is in force until somebody writes the *)
(* policy, and what the fence check has found then is still so.            *)
ReaderInv ==
    \A g \in Grants \cap readers :
        /\ ~granted
        /\ req[g] = "grant" => repair[denier] \in Closed

FenceInv == Types /\ LabelInv /\ DenyInv /\ IntentInv /\ ReaderInv

GrantIsFenced == ~granted /\ granted' => repair[denier] \in Closed

LEMMA InitFence == Init => FenceInv
  BY InitTypes DEF Init, FenceInv, LabelInv, DenyInv, IntentInv, ReaderInv, RevokeLabels

(* Steps that leave the policy and the requests alone. *)
LEMMA ElsewhereKeepsFence ==
    ASSUME FenceInv, Types', Forward, UNCHANGED <<granted, denier, req>>, readers' \subseteq readers
    PROVE  FenceInv' /\ GrantIsFenced
<1>1. denier # NoOp => denier \in Revokes
  BY DEF FenceInv, Types, PolicyType
<1>2. LabelInv' /\ DenyInv' /\ IntentInv'
  BY <1>1 DEF FenceInv, Forward, LabelInv, DenyInv, IntentInv
<1>3. ReaderInv'
  BY <1>1 DEF FenceInv, Forward, ReaderInv, DenyInv
<1>. QED
  BY <1>2, <1>3 DEF FenceInv, GrantIsFenced

LEMMA ReadKeepsFence ==
    ASSUME FenceInv, Types', NEW r \in Revokes \cup Grants, Read(r)
    PROVE  FenceInv' /\ GrantIsFenced
<1>1. req'[r] = IF r \in Revokes THEN "prepare" ELSE "fence"
  BY DEF Read, Goto, FenceInv, Types, RequestType
<1>2. \A q \in (Revokes \cup Grants) \ {r} : req'[q] = req[q]
  BY DEF Read, Goto, FenceInv, Types, RequestType
<1>3. r \in Revokes => r \notin Grants
  BY DEF Read
<1>4. UNCHANGED <<granted, denier, repair>> /\ readers' = readers \cup {r} /\ req[r] = "idle"
  BY DEF Read, ledger
<1>5. denier # NoOp => denier \in Revokes /\ denier # r
  BY <1>4 DEF FenceInv, Types, PolicyType, DenyInv
<1>6. LabelInv' /\ DenyInv' /\ IntentInv'
  BY <1>1, <1>2, <1>3, <1>4, <1>5 DEF FenceInv, LabelInv, DenyInv, IntentInv, RevokeLabels
<1>7. ReaderInv'
  BY <1>1, <1>2, <1>3, <1>4 DEF FenceInv, ReaderInv, Read
<1>. QED
  BY <1>4, <1>6, <1>7 DEF FenceInv, GrantIsFenced

LEMMA CrashRequestKeepsFence ==
    ASSUME FenceInv, Types', NEW r \in Revokes \cup Grants, CrashRequest(r)
    PROVE  FenceInv' /\ GrantIsFenced
<1>1. /\ req'[r] = "done"
      /\ \A q \in (Revokes \cup Grants) \ {r} : req'[q] = req[q]
  BY DEF CrashRequest, Goto, FenceInv, Types, RequestType
<1>2. UNCHANGED <<granted, denier, repair, readers>>
  BY DEF CrashRequest, ledger, policy
<1>3. denier # NoOp => denier \in Revokes
  BY DEF FenceInv, Types, PolicyType
<1>. QED
  BY <1>1, <1>2, <1>3
  DEF FenceInv, GrantIsFenced, LabelInv, DenyInv, IntentInv, ReaderInv, RevokeLabels

LEMMA RevokeKeepsFence ==
    ASSUME FenceInv, Types', NEW o \in Revokes, RevokeStep(o)
    PROVE  FenceInv' /\ GrantIsFenced
<1>. DEFINE Late == {"mark", "abandon", "register", "registered", "done", "failed"}
<1>1. denier # NoOp => denier \in Revokes
  BY DEF FenceInv, Types, PolicyType
<1>2. \A q \in (Revokes \cup Grants) \ {o} : req'[q] = req[q]
  BY GotoTypes
  DEF RevokeStep, Prepare, Deny, Abandon, MarkDeny, RegisterCleanup, MarkRegistered, Goto,
      FenceInv, Types, RequestType
<1>3. o \notin Grants
  BY DEF RevokeStep, Prepare, Deny, Abandon, MarkDeny, RegisterCleanup, MarkRegistered, FenceInv, LabelInv
<1>4. CASE Prepare(o)
  <2>1. /\ req[o] = "prepare" /\ req'[o] = "deny" /\ repair'[o] = "prepared"
        /\ \A p \in Revokes \ {o} : repair'[p] = repair[p]
        /\ UNCHANGED <<granted, denier, readers>>
    BY <1>4 DEF Prepare, Goto, Set, policy, FenceInv, Types, RequestType, RepairType
  <2>2. denier # o
    BY <2>1, ConstantAssumption DEF FenceInv, DenyInv
  <2>3. LabelInv' /\ IntentInv'
    BY <1>2, <1>3, <2>1 DEF FenceInv, LabelInv, IntentInv, RevokeLabels
  <2>4. DenyInv'
    BY <1>1, <1>2, <2>1, <2>2 DEF FenceInv, DenyInv
  <2>5. ReaderInv'
    BY <1>1, <1>2, <1>3, <2>1, <2>2 DEF FenceInv, ReaderInv, DenyInv
  <2>. QED
    BY <2>1, <2>3, <2>4, <2>5 DEF FenceInv, GrantIsFenced
<1>5. CASE Deny(o) /\ DenyLands(o)
  <2>1. /\ req[o] = "deny" /\ req'[o] \in {"mark", "abandon"}
        /\ granted' = FALSE /\ denier' = o /\ readers' = {} /\ repair' = repair
    BY <1>5 DEF Deny, DenyLands, Goto, ledger, FenceInv, Types, RequestType
  <2>. QED
    BY <1>2, <1>3, <2>1, ConstantAssumption
    DEF FenceInv, GrantIsFenced, LabelInv, DenyInv, IntentInv, ReaderInv, RevokeLabels
<1>6. CASE ~Prepare(o) /\ ~(Deny(o) /\ DenyLands(o))
  <2>1. UNCHANGED <<granted, denier, readers>>
    BY <1>6
    DEF RevokeStep, Deny, Abandon, MarkDeny, RegisterCleanup, MarkRegistered, policy
  <2>2. /\ req[o] \in {"deny", "abandon", "mark", "register", "registered"}
        /\ req'[o] \in {"abandon", "register", "registered", "done", "failed"}
        /\ req[o] \in Late => req'[o] \in Late
    BY <1>6
    DEF RevokeStep, Deny, Abandon, MarkDeny, RegisterCleanup, MarkRegistered, Goto, FenceInv, Types,
        RequestType
  <2>3. Forward
    <3>1. CASE (Abandon(o) /\ ~UNCHANGED repair) \/ MarkDeny(o) \/ MarkRegistered(o)
      BY <3>1, TransitionForward DEF Abandon, MarkDeny, MarkRegistered, Open, Closed, FenceInv, Types
    <3>2. CASE Deny(o) \/ RegisterCleanup(o) \/ (Abandon(o) /\ UNCHANGED repair)
      BY <3>2, RepairStays DEF Deny, RegisterCleanup, ledger, FenceInv, Types
    <3>. QED
      BY <1>6, <3>1, <3>2 DEF RevokeStep
  <2>4. LabelInv' /\ IntentInv'
    BY <1>2, <1>3, <2>2, <2>3 DEF FenceInv, LabelInv, IntentInv, RevokeLabels, Forward
  <2>5. DenyInv'
    <3>1. denier = o => req'[o] \in Late
      BY <2>2, ConstantAssumption DEF FenceInv, DenyInv
    <3>. QED
      BY <1>1, <1>2, <2>1, <2>3, <3>1 DEF FenceInv, DenyInv, Forward
  <2>6. ReaderInv'
    BY <1>1, <1>2, <1>3, <2>1, <2>3 DEF FenceInv, ReaderInv, DenyInv, Forward
  <2>. QED
    BY <2>1, <2>4, <2>5, <2>6 DEF FenceInv, GrantIsFenced
<1>. QED
  BY <1>4, <1>5, <1>6

LEMMA GrantKeepsFence ==
    ASSUME FenceInv, Types', NEW g \in Grants, GrantStep(g)
    PROVE  FenceInv' /\ GrantIsFenced
<1>1. denier # NoOp => denier \in Revokes
  BY DEF FenceInv, Types, PolicyType
<1>2. \A q \in (Revokes \cup Grants) \ {g} : req'[q] = req[q]
  BY DEF GrantStep, CheckFence, Grant, Goto, FenceInv, Types, RequestType
<1>3. g \notin Revokes
  BY DEF GrantStep, CheckFence, Grant, FenceInv, LabelInv, RevokeLabels
<1>4. repair' = repair
  BY DEF GrantStep, CheckFence, Grant, ledger
<1>5. CASE CheckFence(g)
  <2>1. /\ req'[g] = IF FenceReleased THEN "grant" ELSE "done"
        /\ UNCHANGED <<granted, denier, readers>>
    BY <1>5 DEF CheckFence, Goto, policy, FenceInv, Types, RequestType
  <2>2. LabelInv' /\ DenyInv' /\ IntentInv'
    BY <1>1, <1>2, <1>3, <1>4, <2>1 DEF FenceInv, LabelInv, DenyInv, IntentInv
  <2>3. g \in readers /\ FenceReleased => repair[denier] \in Closed
    BY <1>1 DEF FenceReleased, FenceInv, DenyInv, ReaderInv, Types, RepairType
  <2>4. ReaderInv'
    BY <1>1, <1>2, <1>4, <2>1, <2>3 DEF FenceInv, ReaderInv
  <2>. QED
    BY <2>1, <2>2, <2>4 DEF FenceInv, GrantIsFenced
<1>6. CASE Grant(g)
  <2>1. req[g] = "grant" /\ req'[g] = "done"
    BY <1>6 DEF Grant, Goto, FenceInv, Types, RequestType
  <2>2. CASE g \in readers
    <3>1. granted' = TRUE /\ denier' = NoOp /\ readers' = {}
      BY <1>6, <2>2 DEF Grant
    <3>2. GrantIsFenced
      BY <2>1, <2>2 DEF GrantIsFenced, FenceInv, ReaderInv
    <3>. QED
      BY <1>2, <1>3, <1>4, <2>1, <3>1, <3>2 DEF FenceInv, LabelInv, DenyInv, IntentInv, ReaderInv
  <2>3. CASE g \notin readers
    <3>1. UNCHANGED <<granted, denier, readers>>
      BY <1>6, <2>3 DEF Grant, policy
    <3>2. LabelInv' /\ DenyInv' /\ IntentInv'
      BY <1>1, <1>2, <1>3, <1>4, <2>1, <3>1 DEF FenceInv, LabelInv, DenyInv, IntentInv
    <3>3. ReaderInv'
      BY <1>2, <1>4, <2>1, <3>1 DEF FenceInv, ReaderInv
    <3>. QED
      BY <3>1, <3>2, <3>3 DEF FenceInv, GrantIsFenced
  <2>. QED
    BY <2>2, <2>3
<1>. QED
  BY <1>5, <1>6 DEF GrantStep

LEMMA NextFence == FenceInv /\ [Next]_vars => FenceInv' /\ GrantIsFenced
<1>. SUFFICES ASSUME FenceInv, [Next]_vars PROVE FenceInv' /\ GrantIsFenced
  OBVIOUS
<1>0. Types'
  BY NextTypes DEF FenceInv
<1>1. ASSUME NEW r \in Revokes \cup Grants, Read(r) \/ CrashRequest(r) PROVE FenceInv' /\ GrantIsFenced
  BY <1>0, <1>1, ReadKeepsFence, CrashRequestKeepsFence
<1>2. ASSUME NEW o \in Revokes, RevokeStep(o) PROVE FenceInv' /\ GrantIsFenced
  BY <1>0, <1>2, RevokeKeepsFence
<1>3. ASSUME NEW g \in Grants, GrantStep(g) PROVE FenceInv' /\ GrantIsFenced
  BY <1>0, <1>3, GrantKeepsFence
<1>4. ASSUME NEW w \in Workers, WorkerStep(w) \/ CrashWorker(w) PROVE FenceInv' /\ GrantIsFenced
  <2>1. UNCHANGED <<granted, denier, req, readers>>
    BY <1>4
    DEF WorkerStep, CrashWorker, Begin, RepairRegister, RepairRegistered, List, EndBatch, Discover,
        Recheck, Clean, Progress, Verify, FinalCheck, Complete, Close, Repair, Load, policy
  <2>2. Forward
    BY <1>4, WorkerKeepsRepair DEF FenceInv, Types
  <2>. QED
    BY <1>0, <2>1, <2>2, ElsewhereKeepsFence
<1>5. CASE ReplaceForOthers \/ (\E a \in Artifacts : Produce(a)) \/ UNCHANGED vars
  <2>1. UNCHANGED <<granted, denier, req, repair>> /\ readers' \subseteq readers
    BY <1>5 DEF ReplaceForOthers, Produce, vars, policy, ledger
  <2>. QED
    BY <1>0, <2>1, RepairStays, ElsewhereKeepsFence DEF FenceInv, Types
<1>. QED
  BY <1>1, <1>2, <1>3, <1>4, <1>5 DEF Next

(* What a request knows of the deny and of its intent when it comes to     *)
(* write the policy.                                                       *)
THEOREM FenceInvariant == Spec => []FenceInv
<1>1. FenceInv /\ [Next]_vars => FenceInv'
  BY NextFence
<1>. QED
  BY <1>1, InitFence, PTL DEF Spec

(* The permission is given back only after the intent of the deny in force *)
(* is closed, although the fence is read before the policy is written and  *)
(* other requests, batches and deaths come in between.                     *)
THEOREM GrantsAreFenced == Spec => NoGrantUnderOpenFence
<1>1. FenceInv /\ [Next]_vars => [GrantIsFenced]_vars
  BY NextFence
<1>2. [GrantIsFenced]_vars => [~granted /\ granted' => repair[denier] \in Closed]_vars
  BY DEF GrantIsFenced
<1>. QED
  BY <1>1, <1>2, FenceInvariant, PTL DEF Spec, NoGrantUnderOpenFence

-----------------------------------------------------------------------------
(* What is left of the recorded targets once a cleanup is complete.        *)

(* An operation that may still write its deny. *)
Uncommitted(o) == req[o] \in {"idle", "prepare"} \/ (req[o] = "deny" /\ o \in readers)

(* Until then its manifest does not exist, and the permission it has read  *)
(* is still granted.                                                       *)
BeforeDeny ==
    \A o \in Revokes :
        /\ Uncommitted(o) => manifest[o].status = "none"
        /\ o \in readers => granted

StandingInv ==
    \A o \in Revokes :
        denier = o /\ manifest[o].status = "completed" => manifest[o].targets \cap artifacts = {}

(* What a batch relies on: what it works on was prepared or registered, a  *)
(* current copy has all the recorded targets, and one that found no        *)
(* residual was right.                                                     *)
BatchInv(w) ==
    LET me == worker[w] IN
    /\ me.op \in Revokes => ~Uncommitted(me.op)
    /\ me.pc \in {"repairs", "register", "registered"} => \A o \in me.queue : repair[o] # "none"
    /\ me.pc \in Working \cup {"manifests", "close"} =>
          \A o \in me.queue : manifest[o].status # "none"
    /\ me.pc \in Working =>
          /\ manifest[me.op].status # "none"
          /\ w \in holders[me.op] => me.targets = manifest[me.op].targets
    /\ me.pc \in {"final", "complete"} /\ w \in holders[me.op] /\ denier = me.op =>
          me.targets \cap artifacts = {}

CleanupInv == FenceInv /\ BeforeDeny /\ StandingInv /\ \A w \in Workers : BatchInv(w)

LEMMA InitCleanup == Init => CleanupInv
  BY InitFence, ConstantAssumption
  DEF Init, CleanupInv, BeforeDeny, StandingInv, BatchInv, Idle, Working, NoManifest

(* What is known of the state after any step. *)
After ==
    /\ FenceInv'
    /\ \A p \in Revokes : repair[p] # "none" => repair'[p] # "none"

(* What the steps of the others never do to a batch: go back before the    *)
(* deny, lose a manifest, write one and leave older copies current, bring  *)
(* back work under a deny.                                                 *)
Grow ==
    \A p \in Revokes :
        /\ Uncommitted(p)' => Uncommitted(p)
        /\ manifest[p].status # "none" => manifest'[p].status # "none"
        /\ denier' = p => Uncommitted(p) \/ (denier = p /\ artifacts' \subseteq artifacts)

CopyKept(q) ==
    \A p \in Revokes : manifest[p].status # "none" /\ q \in holders'[p] =>
        q \in holders[p] /\ manifest'[p].targets = manifest[p].targets

LEMMA OtherBatch ==
    ASSUME Types, After, NEW q \in Workers, BatchInv(q), worker'[q] = worker[q], Grow, CopyKept(q)
    PROVE  BatchInv(q)'
<1>. DEFINE me == worker[q]
<1>1. me \in WorkerRecord /\ (me.pc \in Engaged => me.op \in Revokes)
  BY DEF Types, WorkerType
<1>2. \A p \in Revokes : p = me.op => ~Uncommitted(p)'
  BY DEF BatchInv, Grow
<1>3. me.pc \in {"repairs", "register", "registered"} => \A o \in me.queue : repair'[o] # "none"
  BY <1>1 DEF BatchInv, After, WorkerRecord
<1>4. me.pc \in Working \cup {"manifests", "close"} => \A o \in me.queue : manifest'[o].status # "none"
  BY <1>1 DEF BatchInv, Grow, WorkerRecord
<1>5. me.pc \in Working =>
          /\ manifest'[me.op].status # "none"
          /\ q \in holders'[me.op] => me.targets = manifest'[me.op].targets
  BY <1>1 DEF BatchInv, Grow, CopyKept, Engaged
<1>6. me.pc \in {"final", "complete"} /\ q \in holders'[me.op] /\ denier' = me.op =>
          me.targets \cap artifacts' = {}
  BY <1>1 DEF BatchInv, Grow, CopyKept, Engaged, Working
<1>. QED
  BY <1>2, <1>3, <1>4, <1>5, <1>6 DEF BatchInv

(* A manifest that stays, under a deny that is not new. *)
LEMMA StandingStays ==
    ASSUME BeforeDeny, StandingInv, Grow, UNCHANGED manifest
    PROVE  StandingInv'
  BY DEF BeforeDeny, StandingInv, Grow

(* Only requests move. *)
LEMMA RequestsKeepCleanup ==
    ASSUME CleanupInv, After,
           \/ \E r \in Revokes \cup Grants : Read(r) \/ CrashRequest(r)
           \/ \E o \in Revokes : Prepare(o) \/ Deny(o) \/ Abandon(o) \/ MarkDeny(o) \/ MarkRegistered(o)
           \/ \E g \in Grants : CheckFence(g) \/ Grant(g)
           \/ ReplaceForOthers
           \/ UNCHANGED vars
    PROVE  CleanupInv'
<1>1. UNCHANGED <<manifest, holders, artifacts, worker>>
  BY DEF Read, CrashRequest, Prepare, Deny, Abandon, MarkDeny, MarkRegistered, CheckFence, Grant,
         ReplaceForOthers, vars, ledger
<1>2. \A o \in Revokes : /\ Uncommitted(o)' => Uncommitted(o)
                         /\ denier' = o => denier = o \/ Uncommitted(o)
                         /\ o \in readers' => granted'
  BY ConstantAssumption
  DEF Read, CrashRequest, Prepare, Deny, DenyLands, Abandon, MarkDeny, MarkRegistered, CheckFence, Grant,
      ReplaceForOthers, vars, policy, Goto, Uncommitted, CleanupInv, BeforeDeny, FenceInv, Types,
      RequestType
<1>3. Grow /\ \A q \in Workers : CopyKept(q)
  BY <1>1, <1>2 DEF Grow, CopyKept
<1>4. \A q \in Workers : BatchInv(q)'
  BY <1>1, <1>3, OtherBatch DEF CleanupInv, FenceInv
<1>5. BeforeDeny' /\ StandingInv'
  BY <1>1, <1>2, <1>3, StandingStays DEF CleanupInv, BeforeDeny
<1>. QED
  BY <1>4, <1>5 DEF CleanupInv, After

LEMMA ProduceKeepsCleanup ==
    ASSUME CleanupInv, After, NEW a \in Artifacts, Produce(a)
    PROVE  CleanupInv'
<1>1. UNCHANGED <<manifest, holders, denier, readers, req, worker, granted>> /\ granted
  BY DEF Produce, policy, ledger
<1>2. \A o \in Revokes : denier # o
  BY <1>1, ConstantAssumption DEF CleanupInv, FenceInv, DenyInv
<1>3. Grow /\ \A q \in Workers : CopyKept(q)
  BY <1>1, <1>2 DEF Grow, CopyKept, Uncommitted
<1>4. \A q \in Workers : BatchInv(q)'
  BY <1>1, <1>3, OtherBatch DEF CleanupInv, FenceInv
<1>5. BeforeDeny' /\ StandingInv'
  BY <1>1, <1>2 DEF CleanupInv, BeforeDeny, StandingInv, Uncommitted
<1>. QED
  BY <1>4, <1>5 DEF CleanupInv, After

(* Registering a manifest completes nothing. *)
LEMMA RegisterEffect ==
    ASSUME CleanupInv, NEW o \in Revokes, Register(o), ~Uncommitted(o),
           UNCHANGED <<holders, artifacts, policy>>,
           \A p \in Revokes : Uncommitted(p)' => Uncommitted(p)
    PROVE  Grow /\ (\A q \in Workers : CopyKept(q)) /\ BeforeDeny' /\ StandingInv'
<1>1. /\ manifest'[o] = IF manifest[o].status = "none" THEN Registered ELSE manifest[o]
      /\ \A p \in Revokes \ {o} : manifest'[p] = manifest[p]
  BY DEF Register, CleanupInv, FenceInv, Types, ManifestType
<1>2. Registered.status = "cleanup_pending"
  BY DEF Registered
<1>3. Grow /\ \A q \in Workers : CopyKept(q)
  BY <1>1, <1>2 DEF Grow, CopyKept, policy
<1>4. BeforeDeny'
  BY <1>1 DEF CleanupInv, BeforeDeny, policy
<1>5. StandingInv'
  BY <1>1, <1>2 DEF CleanupInv, StandingInv, policy
<1>. QED
  BY <1>3, <1>4, <1>5

LEMMA RegisterCleanupKeepsCleanup ==
    ASSUME CleanupInv, After, NEW o \in Revokes, RegisterCleanup(o)
    PROVE  CleanupInv'
<1>1. UNCHANGED <<holders, artifacts, policy, worker>> /\ Register(o)
  BY DEF RegisterCleanup
<1>2. ~Uncommitted(o) /\ \A p \in Revokes : Uncommitted(p)' => Uncommitted(p)
  BY <1>1 DEF RegisterCleanup, Goto, Uncommitted, policy, CleanupInv, FenceInv, Types, RequestType
<1>3. Grow /\ (\A q \in Workers : CopyKept(q)) /\ BeforeDeny' /\ StandingInv'
  BY <1>1, <1>2, RegisterEffect
<1>. QED
  BY <1>1, <1>3, OtherBatch DEF CleanupInv, FenceInv, After

-----------------------------------------------------------------------------
(* The steps of batches.                                                   *)

LEMMA StepMoves ==
    ASSUME Types, NEW w \in Workers, NEW rec, Step(w, rec)
    PROVE  worker'[w] = rec /\ \A q \in Workers \ {w} : worker'[q] = worker[q]
  BY DEF Types, WorkerType, Step

(* Of everything the cleanup depends on only the batch w moves. *)
LEMMA BatchMoves ==
    ASSUME CleanupInv, After, NEW w \in Workers, NEW rec, Step(w, rec),
           UNCHANGED <<policy, manifest, holders, artifacts, req>>, BatchInv(w)'
    PROVE  CleanupInv'
<1>1. Grow /\ \A q \in Workers : CopyKept(q)
  BY DEF Grow, CopyKept, Uncommitted, policy
<1>2. \A q \in Workers : BatchInv(q)'
  BY <1>1, StepMoves, OtherBatch DEF CleanupInv, FenceInv
<1>3. BeforeDeny' /\ StandingInv'
  BY DEF CleanupInv, BeforeDeny, StandingInv, Uncommitted, policy
<1>. QED
  BY <1>2, <1>3 DEF CleanupInv, After

LEMMA RestingBatch ==
    ASSUME Types, NEW w \in Workers, End(w)
    PROVE  BatchInv(w)'
<1>1. PICK rec \in IdleOrDone : Step(w, rec)
  BY EndStep
<1>2. worker'[w] = rec
  BY <1>1, StepMoves
<1>. QED
  BY <1>2, RestingRecord, ConstantAssumption DEF BatchInv, Working

LEMMA EndKeeps ==
    ASSUME CleanupInv, After, NEW w \in Workers, End(w),
           UNCHANGED <<policy, manifest, holders, artifacts, req>>
    PROVE  CleanupInv'
  BY EndStep, RestingBatch, BatchMoves DEF CleanupInv, FenceInv

(* A batch that lists, repairs, or moves on without touching a manifest. *)
LEMMA ListingKeepsCleanup ==
    ASSUME CleanupInv, After, NEW w \in Workers,
           Begin(w) \/ List(w) \/ EndBatch(w) \/ CrashWorker(w) \/ RepairRegistered(w) \/ Close(w)
    PROVE  CleanupInv'
<1>. DEFINE me == worker[w]
<1>0. BatchInv(w) /\ me \in WorkerRecord
  BY DEF CleanupInv, FenceInv, Types, WorkerType
<1>1. UNCHANGED <<policy, manifest, holders, artifacts, req>>
  BY DEF Begin, List, EndBatch, CrashWorker, RepairRegistered, Close, ledger
<1>2. CASE End(w)
  BY <1>1, <1>2, EndKeeps
<1>3. CASE Begin(w)
  <2>. DEFINE rec == [Idle EXCEPT !.pc = "repairs",
                            !.queue = {o \in Revokes : repair[o] \in {"prepared", "deny_committed"}}]
  <2>1. Step(w, rec) /\ UNCHANGED repair
    BY <1>3 DEF Begin, ledger
  <2>2. rec.op = NoOp /\ rec.pc = "repairs" /\ \A o \in rec.queue : repair[o] # "none"
    BY DEF Idle
  <2>3. BatchInv(w)'
    BY <2>1, <2>2, StepMoves, ConstantAssumption DEF BatchInv, Working, CleanupInv, FenceInv
  <2>. QED
    BY <1>1, <2>1, <2>3, BatchMoves
<1>4. CASE List(w)
  <2>. DEFINE rec == [Idle EXCEPT !.pc = "manifests",
                            !.queue = {o \in Revokes : manifest[o].status \in Pending}]
  <2>1. Step(w, rec)
    BY <1>4 DEF List
  <2>2. rec.op = NoOp /\ rec.pc = "manifests" /\ \A o \in rec.queue : manifest[o].status # "none"
    BY DEF Idle, Pending
  <2>3. BatchInv(w)'
    BY <1>1, <2>1, <2>2, StepMoves, ConstantAssumption DEF BatchInv, Working, CleanupInv, FenceInv
  <2>. QED
    BY <1>1, <2>1, <2>3, BatchMoves
<1>5. CASE RepairRegistered(w) \/ (Close(w) /\ ~End(w))
  <2>1. PICK pc \in {"repairs", "manifests"} :
           /\ Step(w, [me EXCEPT !.pc = pc])
           /\ me.pc = IF pc = "manifests" THEN "close" ELSE "registered"
    BY <1>5 DEF RepairRegistered, Close, To
  <2>. DEFINE rec == [me EXCEPT !.pc = pc]
  <2>2. rec.pc = pc /\ rec.op = me.op /\ rec.queue = me.queue /\ me.queue \subseteq Revokes
    BY <1>0 DEF WorkerRecord
  <2>3. worker'[w] = rec
    BY <2>1, StepMoves DEF CleanupInv, FenceInv
  <2>4. \A p \in Revokes : p = me.op => ~Uncommitted(p)'
    BY <1>0, <1>1 DEF BatchInv, Uncommitted, policy
  <2>. HIDE DEF rec
  <2>5. ASSUME pc = "manifests" PROVE BatchInv(w)'
    <3>1. \A o \in me.queue : manifest'[o].status # "none"
      BY <1>0, <1>1, <2>1, <2>5 DEF BatchInv
    <3>2. rec.pc = "manifests" /\ rec.pc \notin Working
      BY <2>2, <2>5 DEF Working
    <3>. QED
      BY <2>2, <2>3, <2>4, <3>1, <3>2 DEF BatchInv
  <2>6. ASSUME pc = "repairs" PROVE BatchInv(w)'
    <3>1. \A o \in me.queue : repair'[o] # "none"
      BY <1>0, <2>1, <2>2, <2>6 DEF BatchInv, After
    <3>2. rec.pc = "repairs" /\ rec.pc \notin Working
      BY <2>2, <2>6 DEF Working
    <3>. QED
      BY <2>2, <2>3, <2>4, <3>1, <3>2 DEF BatchInv
  <2>. QED
    BY <1>1, <2>1, <2>5, <2>6, BatchMoves DEF rec
<1>. QED
  BY <1>2, <1>3, <1>4, <1>5 DEF EndBatch, CrashWorker

LEMMA RepairKeepsCleanup ==
    ASSUME CleanupInv, After, NEW w \in Workers, NEW o \in Revokes, Repair(w, o)
    PROVE  CleanupInv'
<1>. DEFINE me == worker[w]
<1>0. BatchInv(w) /\ me \in WorkerRecord /\ me.pc = "repairs" /\ o \in me.queue
  BY DEF CleanupInv, FenceInv, Types, WorkerType, Repair
<1>1. UNCHANGED <<policy, manifest, holders, artifacts, req>>
  BY DEF Repair
<1>2. \A p \in me.queue : p \in Revokes /\ repair'[p] # "none"
  BY <1>0 DEF BatchInv, After, WorkerRecord
<1>3. CASE End(w)
  BY <1>1, <1>3, EndKeeps
<1>4. CASE Step(w, [me EXCEPT !.queue = me.queue \ {o}])
  <2>. DEFINE rec == [me EXCEPT !.queue = me.queue \ {o}]
  <2>1. rec.pc = "repairs" /\ rec.op = me.op /\ rec.queue \subseteq me.queue
    BY <1>0 DEF WorkerRecord
  <2>2. worker'[w] = rec
    BY <1>4, StepMoves DEF CleanupInv, FenceInv
  <2>. HIDE DEF rec
  <2>3. \A p \in Revokes : p = me.op => ~Uncommitted(p)'
    BY <1>0, <1>1 DEF BatchInv, Uncommitted, policy
  <2>4. BatchInv(w)'
    BY <1>2, <2>1, <2>2, <2>3 DEF BatchInv, Working
  <2>. QED
    BY <1>1, <1>4, <2>4, BatchMoves DEF rec
<1>5. CASE DenyCurrent /\ Step(w, [me EXCEPT !.queue = me.queue \ {o}, !.op = o, !.pc = "register"])
  <2>. DEFINE rec == [me EXCEPT !.queue = me.queue \ {o}, !.op = o, !.pc = "register"]
  <2>1. rec.pc = "register" /\ rec.op = o /\ rec.queue \subseteq me.queue
    BY <1>0 DEF WorkerRecord
  <2>2. ~Uncommitted(o)
    BY <1>0, <1>5 DEF BatchInv, Uncommitted, CleanupInv, FenceInv, IntentInv, BeforeDeny, DenyCurrent
  <2>3. ~Uncommitted(o)'
    BY <1>1, <2>2 DEF Uncommitted, policy
  <2>4. worker'[w] = rec
    BY <1>5, StepMoves DEF CleanupInv, FenceInv
  <2>. HIDE DEF rec
  <2>5. BatchInv(w)'
    BY <1>2, <2>1, <2>3, <2>4 DEF BatchInv, Working
  <2>. QED
    BY <1>1, <1>5, <2>5, BatchMoves DEF rec
<1>. QED
  BY <1>3, <1>4, <1>5 DEF Repair

LEMMA RepairRegisterKeepsCleanup ==
    ASSUME CleanupInv, After, NEW w \in Workers, RepairRegister(w)
    PROVE  CleanupInv'
<1>. DEFINE me == worker[w]
            rec == [me EXCEPT !.pc = "registered"]
<1>0. BatchInv(w) /\ me \in WorkerRecord /\ me.op \in Revokes /\ me.pc = "register"
  BY DEF CleanupInv, FenceInv, Types, WorkerType, RepairRegister, Engaged
<1>1. UNCHANGED <<holders, artifacts, policy, req>> /\ Register(me.op) /\ Step(w, rec)
  BY DEF RepairRegister, To
<1>2. ~Uncommitted(me.op) /\ \A p \in Revokes : Uncommitted(p)' <=> Uncommitted(p)
  BY <1>0, <1>1 DEF BatchInv, Uncommitted, policy
<1>3. Grow /\ (\A q \in Workers : CopyKept(q)) /\ BeforeDeny' /\ StandingInv'
  BY <1>0, <1>1, <1>2, RegisterEffect
<1>4. rec.pc = "registered" /\ rec.op = me.op /\ rec.queue = me.queue
  BY <1>0 DEF WorkerRecord
<1>5. worker'[w] = rec /\ \A q \in Workers \ {w} : worker'[q] = worker[q]
  BY <1>1, StepMoves DEF CleanupInv, FenceInv
<1>6. \A p \in me.queue : repair'[p] # "none"
  BY <1>0 DEF BatchInv, After, WorkerRecord
<1>7. \A p \in Revokes : p = me.op => ~Uncommitted(p)'
  BY <1>0, <1>2
<1>. HIDE DEF rec
<1>8. BatchInv(w)'
  BY <1>4, <1>5, <1>6, <1>7 DEF BatchInv, Working
<1>9. \A q \in Workers : BatchInv(q)'
  BY <1>3, <1>5, <1>8, OtherBatch DEF CleanupInv, FenceInv
<1>. QED
  BY <1>3, <1>9 DEF CleanupInv, After

LEMMA LoadKeepsCleanup ==
    ASSUME CleanupInv, After, NEW w \in Workers, NEW o \in Revokes, Load(w, o)
    PROVE  CleanupInv'
<1>. DEFINE me == worker[w]
            rec == [me EXCEPT !.op = o, !.queue = @ \ {o}, !.tried = {}, !.failed = FALSE,
                        !.targets = manifest[o].targets, !.cleaned = manifest[o].cleaned,
                        !.pc = IF manifest[o].status \in Final THEN "close" ELSE "discover"]
<1>0. BatchInv(w) /\ me \in WorkerRecord /\ me.pc = "manifests" /\ o \in me.queue
  BY DEF CleanupInv, FenceInv, Types, WorkerType, Load
<1>1. /\ UNCHANGED <<policy, manifest, artifacts, req>> /\ Step(w, rec)
      /\ holders' = [holders EXCEPT ![o] = @ \cup {w}]
  BY DEF Load
<1>2. /\ rec.op = o /\ rec.pc \in {"close", "discover"}
      /\ rec.queue \subseteq me.queue /\ rec.targets = manifest[o].targets
  BY <1>0 DEF WorkerRecord
<1>3. manifest[o].status # "none" /\ ~Uncommitted(o)
  BY <1>0 DEF BatchInv, CleanupInv, BeforeDeny
<1>4. worker'[w] = rec /\ \A q \in Workers \ {w} : worker'[q] = worker[q]
  BY <1>1, StepMoves DEF CleanupInv, FenceInv
<1>5. ~Uncommitted(o)'
  BY <1>1, <1>3 DEF Uncommitted, policy
<1>6. \A p \in me.queue : manifest'[p].status # "none"
  BY <1>0, <1>1 DEF BatchInv
<1>7. BatchInv(w)'
  BY <1>1, <1>2, <1>3, <1>4, <1>5, <1>6 DEF BatchInv, Working
<1>8. Grow /\ \A q \in Workers \ {w} : CopyKept(q)
  BY <1>1 DEF Grow, CopyKept, Uncommitted, policy, CleanupInv, FenceInv, Types, ManifestType
<1>9. \A q \in Workers : BatchInv(q)'
  BY <1>4, <1>7, <1>8, OtherBatch DEF CleanupInv, FenceInv
<1>. QED
  BY <1>1, <1>9 DEF CleanupInv, BeforeDeny, StandingInv, Uncommitted, policy, After

(* A batch at work, its step left aside. *)
AtWork(w) ==
    /\ worker[w] \in WorkerRecord /\ worker[w].op \in Revokes
    /\ worker[w].pc \in Working /\ BatchInv(w)
    /\ ~Uncommitted(worker[w].op)

LEMMA WorkingBatch ==
    ASSUME CleanupInv, NEW w \in Workers, worker[w].pc \in Working
    PROVE  AtWork(w)
  BY DEF CleanupInv, FenceInv, Types, WorkerType, AtWork, BatchInv, Engaged

(* Writing a manifest: completion is reported only when nothing of the     *)
(* recorded targets is left.                                               *)
LEMMA PersistKeeps ==
    ASSUME CleanupInv, After, NEW w \in Workers, AtWork(w),
           NEW status \in Pending \cup Final, NEW next,
           next.op = worker[w].op, next.queue = worker[w].queue,
           next.pc \in {"close", "manifests", "recheck"},
           w \in holders[next.op] /\ denier = next.op /\ status = "completed" =>
               next.targets \cap artifacts = {},
           Persist(w, status, next), UNCHANGED <<policy, artifacts, req>>
    PROVE  CleanupInv'
<1>. DEFINE me == worker[w]
            o == next.op
            saved == [status |-> status, targets |-> next.targets, cleaned |-> next.cleaned]
<1>1. CASE w \notin holders[o]
  BY <1>1, EndKeeps DEF Persist
<1>2. CASE w \in holders[o]
  <2>1. /\ o \in Revokes /\ ~Uncommitted(o) /\ manifest[o].status # "none"
        /\ \A p \in next.queue : manifest[p].status # "none"
    BY <1>2 DEF AtWork, BatchInv
  <2>2. saved.status \in Pending \cup Final /\ saved.targets = next.targets
        /\ saved.status = status
    OBVIOUS
  <2>3. /\ manifest'[o] = saved /\ holders'[o] = {w}
        /\ \A p \in Revokes \ {o} : manifest'[p] = manifest[p] /\ holders'[p] = holders[p]
    BY <1>2, <2>1 DEF Persist, CleanupInv, FenceInv, Types, ManifestType
  <2>4. worker'[w] = next /\ \A q \in Workers \ {w} : worker'[q] = worker[q]
    BY <1>2, StepMoves DEF Persist, CleanupInv, FenceInv
  <2>5. saved.status # "none"
    BY <2>2 DEF Pending, Final
  <2>6. Grow
    BY <2>1, <2>3, <2>5 DEF Grow, Uncommitted, policy
  <2>7. \A q \in Workers \ {w} : CopyKept(q)
    BY <2>3 DEF CopyKept
  <2>8. BatchInv(w)'
    <3>1. \A p \in next.queue : manifest'[p].status # "none"
      <4>1. next.queue \subseteq Revokes
        BY DEF AtWork, WorkerRecord
      <4>. QED
        BY <2>1, <2>3, <2>5, <4>1
    <3>2. manifest'[o].status # "none" /\ manifest'[o].targets = next.targets
      BY <2>2, <2>3, <2>5
    <3>3. o \in Revokes /\ ~Uncommitted(o)'
      BY <2>1 DEF Uncommitted, policy
    <3>4. next.pc \notin {"clean", "final", "complete", "repairs", "register", "registered"}
      OBVIOUS
    <3>. HIDE DEF o, saved, me
    <3>. QED
      BY <2>4, <3>1, <3>2, <3>3, <3>4 DEF BatchInv, o
  <2>9. \A q \in Workers : BatchInv(q)'
    BY <2>4, <2>6, <2>7, <2>8, OtherBatch DEF CleanupInv, FenceInv
  <2>10. BeforeDeny'
    BY <2>1, <2>3, <2>5 DEF CleanupInv, BeforeDeny, Uncommitted, policy
  <2>11. StandingInv'
    BY <1>2, <2>2, <2>3 DEF CleanupInv, StandingInv, policy
  <2>. QED
    BY <2>9, <2>10, <2>11 DEF CleanupInv, After
<1>. QED
  BY <1>1, <1>2

LEMMA HandOverKeeps ==
    ASSUME CleanupInv, After, NEW w \in Workers, AtWork(w), NEW rec,
           rec.op = worker[w].op, rec.queue = worker[w].queue, rec \in WorkerRecord,
           Supersede(w) \/ GiveUp(w, rec), UNCHANGED <<policy, artifacts, req>>
    PROVE  CleanupInv'
<1>1. CASE Supersede(w)
  <2>. DEFINE next == [worker[w] EXCEPT !.pc = "close"]
  <2>1. next.op = worker[w].op /\ next.queue = worker[w].queue /\ next.pc = "close"
    BY DEF AtWork, WorkerRecord
  <2>. QED
    BY <1>1, <2>1, PersistKeeps DEF Supersede, Pending, Final
<1>2. CASE GiveUp(w, rec)
  <2>. DEFINE next == [rec EXCEPT !.pc = "manifests"]
  <2>1. next.op = worker[w].op /\ next.queue = worker[w].queue /\ next.pc = "manifests"
    BY DEF WorkerRecord
  <2>. QED
    BY <1>2, <2>1, PersistKeeps DEF GiveUp, Pending
<1>. QED
  BY <1>1, <1>2

(* A checkpoint, whatever it adds. *)
LEMMA CheckpointKeeps ==
    ASSUME CleanupInv, After, NEW w \in Workers, NEW status \in Pending, NEW next,
           worker[w].pc \in Working, next.op = worker[w].op, next.queue = worker[w].queue,
           next.pc = "recheck", Persist(w, status, next), UNCHANGED <<policy, artifacts, req>>
    PROVE  CleanupInv'
  BY WorkingBatch, PersistKeeps DEF Pending

LEMMA DiscoverKeepsCleanup ==
    ASSUME CleanupInv, After, NEW w \in Workers, Discover(w) \/ Progress(w)
    PROVE  CleanupInv'
<1>. DEFINE me == worker[w]
<1>0. AtWork(w) /\ me \in WorkerRecord /\ me.pc \in Working
  BY WorkingBatch DEF Discover, Progress, Working, AtWork
<1>1. UNCHANGED <<policy, artifacts, req>>
  BY DEF Discover, Progress
<1>2. CASE Supersede(w) \/ GiveUp(w, me)
  BY <1>0, <1>1, <1>2, HandOverKeeps
<1>3. ASSUME NEW found, NEW status \in Pending, NEW missed,
             Persist(w, status, [me EXCEPT !.targets = @ \cup found, !.failed = missed, !.pc = "recheck"])
      PROVE  CleanupInv'
  <2>. DEFINE next == [me EXCEPT !.targets = @ \cup found, !.failed = missed, !.pc = "recheck"]
  <2>1. next.op = me.op /\ next.queue = me.queue /\ next.pc = "recheck"
    BY <1>0 DEF WorkerRecord
  <2>. QED
    BY <1>0, <1>1, <1>3, <2>1, CheckpointKeeps
<1>4. CASE Progress(w)
  <2>. DEFINE next == [me EXCEPT !.pc = "recheck"]
  <2>1. next.op = me.op /\ next.queue = me.queue /\ next.pc = "recheck"
    BY <1>0 DEF WorkerRecord
  <2>. QED
    BY <1>0, <1>1, <1>4, <2>1, CheckpointKeeps DEF Progress, Pending
<1>. QED
  BY <1>2, <1>3, <1>4 DEF Discover, Pending

(* Checks, deletions and the decision between them move only the batch and *)
(* take artifacts away.                                                    *)
LEMMA WorkKeepsCleanup ==
    ASSUME CleanupInv, After, NEW w \in Workers, AtWork(w), NEW rec, Step(w, rec),
           rec.op = worker[w].op, rec.queue = worker[w].queue, rec.targets = worker[w].targets,
           rec.pc \in Working, artifacts' \subseteq artifacts,
           UNCHANGED <<policy, manifest, holders, req>>,
           rec.pc \in {"final", "complete"} /\ w \in holders[rec.op] /\ denier = rec.op =>
               rec.targets \cap artifacts = {}
    PROVE  CleanupInv'
<1>1. worker'[w] = rec /\ \A q \in Workers \ {w} : worker'[q] = worker[q]
  BY StepMoves DEF CleanupInv, FenceInv
<1>2. Grow /\ \A q \in Workers : CopyKept(q)
  BY DEF Grow, CopyKept, Uncommitted, policy
<1>3. BatchInv(w)'
  BY <1>1 DEF AtWork, BatchInv, Working, Uncommitted, policy
<1>4. \A q \in Workers : BatchInv(q)'
  BY <1>1, <1>2, <1>3, OtherBatch DEF CleanupInv, FenceInv
<1>5. BeforeDeny' /\ StandingInv'
  BY <1>2, StandingStays DEF CleanupInv, BeforeDeny, Uncommitted, policy
<1>. QED
  BY <1>4, <1>5 DEF CleanupInv, After

LEMMA RecheckKeepsCleanup ==
    ASSUME CleanupInv, After, NEW w \in Workers, Recheck(w)
    PROVE  CleanupInv'
<1>. DEFINE me == worker[w]
<1>0. AtWork(w) /\ me \in WorkerRecord
  BY WorkingBatch DEF Recheck, Working, AtWork
<1>1. UNCHANGED <<policy, artifacts, req>>
  BY DEF Recheck
<1>2. CASE Supersede(w) \/ GiveUp(w, me)
  BY <1>0, <1>1, <1>2, HandOverKeeps
<1>3. ASSUME NEW t, UNCHANGED <<manifest, holders>>,
             Step(w, [me EXCEPT !.pc = "clean", !.target = t, !.tried = @ \cup {t}])
      PROVE  CleanupInv'
  <2>. DEFINE rec == [me EXCEPT !.pc = "clean", !.target = t, !.tried = @ \cup {t}]
  <2>1. rec.op = me.op /\ rec.queue = me.queue /\ rec.pc = "clean" /\ rec.targets = me.targets
    BY <1>0 DEF WorkerRecord
  <2>. HIDE DEF rec
  <2>. QED
    BY <1>0, <1>1, <1>3, <2>1, WorkKeepsCleanup DEF rec, Working
<1>4. CASE To(w, "verify") /\ UNCHANGED <<manifest, holders>>
  <2>. DEFINE rec == [me EXCEPT !.pc = "verify"]
  <2>1. rec.op = me.op /\ rec.queue = me.queue /\ rec.pc = "verify" /\ rec.targets = me.targets
    BY <1>0 DEF WorkerRecord
  <2>. QED
    BY <1>0, <1>1, <1>4, <2>1, WorkKeepsCleanup DEF To, Working
<1>. QED
  BY <1>2, <1>3, <1>4 DEF Recheck

LEMMA CleanKeepsCleanup ==
    ASSUME CleanupInv, After, NEW w \in Workers, Clean(w)
    PROVE  CleanupInv'
<1>. DEFINE me == worker[w]
<1>0. AtWork(w) /\ me \in WorkerRecord
  BY WorkingBatch DEF Clean, Working, AtWork
<1>1. UNCHANGED <<policy, manifest, holders, req>> /\ artifacts' \subseteq artifacts
  BY DEF Clean, ledger
<1>2. PICK rec : /\ Step(w, rec) /\ rec.op = me.op /\ rec.queue = me.queue /\ rec.pc = "progress"
                 /\ rec.targets = me.targets
  <2>1. LET rec == [me EXCEPT !.pc = "progress", !.cleaned = @ \cup {me.target}]
        IN  rec.op = me.op /\ rec.queue = me.queue /\ rec.pc = "progress" /\ rec.targets = me.targets
    BY <1>0 DEF WorkerRecord
  <2>2. LET rec == [me EXCEPT !.pc = "progress", !.failed = TRUE]
        IN  rec.op = me.op /\ rec.queue = me.queue /\ rec.pc = "progress" /\ rec.targets = me.targets
    BY <1>0 DEF WorkerRecord
  <2>. QED
    BY <2>1, <2>2 DEF Clean
<1>. QED
  BY <1>0, <1>1, <1>2, WorkKeepsCleanup DEF Working

LEMMA CompleteKeepsCleanup ==
    ASSUME CleanupInv, After, NEW w \in Workers, Complete(w)
    PROVE  CleanupInv'
<1>. DEFINE me == worker[w]
            next == [me EXCEPT !.pc = "close"]
<1>0. AtWork(w) /\ me \in WorkerRecord
  BY WorkingBatch DEF Complete, Working, AtWork
<1>1. next.op = me.op /\ next.queue = me.queue /\ next.pc = "close" /\ next.targets = me.targets
  BY <1>0 DEF WorkerRecord
<1>2. w \in holders[me.op] /\ denier = me.op => me.targets \cap artifacts = {}
  BY <1>0 DEF AtWork, BatchInv, Complete
<1>. QED
  BY <1>0, <1>1, <1>2, PersistKeeps DEF Complete, Final

(* No residual is found only when no recorded target is left. *)
LEMMA VerifyKeepsCleanup ==
    ASSUME CleanupInv, After, NEW w \in Workers, Verify(w) \/ FinalCheck(w)
    PROVE  CleanupInv'
<1>. DEFINE me == worker[w]
            residual == (me.targets \cap artifacts) \cup Discoverable
<1>0. AtWork(w) /\ me \in WorkerRecord
  BY WorkingBatch DEF Verify, FinalCheck, Working, AtWork
<1>1. UNCHANGED <<policy, artifacts, req>>
  BY DEF Verify, FinalCheck
<1>2. CASE Supersede(w) \/ GiveUp(w, me)
  BY <1>0, <1>1, <1>2, HandOverKeeps
<1>3. CASE GiveUp(w, [me EXCEPT !.targets = @ \cup residual, !.cleaned = @ \ residual])
  <2>. DEFINE found == [me EXCEPT !.targets = @ \cup residual, !.cleaned = @ \ residual]
              next == [found EXCEPT !.pc = "manifests"]
  <2>1. next.op = me.op /\ next.queue = me.queue /\ next.pc = "manifests"
    BY <1>0 DEF WorkerRecord
  <2>. QED
    BY <1>0, <1>1, <1>3, <2>1, PersistKeeps DEF GiveUp, Pending
<1>4. ASSUME NEW pc \in {"final", "complete"}, To(w, pc), UNCHANGED <<manifest, holders>>,
             (pc = "final" /\ residual = {}) \/ (pc = "complete" /\ me.pc = "final")
      PROVE  CleanupInv'
  <2>. DEFINE rec == [me EXCEPT !.pc = pc]
  <2>1. rec.op = me.op /\ rec.queue = me.queue /\ rec.pc = pc /\ rec.targets = me.targets
    BY <1>0 DEF WorkerRecord
  <2>2. w \in holders[me.op] /\ denier = me.op => me.targets \cap artifacts = {}
    BY <1>0, <1>4 DEF AtWork, BatchInv
  <2>. QED
    BY <1>0, <1>1, <1>4, <2>1, <2>2, WorkKeepsCleanup DEF To, Working
<1>. QED
  BY <1>2, <1>3, <1>4 DEF Verify, FinalCheck

LEMMA IntentsStay ==
    ASSUME Types, [Next]_vars
    PROVE  \A p \in Revokes : repair[p] # "none" => repair'[p] # "none"
<1>1. ASSUME Forward PROVE \A p \in Revokes : repair[p] # "none" => repair'[p] # "none"
  BY <1>1 DEF Forward
<1>2. ASSUME UNCHANGED repair PROVE \A p \in Revokes : repair[p] # "none" => repair'[p] # "none"
  BY <1>2
<1>3. ASSUME NEW o \in Revokes, RevokeStep(o)
      PROVE  \A p \in Revokes : repair[p] # "none" => repair'[p] # "none"
  <2>1. CASE Prepare(o)
    BY <2>1 DEF Prepare, Set, Types, RepairType
  <2>2. CASE (Abandon(o) /\ ~UNCHANGED repair) \/ MarkDeny(o) \/ MarkRegistered(o)
    BY <1>1, <2>2, TransitionForward DEF Abandon, MarkDeny, MarkRegistered, Open, Closed, Types
  <2>3. CASE Deny(o) \/ RegisterCleanup(o) \/ UNCHANGED repair
    BY <1>2, <2>3 DEF Deny, RegisterCleanup, ledger
  <2>. QED
    BY <1>3, <2>1, <2>2, <2>3 DEF RevokeStep
<1>4. ASSUME NEW w \in Workers, WorkerStep(w) \/ CrashWorker(w)
      PROVE  \A p \in Revokes : repair[p] # "none" => repair'[p] # "none"
  BY <1>1, <1>4, WorkerKeepsRepair DEF Types
<1>5. CASE \/ \E r \in Revokes \cup Grants : Read(r) \/ CrashRequest(r)
           \/ ReplaceForOthers
           \/ \E g \in Grants : GrantStep(g)
           \/ \E a \in Artifacts : Produce(a)
           \/ UNCHANGED vars
  BY <1>2, <1>5 DEF Read, CrashRequest, ReplaceForOthers, GrantStep, CheckFence, Grant, Produce, vars, ledger
<1>. QED
  BY <1>3, <1>4, <1>5 DEF Next

LEMMA NextCleanup == CleanupInv /\ [Next]_vars => CleanupInv'
<1>. SUFFICES ASSUME CleanupInv, [Next]_vars PROVE CleanupInv'
  OBVIOUS
<1>0. After
  BY NextFence, IntentsStay DEF CleanupInv, FenceInv, After
<1>1. CASE UNCHANGED vars
  BY <1>0, <1>1, RequestsKeepCleanup
<1>2. ASSUME NEW o \in Revokes, RevokeStep(o) PROVE CleanupInv'
  BY <1>0, <1>2, RequestsKeepCleanup, RegisterCleanupKeepsCleanup DEF RevokeStep
<1>3. CASE \/ \E r \in Revokes \cup Grants : Read(r) \/ CrashRequest(r)
           \/ \E g \in Grants : GrantStep(g)
           \/ ReplaceForOthers
  BY <1>0, <1>3, RequestsKeepCleanup DEF GrantStep
<1>4. ASSUME NEW a \in Artifacts, Produce(a) PROVE CleanupInv'
  BY <1>0, <1>4, ProduceKeepsCleanup
<1>5. ASSUME NEW w \in Workers, WorkerStep(w) \/ CrashWorker(w) PROVE CleanupInv'
  BY <1>0, <1>5, ListingKeepsCleanup, RepairKeepsCleanup, RepairRegisterKeepsCleanup, LoadKeepsCleanup,
     DiscoverKeepsCleanup, RecheckKeepsCleanup, CleanKeepsCleanup, CompleteKeepsCleanup, VerifyKeepsCleanup
  DEF WorkerStep
<1>. QED
  BY <1>1, <1>2, <1>3, <1>4, <1>5 DEF Next

(* What manifests, copies of them and artifacts know of each other, for    *)
(* any revocations, batches and partial discoveries.                       *)
THEOREM CleanupInvariant == Spec => []CleanupInv
<1>1. CleanupInv /\ [Next]_vars => CleanupInv'
  BY NextCleanup
<1>. QED
  BY <1>1, InitCleanup, PTL DEF Spec

(* When the cleanup of the standing deny is reported complete nothing it   *)
(* has recorded is left, for any revocations and batches that overlap,     *)
(* fail, discover a part only and die.                                     *)
THEOREM CleanupTakesWhatItRecorded == Spec => []RecordedIsGone
<1>1. CleanupInv => RecordedIsGone
  BY DEF CleanupInv, StandingInv, RecordedIsGone
<1>. QED
  BY <1>1, CleanupInvariant, PTL
=============================================================================
