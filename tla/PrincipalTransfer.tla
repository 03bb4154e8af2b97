--------------------------- MODULE PrincipalTransfer ---------------------------
(***************************************************************************)
(* Handing the resources of one account over before the account goes:      *)
(* AdministrativePrincipalTransferService, the durable fence it works      *)
(* under, the registry of revoked accounts, and the requests that change   *)
(* an administrative principal, delete an account or restore it.           *)
(*                                                                         *)
(* The fence makes the account unusable, so that its resources come to an  *)
(* end; they are then given to the heir, or back, one conditional write at *)
(* a time, and a deletion denies the account only after that.              *)
(*                                                                         *)
(* Operation and fencing identifiers are numbered in the order they are    *)
(* drawn.  Folders and resource groups are alike; a document has an index  *)
(* entry besides.  A request leaves an audit record; it counts here for    *)
(* the transfer that the request stores, which names it.                   *)
(***************************************************************************)
EXTENDS Naturals, FiniteSets

CONSTANTS
    Changers, Deleters, Restorers,  \* processes that serve the requests
    Documents, Groups,              \* what the account may own
    Source, Heirs,                  \* the account, and the accounts it is replaced by
    MaxToken, MaxRequests, MaxWrites, MaxFailures, MaxDeaths,
    SlowWrites,                     \* a write of the account may land after it is denied
    LateCrashes,                    \* a process may die after its transfer has drained
    RestoreOverlaps                 \* an account may be restored while it is being deleted

ASSUME TransferAssumption ==
    /\ Documents \cap Groups = {}
    /\ Changers \cap Deleters = {} /\ (Changers \cup Deleters) \cap Restorers = {}
    /\ Source \notin Heirs /\ "nobody" \notin Heirs \cup {Source}
    /\ {MaxToken, MaxRequests, MaxWrites, MaxFailures, MaxDeaths} \subseteq Nat
    /\ {SlowWrites, LateCrashes, RestoreOverlaps} \subseteq BOOLEAN

VARIABLES
    asset,     \* owner of each resource, and the transfer that gave it
    index,     \* owner shown by the index of each document
    fence,     \* the stored fence
    intent,    \* the stored transfer
    current,   \* clients whose copy of the stored transfer is current
    audit,     \* what the audit record of each request says of the transfer it stored
    registry,  \* the registry of revoked accounts
    idp,       \* the account at the identity provider
    cleanup,   \* the cleanup intent of each deletion
    client,    \* progress of each client
    writing,   \* a write of the account is under way
    requests, writes, failures, deaths

bounds == <<requests, writes, failures, deaths>>
resources == <<asset, index>>
account == <<registry, idp, cleanup>>
stored == <<intent, current, audit>>
transferVars == <<asset, index, fence, intent, current, audit, registry, idp, cleanup, client, writing,
                  requests, writes, failures, deaths>>

Clients == Changers \cup Deleters \cup Restorers
Assets == Documents \cup Groups
Mode(c) == IF c \in Deleters THEN "permanent_delete" ELSE "administrative_change"

Nothing == [owner |-> "nobody", op |-> 0]
NoAssets == [a \in Assets |-> Nothing]
Mine == [owner |-> Source, op |-> 0]
NoIntent == [status |-> "none", op |-> 0, heir |-> Source, moved |-> NoAssets, audit |-> 0]
AtRest == [pc |-> "idle", then |-> "idle", heir |-> Source, asked |-> 0, op |-> 0, token |-> 0,
         acquired |-> "none", copy |-> NoIntent, seen |-> NoAssets, todo |-> {}, empty |-> 0,
         failed |-> FALSE, request |-> 0]

TransferInit ==
    /\ asset \in [Assets -> {Nothing, Mine}]
    /\ index = [d \in Documents |-> asset[d].owner]
    /\ fence = [status |-> "none", mode |-> "administrative_change", op |-> 0, token |-> 0,
                heir |-> Source, live |-> FALSE]
    /\ intent = NoIntent
    /\ current = {}
    /\ audit = [q \in 1..MaxRequests |-> [result |-> "open", moved |-> {}]]
    /\ registry = [state |-> "none", by |-> 0]
    /\ idp = "enabled"
    /\ cleanup = [r \in 1..MaxRequests |-> "none"]
    /\ client = [c \in Clients |-> AtRest]
    /\ writing = FALSE
    /\ requests = 0 /\ writes = 0 /\ failures = 0 /\ deaths = 0

-----------------------------------------------------------------------------
(* Mutant: a fence blocks as long as its lease lasts.                      *)
BlockingLive == fence.status = "account_deny_confirmed" \/ (fence.status = "blocking" /\ fence.live)

Blocking == fence.status \in {"blocking", "account_deny_confirmed"}
Usable == idp = "enabled" /\ registry.state # "denied" /\ ~Blocking
OpenRepair == {"prepared", "deny_committed", "cleanup_registered"}

Moved(i) == {a \in Assets : i.moved[a] # Nothing}
Owned == {a \in Assets : asset[a].owner = Source}
Inventory == [a \in Assets |-> IF a \in Owned THEN asset[a] ELSE Nothing]
Target(c) == [owner |-> client[c].copy.heir, op |-> client[c].copy.op]
First(S) == CHOOSE a \in S : TRUE

Failure == failures < MaxFailures /\ failures' = failures + 1
Becomes(c, rec) == client' = [client EXCEPT ![c] = rec]
Enter(c, pc) == Becomes(c, [client[c] EXCEPT !.pc = pc])
EndRequest(c) == Becomes(c, AtRest)
Renewing(rec, then) == [rec EXCEPT !.pc = "renew", !.then = then]

(* Writes the stored transfer a client's copy of which is current;         *)
(* otherwise it goes on from what it finds, if it is of the same operation. *)
Advance(c, status, moved, rec) ==
    LET next == [client[c].copy EXCEPT !.status = status, !.moved = moved] IN
    IF c \in current
      THEN intent' = next /\ current' = {c} /\ Becomes(c, [rec EXCEPT !.copy = next])
      ELSE /\ UNCHANGED intent
           /\ IF intent.op = client[c].copy.op
                THEN current' = current \cup {c} /\ Becomes(c, [rec EXCEPT !.copy = intent])
                ELSE UNCHANGED current /\ EndRequest(c)

-----------------------------------------------------------------------------
(* The fence.                                                              *)
Start(c) ==
    /\ client[c].pc = "idle" /\ idp # "gone"
    /\ c \in Deleters => RestoreOverlaps \/ \A r \in Restorers : client[r].pc = "idle"
    /\ requests < MaxRequests /\ requests' = requests + 1
    /\ \E h \in Heirs :
         Becomes(c, [AtRest EXCEPT !.pc = "acquire", !.heir = h, !.request = requests + 1,
                    !.asked = IF intent.status \notin {"none", "rolled_back"} /\ intent.heir = h
                                THEN intent.op ELSE 0])
    /\ UNCHANGED <<resources, fence, stored, account, writing, writes, failures, deaths>>

Taken(c, op, token, acquired) ==
    Becomes(c, Renewing([client[c] EXCEPT !.op = op, !.token = token, !.acquired = acquired], "look"))

Acquire(c) ==
    LET me == client[c]
        fresh == fence.token + 1
        same == fence.mode = Mode(c) /\ fence.heir = me.heir /\ me.asked \in {0, fence.op}
        op == IF Blocking THEN fence.op ELSE IF me.asked = 0 THEN fresh ELSE me.asked
    IN
    /\ me.pc = "acquire"
    /\ \/ Blocking /\ (~same \/ (fence.status = "blocking" /\ fence.live))
          /\ EndRequest(c) /\ UNCHANGED fence
       \/ fence.status = "account_deny_confirmed" /\ same
          /\ Taken(c, op, fence.token, fence.status) /\ UNCHANGED fence
       \/ /\ ~Blocking \/ (fence.status = "blocking" /\ same /\ ~fence.live)
          /\ fresh <= MaxToken
          /\ fence' = [status |-> "blocking", mode |-> Mode(c), op |-> op, token |-> fresh,
                       heir |-> me.heir, live |-> TRUE]
          /\ Taken(c, op, fresh, "blocking")
    /\ UNCHANGED <<resources, stored, account, writing, bounds>>

Held(c) == fence.op = client[c].op /\ fence.token = client[c].token /\ fence.status # "released"

(* A renewal precedes every write; without it the request ends.            *)
Renew(c) ==
    /\ client[c].pc = "renew"
    /\ \/ Held(c) /\ fence' = [fence EXCEPT !.live = TRUE] /\ Enter(c, client[c].then)
       \/ ~Held(c) /\ UNCHANGED fence /\ EndRequest(c)
    /\ UNCHANGED <<resources, stored, account, writing, bounds>>

Release(c) ==
    /\ client[c].pc = "release" /\ EndRequest(c)
    /\ fence' = IF Held(c) /\ fence.status = "blocking" THEN [fence EXCEPT !.status = "released"] ELSE fence
    /\ UNCHANGED <<resources, stored, account, writing, bounds>>

Expire ==
    /\ fence.status = "blocking" /\ fence.live
    /\ fence' = [fence EXCEPT !.live = FALSE]
    /\ UNCHANGED <<resources, stored, account, client, writing, bounds>>

-----------------------------------------------------------------------------
(* What is there to hand over, and from which stored transfer to go on.    *)
Look(c) ==
    LET me == [client[c] EXCEPT !.copy = intent, !.seen = Inventory] IN
    /\ client[c].pc = "look"
    /\ \/ /\ current' = current \cup {c} /\ UNCHANGED failures
          /\ CASE intent.status = "none" /\ Owned = {} -> Becomes(c, Renewing(me, "zero"))
               [] intent.status \notin {"none", "rolled_back"} /\ intent.heir # me.heir ->
                    Becomes(c, [me EXCEPT !.pc = "release"])
               [] intent.status = "rollback_pending" /\ intent.heir = me.heir ->
                    Becomes(c, [me EXCEPT !.pc = "undo", !.todo = Moved(intent)])
               [] intent.status \in {"none", "rolled_back"} /\ ~(intent.status = "none" /\ Owned = {}) ->
                    Becomes(c, [me EXCEPT !.pc = "create"])
               [] OTHER -> Becomes(c, [me EXCEPT !.pc = "merge"])
       \/ Failure /\ EndRequest(c) /\ UNCHANGED current
    /\ UNCHANGED <<resources, fence, intent, audit, account, writing, requests, writes, deaths>>

(* Nothing at all is confirmed by looking twice more.                      *)
Zero(c) ==
    LET me == [client[c] EXCEPT !.seen = Inventory] IN
    /\ client[c].pc = "zero"
    /\ Becomes(c, CASE Owned # {} -> [me EXCEPT !.pc = "create", !.empty = 0]
                 [] Owned = {} /\ me.empty = 0 -> Renewing([me EXCEPT !.empty = 1], "zero")
                 [] Owned = {} /\ me.empty = 1 ->
                      [me EXCEPT !.empty = 2, !.pc = IF c \in Deleters THEN "prepare_deny" ELSE "release"])
    /\ UNCHANGED <<resources, fence, stored, account, writing, bounds>>

Create(c) ==
    LET me == client[c]
        new == [status |-> "prepared", op |-> me.op, heir |-> me.heir, moved |-> me.seen,
                audit |-> me.request]
    IN
    /\ me.pc = "create"
    /\ IF c \in current
         THEN intent' = new /\ current' = {c} /\ Becomes(c, [me EXCEPT !.copy = new, !.pc = "merge"])
         ELSE /\ UNCHANGED intent
              /\ IF intent.heir = me.heir
                   THEN current' = current \cup {c} /\ Becomes(c, [me EXCEPT !.copy = intent, !.pc = "merge"])
                   ELSE UNCHANGED current /\ Enter(c, "release")
    /\ UNCHANGED <<resources, fence, audit, account, writing, bounds>>

Merge(c) ==
    LET me == client[c]
        new == {a \in Assets : me.seen[a] # Nothing /\ me.copy.moved[a] = Nothing}
        both == [a \in Assets |-> IF a \in new THEN me.seen[a] ELSE me.copy.moved[a]]
        next == [me EXCEPT !.seen = NoAssets, !.pc = "merge"]
    IN
    /\ me.pc = "merge"
    /\ IF new = {} /\ me.copy.status \notin {"prepared", "committed"}
         THEN Becomes(c, [me EXCEPT !.pc = "apply", !.todo = Moved(me.copy)]) /\ UNCHANGED <<intent, current>>
         ELSE Advance(c, "transferring", both, next)
    /\ UNCHANGED <<resources, fence, audit, account, writing, bounds>>

-----------------------------------------------------------------------------
(* Each resource by a conditional write, a document's index entry before.  *)
Applied(c) == [client[c] EXCEPT !.pc = "apply", !.todo = @ \ {First(@)}]

Apply(c) ==
    LET me == client[c] IN
    /\ me.pc = "apply"
    /\ Becomes(c, Renewing(me, IF me.todo = {} THEN "inventory" ELSE "put"))
    /\ UNCHANGED <<resources, fence, stored, account, writing, bounds>>

PutGroup(c) ==
    LET me == client[c]  a == First(me.todo)  source == me.copy.moved[a] IN
    /\ me.pc = "put" /\ a \in Groups
    /\ \/ asset[a] = Target(c) /\ Becomes(c, Applied(c)) /\ UNCHANGED <<asset, failures>>
       \/ asset[a] \notin {source, Target(c)} /\ Enter(c, "caught") /\ UNCHANGED <<asset, failures>>
       \/ /\ asset[a] = source /\ asset' = [asset EXCEPT ![a] = Target(c)]
          /\ Becomes(c, Applied(c)) /\ UNCHANGED failures
       \/ /\ asset[a] = source /\ Failure /\ Enter(c, "caught")
          /\ asset' \in {asset, [asset EXCEPT ![a] = Target(c)]}
    /\ UNCHANGED <<index, fence, stored, account, writing, requests, writes, deaths>>

PutIndex(c) ==
    LET me == client[c]  a == First(me.todo)
        shown == [index EXCEPT ![a] = me.copy.heir]
        given == asset[a].op = me.copy.op
    IN
    /\ me.pc = "put" /\ a \in Documents
    /\ \/ given /\ index' = shown /\ Becomes(c, Applied(c)) /\ UNCHANGED failures
       \/ ~given /\ asset[a] # me.copy.moved[a] /\ Enter(c, "caught") /\ UNCHANGED <<index, failures>>
       \/ ~given /\ asset[a] = me.copy.moved[a] /\ index' = shown /\ Enter(c, "manifest") /\ UNCHANGED failures
       \/ Failure /\ index' \in {index, shown} /\ Enter(c, "caught")
    /\ UNCHANGED <<asset, fence, stored, account, writing, requests, writes, deaths>>

PutManifest(c) ==
    LET me == client[c]  a == First(me.todo)
        target == [asset EXCEPT ![a] = Target(c)]
        same == asset[a] = me.copy.moved[a]
    IN
    /\ me.pc = "manifest"
    /\ \/ same /\ asset' = target /\ Becomes(c, Applied(c)) /\ UNCHANGED <<index, failures>>
       \/ /\ ~same /\ Enter(c, "caught") /\ UNCHANGED <<asset, failures>>
          /\ index' = [index EXCEPT ![a] = Source]
       \/ /\ same /\ Failure /\ asset' \in {asset, target} /\ Enter(c, "caught")
          /\ index' = [index EXCEPT ![a] = Source]
    /\ UNCHANGED <<fence, stored, account, writing, requests, writes, deaths>>

(* Mutant: one look that finds nothing ends the transfer.                  *)
LookOnce(c) ==
    LET me == client[c] IN
    /\ me.pc = "inventory"
    /\ \/ /\ UNCHANGED failures
          /\ Becomes(c, IF Owned # {} THEN [me EXCEPT !.pc = "merge", !.seen = Inventory, !.empty = 0]
                                   ELSE [me EXCEPT !.pc = "drained", !.empty = 1])
       \/ Failure /\ Enter(c, "caught")
    /\ UNCHANGED <<resources, fence, stored, account, writing, requests, writes, deaths>>

(* Two looks in a row that find nothing end the transfer.                  *)
LookAgain(c) ==
    LET me == client[c] IN
    /\ me.pc = "inventory"
    /\ \/ /\ UNCHANGED failures
          /\ Becomes(c, CASE Owned # {} -> [me EXCEPT !.pc = "merge", !.seen = Inventory, !.empty = 0]
                       [] Owned = {} /\ me.empty = 0 ->
                            [me EXCEPT !.pc = "apply", !.todo = Moved(me.copy), !.empty = 1]
                       [] Owned = {} /\ me.empty = 1 -> [me EXCEPT !.pc = "drained", !.empty = 2])
       \/ Failure /\ Enter(c, "caught")
    /\ UNCHANGED <<resources, fence, stored, account, writing, requests, writes, deaths>>

(* The outcome goes to the record of the request that stored the transfer. *)
(* One that is recorded already is repeated as it was, or refused.         *)
Entry(c, result) == [result |-> result, moved |-> Moved(client[c].copy)]
MayRecord(c, result) ==
    LET q == client[c].copy.audit IN audit[q].result = "open" \/ audit[q] = Entry(c, result)
Recorded(c, result) ==
    MayRecord(c, result) /\ audit' = [audit EXCEPT ![client[c].copy.audit] = Entry(c, result)]

Record(c) ==
    /\ client[c].pc = "drained"
    /\ \/ Recorded(c, "success") /\ Enter(c, "commit")
       \/ ~MayRecord(c, "success") /\ EndRequest(c) /\ UNCHANGED audit
    /\ UNCHANGED <<resources, fence, intent, current, account, writing, bounds>>

Commit(c) ==
    LET me == client[c] IN
    /\ me.pc = "commit"
    /\ Advance(c, "committed", me.copy.moved,
               [me EXCEPT !.pc = IF c \in Deleters THEN "assert" ELSE "release"])
    /\ UNCHANGED <<resources, fence, audit, account, writing, bounds>>

AssertHeld(c) ==
    /\ client[c].pc = "assert"
    /\ \/ Held(c) /\ Becomes(c, [client[c] EXCEPT !.pc = "prepare_deny", !.op = client[c].copy.op])
       \/ ~Held(c) /\ EndRequest(c)
    /\ UNCHANGED <<resources, fence, stored, account, writing, bounds>>

-----------------------------------------------------------------------------
(* A failure gives everything back, unless the deny is confirmed already.  *)
Caught(c) ==
    /\ client[c].pc = "caught"
    /\ IF client[c].acquired = "account_deny_confirmed" THEN EndRequest(c) ELSE Becomes(c, Renewing(client[c], "mark"))
    /\ UNCHANGED <<resources, fence, stored, account, writing, bounds>>

Mark(c) ==
    LET me == client[c] IN
    /\ me.pc = "mark"
    /\ Advance(c, "rollback_pending", me.copy.moved, [me EXCEPT !.pc = "undo", !.todo = Moved(me.copy)])
    /\ UNCHANGED <<resources, fence, audit, account, writing, bounds>>

Undone(c, ok) == [client[c] EXCEPT !.pc = "undo", !.todo = @ \ {First(@)}, !.failed = @ \/ ~ok]

Undo(c) ==
    LET me == client[c] IN
    /\ me.pc = "undo"
    /\ IF me.todo = {} /\ me.failed THEN EndRequest(c)
       ELSE Becomes(c, Renewing(me, IF me.todo = {} THEN "undone" ELSE "take_back"))
    /\ UNCHANGED <<resources, fence, stored, account, writing, bounds>>

TakeBackGroup(c) ==
    LET me == client[c]  a == First(me.todo)  source == me.copy.moved[a] IN
    /\ me.pc = "take_back" /\ a \in Groups
    /\ \/ asset[a] = source /\ Becomes(c, Undone(c, TRUE)) /\ UNCHANGED <<asset, failures>>
       \/ asset[a] \notin {source, Target(c)} /\ Becomes(c, Undone(c, FALSE)) /\ UNCHANGED <<asset, failures>>
       \/ asset[a] = Target(c) /\ asset' = [asset EXCEPT ![a] = source]
          /\ Becomes(c, Undone(c, TRUE)) /\ UNCHANGED failures
       \/ Failure /\ Becomes(c, Undone(c, FALSE)) /\ UNCHANGED asset
    /\ UNCHANGED <<index, fence, stored, account, writing, requests, writes, deaths>>

(* Mutant: only the index entry of a document is taken back.               *)
TakeBackShown(c) ==
    LET a == First(client[c].todo) IN
    /\ client[c].pc = "take_back" /\ a \in Documents
    /\ index' = [index EXCEPT ![a] = Source] /\ Becomes(c, Undone(c, TRUE))
    /\ UNCHANGED <<asset, fence, stored, account, writing, bounds>>

TakeBackIndex(c) ==
    LET me == client[c]  a == First(me.todo)  given == asset[a].op = me.copy.op IN
    /\ me.pc = "take_back" /\ a \in Documents
    /\ \/ /\ ~given /\ asset[a].owner = Source /\ index' = [index EXCEPT ![a] = Source]
          /\ Becomes(c, Undone(c, TRUE)) /\ UNCHANGED failures
       \/ ~given /\ asset[a].owner # Source /\ Becomes(c, Undone(c, FALSE)) /\ UNCHANGED <<index, failures>>
       \/ given /\ index' = [index EXCEPT ![a] = Source] /\ Enter(c, "take_back_manifest") /\ UNCHANGED failures
       \/ Failure /\ index' \in {index, [index EXCEPT ![a] = Source]} /\ Becomes(c, Undone(c, FALSE))
    /\ UNCHANGED <<asset, fence, stored, account, writing, requests, writes, deaths>>

TakeBackManifest(c) ==
    LET me == client[c]  a == First(me.todo) IN
    /\ me.pc = "take_back_manifest"
    /\ IF asset[a] = Target(c)
         THEN asset' = [asset EXCEPT ![a] = me.copy.moved[a]] /\ Becomes(c, Undone(c, TRUE))
         ELSE UNCHANGED asset /\ Becomes(c, Undone(c, FALSE))
    /\ UNCHANGED <<index, fence, stored, account, writing, bounds>>

RecordRollback(c) ==
    /\ client[c].pc = "undone"
    /\ \/ Recorded(c, "failed") /\ Enter(c, "rolled_back")
       \/ ~MayRecord(c, "failed") /\ EndRequest(c) /\ UNCHANGED audit
    /\ UNCHANGED <<resources, fence, intent, current, account, writing, bounds>>

RolledBack(c) ==
    LET me == client[c] IN
    /\ me.pc = "rolled_back"
    /\ Advance(c, "rolled_back", me.copy.moved, [me EXCEPT !.pc = "release"])
    /\ UNCHANGED <<resources, fence, audit, account, writing, bounds>>

-----------------------------------------------------------------------------
(* The rest of a deletion: deny, confirm, and only then the identity       *)
(* provider.                                                               *)
PrepareDeny(c) ==
    /\ client[c].pc = "prepare_deny"
    /\ cleanup' = [cleanup EXCEPT ![client[c].request] = "prepared"] /\ Enter(c, "deny")
    /\ UNCHANGED <<resources, fence, stored, registry, idp, writing, bounds>>

DenyAccount(c) ==
    LET r == client[c].request  denied == [state |-> "denied", by |-> r] IN
    /\ client[c].pc = "deny"
    /\ \/ registry' = denied /\ Enter(c, "commit_deny") /\ UNCHANGED <<cleanup, failures>>
       \/ /\ Failure /\ registry' \in {registry, denied} /\ EndRequest(c)
          /\ cleanup' = [cleanup EXCEPT ![r] = IF @ \in {"prepared", "deny_committed"} THEN "abandoned" ELSE @]
    /\ UNCHANGED <<resources, fence, stored, idp, writing, requests, writes, deaths>>

(* A batch may have been faster.  An intent it has closed is left as it    *)
(* is, one whose cleanup it has registered only refuses the mark.          *)
CommitDeny(c) ==
    LET r == client[c].request IN
    /\ client[c].pc = "commit_deny"
    /\ cleanup' = [cleanup EXCEPT ![r] = IF @ = "prepared" THEN "deny_committed" ELSE @]
    /\ IF cleanup[r] = "cleanup_registered" THEN EndRequest(c) ELSE Enter(c, "confirm")
    /\ UNCHANGED <<resources, fence, stored, registry, idp, writing, bounds>>

Confirm(c) ==
    LET ok == fence.op = client[c].op /\ fence.mode = "permanent_delete" /\ fence.status # "released" IN
    /\ client[c].pc = "confirm"
    /\ \/ ok /\ fence' = [fence EXCEPT !.status = "account_deny_confirmed"] /\ Enter(c, "register")
       \/ ~ok /\ UNCHANGED fence /\ EndRequest(c)
    /\ UNCHANGED <<resources, stored, account, writing, bounds>>

RegisterDeletion(c) ==
    LET r == client[c].request IN
    /\ client[c].pc = "register" /\ Enter(c, "disable")
    /\ cleanup' = [cleanup EXCEPT ![r] = IF @ = "deny_committed" THEN "cleanup_registered" ELSE @]
    /\ UNCHANGED <<resources, fence, stored, registry, idp, writing, bounds>>

Disable(c) ==
    /\ client[c].pc \in {"disable", "delete"}
    /\ \/ /\ idp # "gone" /\ UNCHANGED failures
          /\ IF client[c].pc = "disable" THEN idp' = "disabled" /\ Enter(c, "delete")
                                         ELSE idp' = "gone" /\ EndRequest(c)
       \/ idp = "gone" /\ EndRequest(c) /\ UNCHANGED <<idp, failures>>
       \/ Failure /\ EndRequest(c) /\ UNCHANGED idp
    /\ UNCHANGED <<resources, fence, stored, registry, cleanup, writing, requests, writes, deaths>>

(* The cleanup batch follows an effective deny up.                         *)
Batch(r) ==
    /\ cleanup[r] \in OpenRepair /\ registry = [state |-> "denied", by |-> r]
    /\ cleanup' = [cleanup EXCEPT ![r] =
         CASE @ = "prepared" -> "deny_committed" [] @ = "deny_committed" -> "cleanup_registered"
           [] @ = "cleanup_registered" -> "cleanup_completed"]
    /\ UNCHANGED <<resources, fence, stored, registry, idp, client, writing, bounds>>

(* An account is restored once no cleanup of it is open.                   *)
StartRestore(c) ==
    /\ client[c].pc = "idle" /\ idp # "gone" /\ registry.state = "denied"
    /\ requests < MaxRequests /\ requests' = requests + 1
    /\ \A r \in 1..MaxRequests : cleanup[r] \notin OpenRepair
    /\ RestoreOverlaps \/ \A d \in Deleters : client[d].pc = "idle"
    /\ Enter(c, "enable")
    /\ UNCHANGED <<resources, fence, stored, account, writing, writes, failures, deaths>>

Enable(c) ==
    /\ client[c].pc = "enable"
    /\ \/ idp # "gone" /\ idp' = "enabled" /\ Enter(c, "clear")
       \/ idp = "gone" /\ UNCHANGED idp /\ EndRequest(c)
    /\ UNCHANGED <<resources, fence, stored, registry, cleanup, writing, bounds>>

Clear(c) ==
    /\ client[c].pc = "clear" /\ Enter(c, "unfence")
    /\ registry' = [state |-> "cleared", by |-> 0]
    /\ UNCHANGED <<resources, fence, stored, idp, cleanup, writing, bounds>>

ReleaseAfterRestore(c) ==
    /\ client[c].pc = "unfence" /\ EndRequest(c)
    /\ fence' = IF fence.status = "account_deny_confirmed" THEN [fence EXCEPT !.status = "released"] ELSE fence
    /\ UNCHANGED <<resources, stored, account, writing, bounds>>

-----------------------------------------------------------------------------
(* The account's own requests check once that it is usable, and write      *)
(* later, or never.                                                        *)
Admit ==
    /\ Usable /\ ~writing /\ writing' = TRUE
    /\ writes < MaxWrites /\ writes' = writes + 1
    /\ UNCHANGED <<resources, fence, stored, account, client, requests, failures, deaths>>

InTime ==
    /\ registry.state # "denied" /\ fence.status # "account_deny_confirmed"
    /\ \A c \in Clients : client[c].empty < 2

Land ==
    /\ writing /\ writing' = FALSE
    /\ \/ /\ SlowWrites \/ InTime
          /\ \E a \in Assets :
               /\ asset[a] = Nothing /\ asset' = [asset EXCEPT ![a] = Mine]
               /\ index' = IF a \in Documents THEN [index EXCEPT ![a] = Source] ELSE index
       \/ UNCHANGED resources
    /\ UNCHANGED <<fence, stored, account, client, bounds>>

Crash(c) ==
    /\ client[c].pc # "idle" /\ (LateCrashes \/ client[c].empty < 2)
    /\ deaths < MaxDeaths /\ deaths' = deaths + 1
    /\ EndRequest(c)
    /\ UNCHANGED <<resources, fence, stored, account, writing, requests, writes, failures>>

Transfer(c) ==
    \/ Start(c) \/ Acquire(c) \/ Renew(c) \/ Release(c) \/ Look(c) \/ Zero(c) \/ Create(c) \/ Merge(c)
    \/ Apply(c) \/ PutGroup(c) \/ PutIndex(c) \/ PutManifest(c) \/ LookAgain(c) \/ Record(c) \/ Commit(c)
    \/ Caught(c) \/ Mark(c) \/ Undo(c) \/ TakeBackGroup(c) \/ TakeBackIndex(c) \/ TakeBackManifest(c)
    \/ RecordRollback(c) \/ RolledBack(c)

Delete(c) ==
    \/ AssertHeld(c) \/ PrepareDeny(c) \/ DenyAccount(c) \/ CommitDeny(c) \/ Confirm(c)
    \/ RegisterDeletion(c) \/ Disable(c)

Restore(c) == StartRestore(c) \/ Enable(c) \/ Clear(c) \/ ReleaseAfterRestore(c)

ClientStep(c) ==
    \/ c \in Changers \cup Deleters /\ Transfer(c)
    \/ c \in Deleters /\ Delete(c)
    \/ c \in Restorers /\ Restore(c)

TransferNext ==
    \/ \E c \in Clients : ClientStep(c) \/ Crash(c)
    \/ \E r \in 1..MaxRequests : Batch(r)
    \/ Expire \/ Admit \/ Land

TransferSpec == TransferInit /\ [][TransferNext]_transferVars

(* Requests are served to their end and repeated, and leases run out.      *)
TransferFairness == (\A c \in Clients : WF_transferVars(ClientStep(c))) /\ WF_transferVars(Expire)
FairTransferSpec == TransferSpec /\ TransferFairness

-----------------------------------------------------------------------------
Asset == [owner : Heirs \cup {Source, "nobody"}, op : 0..MaxToken]
IntentRecord ==
    [status : {"none", "prepared", "transferring", "rollback_pending", "rolled_back", "committed"},
     op : 0..MaxToken, heir : Heirs \cup {Source}, moved : [Assets -> Asset], audit : 0..MaxRequests]
ClientRecord ==
    [pc : {"idle", "acquire", "renew", "look", "zero", "create", "merge", "apply", "put", "manifest",
           "inventory", "drained", "commit", "assert", "release", "caught", "mark", "undo", "take_back",
           "take_back_manifest", "undone", "rolled_back", "prepare_deny", "deny", "commit_deny", "confirm",
           "register", "disable", "delete", "enable", "clear", "unfence"},
     then : {"idle", "look", "zero", "put", "inventory", "mark", "take_back", "undone"},
     heir : Heirs \cup {Source}, asked : 0..MaxToken, op : 0..MaxToken, token : 0..MaxToken,
     acquired : {"none", "blocking", "account_deny_confirmed"}, copy : IntentRecord,
     seen : [Assets -> Asset], todo : SUBSET Assets, empty : 0..2, failed : BOOLEAN,
     request : 0..MaxRequests]

TransferTypeOK ==
    /\ asset \in [Assets -> Asset]
    /\ index \in [Documents -> Heirs \cup {Source, "nobody"}]
    /\ fence \in [status : {"none", "blocking", "account_deny_confirmed", "released"},
                  mode : {"administrative_change", "permanent_delete"}, op : 0..MaxToken,
                  token : 0..MaxToken, heir : Heirs \cup {Source}, live : BOOLEAN]
    /\ intent \in IntentRecord /\ current \subseteq Clients
    /\ audit \in [1..MaxRequests -> [result : {"open", "success", "failed"}, moved : SUBSET Assets]]
    /\ registry \in [state : {"none", "denied", "cleared"}, by : 0..MaxRequests]
    /\ idp \in {"enabled", "disabled", "gone"}
    /\ cleanup \in [1..MaxRequests -> OpenRepair \cup {"none", "cleanup_completed", "abandoned"}]
    /\ client \in [Clients -> ClientRecord]
    /\ writing \in BOOLEAN
    /\ requests \in 0..MaxRequests /\ writes \in 0..MaxWrites
    /\ failures \in 0..MaxFailures /\ deaths \in 0..MaxDeaths

(* An account is deleted only when nothing is left that it owns, whatever  *)
(* it wrote while it was being replaced.                                   *)
GoneOwnsNothing == idp = "gone" => Owned = {}

(* A transfer that is settled, and not taken up again, took everything it  *)
(* recorded or nothing, and the index of a document agrees.                *)
SettledIsWhole ==
    (\A c \in Clients : client[c].pc \in {"idle", "acquire"}) =>
        /\ intent.status = "committed" => \A a \in Moved(intent) : asset[a].owner = intent.heir
        /\ intent.status = "rolled_back" => \A a \in Moved(intent) : asset[a] = intent.moved[a]
        /\ intent.status \in {"committed", "rolled_back"} =>
             \A d \in Documents : index[d] = asset[d].owner

(* Resources change hands only while the account cannot be used.           *)
MovedUnderFence ==
    [][\A a \in Assets :
         asset[a] # Nothing /\ asset'[a].owner # asset[a].owner => ~Usable /\ ~Usable']_transferVars

(* The recorded outcome of a transfer is what became of the resources.  It *)
(* is not once a committed transfer is repeated, fails and is rolled back. *)
AuditIsTrue ==
    \A q \in 1..MaxRequests :
        audit[q].result = "success" => \A a \in audit[q].moved : asset[a].owner # Source

(* A replaced principal can be used again: a change that is repeated until *)
(* it is answered lets the fence go.  One that was committed is refused at *)
(* its audit record for ever.                                              *)
FenceLetsGo == Blocking /\ fence.mode = "administrative_change" ~> ~Blocking
=============================================================================
