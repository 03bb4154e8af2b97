----------------------------- MODULE SharePolicy -----------------------------
(***************************************************************************)
(* Who may do what with a folder and a document, and what a replaced share *)
(* policy leaves to the cleanup.                                           *)
(*                                                                         *)
(* Folders form a forest; a folder without a policy of its own inherits    *)
(* the nearest one.  A policy, and the direct grants of the document, give *)
(* users and resource groups a level or deny them; groups nest.  A         *)
(* decision is computed from the stored records whenever it is needed      *)
(* (DecisionAsSpecified says what it has to be).  Whoever holds full may   *)
(* replace a policy; the principals a replacement takes permission from    *)
(* are named in a revocation cleanup, which fences the resource.           *)
(*                                                                         *)
(* One tenant of active users with a role, active folders, readable        *)
(* stores.  A replacement is one step: its writes, its failures and the    *)
(* races of fence and cleanup are RevocationCleanup.  One entry changes at *)
(* a time.                                                                 *)
(***************************************************************************)
EXTENDS Naturals

CONSTANTS
    Users, Groups, Folders,
    Parent,        \* the folder above each folder, or NoFolder
    Administrator, \* the administrative principal of each folder
    Owner,         \* the user who created the folders and owns the document
    DocFolders,    \* the folders the document is in
    Document,
    NoFolder, NoPolicy,
    Memberships,   \* the memberships the groups may start with
    MaxEdits       \* bound of changes to policies, groups and memberships

Principals == Users \cup Groups
Resources == Folders \cup {Document}
Level == {"deny", "readOnly", "full"}
Entries == UNION {[S -> Level] : S \in SUBSET Principals}

ASSUME ConstantAssumption ==
    /\ Users \cap Groups = {}
    /\ Owner \in Users
    /\ Administrator \in [Folders -> Principals]
    /\ Parent \in [Folders -> Folders \cup {NoFolder}]
    /\ DocFolders \subseteq Folders
    /\ Document \notin Folders /\ NoFolder \notin Folders
    /\ Memberships \subseteq [Groups -> Entries]
    /\ MaxEdits \in Nat

VARIABLES
    policy,  \* the stored entries of each folder and of the document
    members, \* the members of each group and their level
    active,  \* the groups not archived
    fenced,  \* the resources under an open cleanup
    named,   \* history: <<principal, ceiling>> the last replacement had cleaned up
    edits

vars == <<policy, members, active, fenced, named, edits>>

NoEntries == [p \in {} |-> "deny"]

Rank == [none |-> 0, deny |-> 0, readOnly |-> 1, full |-> 2]
Lower(x, y) == IF Rank[x] <= Rank[y] THEN x ELSE y
Highest(S) == CHOOSE x \in S \cup {"none"} : \A y \in S : Rank[y] <= Rank[x]

Init ==
    /\ policy = [r \in Resources |-> IF r = Document THEN NoEntries ELSE NoPolicy]
    /\ members \in Memberships
    /\ active = Groups
    /\ fenced = {}
    /\ named = {}
    /\ edits = 0

-----------------------------------------------------------------------------
(* The decisions, as computed.  "invalid" and "denied" outrank every level. *)

(* resolveUserMembershipPermission *)
Membership(u, g) ==
    LET resolve[h \in Groups, path \in SUBSET Groups] ==
            IF h \in path \/ h \notin active THEN "invalid"
            ELSE LET own == {members[h][u] : p \in {u} \cap DOMAIN members[h]}
                     nested == [k \in Groups \cap DOMAIN members[h] |-> resolve[k, path \cup {h}]]
                 IN IF \E k \in DOMAIN nested : nested[k] = "invalid" THEN "invalid"
                    ELSE Highest(own \cup {Lower(members[h][k], nested[k]) : k \in DOMAIN nested})
    IN resolve[g, {}]

(* validateResourceGroupPrincipalGraph: no user's membership matters. *)
Resolves(g) == Membership(Owner, g) # "invalid"

(* authorizeResourceGroupUse: an actor without a role may not use a group's grant. *)
GroupUse(role, permission) == IF permission = "none" \/ role THEN permission ELSE "invalid"

(* evaluatePolicyEntry, evaluateGrant *)
Entry(u, role, p, level) ==
    IF p \in Users
    THEN IF p # u THEN "none" ELSE IF level = "deny" THEN "denied" ELSE level
    ELSE LET membership == Membership(u, p) IN
         CASE membership \in {"invalid", "none"} -> membership
           [] level = "deny" -> "denied"
           [] OTHER -> GroupUse(role, Lower(level, membership))

(* Mutant: a full grant outweighs a deny. *)
EvaluateFullFirst(u, role, entries) ==
    LET results == {Entry(u, role, p, entries[p]) : p \in DOMAIN entries} IN
    CASE "invalid" \in results -> "invalid"
      [] "full" \in results -> "full"
      [] "denied" \in results -> "denied"
      [] OTHER -> Highest(results)

(* evaluatePolicy, resolveDirectDocumentPermission *)
Evaluate(u, role, entries) ==
    LET results == {Entry(u, role, p, entries[p]) : p \in DOMAIN entries} IN
    CASE "invalid" \in results -> "invalid"
      [] "denied" \in results -> "denied"
      [] OTHER -> Highest(results)

(* resolvePolicyContext; without any policy legacyDefaultPolicy of the folder itself *)
Governing(f) ==
    LET nearest[x \in Folders] ==
            IF policy[x] # NoPolicy \/ Parent[x] = NoFolder THEN policy[x] ELSE nearest[Parent[x]]
    IN IF nearest[f] # NoPolicy THEN nearest[f]
       ELSE [p \in {Administrator[f], Owner} |-> "full"]

(* resolveAdminPrincipalGrant *)
AdminGrant(u, role, f) ==
    LET p == Administrator[f] IN
    IF p \in Users THEN (IF p = u THEN "full" ELSE "none") ELSE GroupUse(role, Membership(u, p))

(* resolveEffectiveFolderPermissionDetail; "unverified" is a mandatory deny *)
FolderDecision(u, role, f) ==
    CASE AdminGrant(u, role, f) = "invalid" -> "unverified"
      [] AdminGrant(u, role, f) = "full" -> "full"
      [] OTHER -> Evaluate(u, role, Governing(f))

Permission(decision) == IF decision \in {"readOnly", "full"} THEN decision ELSE "none"

(* resolveEffectiveDocumentPermissionDecision *)
DocumentDecision(u) ==
    LET folder == {FolderDecision(u, TRUE, f) : f \in DocFolders}
        direct == Evaluate(u, TRUE, policy[Document])
    IN CASE u = Owner -> "full"
         [] "unverified" \in folder -> "unverified"
         [] "invalid" \in folder \cup {direct} -> "invalid"
         [] "denied" \in folder \cup {direct} -> "denied"
         [] OTHER -> Highest(folder \cup {direct})

Decision(u, r) == IF r = Document THEN DocumentDecision(u) ELSE FolderDecision(u, TRUE, r)

-----------------------------------------------------------------------------
(* Replacing a policy.                                                     *)

EntriesOf(r) == IF policy[r] = NoPolicy THEN NoEntries ELSE policy[r]
With(entries, p, level) == [q \in DOMAIN entries \cup {p} |-> IF q = p THEN level ELSE entries[q]]
Without(entries, p) == [q \in DOMAIN entries \ {p} |-> entries[q]]
RankIn(entries, p) == IF p \in DOMAIN entries THEN Rank[entries[p]] ELSE 0

(* folderPolicyIncreases, documentSharePolicyIncreases *)
Increases(before, after) == \E p \in DOMAIN after : Rank[after[p]] > RankIn(before, p)

(* revokedFolderPolicyEntries, revokedDocumentGrants *)
Revoked(before, after) ==
    {<<p, IF RankIn(after, p) = 0 THEN "none" ELSE "readOnly">> :
        p \in {q \in DOMAIN before : RankIn(after, q) < Rank[before[q]]}}

(* resolveEffectiveDocumentPermissionWithDirectGrants, of an actor without a role *)
Remaining(u, grants) ==
    LET folder == {FolderDecision(u, FALSE, f) : f \in DocFolders}
        direct == Evaluate(u, FALSE, grants)
    IN CASE u = Owner -> "full"
         [] "invalid" \in folder \cup {direct} -> "undefined"
         [] "denied" \in folder \cup {direct} -> "none"
         [] OTHER -> Highest({Permission(x) : x \in folder \cup {direct}})

(* Mutant: who keeps just the ceiling is left out as well. *)
NamedBelowCeiling(before, after) ==
    {c \in Revoked(before, after) :
        c[1] \in Users =>
            LET remaining == Remaining(c[1], after)
            IN remaining # "undefined" /\ Rank[remaining] < Rank[c[2]]}

(* replaceVersionedDocumentSharePolicy: a user who keeps more than the ceiling is left out. *)
NamedForDocument(before, after) ==
    {c \in Revoked(before, after) :
        c[1] \in Users =>
            LET remaining == Remaining(c[1], after)
            IN remaining # "undefined" /\ Rank[remaining] <= Rank[c[2]]}

(* validateVersionedPolicyMutation *)
ValidForFolder(f, entries) ==
    /\ \E p \in DOMAIN entries : entries[p] = "full"
    /\ Administrator[f] \in DOMAIN entries => entries[Administrator[f]] = "full"
    /\ \A g \in Groups \cap (DOMAIN entries \cup {Administrator[f]}) : Resolves(g)

(* validateSharePrincipals: a group is not followed into its members. *)
ValidForDocument(entries) ==
    /\ Owner \in DOMAIN entries => entries[Owner] # "deny"
    /\ Groups \cap DOMAIN entries \subseteq active

Edit == edits < MaxEdits /\ edits' = edits + 1

Replace(r, entries, targets) ==
    /\ Increases(EntriesOf(r), entries) => r \notin fenced
    /\ policy' = [policy EXCEPT ![r] = entries]
    /\ named' = targets
    /\ fenced' = IF targets = {} THEN fenced ELSE fenced \cup {r}
    /\ UNCHANGED <<members, active>>
    /\ Edit

MayShare(r) == \E actor \in Users : Decision(actor, r) = "full"
Changes(before) == {With(before, p, l) : p \in Principals, l \in Level} \cup {Without(before, p) : p \in DOMAIN before}

(* replaceVersionedFolderPolicy *)
ShareFolder(f) ==
    /\ MayShare(f)
    /\ \E entries \in Changes(EntriesOf(f)) :
        /\ ValidForFolder(f, entries)
        /\ Replace(f, entries, Revoked(EntriesOf(f), entries))

(* replaceVersionedDocumentSharePolicy *)
ShareDocument ==
    /\ MayShare(Document)
    /\ \E entries \in Changes(policy[Document]) :
        /\ ValidForDocument(entries)
        /\ Replace(Document, entries, NamedForDocument(policy[Document], entries))

-----------------------------------------------------------------------------
(* The environment.  Two replacements of memberships, or one and a         *)
(* deletion, are validated apart, so groups nest in a circle or in an      *)
(* archived group (ResourceGroup).                                         *)

EnterOrLeave(g) ==
    /\ g \in active
    /\ \E m \in {With(members[g], p, l) : p \in Principals \ {g}, l \in {"readOnly", "full"}}
                \cup {Without(members[g], p) : p \in DOMAIN members[g]} :
            members' = [members EXCEPT ![g] = m]
    /\ named' = {}
    /\ UNCHANGED <<policy, active, fenced>>
    /\ Edit

ArchiveGroup(g) ==
    /\ g \in active
    /\ active' = active \ {g}
    /\ members' = [members EXCEPT ![g] = NoEntries]
    /\ named' = {}
    /\ UNCHANGED <<policy, fenced>>
    /\ Edit

CompleteCleanup(r) ==
    /\ r \in fenced
    /\ fenced' = fenced \ {r}
    /\ named' = {}
    /\ UNCHANGED <<policy, members, active, edits>>

Next ==
    \/ \E f \in Folders : ShareFolder(f)
    \/ ShareDocument
    \/ \E g \in Groups : EnterOrLeave(g) \/ ArchiveGroup(g)
    \/ \E r \in Resources : CompleteCleanup(r)

Spec == Init /\ [][Next]_vars

-----------------------------------------------------------------------------
TypeOK ==
    /\ policy \in [Resources -> Entries \cup {NoPolicy}]
    /\ members \in [Groups -> Entries]
    /\ active \subseteq Groups
    /\ fenced \subseteq Resources
    /\ named \subseteq Principals \X {"none", "readOnly"}
    /\ edits \in 0..MaxEdits

(* The decisions, as the requirements specify them, by reachability. *)

Nested(g, l) == {h \in Groups \cap DOMAIN members[g] : Rank[members[g][h]] >= Rank[l]}
Closed(l) == {S \in SUBSET Groups : \A g \in S : Nested(g, l) \subseteq S}

(* g and the groups below it, by links that give l or more *)
Below(g, l) == {h \in Groups : \A S \in Closed(l) : g \in S => h \in S}

(* A group counts when no group below it is archived or part of a circle. *)
Sound(g) ==
    \A h \in Below(g, "readOnly") :
        h \in active /\ \A k \in Nested(h, "readOnly") : h \notin Below(k, "readOnly")

(* u is p, or a member of p by a chain whose every link gives l or more *)
Holds(u, p, l) ==
    \/ u = p
    \/ /\ p \in Groups
       /\ \E h \in Below(p, l) : u \in DOMAIN members[h] /\ Rank[members[h][u]] >= Rank[l]

Usable(entries) == \A g \in Groups \cap DOMAIN entries : Sound(g)
Denies(entries, u) == \E p \in DOMAIN entries : entries[p] = "deny" /\ Holds(u, p, "readOnly")
Gives(entries, u, l) == \E p \in DOMAIN entries : Rank[entries[p]] >= Rank[l] /\ Holds(u, p, l)

Verified(f) == Administrator[f] \in Groups => Sound(Administrator[f])
Administers(u, f) == Verified(f) /\ Holds(u, Administrator[f], "full")
Open(entries, u) == Usable(entries) /\ ~Denies(entries, u)

FolderAllows(u, f, l) ==
    /\ Verified(f)
    /\ Administers(u, f) \/ (Open(Governing(f), u) /\ Gives(Governing(f), u, l))

DocumentAllows(u, l) ==
    \/ u = Owner
    \/ /\ \A f \in DocFolders : Verified(f) /\ (Administers(u, f) \/ Open(Governing(f), u))
       /\ Open(policy[Document], u)
       /\ Gives(policy[Document], u, l) \/ \E f \in DocFolders : FolderAllows(u, f, l)

(* A decision grants a level exactly when the requirements do (FR-061,     *)
(* FR-063, FR-077): whoever administers is beyond every policy, a group    *)
(* that cannot be followed to its end closes the policy that names it, a   *)
(* deny outweighs every grant, and a level passes through a chain of       *)
(* groups only as far as its weakest link.                                 *)
DecisionAsSpecified ==
    \A u \in Users, l \in {"readOnly", "full"} :
        /\ \A f \in Folders : FolderAllows(u, f, l) <=> Rank[Permission(Decision(u, f))] >= Rank[l]
        /\ DocumentAllows(u, l) <=> Rank[Permission(DocumentDecision(u))] >= Rank[l]

LosesAll(u, r) == Permission(Decision(u, r)) # "none" /\ Permission(Decision(u, r))' = "none"
NamedWholly(u) == \E p \in Principals : <<p, "none">> \in named' /\ Holds(u, p, "readOnly")
OnlyTakes(r) ==
    /\ policy[r] # NoPolicy /\ policy'[r] # policy[r]
    /\ \A p \in DOMAIN policy'[r] : p \in DOMAIN policy[r] /\ policy'[r][p] # "deny"

(* Whoever can no longer open a folder or the document because entries of  *)
(* a policy were taken away is named, alone or by a group, in the cleanup  *)
(* that replacement registers, although the cleanup is chosen entry by     *)
(* entry and, for a document, by what an actor without a role would keep.  *)
LostAccessIsNamed ==
    [][\A r \in Resources : OnlyTakes(r) =>
            \A u \in Users, s \in Resources : LosesAll(u, s) => NamedWholly(u)]_vars

(* The same of every replacement, as FR-066 asks.  It does not hold: a     *)
(* deny for somebody not listed before and the first policy of a subfolder *)
(* register nothing, and neither does a deny of a user who is also a       *)
(* member of a group with a grant (README, section 5).                     *)
EveryLossIsNamed ==
    [][policy' # policy => \A u \in Users, r \in Resources : LosesAll(u, r) => NamedWholly(u)]_vars

(* While a resource is fenced no replacement of its policy gives anybody   *)
(* more.  It does not hold: lifting a deny does not count as an increase   *)
(* (README, section 5).                                                    *)
NothingGivenUnderFence ==
    [][\A r \in fenced : policy'[r] # policy[r] =>
            \A u \in Users : Rank[Permission(Decision(u, r))'] <= Rank[Permission(Decision(u, r))]]_vars
=============================================================================
