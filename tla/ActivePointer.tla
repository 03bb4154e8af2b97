--------------------------- MODULE ActivePointer ---------------------------
(***************************************************************************)
(* What the active publication pointer of one scope promises its readers:  *)
(* it names at most one artifact, every artifact it names is new to it,    *)
(* and it never goes back.  Which candidate wins, when, and how many       *)
(* attempts were fenced off on the way is left open.                       *)
(***************************************************************************)
CONSTANTS Artifact,  \* what can be published
          None       \* no publication yet, not an artifact

VARIABLES current,   \* the artifact the pointer names
          ever       \* the artifacts it has named so far

pvars == <<current, ever>>

Init ==
    /\ current = None
    /\ ever = {}

(* The first publication, a cutover or a rollback: all of them put an      *)
(* artifact in place that has not been current before.                     *)
Publish(a) ==
    /\ a \notin ever
    /\ current = None <=> ever = {}
    /\ current' = a
    /\ ever' = ever \cup {a}

Next == \E a \in Artifact : Publish(a)

Spec == Init /\ [][Next]_pvars
=============================================================================
