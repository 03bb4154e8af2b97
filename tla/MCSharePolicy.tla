---------------------------- MODULE MCSharePolicy ----------------------------
(* A folder, the folder in it that a group administers and a document in    *)
(* both: the instance of SharePolicy that TLC explores.                     *)
EXTENDS SharePolicy

CONSTANTS u1, u2, g1, g2, top, sub

MCParent == [f \in Folders |-> IF f = sub THEN top ELSE NoFolder]
MCAdministrator == [f \in Folders |-> IF f = sub THEN g1 ELSE u1]

(* g1 is empty or has u2; g2 is empty or has u2 or g1. *)
Only(p) == {[q \in {p} |-> l] : l \in {"readOnly", "full"}}
MCMemberships ==
    {m \in [Groups -> {NoEntries} \cup Only(u2) \cup Only(g1)] : g1 \notin DOMAIN m[g1]}
=============================================================================
