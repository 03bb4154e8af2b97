-------------------------- MODULE MCResourceGroup --------------------------
(* Two groups of which one is deleted, one user, one replacement of        *)
(* members and one rename: the instance of ResourceGroup that TLC explores. *)
EXTENDS ResourceGroup

CONSTANTS g, h, u, p1, n1
=============================================================================
