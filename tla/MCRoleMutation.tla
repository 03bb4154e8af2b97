--------------------------- MODULE MCRoleMutation ---------------------------
(* Two administrators demote each other to access administrators, which    *)
(* leaves them able to assign roles, and a third request promotes one of   *)
(* them again: the instance of RoleMutation that TLC explores.             *)
EXTENDS RoleMutation, TLC

CONSTANTS u1, u2, admin, access, r1, r2, r3

MCActor == r1 :> u1 @@ r2 :> u2 @@ r3 :> u1
MCTarget == r1 :> u2 @@ r2 :> u1 @@ r3 :> u2
MCDesired == r1 :> {access} @@ r2 :> {access} @@ r3 :> {admin, access}
MCInitialRoles == u1 :> {admin} @@ u2 :> {admin}
=============================================================================
