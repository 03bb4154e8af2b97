------------------------- MODULE MCReindexMigration -------------------------
(* A stage request, a cutover whose actor may lose authorization, one      *)
(* that an authorized client repeats, and a rollback: the instance of      *)
(* ReindexMigration that TLC explores.                                     *)
EXTENDS ReindexMigration, TLC

CONSTANTS s1, c1, c2, b1

MCKind == s1 :> "stage" @@ c1 :> "cutover" @@ c2 :> "cutover" @@ b1 :> "rollback"
=============================================================================
