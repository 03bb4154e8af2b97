------------------------- MODULE MCRevocationCleanup -------------------------
(* A revocation and a request that gives the permission back, a batch      *)
(* that is started again and again and one that overlaps it once: the      *)
(* instance of RevocationCleanup that TLC explores.                        *)
EXTENDS RevocationCleanup

CONSTANTS o1, g1, w1, w2, index, derived
=============================================================================
