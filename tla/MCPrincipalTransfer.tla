------------------------- MODULE MCPrincipalTransfer -------------------------
(* One account that owns a document and a resource group at most: the      *)
(* instance of PrincipalTransfer that TLC explores.                        *)
EXTENDS PrincipalTransfer, TLC

CONSTANTS c1, d1, d2, r1, doc, group, owner, heir, other
=============================================================================
