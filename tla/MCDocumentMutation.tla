------------------------- MODULE MCDocumentMutation -------------------------
(* One client that moves the document twice and one that deletes it: the   *)
(* instance of DocumentMutation that TLC explores.                         *)
EXTENDS DocumentMutation, TLC

CONSTANTS m1, d1
=============================================================================
