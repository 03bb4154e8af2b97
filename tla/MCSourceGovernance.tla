------------------------- MODULE MCSourceGovernance -------------------------
(* Two approvals and two restrictions of one source: the instance of       *)
(* SourceGovernance that TLC explores.                                     *)
EXTENDS SourceGovernance

CONSTANTS a1, a2, o1, o2
=============================================================================
