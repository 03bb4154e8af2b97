------------------------ MODULE MCStagedPublication ------------------------
(* Finite instances of StagedPublication for TLC.                          *)
EXTENDS StagedPublication, TLC

(* Runs are interchangeable, and so are the slots of one kind.             *)
Symmetry == Permutations(Runs) \cup Permutations(Workers \ Compensators)
=============================================================================
