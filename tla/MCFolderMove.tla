---------------------------- MODULE MCFolderMove ----------------------------
(* A folder with one subfolder and two documents: the instance of          *)
(* FolderMove that TLC explores.                                           *)
EXTENDS FolderMove

CONSTANTS c1, c2, top, sub

MCDocs == 1..2
=============================================================================
