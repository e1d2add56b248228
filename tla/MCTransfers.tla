---------------------------- MODULE MCTransfers -----------------------------
(* Transfers of a directory with a file and of a file beside it; another   *)
(* file may come into the directory.                                       *)
EXTENDS Transfers

CONSTANTS a, b, c, d

MCParent == [n \in Files \cup Dirs |-> IF n \in {a, b} THEN d ELSE Top]
=============================================================================
