------------------------------- MODULE Sweep -------------------------------
(***************************************************************************)
(* What the breakpoint of the walker promises.  A sweep goes from the      *)
(* moment a full scan starts to the moment its breakpoint is cleared, over *)
(* as many process lives as it takes.  It owes an attempt to every file    *)
(* that was there when it opened and has stayed there; it closes only when *)
(* nothing is owed, and once it has settled a file it is resumed, never    *)
(* started again.                                                          *)
(***************************************************************************)
EXTENDS FiniteSets

CONSTANT Files

VARIABLES open, owed, settled

vars == <<open, owed, settled>>

(* The types of the variables. *)
TypeOK == open \in BOOLEAN /\ owed \subseteq Files /\ settled \subseteq Files

Init == open = FALSE /\ owed = {} /\ settled = {}

(* A full scan starts: a new sweep, or the same one if it settled nothing. *)
Open ==
    /\ open => settled = {}
    /\ open' = TRUE
    /\ owed' \in SUBSET Files
    /\ settled' = {}

(* A file has been attempted to the end, uploaded or recorded as failed. *)
Settle(f) ==
    /\ open
    /\ settled' = settled \cup {f}
    /\ owed' = owed \ {f}
    /\ UNCHANGED open

(* Files removed from the tree are no longer owed. *)
Forget ==
    /\ owed' \in SUBSET owed
    /\ UNCHANGED <<open, settled>>

Close ==
    /\ open
    /\ owed = {}
    /\ open' = FALSE
    /\ UNCHANGED <<owed, settled>>

Next == Open \/ (\E f \in Files : Settle(f)) \/ Forget \/ Close

Spec == Init /\ [][Next]_vars
=============================================================================
