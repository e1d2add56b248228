-------------------------- MODULE SequentialUpload --------------------------
(***************************************************************************)
(* What UploadByMultipart promises to its caller: the parts are registered *)
(* one after the other in file order, the object is assembled only from    *)
(* all of them, and a failed upload stays failed.                          *)
(***************************************************************************)
EXTENDS Naturals

CONSTANT NChunks

VARIABLES registered, status

vars == <<registered, status>>

(* The types of the variables. *)
TypeOK == registered \in 0..NChunks /\ status \in {"open", "assembled", "failed"}

Init == registered = 0 /\ status = "open"

Register ==
    /\ registered < NChunks
    /\ registered' = registered + 1
    /\ UNCHANGED status

Assemble ==
    /\ status = "open"
    /\ registered = NChunks
    /\ status' = "assembled"
    /\ UNCHANGED registered

Fail ==
    /\ status = "open"
    /\ status' = "failed"
    /\ UNCHANGED registered

Next == Register \/ Assemble \/ Fail

Spec == Init /\ [][Next]_vars
=============================================================================
