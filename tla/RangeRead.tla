------------------------------ MODULE RangeRead ------------------------------
(***************************************************************************)
(* What the reader of a download promises (the comment of Download in      *)
(* internal/net/request.go: "cache some data, then return Reader with      *)
(* assembled data"): the bytes of the range in order, all of them before   *)
(* the end, unless the download fails or is closed.  Once a server has     *)
(* sent more than its answer the bytes are no longer promised.             *)
(***************************************************************************)
EXTENDS Integers, Sequences

CONSTANT Length         \* bytes in the range

VARIABLES
    got,                \* the bytes delivered, by their place in the range
    status,             \* "open", "eof", "failed" or "closed"
    spoiled             \* a body went on or broke off after its last byte

readVars == <<got, status, spoiled>>

RangeInit == got = <<>> /\ status = "open" /\ ~spoiled

Deliver ==
    /\ status = "open"
    /\ \E n \in 1..(Length - Len(got)) :
        got' = got \o [i \in 1..n |-> Len(got) + i]
    /\ UNCHANGED <<status, spoiled>>

End == status = "open" /\ Len(got) = Length /\ status' = "eof" /\ UNCHANGED <<got, spoiled>>

Fail == status = "open" /\ status' = "failed" /\ UNCHANGED <<got, spoiled>>

Close == status # "closed" /\ status' = "closed" /\ UNCHANGED <<got, spoiled>>

Spoil == ~spoiled /\ spoiled' /\ UNCHANGED <<got, status>>

(* Other bytes, or the end after more or fewer of them. *)
Astray == spoiled /\ spoiled' /\ status = "open" /\ status' \in {"open", "eof"}

RangeSpec == RangeInit /\ [][Deliver \/ End \/ Fail \/ Close \/ Spoil \/ Astray]_readVars
=============================================================================
