----------------------------- MODULE LockTable ------------------------------
(***************************************************************************)
(* What a WebDAV lock system promises (the comments of LockSystem in       *)
(* server/webdav/lock.go): locks that are granted never overlap, a lock    *)
(* that a request has confirmed is not confirmed again, given up or lost   *)
(* before that request has released it.  A resource is a sequence of       *)
(* names, the root is << >>.                                               *)
(***************************************************************************)
EXTENDS Sequences, Integers

VARIABLES
    granted,    \* the locks by their token: root and depth
    held        \* the tokens that some request has confirmed

tableVars == <<granted, held>>

(* walkToRoot: a name and everything above it. *)
Anc(p) == {SubSeq(p, 1, i) : i \in 0..Len(p)}

(* A lock of infinite depth covers everything below its root. *)
Covers(l, p) == l.root = p \/ (~l.zero /\ l.root \in Anc(p))

Conflict(l, m) == Covers(l, m.root) \/ Covers(m, l.root)

TableInit ==
    /\ granted = <<>>
    /\ held = {}

(* Some locks that nobody holds expire or are given up. *)
Give(S) ==
    /\ S \subseteq DOMAIN granted \ held
    /\ granted' = [t \in DOMAIN granted \ S |-> granted[t]]

(* The same, and a new lock that overlaps none of the others is granted. *)
Grant(S, t) ==
    /\ S \subseteq DOMAIN granted \ held
    /\ t \in DOMAIN granted' \ DOMAIN granted
    /\ granted' = [u \in (DOMAIN granted \ S) \cup {t} |->
                        IF u = t THEN granted'[t] ELSE granted[u]]
    /\ \A u \in DOMAIN granted \ S : ~Conflict(granted[u], granted'[t])
    /\ UNCHANGED held

(* The same, and a request confirms the locks H. *)
Claim(S, H) ==
    /\ H \subseteq DOMAIN granted \ (held \cup S)
    /\ Give(S)
    /\ held' = held \cup H

Release(H) ==
    /\ H \subseteq held
    /\ held' = held \ H
    /\ UNCHANGED granted

TableNext ==
    \/ \E S \in SUBSET DOMAIN granted :
        \/ \E H \in SUBSET DOMAIN granted : Claim(S, H)
        \/ \E t \in DOMAIN granted' : Grant(S, t)
    \/ \E H \in SUBSET held : Release(H)

TableSpec == TableInit /\ [][TableNext]_tableVars
=============================================================================
