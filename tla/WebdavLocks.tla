---------------------------- MODULE WebdavLocks -----------------------------
(***************************************************************************)
(* The WebDAV lock system (server/webdav/lock.go) under the requests that  *)
(* use it (server/webdav/webdav.go).  LOCK, its refresh and UNLOCK are one *)
(* call of memLS each.  A request that writes takes its locks first: with  *)
(* an If header it confirms locks of its client, without one it makes      *)
(* temporary locks, one call of memLS after the other, and takes them back *)
(* at its end.  memLS keeps its locks in a tree with a reference count per *)
(* node and the finite ones in a heap; every call runs under its mutex.    *)
(***************************************************************************)
EXTENDS Integers, Sequences, FiniteSets

CONSTANTS
    Names, Paths,   \* names, and resources as sequences of names
    Bases,          \* base paths of the users
    Requests,       \* requests that write, at the same time
    MaxGen          \* bound: tokens that are ever made

ASSUME LocksAssumption ==
    /\ Paths \subseteq Seq(Names)
    /\ Bases \subseteq Paths
    /\ MaxGen \in Nat
    /\ \A p \in Paths : \A i \in 0..Len(p) : SubSeq(p, 1, i) \in Paths

VARIABLES
    table,      \* memLS: lock = byToken with the details, ref = refCount per node
    gen,        \* the last token
    known,      \* the tokens that LOCK has given to clients
    req         \* the requests that write

vars == <<table, gen, known, req>>

Promise == INSTANCE LockTable
            WITH granted <- [t \in DOMAIN table.lock |->
                                [root |-> table.lock[t].root, zero |-> table.lock[t].zero]],
                 held <- {t \in DOMAIN table.lock : table.lock[t].held}

Anc(p) == Promise!Anc(p)
Covers(l, p) == Promise!Covers(l, p)

Lock == [root : Paths, zero : BOOLEAN,
         finite : BOOLEAN,      \* Duration >= 0
         held : BOOLEAN,
         queued : BOOLEAN]      \* byExpiryIndex >= 0

Live == DOMAIN table.lock

Toks(r) == {req[r].toks[i] : i \in 1..Len(req[r].toks)}

(* What a request has of locks: temporary ones or not, the names that are  *)
(* left to lock, all the names it locks, what it writes, its tokens.       *)
Idle == [pc |-> "idle", temp |-> FALSE, todo |-> <<>>, names |-> {}, res |-> {}, toks |-> <<>>]

(* The types of the variables; a request is idle or has its names. *)
TypeOK ==
    /\ gen \in 0..MaxGen /\ Live \subseteq 1..gen
    /\ table = [lock |-> table.lock, ref |-> table.ref]
    /\ table.lock \in [Live -> Lock]
    /\ table.ref \in [Paths -> Nat]
    /\ known \subseteq 1..gen
    /\ req \in [Requests -> [pc : {"idle", "create", "busy", "release"}, temp : BOOLEAN,
                             todo : Seq(Paths), names : SUBSET Paths, res : SUBSET Paths,
                             toks : Seq(1..gen)]]

Init ==
    /\ table = [lock |-> <<>>, ref |-> [p \in Paths |-> 0]]
    /\ gen = 0
    /\ known = {}
    /\ req = [r \in Requests |-> Idle]
-----------------------------------------------------------------------------
(* Mutant: remove takes the count of the node alone. *)
RemoveNodeOnly(T, S) ==
    [lock |-> [t \in DOMAIN T.lock \ S |-> T.lock[t]],
     ref  |-> [p \in Paths |-> T.ref[p] - Cardinality({t \in S : p = T.lock[t].root})]]

(* memLS.remove, for a set of locks. *)
RemoveAll(T, S) ==
    [lock |-> [t \in DOMAIN T.lock \ S |-> T.lock[t]],
     ref  |-> [p \in Paths |-> T.ref[p] - Cardinality({t \in S : p \in Anc(T.lock[t].root)})]]

(* collectExpiredNodes.  A lock may run out at any time, also while it is  *)
(* held; it is removed when a call finds it in the heap.                   *)
Collected == {RemoveAll(table, S) : S \in SUBSET {t \in Live : table.lock[t].queued}}

(* Mutant: canCreate looks at the node alone. *)
CanCreateHere(T, p, zero) ==
    T.ref[p] > 0 => zero /\ \A t \in DOMAIN T.lock : T.lock[t].root # p

(* memLS.canCreate: a node exists while its count is not zero. *)
CanCreate(T, p, zero) ==
    \A a \in Anc(p) :
        T.ref[a] > 0 =>
            LET here == {t \in DOMAIN T.lock : T.lock[t].root = a} IN
            IF a = p THEN here = {} /\ zero
                     ELSE \A t \in here : T.lock[t].zero

(* memLS.create and the rest of Create. *)
Add(T, t, p, zero, finite) ==
    [lock |-> [u \in DOMAIN T.lock \cup {t} |->
                IF u = t THEN [root |-> p, zero |-> zero, finite |-> finite,
                               held |-> FALSE, queued |-> finite]
                         ELSE T.lock[u]],
     ref  |-> [a \in Paths |-> IF a \in Anc(p) THEN T.ref[a] + 1 ELSE T.ref[a]]]

(* memLS.lookup: a lock of the client that covers the name and is not held. *)
Lookup(T, p, conds) ==
    {t \in conds \cap DOMAIN T.lock : ~T.lock[t].held /\ Covers(T.lock[t], p)}

(* Mutant: hold leaves the node in the heap. *)
HoldQueued(T, H) ==
    [T EXCEPT !.lock = [t \in DOMAIN T.lock |->
        IF t \in H THEN [T.lock[t] EXCEPT !.held = TRUE] ELSE T.lock[t]]]

(* hold takes a finite lock out of the heap. *)
Hold(T, H) ==
    [T EXCEPT !.lock = [t \in DOMAIN T.lock |->
        IF t \in H THEN [T.lock[t] EXCEPT !.held = TRUE, !.queued = FALSE] ELSE T.lock[t]]]

(* unhold puts a finite lock back into the heap. *)
Unhold(T, H) ==
    [T EXCEPT !.lock = [t \in DOMAIN T.lock |->
        IF t \in H THEN [T.lock[t] EXCEPT !.held = FALSE, !.queued = T.lock[t].finite]
                   ELSE T.lock[t]]]

(* Mutant: Unlock does not look at held. *)
UnlockHeld(T, t) ==
    IF t \in DOMAIN T.lock THEN RemoveAll(T, {t}) ELSE T

(* memLS.Unlock: refused while the lock is held. *)
Unlock(T, t) ==
    IF t \in DOMAIN T.lock /\ ~T.lock[t].held THEN RemoveAll(T, {t}) ELSE T
-----------------------------------------------------------------------------
(* User.JoinPath. *)
Join(b, p) == b \o p

(* A name of a URL without the prefix is <<p>>, or << >> when nothing is   *)
(* left of it; then it stands for the root.                                *)
UrlNames == {<<>>} \cup {<<p>> : p \in Paths}
Clean(n) == IF n = <<>> THEN <<>> ELSE n[1]

(* handleLock with a body: a lock on the path below the user's base. *)
LockRequest(b, p, zero, finite) ==
    /\ gen < MaxGen
    /\ Join(b, p) \in Paths
    /\ \E T \in Collected :
        IF CanCreate(T, Join(b, p), zero)
        THEN /\ table' = Add(T, gen + 1, Join(b, p), zero, finite)
             /\ gen' = gen + 1
             /\ known' = known \cup {gen + 1}
        ELSE table' = T /\ UNCHANGED <<gen, known>>
    /\ UNCHANGED req

(* handleLock without a body: memLS.Refresh. *)
RefreshRequest(t, finite) ==
    /\ \E T \in Collected :
        table' = IF t \in DOMAIN T.lock /\ ~T.lock[t].held
                 THEN [T EXCEPT !.lock[t] = [@ EXCEPT !.finite = finite, !.queued = finite]]
                 ELSE T
    /\ UNCHANGED <<gen, known, req>>

(* handleUnlock. *)
UnlockRequest(t) ==
    /\ \E T \in Collected : table' = Unlock(T, t)
    /\ UNCHANGED <<gen, known, req>>

(* Handler.lock: a temporary lock for the next name; when it is refused,   *)
(* the one already made is taken back.                                     *)
LockNext(r, q) ==
    /\ gen < MaxGen
    /\ \E T \in Collected :
        IF CanCreate(T, Head(q.todo), TRUE)
        THEN /\ table' = Add(T, gen + 1, Head(q.todo), TRUE, FALSE)
             /\ gen' = gen + 1
             /\ req' = [req EXCEPT ![r] =
                        [q EXCEPT !.todo = Tail(@), !.toks = Append(@, gen + 1),
                                  !.pc = IF Len(q.todo) = 1 THEN "busy" ELSE "create"]]
        ELSE /\ table' = T
             /\ req' = [req EXCEPT ![r] = IF q.toks = <<>> THEN Idle
                                          ELSE [q EXCEPT !.pc = "release", !.todo = <<>>,
                                                          !.names = {}, !.res = {}]]
             /\ UNCHANGED gen
    /\ UNCHANGED known

NameSet(todo) == {todo[i] : i \in 1..Len(todo)}

(* confirmLocks without an If header. *)
LockAll(r, todo, res) ==
    /\ todo # <<>>
    /\ LockNext(r, [Idle EXCEPT !.temp = TRUE, !.todo = todo, !.names = NameSet(todo),
                                !.res = res])

(* confirmLocks with a list of an If header: memLS.Confirm finds a lock    *)
(* for every name among those of the list; it does not hold one twice.  No *)
(* name needs no lock, with a header or without one.                       *)
ConfirmAll(r, todo, res) ==
    \E T \in Collected, f \in [1..Len(todo) -> known] :
        /\ \A i \in 1..Len(todo) : f[i] \in Lookup(T, todo[i], known)
        /\ table' = Hold(T, {f[i] : i \in 1..Len(todo)})
        /\ req' = [req EXCEPT ![r] = [Idle EXCEPT !.pc = "busy", !.names = NameSet(todo),
                    !.res = res,
                    !.toks = IF Len(todo) = 2 /\ f[1] = f[2] THEN <<f[1]>> ELSE f]]
        /\ UNCHANGED <<gen, known>>

(* Or there is none: the list does not name it, or it is held or gone.     *)
Unconfirmed(r) ==
    /\ req[r] = Idle
    /\ table' \in Collected
    /\ UNCHANGED <<gen, known, req>>

(* A request arrives: it has the names src and dst for confirmLocks and    *)
(* will write to res.  A list of its If header stands for src, or for the  *)
(* resource of its tag.                                                    *)
Arrive(r, src, dst, res) ==
    /\ req[r] = Idle
    /\ \/ LockAll(r, src \o dst, res)
       \/ \E lsrc \in UrlNames : ConfirmAll(r, lsrc \o dst, res)

(* DELETE, PUT, MKCOL and PROPPATCH ask for the lock of the path of the    *)
(* URL and join it with the base of the user afterwards.                   *)
OneName(r, b, n) ==
    /\ Join(b, Clean(n)) \in Paths
    /\ Arrive(r, n, <<>>, {Join(b, Clean(n))})

(* MOVE and COPY join first; COPY locks its destination only. *)
Move(r, b, n, q) ==
    LET src == Join(b, Clean(n))
        dst == Join(b, q)
    IN  /\ n # <<q>> /\ src \in Paths /\ dst \in Paths
        /\ Arrive(r, <<src>>, <<dst>>, {src, dst})

Copy(r, b, q) ==
    /\ Join(b, q) \in Paths
    /\ Arrive(r, <<>>, <<Join(b, q)>>, {Join(b, q)})

(* The second temporary lock of a MOVE is another call. *)
SecondLock(r) ==
    /\ req[r].pc = "create"
    /\ LockNext(r, req[r])

(* The work is done, or an early return; the deferred release follows. *)
Finish(r) ==
    /\ req[r].pc = "busy"
    /\ req' = [req EXCEPT ![r].pc = "release", ![r].names = {}, ![r].res = {}]
    /\ UNCHANGED <<table, gen, known>>

(* Temporary locks are unlocked one by one, the last one first; confirmed  *)
(* ones are let go together.                                               *)
ReleaseTemp(r) ==
    /\ req[r].pc = "release" /\ req[r].temp
    /\ \E T \in Collected : table' = Unlock(T, req[r].toks[Len(req[r].toks)])
    /\ LET toks == req[r].toks IN
       req' = [req EXCEPT ![r] = IF Len(toks) = 1 THEN Idle
                                 ELSE [@ EXCEPT !.toks = SubSeq(toks, 1, Len(toks) - 1)]]
    /\ UNCHANGED <<gen, known>>

ReleaseConfirmed(r) ==
    /\ req[r].pc = "release" /\ ~req[r].temp
    /\ table' = Unhold(table, Toks(r))
    /\ req' = [req EXCEPT ![r] = Idle]
    /\ UNCHANGED <<gen, known>>

Next ==
    \/ \E b \in Bases, p \in Paths, zero, finite \in BOOLEAN : LockRequest(b, p, zero, finite)
    \/ \E t \in known, finite \in BOOLEAN : RefreshRequest(t, finite)
    \/ \E t \in known : UnlockRequest(t)
    \/ \E r \in Requests :
        \/ \E b \in Bases, n \in UrlNames : OneName(r, b, n)
        \/ \E b \in Bases, n \in UrlNames, q \in Paths : Move(r, b, n, q)
        \/ \E b \in Bases, q \in Paths : Copy(r, b, q)
        \/ Unconfirmed(r) \/ SecondLock(r) \/ Finish(r)
        \/ ReleaseTemp(r) \/ ReleaseConfirmed(r)

Spec == Init /\ [][Next]_vars
-----------------------------------------------------------------------------
(* refCount counts the locks at a node and below it, so a node exists      *)
(* exactly while canCreate has to see it, and remove never meets a nil     *)
(* node (lock.go:341).                                                     *)
NodesExact ==
    \A p \in Paths : table.ref[p] = Cardinality({t \in Live : p \in Anc(table.lock[t].root)})

(* A lock is in the heap exactly while it can expire: finite and not held  *)
(* (the comment on byExpiry); what is held belongs to one request that has *)
(* not released it, so hold and unhold never panic, and a temporary lock   *)
(* does not outlive its request.                                           *)
NoOrphans ==
    /\ \A t \in Live : table.lock[t].queued = (table.lock[t].finite /\ ~table.lock[t].held)
    /\ \A t \in Live : table.lock[t].held =>
        \E r \in Requests : req[r].pc \in {"busy", "release"} /\ ~req[r].temp /\ t \in Toks(r)
    /\ \A t \in Live \ known : \E r \in Requests : req[r].temp /\ t \in Toks(r)
    /\ \A r \in Requests : \A t \in Toks(r) :
        /\ t \in Live /\ table.lock[t].held = ~req[r].temp
        /\ \A s \in Requests : t \in Toks(s) => s = r

(* What a busy request writes under a name that it has locked.             *)
Claims(r) == IF req[r].pc = "busy" THEN req[r].res \cap req[r].names ELSE {}

(* A resource that a request has locked under the name it writes to is     *)
(* written by this request alone among those that have locked it, and no   *)
(* lock covers it that the request does not have (the comments of Confirm, *)
(* lock.go:38, and of confirmLocks, webdav.go:125).  Three requests write  *)
(* what they have not locked: one of a user with a base path, one with a   *)
(* tag in its If header, and one for the empty name.                       *)
ClaimsRespected ==
    \A r \in Requests :
        /\ \A p \in Claims(r), t \in Live : Covers(table.lock[t], p) => t \in Toks(r)
        /\ \A s \in Requests \ {r} : Claims(r) \cap Claims(s) = {}

(* Nobody writes to a resource while a lock covers it that he does not     *)
(* have, as the comment in confirmLocks wants it (webdav.go:125).  It does *)
(* not hold, because of these three.                                       *)
LocksRespected ==
    \A r \in Requests : req[r].pc = "busy" =>
        \A p \in req[r].res, t \in Live : Covers(table.lock[t], p) => t \in Toks(r)

(* The lock system keeps the promise of LockTable. *)
LockPromise == Promise!TableSpec
=============================================================================
