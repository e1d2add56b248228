------------------------ MODULE WebdavLocks_proofs -------------------------
(***************************************************************************)
(* memLS keeps exact counts, no two of its locks overlap, and what a       *)
(* request writes under a name it has locked nobody else has locked, for   *)
(* every tree of resources and every number of requests and tokens.        *)
(***************************************************************************)
EXTENDS WebdavLocks, FiniteSetTheorems, TLAPS

-----------------------------------------------------------------------------
(* Names and what lies above them. *)
LEMMA AncFacts ==
    ASSUME NEW p \in Paths
    PROVE  /\ Anc(p) \subseteq Paths
           /\ p \in Anc(p)
           /\ \A a \in Anc(p) : a \in Seq(Names) /\ Len(a) <= Len(p)
                                /\ \A i \in 1..Len(a) : a[i] = p[i]
<1>1. p \in Seq(Names) /\ Len(p) \in Nat
  BY LocksAssumption
<1>2. \A i \in 0..Len(p) : SubSeq(p, 1, i) \in Paths
  BY LocksAssumption
<1>3. Anc(p) = {SubSeq(p, 1, i) : i \in 0..Len(p)}
  BY DEF Anc, Promise!Anc
<1>4. SubSeq(p, 1, Len(p)) = p
  BY <1>1
<1>5. ASSUME NEW i \in 0..Len(p)
      PROVE  /\ SubSeq(p, 1, i) \in Seq(Names) /\ Len(SubSeq(p, 1, i)) = i
             /\ \A j \in 1..i : SubSeq(p, 1, i)[j] = p[j]
  BY <1>1
<1>6. Anc(p) \subseteq Paths
  BY <1>2, <1>3
<1>7. p \in Anc(p)
  <2>1. Len(p) \in 0..Len(p)
    BY <1>1
  <2> QED
    BY <1>3, <1>4, <2>1
<1>8. ASSUME NEW a \in Anc(p)
      PROVE  /\ a \in Seq(Names) /\ Len(a) <= Len(p)
             /\ \A i \in 1..Len(a) : a[i] = p[i]
  <2>1. PICK i \in 0..Len(p) : a = SubSeq(p, 1, i)
    BY <1>3
  <2>2. Len(a) = i
    BY <1>5, <2>1
  <2> QED
    BY <1>1, <1>5, <2>1, <2>2
<1> QED
  BY <1>6, <1>7, <1>8

(* A name is above another one when it is the beginning of it. *)
LEMMA AncIs ==
    ASSUME NEW p \in Paths, NEW a \in Paths, Len(a) <= Len(p),
           \A i \in 1..Len(a) : a[i] = p[i]
    PROVE  a \in Anc(p)
<1>1. p \in Seq(Names) /\ a \in Seq(Names) /\ Len(p) \in Nat /\ Len(a) \in Nat
  BY LocksAssumption
<1>2. SubSeq(p, 1, Len(a)) = a
  BY <1>1
<1>3. Len(a) \in 0..Len(p)
  BY <1>1
<1> QED
  BY <1>2, <1>3 DEF Anc, Promise!Anc

(* What is above the same name is above one another. *)
LEMMA AncChain ==
    ASSUME NEW p \in Paths, NEW a \in Anc(p), NEW b \in Anc(p)
    PROVE  a \in Anc(b) \/ b \in Anc(a)
<1>1. a \in Paths /\ b \in Paths /\ p \in Seq(Names) /\ a \in Seq(Names) /\ b \in Seq(Names)
  BY AncFacts, LocksAssumption
<1>2. /\ Len(a) <= Len(p) /\ \A i \in 1..Len(a) : a[i] = p[i]
      /\ Len(b) <= Len(p) /\ \A i \in 1..Len(b) : b[i] = p[i]
  BY AncFacts
<1>3. CASE Len(a) <= Len(b)
  <2>1. \A i \in 1..Len(a) : a[i] = b[i]
    BY <1>1, <1>2, <1>3
  <2> QED
    BY <1>1, <1>3, <2>1, AncIs
<1>4. CASE Len(b) <= Len(a)
  <2>1. \A i \in 1..Len(b) : b[i] = a[i]
    BY <1>1, <1>2, <1>4
  <2> QED
    BY <1>1, <1>4, <2>1, AncIs
<1> QED
  BY <1>1, <1>3, <1>4

(* An ancestor of an ancestor is an ancestor. *)
LEMMA AncTransitive ==
    ASSUME NEW p \in Paths, NEW a \in Anc(p), NEW b \in Anc(a)
    PROVE  b \in Anc(p)
<1>1. a \in Paths
  BY AncFacts
<1>2. b \in Paths /\ p \in Seq(Names) /\ a \in Seq(Names) /\ b \in Seq(Names)
  BY <1>1, AncFacts, LocksAssumption
<1>3. /\ Len(a) <= Len(p) /\ \A i \in 1..Len(a) : a[i] = p[i]
      /\ Len(b) <= Len(a) /\ \A i \in 1..Len(b) : b[i] = a[i]
  BY <1>1, AncFacts
<1>4. Len(b) <= Len(p) /\ \A i \in 1..Len(b) : b[i] = p[i]
  BY <1>2, <1>3
<1> QED
  BY <1>2, <1>4, AncIs

Conflict(l, m) == Covers(l, m.root) \/ Covers(m, l.root)

(* Two locks that cover the same name are in conflict. *)
LEMMA CoverConflict ==
    ASSUME NEW l \in Lock, NEW m \in Lock, NEW p \in Paths, Covers(l, p), Covers(m, p)
    PROVE  Conflict(l, m)
<1>1. l.root \in Paths /\ m.root \in Paths /\ l.zero \in BOOLEAN /\ m.zero \in BOOLEAN
  BY DEF Lock
<1>2. CASE l.root = p \/ m.root = p
  BY <1>2 DEF Conflict
<1>3. CASE l.root # p /\ m.root # p
  <2>1. ~l.zero /\ ~m.zero /\ l.root \in Anc(p) /\ m.root \in Anc(p)
    BY <1>3 DEF Covers, Promise!Covers, Anc
  <2>2. l.root \in Anc(m.root) \/ m.root \in Anc(l.root)
    BY <2>1, AncChain
  <2> QED
    BY <2>1, <2>2 DEF Conflict, Covers, Promise!Covers, Anc
<1> QED
  BY <1>2, <1>3

-----------------------------------------------------------------------------
(* What holds of every table that a call of memLS leaves: its types, exact *)
(* counts, a heap of what can expire, and locks that do not overlap.       *)
Fits(T, g) ==
    /\ T = [lock |-> T.lock, ref |-> T.ref]
    /\ DOMAIN T.lock \subseteq 1..g
    /\ T.lock \in [DOMAIN T.lock -> Lock]
    /\ T.ref \in [Paths -> Nat]

Under(T, p) == {t \in DOMAIN T.lock : p \in Anc(T.lock[t].root)}

Counted(T) == \A p \in Paths : T.ref[p] = Cardinality(Under(T, p))

Heaped(T) ==
    \A t \in DOMAIN T.lock : T.lock[t].queued = (T.lock[t].finite /\ ~T.lock[t].held)

Apart(T) ==
    \A t, u \in DOMAIN T.lock : t # u => ~Conflict(T.lock[t], T.lock[u])

Good(T, g) == Fits(T, g) /\ Counted(T) /\ Heaped(T) /\ Apart(T)

(* The parts of a lock that its owner and the table depend on. *)
SameLock(l, m) == l.root = m.root /\ l.zero = m.zero /\ l.finite = m.finite /\ l.held = m.held

(* Only finitely many locks lie below a node, so they can be counted. *)
LEMMA UnderFinite ==
    ASSUME NEW T, NEW g \in Nat, Fits(T, g), NEW p
    PROVE  IsFiniteSet(Under(T, p)) /\ Cardinality(Under(T, p)) \in Nat
<1>1. IsFiniteSet(1..g)
  BY FS_Interval
<1>2. Under(T, p) \in SUBSET (1..g)
  BY DEF Under, Fits
<1>3. IsFiniteSet(Under(T, p))
  BY <1>1, <1>2, FS_Subset
<1> QED
  BY <1>3, FS_CardinalityType

(* A lock keeps the nodes of its root and of everything above it. *)
LEMMA NodeThere ==
    ASSUME NEW T, NEW g \in Nat, Good(T, g), NEW t \in DOMAIN T.lock,
           NEW a \in Anc(T.lock[t].root)
    PROVE  a \in Paths /\ T.ref[a] > 0
<1>1. T.lock[t].root \in Paths
  BY DEF Good, Fits, Lock
<1>2. a \in Paths
  BY <1>1, AncFacts
<1>3. t \in Under(T, a)
  BY DEF Under
<1>4. IsFiniteSet(Under(T, a)) /\ Cardinality(Under(T, a)) \in Nat
  BY UnderFinite DEF Good
<1>5. Cardinality(Under(T, a)) # 0
  BY <1>3, <1>4, FS_EmptySet
<1> QED
  BY <1>2, <1>4, <1>5 DEF Good, Counted

(* memLS.remove keeps the table as it should be, for any set of locks. *)
LEMMA RemoveGood ==
    ASSUME NEW T, NEW g \in Nat, Good(T, g), NEW S \in SUBSET DOMAIN T.lock
    PROVE  /\ Good(RemoveAll(T, S), g)
           /\ DOMAIN RemoveAll(T, S).lock = DOMAIN T.lock \ S
           /\ \A t \in DOMAIN T.lock \ S : RemoveAll(T, S).lock[t] = T.lock[t]
<1> DEFINE U == RemoveAll(T, S)
<1>1. /\ U = [lock |-> U.lock, ref |-> U.ref]
      /\ DOMAIN U.lock = DOMAIN T.lock \ S
      /\ \A t \in DOMAIN T.lock \ S : U.lock[t] = T.lock[t]
      /\ U.lock = [t \in DOMAIN T.lock \ S |-> T.lock[t]]
  BY DEF RemoveAll
<1>2. /\ U.ref = [p \in Paths |-> T.ref[p] - Cardinality({t \in S : p \in Anc(T.lock[t].root)})]
  BY DEF RemoveAll
<1>3. ASSUME NEW p \in Paths
      PROVE  U.ref[p] = Cardinality(Under(U, p)) /\ U.ref[p] \in Nat
  <2> DEFINE Out == {t \in S : p \in Anc(T.lock[t].root)}
  <2>1. IsFiniteSet(Under(T, p)) /\ Cardinality(Under(T, p)) \in Nat
    BY UnderFinite DEF Good
  <2>2. Under(U, p) = Under(T, p) \ Out
    BY <1>1 DEF Under
  <2>3. Under(T, p) \cap Out = Out
    BY DEF Under
  <2>4. /\ IsFiniteSet(Under(U, p))
        /\ Cardinality(Under(U, p)) = Cardinality(Under(T, p)) - Cardinality(Out)
    <3>1. /\ IsFiniteSet(Under(T, p) \ Out)
          /\ Cardinality(Under(T, p) \ Out)
                = Cardinality(Under(T, p)) - Cardinality(Under(T, p) \cap Out)
      BY <2>1, FS_Difference
    <3> QED
      BY <2>2, <2>3, <3>1
  <2>5. Cardinality(Under(U, p)) \in Nat
    BY <2>4, FS_CardinalityType
  <2>6. U.ref[p] = T.ref[p] - Cardinality(Out)
    BY <1>2
  <2>7. T.ref[p] = Cardinality(Under(T, p))
    BY DEF Good, Counted
  <2> QED
    BY <2>4, <2>5, <2>6, <2>7
<1>4. U.ref \in [Paths -> Nat]
  BY <1>2, <1>3
<1>5. DOMAIN U.lock \subseteq 1..g /\ U.lock \in [DOMAIN U.lock -> Lock]
  BY <1>1 DEF Good, Fits
<1>6. Heaped(U) /\ Apart(U)
  BY <1>1 DEF Good, Heaped, Apart
<1> QED
  BY <1>1, <1>3, <1>4, <1>5, <1>6 DEF Good, Fits, Counted

(* Refresh, hold and unhold leave roots and depths alone. *)
LEMMA ChangeGood ==
    ASSUME NEW T, NEW g \in Nat, Good(T, g), NEW L,
           L \in [DOMAIN T.lock -> Lock],
           \A t \in DOMAIN T.lock : L[t].root = T.lock[t].root /\ L[t].zero = T.lock[t].zero,
           \A t \in DOMAIN T.lock : L[t].queued = (L[t].finite /\ ~L[t].held)
    PROVE  Good([T EXCEPT !.lock = L], g)
<1> DEFINE U == [T EXCEPT !.lock = L]
<1>1. U = [lock |-> L, ref |-> T.ref]
  BY DEF Good, Fits
<1>2. U.lock = L /\ U.ref = T.ref /\ DOMAIN L = DOMAIN T.lock
  BY <1>1
<1>3. \A p \in Paths : Under(U, p) = Under(T, p)
  BY <1>2 DEF Under
<1>4. Fits(U, g) /\ Counted(U) /\ Heaped(U)
  BY <1>1, <1>2, <1>3 DEF Good, Fits, Counted, Heaped
<1>5. Apart(U)
  BY <1>2 DEF Good, Apart, Conflict, Covers, Promise!Covers
<1> QED
  BY <1>4, <1>5 DEF Good

(* What canCreate admits overlaps no lock of the table. *)
LEMMA AdmittedApart ==
    ASSUME NEW T, NEW g \in Nat, Good(T, g), NEW p \in Paths, NEW zero \in BOOLEAN,
           CanCreate(T, p, zero), NEW t \in DOMAIN T.lock,
           NEW l, l.root = p, l.zero = zero
    PROVE  ~Conflict(T.lock[t], l) /\ ~Conflict(l, T.lock[t])
<1> DEFINE m == T.lock[t]
<1>1. m.root \in Paths /\ m.zero \in BOOLEAN
  BY DEF Good, Fits, Lock
<1>2. m.root \in Anc(m.root) /\ p \in Anc(p)
  BY <1>1, AncFacts
<1>3. m.root # p
  <2> SUFFICES ASSUME m.root = p PROVE FALSE
    OBVIOUS
  <2>1. T.ref[p] > 0
    BY <1>2, NodeThere
  <2>2. {u \in DOMAIN T.lock : T.lock[u].root = p} = {}
    BY <1>2, <2>1 DEF CanCreate
  <2> QED
    BY <2>2
<1>4. ~(~m.zero /\ m.root \in Anc(p))
  <2> SUFFICES ASSUME ~m.zero, m.root \in Anc(p) PROVE FALSE
    OBVIOUS
  <2>1. T.ref[m.root] > 0
    BY <1>2, NodeThere
  <2>2. \A u \in {v \in DOMAIN T.lock : T.lock[v].root = m.root} : T.lock[u].zero
    BY <1>3, <2>1 DEF CanCreate
  <2> QED
    BY <2>2
<1>5. ~(~zero /\ p \in Anc(m.root))
  <2> SUFFICES ASSUME ~zero, p \in Anc(m.root) PROVE FALSE
    OBVIOUS
  <2>1. T.ref[p] > 0
    BY NodeThere
  <2> QED
    BY <1>2, <2>1 DEF CanCreate
<1> QED
  BY <1>3, <1>4, <1>5 DEF Conflict, Covers, Promise!Covers, Anc

(* memLS.create after canCreate. *)
LEMMA AddGood ==
    ASSUME NEW T, NEW g \in Nat, Good(T, g), NEW p \in Paths, NEW zero, zero \in BOOLEAN,
           NEW finite, finite \in BOOLEAN, CanCreate(T, p, zero), NEW U, U = Add(T, g + 1, p, zero, finite)
    PROVE  /\ Good(U, g + 1)
           /\ g + 1 \notin DOMAIN T.lock
           /\ DOMAIN U.lock = DOMAIN T.lock \cup {g + 1}
           /\ \A t \in DOMAIN T.lock : U.lock[t] = T.lock[t]
           /\ U.lock[g + 1].root = p /\ U.lock[g + 1].zero = zero
           /\ U.lock[g + 1].finite = finite /\ ~U.lock[g + 1].held
<1> DEFINE l == [root |-> p, zero |-> zero, finite |-> finite, held |-> FALSE, queued |-> finite]
<1>1. g + 1 \notin DOMAIN T.lock
  BY DEF Good, Fits
<1>2. /\ U.lock = [u \in DOMAIN T.lock \cup {g + 1} |-> IF u = g + 1 THEN l ELSE T.lock[u]]
      /\ U.ref = [a \in Paths |-> IF a \in Anc(p) THEN T.ref[a] + 1 ELSE T.ref[a]]
      /\ U = [lock |-> U.lock, ref |-> U.ref]
  BY DEF Add
<1>3. /\ DOMAIN U.lock = DOMAIN T.lock \cup {g + 1}
      /\ \A t \in DOMAIN T.lock : U.lock[t] = T.lock[t]
      /\ U.lock[g + 1] = l
  BY <1>1, <1>2
<1>4. l \in Lock
  BY DEF Lock
<1> HIDE DEF l
<1>5. Fits(U, g + 1)
  <2>1. DOMAIN U.lock \subseteq 1..(g + 1)
    BY <1>3 DEF Good, Fits
  <2>2. U.lock \in [DOMAIN U.lock -> Lock]
    BY <1>2, <1>4 DEF Good, Fits
  <2>3. U.ref \in [Paths -> Nat]
    BY <1>2 DEF Good, Fits
  <2> QED
    BY <1>2, <2>1, <2>2, <2>3 DEF Fits
<1>6. ASSUME NEW a \in Paths
      PROVE  U.ref[a] = Cardinality(Under(U, a))
  <2>1. IsFiniteSet(Under(T, a)) /\ T.ref[a] = Cardinality(Under(T, a))
    BY UnderFinite DEF Good, Counted
  <2>2. l.root = p
    BY DEF l
  <2>3. CASE a \in Anc(p)
    <3>1. Under(U, a) = Under(T, a) \cup {g + 1} /\ g + 1 \notin Under(T, a)
      BY <1>1, <1>3, <2>2, <2>3 DEF Under
    <3>2. Cardinality(Under(T, a) \cup {g + 1}) = Cardinality(Under(T, a)) + 1
      BY <2>1, <3>1, FS_AddElement
    <3>3. U.ref[a] = T.ref[a] + 1
      BY <1>2, <2>3
    <3> QED
      BY <2>1, <3>1, <3>2, <3>3
  <2>4. CASE a \notin Anc(p)
    <3>1. Under(U, a) = Under(T, a)
      BY <1>1, <1>3, <2>2, <2>4 DEF Under
    <3> QED
      BY <1>2, <2>1, <2>4, <3>1
  <2> QED
    BY <2>3, <2>4
<1>7. Heaped(U)
  <2>1. l.queued = (l.finite /\ ~l.held)
    BY DEF l
  <2> QED
    BY <1>3, <2>1 DEF Good, Heaped
<1>8. Apart(U)
  <2>1. l.root = p /\ l.zero = zero
    BY DEF l
  <2>2. \A t \in DOMAIN T.lock : ~Conflict(T.lock[t], l) /\ ~Conflict(l, T.lock[t])
    BY <2>1, AdmittedApart
  <2> QED
    BY <1>1, <1>3, <2>2 DEF Good, Apart
<1>9. l.root = p /\ l.zero = zero /\ l.finite = finite /\ ~l.held
  BY DEF l
<1>10. Good(U, g + 1)
  BY <1>5, <1>6, <1>7, <1>8 DEF Good, Counted
<1> QED
  BY <1>1, <1>3, <1>9, <1>10

-----------------------------------------------------------------------------
(* What holds of the requests beside a table T with the tokens 1..g of     *)
(* which K are known: a request has the locks it counts on, its temporary  *)
(* ones can neither expire nor be given up by a client, and every name it  *)
(* locks is covered by one of them or still to be locked.                  *)
Request(g) ==
    [pc : {"idle", "create", "busy", "release"}, temp : BOOLEAN,
     todo : Seq(Paths), names : SUBSET Paths, res : SUBSET Paths, toks : Seq(1..g)]

TokSet(q) == {q.toks[i] : i \in 1..Len(q.toks)}

Shape(q) ==
    /\ q.pc = "idle" => q = Idle
    /\ q.pc = "create" => q.temp /\ q.todo # <<>>
    /\ q.pc = "busy" => q.todo = <<>>
    /\ q.pc = "release" => q.names = {}
    /\ q.pc # "idle" /\ q.temp => q.toks # <<>>

Secured(q, T) ==
    \A p \in q.names : \/ \E i \in 1..Len(q.todo) : q.todo[i] = p
                       \/ \E t \in TokSet(q) : Covers(T.lock[t], p)

Kept(q, T, K) ==
    /\ \A t \in TokSet(q) : t \in DOMAIN T.lock /\ (T.lock[t].held <=> ~q.temp)
    /\ q.temp => /\ \A t \in TokSet(q) : t \notin K /\ ~T.lock[t].finite
                 /\ \A i, j \in 1..Len(q.toks) : q.toks[i] = q.toks[j] => i = j
    /\ Secured(q, T)

Owned(T, K, R) ==
    /\ \A r, s \in Requests : r # s => TokSet(R[r]) \cap TokSet(R[s]) = {}
    /\ \A t \in DOMAIN T.lock :
          T.lock[t].held => \E r \in Requests : ~R[r].temp /\ t \in TokSet(R[r])
    /\ \A t \in DOMAIN T.lock \ K :
          \E r \in Requests : R[r].temp /\ t \in TokSet(R[r])

Served(T, g, K, R) ==
    /\ R \in [Requests -> Request(g)]
    /\ \A r \in Requests : Shape(R[r]) /\ Kept(R[r], T, K)
    /\ Owned(T, K, R)

Sound(T, g, K, R) ==
    /\ g \in 0..MaxGen /\ K \subseteq 1..g
    /\ Good(T, g)
    /\ Served(T, g, K, R)

(* The inductive invariant. *)
IInv == Sound(table, gen, known, req)

(* The tokens of a request are tokens that have been given out. *)
LEMMA TokSetType ==
    ASSUME NEW g \in Nat, NEW q \in Request(g)
    PROVE  /\ TokSet(q) \subseteq 1..g
           /\ q.toks = <<>> <=> TokSet(q) = {}
<1>1. q.toks \in Seq(1..g) /\ Len(q.toks) \in Nat
  BY DEF Request
<1>2. q.toks # <<>> => 1 \in 1..Len(q.toks)
  BY <1>1
<1>3. TokSet(q) \subseteq 1..g
  BY <1>1 DEF TokSet
<1>4. q.toks # <<>> => q.toks[1] \in TokSet(q)
  BY <1>2 DEF TokSet
<1>5. q.toks = <<>> => TokSet(q) = {}
  BY DEF TokSet
<1> QED
  BY <1>3, <1>4, <1>5

(* More tokens, more values. *)
LEMMA RequestGrows ==
    ASSUME NEW g \in Nat, NEW h \in Nat, g <= h, NEW q \in Request(g)
    PROVE  q \in Request(h)
<1>1. q.toks \in Seq(1..g)
  BY DEF Request
<1>2. q.toks \in Seq(1..h)
  BY <1>1
<1> QED
  BY <1>2 DEF Request

(* A request keeps its locks while they stay as they are. *)
LEMMA KeptStays ==
    ASSUME NEW T, NEW U, NEW K, NEW L, NEW q, Kept(q, T, K),
           \A t \in TokSet(q) : /\ t \in DOMAIN U.lock /\ SameLock(U.lock[t], T.lock[t])
                                /\ t \in L => t \in K
    PROVE  Kept(q, U, L)
<1>1. Secured(q, T) => Secured(q, U)
  BY DEF Secured, SameLock, Covers, Promise!Covers
<1> QED
  BY <1>1 DEF Kept, SameLock

(* What happens to locks that no request has does not matter to them. *)
LEMMA ServedStays ==
    ASSUME NEW T, NEW g \in Nat, NEW K, NEW R, Served(T, g, K, R),
           NEW U, NEW h \in Nat, NEW L, g <= h,
           \A r \in Requests : \A t \in TokSet(R[r]) :
                /\ t \in DOMAIN U.lock /\ SameLock(U.lock[t], T.lock[t])
                /\ t \in L => t \in K,
           \A t \in DOMAIN U.lock : U.lock[t].held => t \in DOMAIN T.lock /\ T.lock[t].held,
           \A t \in DOMAIN U.lock \ L : t \in DOMAIN T.lock \ K
    PROVE  Served(U, h, L, R)
<1>1. R \in [Requests -> Request(h)]
  BY RequestGrows DEF Served
<1>2. \A r \in Requests : Shape(R[r]) /\ Kept(R[r], U, L)
  BY KeptStays DEF Served
<1>3. Owned(U, L, R)
  BY DEF Served, Owned
<1> QED
  BY <1>1, <1>2, <1>3 DEF Served

(* One request goes on. *)
LEMMA ServedTurn ==
    ASSUME NEW T, NEW g \in Nat, NEW K, NEW R, Served(T, g, K, R),
           NEW U, NEW h \in Nat, g <= h,
           NEW r \in Requests, NEW q \in Request(h), Shape(q), Kept(q, U, K),
           \A s \in Requests \ {r} :
                /\ TokSet(q) \cap TokSet(R[s]) = {}
                /\ \A t \in TokSet(R[s]) : t \in DOMAIN U.lock /\ SameLock(U.lock[t], T.lock[t]),
           \A t \in DOMAIN U.lock : U.lock[t].held =>
                \/ ~q.temp /\ t \in TokSet(q)
                \/ t \in DOMAIN T.lock /\ T.lock[t].held /\ t \notin TokSet(R[r]),
           \A t \in DOMAIN U.lock \ K :
                \/ q.temp /\ t \in TokSet(q)
                \/ t \in DOMAIN T.lock /\ t \notin TokSet(R[r])
    PROVE  Served(U, h, K, [R EXCEPT ![r] = q])
<1> DEFINE Q == [R EXCEPT ![r] = q]
<1>1. R \in [Requests -> Request(g)]
  BY DEF Served
<1>2. Q[r] = q /\ \A s \in Requests \ {r} : Q[s] = R[s]
  BY <1>1
<1>3. Q \in [Requests -> Request(h)]
  BY <1>1, RequestGrows
<1> HIDE DEF Q
<1>4. \A s \in Requests : Shape(Q[s]) /\ Kept(Q[s], U, K)
  <2>1. \A s \in Requests \ {r} : Kept(R[s], U, K)
    BY KeptStays DEF Served
  <2> QED
    BY <1>2, <2>1 DEF Served
<1>5. Owned(U, K, Q)
  <2>1. \A s, x \in Requests : s # x => TokSet(Q[s]) \cap TokSet(Q[x]) = {}
    BY <1>2 DEF Served, Owned
  <2>2. \A t \in DOMAIN U.lock :
            U.lock[t].held => \E s \in Requests : ~Q[s].temp /\ t \in TokSet(Q[s])
    BY <1>2 DEF Served, Owned
  <2>3. \A t \in DOMAIN U.lock \ K : \E s \in Requests : Q[s].temp /\ t \in TokSet(Q[s])
    BY <1>2 DEF Served, Owned
  <2> QED
    BY <2>1, <2>2, <2>3 DEF Owned
<1> QED
  BY <1>3, <1>4, <1>5 DEF Served, Q

(* A lock that a client knows and that is not held belongs to no request. *)
LEMMA Unowned ==
    ASSUME NEW T, NEW g, NEW K, NEW R, Served(T, g, K, R),
           NEW t \in DOMAIN T.lock, t \in K, ~T.lock[t].held,
           NEW r \in Requests
    PROVE  t \notin TokSet(R[r])
<1>1. R[r] \in Request(g) /\ Kept(R[r], T, K)
  BY DEF Served
<1>2. R[r].temp \in BOOLEAN
  BY <1>1 DEF Request
<1> QED
  BY <1>1, <1>2 DEF Kept

(* Locks that no request has may go. *)
LEMMA RemoveSound ==
    ASSUME NEW T, NEW g, NEW K, NEW R, Sound(T, g, K, R), NEW S \in SUBSET DOMAIN T.lock,
           \A r \in Requests : S \cap TokSet(R[r]) = {}
    PROVE  Sound(RemoveAll(T, S), g, K, R)
<1> DEFINE U == RemoveAll(T, S)
<1>1. g \in Nat /\ K \subseteq 1..g
  BY LocksAssumption DEF Sound
<1>2. /\ Good(U, g) /\ DOMAIN U.lock = DOMAIN T.lock \ S
      /\ \A t \in DOMAIN T.lock \ S : U.lock[t] = T.lock[t]
  BY <1>1, RemoveGood DEF Sound
<1> HIDE DEF U
<1>3. \A r \in Requests : \A t \in TokSet(R[r]) :
          /\ t \in DOMAIN U.lock /\ SameLock(U.lock[t], T.lock[t])
          /\ t \in K => t \in K
  BY <1>2 DEF Sound, Served, Kept, SameLock
<1>4. /\ \A t \in DOMAIN U.lock : U.lock[t].held => t \in DOMAIN T.lock /\ T.lock[t].held
      /\ \A t \in DOMAIN U.lock \ K : t \in DOMAIN T.lock \ K
      /\ g <= g
  BY <1>1, <1>2
<1>5. Served(T, g, K, R)
  BY DEF Sound
<1>6. Served(U, g, K, R)
  BY <1>1, <1>3, <1>4, <1>5, ServedStays
<1> QED
  BY <1>2, <1>6 DEF Sound, U

(* Collecting what has expired keeps everything: what a request counts on  *)
(* is not in the heap.                                                     *)
LEMMA CollectSound ==
    ASSUME NEW T, NEW g, NEW K, NEW R, Sound(T, g, K, R),
           NEW S \in SUBSET {t \in DOMAIN T.lock : T.lock[t].queued}
    PROVE  Sound(RemoveAll(T, S), g, K, R)
<1>1. ASSUME NEW r \in Requests, NEW t \in S
      PROVE  t \notin TokSet(R[r])
  <2>1. t \in DOMAIN T.lock /\ T.lock[t].queued
    OBVIOUS
  <2>2. T.lock[t].finite /\ ~T.lock[t].held
    BY <2>1 DEF Sound, Good, Heaped
  <2>3. R[r].temp \in BOOLEAN /\ Kept(R[r], T, K)
    BY DEF Sound, Served, Request
  <2> QED
    BY <2>2, <2>3 DEF Kept
<1> QED
  BY <1>1, RemoveSound

(* LOCK: the new lock belongs to a client. *)
LEMMA LockSound ==
    ASSUME NEW T, NEW g, NEW K, NEW R, Sound(T, g, K, R), g < MaxGen,
           NEW p \in Paths, NEW zero, zero \in BOOLEAN, NEW finite, finite \in BOOLEAN,
           CanCreate(T, p, zero)
    PROVE  Sound(Add(T, g + 1, p, zero, finite), g + 1, K \cup {g + 1}, R)
<1> DEFINE U == Add(T, g + 1, p, zero, finite)
           L == K \cup {g + 1}
<1>1. g \in Nat /\ K \subseteq 1..g /\ g + 1 \in 0..MaxGen /\ L \subseteq 1..(g + 1)
  BY LocksAssumption DEF Sound
<1>7. U = Add(T, g + 1, p, zero, finite)
  OBVIOUS
<1> HIDE DEF U
<1>2. /\ Good(U, g + 1) /\ DOMAIN U.lock = DOMAIN T.lock \cup {g + 1}
      /\ \A t \in DOMAIN T.lock : U.lock[t] = T.lock[t]
      /\ ~U.lock[g + 1].held
  <2>1. Good(T, g)
    BY DEF Sound
  <2> QED
    BY <1>1, <1>7, <2>1, AddGood
<1>3. \A r \in Requests : \A t \in TokSet(R[r]) :
          /\ t \in DOMAIN U.lock /\ SameLock(U.lock[t], T.lock[t])
          /\ t \in L => t \in K
  <2>1. ASSUME NEW r \in Requests, NEW t \in TokSet(R[r])
        PROVE  t \in DOMAIN T.lock /\ t # g + 1
    <3>1. R[r] \in Request(g) /\ Kept(R[r], T, K)
      BY DEF Sound, Served
    <3>2. t \in 1..g
      BY <1>1, <3>1, TokSetType
    <3> QED
      BY <1>1, <3>1, <3>2 DEF Kept
  <2> QED
    BY <1>2, <2>1 DEF SameLock
<1>4. /\ \A t \in DOMAIN U.lock : U.lock[t].held => t \in DOMAIN T.lock /\ T.lock[t].held
      /\ \A t \in DOMAIN U.lock \ L : t \in DOMAIN T.lock \ K
      /\ g <= g + 1 /\ g + 1 \in Nat
  BY <1>1, <1>2
<1>5. Served(T, g, K, R)
  BY DEF Sound
<1>6. Served(U, g + 1, L, R)
  BY <1>1, <1>3, <1>4, <1>5, ServedStays
<1> QED
  BY <1>1, <1>2, <1>6 DEF Sound, U

(* memLS.Refresh of a lock that no request has. *)
LEMMA RefreshSound ==
    ASSUME NEW T, NEW g, NEW K, NEW R, Sound(T, g, K, R),
           NEW t \in K, t \in DOMAIN T.lock, ~T.lock[t].held, NEW finite \in BOOLEAN
    PROVE  Sound([T EXCEPT !.lock[t] = [@ EXCEPT !.finite = finite, !.queued = finite]], g, K, R)
<1> DEFINE L == [T.lock EXCEPT ![t] = [@ EXCEPT !.finite = finite, !.queued = finite]]
           U == [T EXCEPT !.lock = L]
<1>1. g \in Nat /\ Good(T, g)
  BY LocksAssumption DEF Sound
<1>2. T.lock \in [DOMAIN T.lock -> Lock] /\ T.lock[t] \in Lock
  BY <1>1 DEF Good, Fits
<1>3. /\ L[t] \in Lock /\ L[t].root = T.lock[t].root /\ L[t].zero = T.lock[t].zero
      /\ L[t].held = T.lock[t].held /\ L[t].finite = finite /\ L[t].queued = finite
      /\ DOMAIN L = DOMAIN T.lock
      /\ \A u \in DOMAIN T.lock \ {t} : L[u] = T.lock[u]
  BY <1>2 DEF Lock
<1>4. L \in [DOMAIN T.lock -> Lock]
  BY <1>2, <1>3
<1> HIDE DEF L
<1>5. Good(U, g)
  <2>1. \A u \in DOMAIN T.lock : L[u].root = T.lock[u].root /\ L[u].zero = T.lock[u].zero
    BY <1>3
  <2>2. \A u \in DOMAIN T.lock : L[u].queued = (L[u].finite /\ ~L[u].held)
    BY <1>1, <1>3 DEF Good, Heaped
  <2> QED
    BY <1>1, <1>4, <2>1, <2>2, ChangeGood
<1>6. U.lock = L
  BY <1>1 DEF Good, Fits
<1> HIDE DEF U
<1>7. Served(T, g, K, R)
  BY DEF Sound
<1>8. \A r \in Requests : \A u \in TokSet(R[r]) :
          /\ u \in DOMAIN U.lock /\ SameLock(U.lock[u], T.lock[u])
          /\ u \in K => u \in K
  <2>1. ASSUME NEW r \in Requests, NEW u \in TokSet(R[r])
        PROVE  u \in DOMAIN T.lock \ {t}
    BY <1>7, Unowned DEF Served, Kept
  <2> QED
    BY <1>3, <1>6, <2>1 DEF SameLock
<1>9. /\ \A u \in DOMAIN U.lock : U.lock[u].held => u \in DOMAIN T.lock /\ T.lock[u].held
      /\ \A u \in DOMAIN U.lock \ K : u \in DOMAIN T.lock \ K
      /\ g <= g
  BY <1>1, <1>3, <1>6
<1>10. Served(U, g, K, R)
  BY <1>1, <1>7, <1>8, <1>9, ServedStays
<1>11. U = [T EXCEPT !.lock[t] = [@ EXCEPT !.finite = finite, !.queued = finite]]
  BY <1>1 DEF Good, Fits, U, L
<1> QED
  BY <1>5, <1>10, <1>11 DEF Sound

(* memLS.Unlock by a client. *)
LEMMA UnlockSound ==
    ASSUME NEW T, NEW g, NEW K, NEW R, Sound(T, g, K, R), NEW t \in K
    PROVE  Sound(Unlock(T, t), g, K, R)
<1>1. CASE t \in DOMAIN T.lock /\ ~T.lock[t].held
  <2>1. {t} \in SUBSET DOMAIN T.lock
    BY <1>1
  <2>2. \A r \in Requests : {t} \cap TokSet(R[r]) = {}
    BY <1>1, Unowned DEF Sound
  <2>3. Sound(RemoveAll(T, {t}), g, K, R)
    BY <2>1, <2>2, RemoveSound
  <2> QED
    BY <1>1, <2>3 DEF Unlock
<1>2. CASE ~(t \in DOMAIN T.lock /\ ~T.lock[t].held)
  BY <1>2 DEF Unlock
<1> QED
  BY <1>1, <1>2

-----------------------------------------------------------------------------
(* confirmLocks makes its next temporary lock. *)
Locked(q, t) ==
    [q EXCEPT !.todo = Tail(@), !.toks = Append(@, t),
              !.pc = IF Len(q.todo) = 1 THEN "busy" ELSE "create"]

Refused(q) ==
    IF q.toks = <<>> THEN Idle ELSE [q EXCEPT !.pc = "release", !.todo = <<>>, !.names = {}, !.res = {}]

(* A sequence is empty when its length is 0. *)
LEMMA NoneLeft ==
    ASSUME NEW S, NEW s \in Seq(S)
    PROVE  s = <<>> <=> Len(s) = 0
OBVIOUS

(* What a request looks like when one more temporary lock has been made for it. *)
LEMMA LockedFacts ==
    ASSUME NEW g \in Nat, NEW q \in Request(g), q.todo # <<>>
    PROVE  LET n == Locked(q, g + 1)
           IN  /\ n \in Request(g + 1)
               /\ n.temp = q.temp /\ n.names = q.names
               /\ n.toks = Append(q.toks, g + 1) /\ n.todo = Tail(q.todo)
               /\ n.pc = "busy" => n.todo = <<>>
               /\ n.pc = "create" => n.todo # <<>>
               /\ n.pc \in {"busy", "create"} /\ n.toks # <<>>
               /\ TokSet(n) = TokSet(q) \cup {g + 1}
               /\ g + 1 \notin TokSet(q)
<1> DEFINE n == Locked(q, g + 1)
<1>1. q.toks \in Seq(1..g) /\ q.todo \in Seq(Paths) /\ Len(q.toks) \in Nat
  BY DEF Request
<1>2. q.toks \in Seq(1..(g + 1)) /\ g + 1 \in 1..(g + 1)
  BY <1>1
<1>3. Append(q.toks, g + 1) \in Seq(1..(g + 1)) /\ Tail(q.todo) \in Seq(Paths)
  BY <1>1, <1>2
<1>4. /\ n.temp = q.temp /\ n.names = q.names /\ n.toks = Append(q.toks, g + 1)
      /\ n.todo = Tail(q.todo) /\ n.pc = IF Len(q.todo) = 1 THEN "busy" ELSE "create"
  BY DEF Request, Locked
<1>5. n \in Request(g + 1)
  BY <1>3 DEF Request, Locked
<1> HIDE DEF n
<1>6. /\ n.pc = "busy" => n.todo = <<>>
      /\ n.pc = "create" => n.todo # <<>>
      /\ n.pc \in {"busy", "create"}
  <2>1. Len(q.todo) \in Nat /\ Len(q.todo) # 0
    BY <1>1
  <2>2. Len(n.todo) = Len(q.todo) - 1 /\ n.todo \in Seq(Paths)
    BY <1>1, <1>4
  <2>3. n.todo = <<>> <=> Len(n.todo) = 0
    BY <2>2, NoneLeft
  <2>4. Len(q.todo) = 1 <=> n.todo = <<>>
    BY <2>1, <2>2, <2>3
  <2> QED
    BY <1>4, <2>4, Zenon
<1>7. /\ Len(n.toks) = Len(q.toks) + 1 /\ n.toks[Len(q.toks) + 1] = g + 1
      /\ \A i \in 1..Len(q.toks) : n.toks[i] = q.toks[i]
  BY <1>1, <1>2, <1>4
<1>10. n.toks # <<>>
  BY <1>1, <1>7
<1>8. TokSet(n) = TokSet(q) \cup {g + 1}
  <2>1. 1..Len(n.toks) = (1..Len(q.toks)) \cup {Len(q.toks) + 1}
    BY <1>1, <1>7
  <2> QED
    BY <1>7, <2>1, SMTT(30) DEF TokSet
<1>9. g + 1 \notin TokSet(q)
  BY TokSetType
<1> QED
  BY <1>4, <1>5, <1>6, <1>8, <1>9, <1>10 DEF n

(* A temporary lock is made for the next name of a request (lock, webdav.go). *)
LEMMA NextLocked ==
    ASSUME NEW T, NEW g, NEW K, NEW R, Sound(T, g, K, R), g < MaxGen,
           NEW r \in Requests, NEW q \in Request(g), q.temp, q.todo # <<>>, Kept(q, T, K),
           TokSet(R[r]) = TokSet(q), CanCreate(T, Head(q.todo), TRUE)
    PROVE  Sound(Add(T, g + 1, Head(q.todo), TRUE, FALSE), g + 1, K,
                 [R EXCEPT ![r] = Locked(q, g + 1)])
<1> DEFINE p == Head(q.todo)
           U == Add(T, g + 1, p, TRUE, FALSE)
           n == Locked(q, g + 1)
<1>1. /\ g \in Nat /\ g + 1 \in Nat /\ g <= g + 1 /\ g + 1 \in 0..MaxGen
      /\ K \subseteq 1..(g + 1) /\ g + 1 \notin K
  BY LocksAssumption DEF Sound
<1>2. p \in Paths /\ q.todo \in Seq(Paths) /\ Len(q.todo) \in Nat /\ q.todo[1] = p
  BY DEF Request
<1> HIDE DEF p
<1>13. U = Add(T, g + 1, p, TRUE, FALSE)
  OBVIOUS
<1> HIDE DEF U
<1>3. /\ Good(U, g + 1) /\ DOMAIN U.lock = DOMAIN T.lock \cup {g + 1}
      /\ \A t \in DOMAIN T.lock : U.lock[t] = T.lock[t]
      /\ U.lock[g + 1].root = p /\ ~U.lock[g + 1].finite /\ ~U.lock[g + 1].held
  <2>1. Good(T, g) /\ CanCreate(T, p, TRUE)
    BY DEF Sound, p
  <2>2. PICK zero, finite : zero = TRUE /\ finite = FALSE
    BY Zenon
  <2>3. /\ zero \in BOOLEAN /\ finite \in BOOLEAN /\ CanCreate(T, p, zero)
        /\ U = Add(T, g + 1, p, zero, finite)
    BY <1>13, <2>1, <2>2, Zenon
  <2>4. /\ Good(U, g + 1) /\ DOMAIN U.lock = DOMAIN T.lock \cup {g + 1}
        /\ \A t \in DOMAIN T.lock : U.lock[t] = T.lock[t]
        /\ U.lock[g + 1].root = p /\ U.lock[g + 1].finite = finite /\ ~U.lock[g + 1].held
    BY <1>1, <1>2, <2>1, <2>3, AddGood
  <2> QED
    BY <2>2, <2>4, Zenon
<1>4. ~U.lock[g + 1].held /\ ~U.lock[g + 1].finite /\ U.lock[g + 1].root = p
  BY <1>3
<1>5. /\ n \in Request(g + 1) /\ n.temp /\ n.names = q.names
      /\ n.toks = Append(q.toks, g + 1) /\ n.todo = Tail(q.todo)
      /\ n.pc = "busy" => n.todo = <<>>
      /\ n.pc = "create" => n.todo # <<>>
      /\ n.pc \in {"busy", "create"} /\ n.toks # <<>>
      /\ TokSet(n) = TokSet(q) \cup {g + 1} /\ g + 1 \notin TokSet(q)
  BY <1>1, LockedFacts
<1> HIDE DEF n
<1>6. Shape(n)
  BY <1>5 DEF Shape
<1>7. Kept(n, U, K)
  <2>1. \A t \in TokSet(n) : t \in DOMAIN U.lock /\ (U.lock[t].held <=> ~n.temp)
    BY <1>3, <1>4, <1>5 DEF Kept
  <2>2. \A t \in TokSet(n) : t \notin K /\ ~U.lock[t].finite
    BY <1>1, <1>3, <1>4, <1>5 DEF Kept
  <2>3. \A i, j \in 1..Len(n.toks) : n.toks[i] = n.toks[j] => i = j
    <3>1. q.toks \in Seq(1..g) /\ Len(q.toks) \in Nat
      BY DEF Request
    <3>2. /\ Len(n.toks) = Len(q.toks) + 1 /\ n.toks[Len(q.toks) + 1] = g + 1
          /\ \A i \in 1..Len(q.toks) : n.toks[i] = q.toks[i] /\ q.toks[i] # g + 1
      BY <1>1, <1>5, <3>1
    <3>3. \A i, j \in 1..Len(q.toks) : q.toks[i] = q.toks[j] => i = j
      BY DEF Kept
    <3> QED
      BY <3>1, <3>2, <3>3, SMTT(30)
  <2>4. Secured(n, U)
    <3>1. Secured(q, T)
      BY DEF Kept
    <3>2. ASSUME NEW x \in n.names
          PROVE  \/ \E i \in 1..Len(n.todo) : n.todo[i] = x
                 \/ \E t \in TokSet(n) : Covers(U.lock[t], x)
      <4>1. CASE \E t \in TokSet(q) : Covers(T.lock[t], x)
        <5>1. PICK t \in TokSet(q) : Covers(T.lock[t], x)
          BY <4>1
        <5>2. t \in TokSet(n) /\ U.lock[t] = T.lock[t]
          BY <1>3, <1>5 DEF Kept
        <5> QED
          BY <5>1, <5>2
      <4>2. CASE \E i \in 1..Len(q.todo) : q.todo[i] = x
        <5>1. PICK i \in 1..Len(q.todo) : q.todo[i] = x
          BY <4>2
        <5>2. CASE i = 1
          <6>1. x = p
            BY <1>2, <5>1, <5>2
          <6>2. Covers(U.lock[g + 1], x) /\ g + 1 \in TokSet(n)
            BY <1>4, <1>5, <6>1 DEF Covers, Promise!Covers
          <6> QED
            BY <6>2
        <5>3. CASE i # 1
          <6>1. i - 1 \in 1..Len(n.todo) /\ n.todo[i - 1] = x
            BY <1>2, <1>5, <5>1, <5>3
          <6> QED
            BY <6>1
        <5> QED
          BY <5>2, <5>3
      <4> QED
        BY <1>5, <3>1, <4>1, <4>2 DEF Secured
    <3> QED
      BY <3>2 DEF Secured
  <2> QED
    BY <2>1, <2>2, <2>3, <2>4 DEF Kept
<1>8. Served(T, g, K, R)
  BY DEF Sound
<1>9. \A s \in Requests \ {r} :
          /\ TokSet(n) \cap TokSet(R[s]) = {}
          /\ \A t \in TokSet(R[s]) : t \in DOMAIN U.lock /\ SameLock(U.lock[t], T.lock[t])
  <2>1. ASSUME NEW s \in Requests \ {r} PROVE TokSet(q) \cap TokSet(R[s]) = {}
    BY <1>8 DEF Served, Owned
  <2>2. ASSUME NEW s \in Requests \ {r} PROVE g + 1 \notin TokSet(R[s])
    BY <1>1, <1>8, TokSetType DEF Served
  <2>3. ASSUME NEW s \in Requests \ {r}, NEW t \in TokSet(R[s])
        PROVE  t \in DOMAIN U.lock /\ SameLock(U.lock[t], T.lock[t])
    BY <1>3, <1>8 DEF Served, Kept, SameLock
  <2> QED
    BY <1>5, <2>1, <2>2, <2>3
<1>10. \A t \in DOMAIN U.lock : U.lock[t].held =>
            \/ ~n.temp /\ t \in TokSet(n)
            \/ t \in DOMAIN T.lock /\ T.lock[t].held /\ t \notin TokSet(R[r])
  BY <1>3, <1>4 DEF Kept
<1>11. \A t \in DOMAIN U.lock \ K :
            \/ n.temp /\ t \in TokSet(n)
            \/ t \in DOMAIN T.lock /\ t \notin TokSet(R[r])
  BY <1>3, <1>5
<1>12. Served(U, g + 1, K, [R EXCEPT ![r] = n])
  BY <1>1, <1>5, <1>6, <1>7, <1>8, <1>9, <1>10, <1>11, ServedTurn
<1> QED
  BY <1>1, <1>3, <1>12 DEF Sound, U, n, p

(* The next name is locked by somebody else, and the request lets go of what it has. *)
LEMMA NextRefused ==
    ASSUME NEW T, NEW g, NEW K, NEW R, Sound(T, g, K, R),
           NEW r \in Requests, NEW q \in Request(g), q.temp, Kept(q, T, K),
           TokSet(R[r]) = TokSet(q)
    PROVE  Sound(T, g, K, [R EXCEPT ![r] = Refused(q)])
<1> DEFINE n == Refused(q)
<1>1. g \in Nat /\ g <= g
  BY LocksAssumption DEF Sound
<1>2. /\ n \in Request(g) /\ Shape(n) /\ TokSet(n) = TokSet(q)
      /\ n.names = {} /\ n.toks = q.toks
      /\ TokSet(q) # {} => n.temp
  <2>1. CASE q.toks = <<>>
    <3>1. n = Idle
      BY <2>1 DEF Refused
    <3>2. Idle \in Request(g) /\ Shape(Idle) /\ Idle.names = {} /\ Idle.toks = <<>>
      BY DEF Idle, Request, Shape
    <3> QED
      BY <2>1, <3>1, <3>2 DEF TokSet
  <2>2. CASE q.toks # <<>>
    <3>1. n = [q EXCEPT !.pc = "release", !.todo = <<>>, !.names = {}, !.res = {}]
      BY <2>2 DEF Refused
    <3>2. n.toks = q.toks /\ n.temp = q.temp /\ n.pc = "release" /\ n.names = {}
      BY <3>1 DEF Request
    <3>3. n \in Request(g)
      <4>1. <<>> \in Seq(Paths) /\ {} \in SUBSET Paths
        OBVIOUS
      <4> QED
        BY <3>1, <4>1 DEF Request
    <3> QED
      BY <2>2, <3>2, <3>3 DEF TokSet, Shape
  <2> QED
    BY <2>1, <2>2
<1> HIDE DEF n
<1>3. n.temp \in BOOLEAN
  BY <1>2 DEF Request
<1>4. Kept(n, T, K)
  <2>1. Secured(n, T)
    BY <1>2 DEF Secured
  <2>2. \A t \in TokSet(n) : t \in DOMAIN T.lock /\ (T.lock[t].held <=> ~n.temp)
    BY <1>2 DEF Kept
  <2> QED
    BY <1>2, <2>1, <2>2 DEF Kept
<1>5. Served(T, g, K, R)
  BY DEF Sound
<1>6. \A s \in Requests \ {r} :
          /\ TokSet(n) \cap TokSet(R[s]) = {}
          /\ \A t \in TokSet(R[s]) : t \in DOMAIN T.lock /\ SameLock(T.lock[t], T.lock[t])
  BY <1>2, <1>5 DEF Served, Owned, Kept, SameLock
<1>7. \A t \in DOMAIN T.lock : T.lock[t].held =>
            \/ ~n.temp /\ t \in TokSet(n)
            \/ t \in DOMAIN T.lock /\ T.lock[t].held /\ t \notin TokSet(R[r])
  BY DEF Kept
<1>8. \A t \in DOMAIN T.lock \ K :
            \/ n.temp /\ t \in TokSet(n)
            \/ t \in DOMAIN T.lock /\ t \notin TokSet(R[r])
  BY <1>2
<1>9. Served(T, g, K, [R EXCEPT ![r] = n])
  BY <1>1, <1>2, <1>4, <1>5, <1>6, <1>7, <1>8, ServedTurn
<1> QED
  BY <1>9 DEF Sound, n

-----------------------------------------------------------------------------
(* hold and unhold, of the locks H. *)
LEMMA HoldGood ==
    ASSUME NEW T, NEW g \in Nat, Good(T, g), NEW H, NEW U, U = Hold(T, H)
    PROVE  /\ Good(U, g) /\ DOMAIN U.lock = DOMAIN T.lock
           /\ \A t \in DOMAIN T.lock \ H : U.lock[t] = T.lock[t]
           /\ \A t \in DOMAIN T.lock \cap H :
                /\ U.lock[t].held /\ U.lock[t].root = T.lock[t].root
                /\ U.lock[t].zero = T.lock[t].zero
<1> DEFINE L == [t \in DOMAIN T.lock |->
                    IF t \in H THEN [T.lock[t] EXCEPT !.held = TRUE, !.queued = FALSE]
                               ELSE T.lock[t]]
<1>1. U = [T EXCEPT !.lock = L]
  BY DEF Hold
<1>2. T.lock \in [DOMAIN T.lock -> Lock]
  BY DEF Good, Fits
<1>3. ASSUME NEW t \in DOMAIN T.lock, t \in H
      PROVE  /\ L[t] \in Lock /\ L[t].root = T.lock[t].root /\ L[t].zero = T.lock[t].zero
             /\ L[t].held /\ ~L[t].queued
  BY <1>2, <1>3 DEF Lock
<1>4. ASSUME NEW t \in DOMAIN T.lock, t \notin H
      PROVE  L[t] = T.lock[t]
  BY <1>4
<1>5. L \in [DOMAIN T.lock -> Lock] /\ DOMAIN L = DOMAIN T.lock
  BY <1>2, <1>3, <1>4
<1> HIDE DEF L
<1>6. \A t \in DOMAIN T.lock : L[t].root = T.lock[t].root /\ L[t].zero = T.lock[t].zero
  BY <1>3, <1>4
<1>7. \A t \in DOMAIN T.lock : L[t].queued = (L[t].finite /\ ~L[t].held)
  <2>1. ASSUME NEW t \in DOMAIN T.lock, t \in H PROVE L[t].queued = (L[t].finite /\ ~L[t].held)
    <3>1. L[t].queued \in BOOLEAN
      BY <1>3, <2>1 DEF Lock
    <3> QED
      BY <1>3, <2>1, <3>1
  <2>2. ASSUME NEW t \in DOMAIN T.lock, t \notin H PROVE L[t].queued = (L[t].finite /\ ~L[t].held)
    BY <1>4, <2>2 DEF Good, Heaped
  <2> QED
    BY <2>1, <2>2
<1>8. Good(U, g)
  BY <1>1, <1>5, <1>6, <1>7, ChangeGood
<1>9. U.lock = L
  BY <1>1 DEF Good, Fits
<1> QED
  BY <1>3, <1>4, <1>5, <1>8, <1>9

(* Giving held locks back (the release function of Confirm) keeps the table in order. *)
LEMMA UnholdGood ==
    ASSUME NEW T, NEW g \in Nat, Good(T, g), NEW H, NEW U, U = Unhold(T, H)
    PROVE  /\ Good(U, g) /\ DOMAIN U.lock = DOMAIN T.lock
           /\ \A t \in DOMAIN T.lock \ H : U.lock[t] = T.lock[t]
           /\ \A t \in DOMAIN T.lock \cap H :
                /\ ~U.lock[t].held /\ U.lock[t].root = T.lock[t].root
                /\ U.lock[t].zero = T.lock[t].zero
<1> DEFINE L == [t \in DOMAIN T.lock |->
                    IF t \in H THEN [T.lock[t] EXCEPT !.held = FALSE, !.queued = T.lock[t].finite]
                               ELSE T.lock[t]]
<1>1. U = [T EXCEPT !.lock = L]
  BY DEF Unhold
<1>2. T.lock \in [DOMAIN T.lock -> Lock]
  BY DEF Good, Fits
<1>3. ASSUME NEW t \in DOMAIN T.lock, t \in H
      PROVE  /\ L[t] \in Lock /\ L[t].root = T.lock[t].root /\ L[t].zero = T.lock[t].zero
             /\ ~L[t].held /\ L[t].queued = L[t].finite
  BY <1>2, <1>3 DEF Lock
<1>4. ASSUME NEW t \in DOMAIN T.lock, t \notin H
      PROVE  L[t] = T.lock[t]
  BY <1>4
<1>5. L \in [DOMAIN T.lock -> Lock] /\ DOMAIN L = DOMAIN T.lock
  BY <1>2, <1>3, <1>4
<1> HIDE DEF L
<1>6. \A t \in DOMAIN T.lock : L[t].root = T.lock[t].root /\ L[t].zero = T.lock[t].zero
  BY <1>3, <1>4
<1>7. \A t \in DOMAIN T.lock : L[t].queued = (L[t].finite /\ ~L[t].held)
  <2>1. ASSUME NEW t \in DOMAIN T.lock, t \in H PROVE L[t].queued = (L[t].finite /\ ~L[t].held)
    <3>1. L[t].finite \in BOOLEAN
      BY <1>3, <2>1 DEF Lock
    <3> QED
      BY <1>3, <2>1, <3>1
  <2>2. ASSUME NEW t \in DOMAIN T.lock, t \notin H PROVE L[t].queued = (L[t].finite /\ ~L[t].held)
    BY <1>4, <2>2 DEF Good, Heaped
  <2> QED
    BY <2>1, <2>2
<1>8. Good(U, g)
  BY <1>1, <1>5, <1>6, <1>7, ChangeGood
<1>9. U.lock = L
  BY <1>1 DEF Good, Fits
<1> QED
  BY <1>3, <1>4, <1>5, <1>8, <1>9

(* What memLS.Confirm gives to a request. *)
Confirmed(f, n, names, res) ==
    [Idle EXCEPT !.pc = "busy", !.names = names, !.res = res,
                 !.toks = IF n = 2 /\ f[1] = f[2] THEN <<f[1]>> ELSE f]

Confirming(g, n, f, names, res) ==
    /\ g \in Nat /\ n \in Nat /\ f \in [1..n -> 1..g]
    /\ names \in SUBSET Paths /\ res \in SUBSET Paths

(* What a request looks like whose names have all been confirmed. *)
LEMMA ConfirmedFacts ==
    ASSUME NEW g, NEW n, NEW f, NEW names, NEW res, Confirming(g, n, f, names, res),
           NEW q, q = Confirmed(f, n, names, res)
    PROVE  /\ q \in Request(g) /\ Shape(q) /\ ~q.temp /\ q.names = names
           /\ \A t \in TokSet(q) : \E i \in 1..n : t = f[i]
           /\ \A i \in 1..n : f[i] \in TokSet(q)
<1> USE DEF Confirming
<1> DEFINE s == IF n = 2 /\ f[1] = f[2] THEN <<f[1]>> ELSE f
<1>2. s \in Seq(1..g) /\ {s[i] : i \in 1..Len(s)} = {f[i] : i \in 1..n}
  <2>1. CASE n = 2 /\ f[1] = f[2]
    <3>1. s = <<f[1]>>
      BY <2>1
    <3>2. f[1] \in 1..g
      BY <2>1
    <3>3. {f[i] : i \in 1..n} = {f[1]}
      <4>1. 1..n = {1, 2}
        BY <2>1
      <4> QED
        BY <2>1, <4>1
    <3> HIDE DEF s
    <3>4. s \in Seq(1..g)
      BY <3>1, <3>2
    <3>5. Len(s) = 1 /\ s[1] = f[1]
      BY <3>1
    <3>6. {s[i] : i \in 1..Len(s)} = {f[1]}
      <4>1. 1..Len(s) = {1}
        BY <3>5
      <4> QED
        BY <3>5, <4>1
    <3> QED
      BY <3>3, <3>4, <3>5, <3>6
  <2>2. CASE ~(n = 2 /\ f[1] = f[2])
    <3>1. s = f
      BY <2>2
    <3>2. f \in Seq(1..g) /\ Len(f) = n
      OBVIOUS
    <3> QED
      BY <3>1, <3>2
  <2> QED
    BY <2>1, <2>2
<1>3. q = [Idle EXCEPT !.pc = "busy", !.names = names, !.res = res, !.toks = s]
  BY DEF Confirmed
<1> HIDE DEF s
<1>4. q.pc = "busy" /\ ~q.temp /\ q.todo = <<>> /\ q.names = names /\ q.toks = s
  BY <1>3 DEF Idle
<1>5. q \in Request(g)
  <2>1. <<>> \in Seq(Paths)
    OBVIOUS
  <2> QED
    BY <1>2, <1>3, <2>1 DEF Request, Idle
<1>6. Shape(q)
  BY <1>4 DEF Shape
<1> QED
  <2>1. TokSet(q) = {f[i] : i \in 1..n}
    BY <1>2, <1>4 DEF TokSet
  <2>2. /\ \A t \in TokSet(q) : \E i \in 1..n : t = f[i]
        /\ \A i \in 1..n : f[i] \in TokSet(q)
    BY <2>1, Zenon
  <2> QED
    BY <1>4, <1>5, <1>6, <2>2, Zenon

(* A request with an If header confirms all its names in one call. *)
LEMMA ConfirmSound ==
    ASSUME NEW T, NEW g, NEW K, NEW R, Sound(T, g, K, R),
           NEW r \in Requests, R[r] = Idle,
           NEW todo \in Seq(Paths), NEW res \in SUBSET Paths,
           NEW f \in [1..Len(todo) -> K],
           \A i \in 1..Len(todo) : f[i] \in Lookup(T, todo[i], K)
    PROVE  Sound(Hold(T, {f[i] : i \in 1..Len(todo)}), g, K,
                 [R EXCEPT ![r] = Confirmed(f, Len(todo), NameSet(todo), res)])
<1> DEFINE H == {f[i] : i \in 1..Len(todo)}
           U == Hold(T, H)
<1>1. /\ g \in Nat /\ g <= g /\ K \subseteq 1..g /\ Len(todo) \in Nat
      /\ Good(T, g) /\ Served(T, g, K, R)
  BY LocksAssumption DEF Sound
<1>2. f \in [1..Len(todo) -> 1..g]
  BY <1>1
<1>2a. PICK q, names : names = NameSet(todo) /\ q = Confirmed(f, Len(todo), names, res)
  BY Zenon
<1>2b. /\ names \in SUBSET Paths
       /\ \A p \in names : \E i \in 1..Len(todo) : todo[i] = p
  BY <1>1, <1>2a DEF NameSet
<1>3. q \in Request(g) /\ Shape(q) /\ ~q.temp /\ q.names = names /\ TokSet(q) = H
  <2>1. PICK n : n = Len(todo)
    BY Zenon
  <2>2. /\ g \in Nat /\ n \in Nat /\ f \in [1..n -> 1..g]
        /\ names \in SUBSET Paths /\ res \in SUBSET Paths
    BY <1>1, <1>2, <1>2b, <2>1
  <2>3. q = Confirmed(f, n, names, res)
    BY <1>2a, <2>1, Zenon
  <2>4. Confirming(g, n, f, names, res)
    BY <2>2, Zenon DEF Confirming
  <2> HIDE DEF H, U
  <2>5. /\ q \in Request(g) /\ Shape(q) /\ ~q.temp /\ q.names = names
        /\ \A t \in TokSet(q) : \E i \in 1..n : t = f[i]
        /\ \A i \in 1..n : f[i] \in TokSet(q)
    BY <2>3, <2>4, ConfirmedFacts
  <2>6. /\ \A t \in H : \E i \in 1..n : t = f[i]
        /\ \A i \in 1..n : f[i] \in H
    BY <2>1 DEF H
  <2>7. TokSet(q) = H
    <3>1. \A t \in TokSet(q) : t \in H
      BY <2>5, <2>6
    <3>2. \A t \in H : t \in TokSet(q)
      BY <2>5, <2>6
    <3> QED
      BY <3>1, <3>2
  <2> QED
    BY <2>5, <2>7
<1>4. \A t \in H : t \in DOMAIN T.lock /\ t \in K /\ ~T.lock[t].held
  BY DEF Lookup
<1>5. \A i \in 1..Len(todo) : f[i] \in H /\ Covers(T.lock[f[i]], todo[i])
  BY DEF Lookup
<1>6. U = Hold(T, H)
  OBVIOUS
<1> HIDE DEF H, U
<1>7. /\ Good(U, g) /\ DOMAIN U.lock = DOMAIN T.lock
      /\ \A t \in DOMAIN T.lock \ H : U.lock[t] = T.lock[t]
      /\ \A t \in DOMAIN T.lock \cap H :
            /\ U.lock[t].held /\ U.lock[t].root = T.lock[t].root
            /\ U.lock[t].zero = T.lock[t].zero
  BY <1>1, <1>6, HoldGood
<1>8. Kept(q, U, K)
  <2>1. \A t \in TokSet(q) : t \in DOMAIN U.lock /\ (U.lock[t].held <=> ~q.temp)
    BY <1>3, <1>4, <1>7
  <2>2. Secured(q, U)
    <3>1. ASSUME NEW p \in names PROVE \E t \in TokSet(q) : Covers(U.lock[t], p)
      <4>1. PICK i \in 1..Len(todo) : todo[i] = p
        BY <1>2b
      <4>2. f[i] \in H /\ Covers(T.lock[f[i]], p) /\ f[i] \in DOMAIN T.lock \cap H
        BY <1>4, <1>5, <4>1
      <4>3. Covers(U.lock[f[i]], p)
        BY <1>7, <4>2 DEF Covers, Promise!Covers
      <4> QED
        BY <1>3, <4>2, <4>3
    <3> QED
      BY <1>3, <3>1 DEF Secured
  <2> QED
    BY <1>3, <2>1, <2>2 DEF Kept
<1>9. TokSet(R[r]) = {}
  <2>1. Idle.toks = <<>>
    BY DEF Idle
  <2> QED
    BY <2>1 DEF TokSet
<1>10. \A s \in Requests : H \cap TokSet(R[s]) = {}
  BY <1>1, <1>4, Unowned
<1>11. \A s \in Requests \ {r} :
          /\ TokSet(q) \cap TokSet(R[s]) = {}
          /\ \A t \in TokSet(R[s]) : t \in DOMAIN U.lock /\ SameLock(U.lock[t], T.lock[t])
  <2>1. ASSUME NEW s \in Requests \ {r}, NEW t \in TokSet(R[s])
        PROVE  t \in DOMAIN T.lock \ H
    BY <1>1, <1>10 DEF Served, Kept
  <2> QED
    BY <1>3, <1>7, <1>10, <2>1 DEF SameLock
<1>12. \A t \in DOMAIN U.lock : U.lock[t].held =>
            \/ ~q.temp /\ t \in TokSet(q)
            \/ t \in DOMAIN T.lock /\ T.lock[t].held /\ t \notin TokSet(R[r])
  BY <1>3, <1>7, <1>9
<1>13. \A t \in DOMAIN U.lock \ K :
            \/ q.temp /\ t \in TokSet(q)
            \/ t \in DOMAIN T.lock /\ t \notin TokSet(R[r])
  BY <1>7, <1>9
<1>14. Served(U, g, K, [R EXCEPT ![r] = q])
  BY <1>1, <1>3, <1>8, <1>11, <1>12, <1>13, ServedTurn
<1> QED
  BY <1>7, <1>14, <1>2a DEF Sound, U, H

-----------------------------------------------------------------------------
(* A request gives back the last of its temporary locks. *)
Shorter(q) ==
    IF Len(q.toks) = 1 THEN Idle ELSE [q EXCEPT !.toks = SubSeq(@, 1, Len(@) - 1)]

(* It is left with the others. *)
LEMMA ShorterFacts ==
    ASSUME NEW g \in Nat, NEW q \in Request(g), q.pc = "release", q.temp, Shape(q),
           \A i, j \in 1..Len(q.toks) : q.toks[i] = q.toks[j] => i = j,
           NEW n, n = Shorter(q), NEW t, t = q.toks[Len(q.toks)]
    PROVE  /\ n \in Request(g) /\ Shape(n) /\ n.names = {}
           /\ t \in TokSet(q) /\ TokSet(n) = TokSet(q) \ {t}
           /\ TokSet(n) # {} => n.temp
           /\ \A i, j \in 1..Len(n.toks) : n.toks[i] = n.toks[j] => i = j
<1>1. q.toks \in Seq(1..g) /\ q.toks # <<>> /\ q.names = {}
  BY DEF Request, Shape
<1>2. PICK k : k = Len(q.toks)
  BY Zenon
<1>3. k \in Nat \ {0}
  BY <1>1, <1>2, NoneLeft
<1>4. t = q.toks[k] /\ t \in TokSet(q)
  BY <1>2, <1>3 DEF TokSet
<1>5. CASE k = 1
  <2>1. n = Idle /\ Idle.toks = <<>>
    BY <1>2, <1>5 DEF Shorter, Idle
  <2>2. TokSet(q) = {t}
    BY <1>2, <1>4, <1>5 DEF TokSet
  <2>3. Idle \in Request(g) /\ Shape(Idle) /\ Idle.names = {} /\ TokSet(Idle) = {} /\ Len(Idle.toks) = 0
    BY <2>1 DEF Idle, Request, Shape, TokSet
  <2>4. \A i, j \in 1..Len(Idle.toks) : Idle.toks[i] = Idle.toks[j] => i = j
    BY <2>3
  <2> QED
    BY <1>4, <2>1, <2>2, <2>3, <2>4
<1>6. CASE k # 1
  <2>1. PICK u : u = SubSeq(q.toks, 1, k - 1)
    BY Zenon
  <2>2. u \in Seq(1..g) /\ Len(u) = k - 1 /\ \A i \in 1..(k - 1) : u[i] = q.toks[i]
    BY <1>1, <1>2, <1>3, <2>1, SMTT(30)
  <2>3. n = [q EXCEPT !.toks = u]
    BY <1>2, <1>6, <2>1 DEF Shorter
  <2>4. /\ n \in Request(g) /\ n.toks = u /\ n.names = {} /\ (n.temp <=> q.temp)
        /\ n.pc = "release" /\ n.todo = q.todo
    BY <1>1, <2>2, <2>3 DEF Request
  <2>5. u # <<>>
    BY <1>3, <1>6, <2>2, NoneLeft
  <2>6. Shape(n)
    BY <2>4, <2>5 DEF Shape
  <2>7. \A i, j \in 1..Len(n.toks) : n.toks[i] = n.toks[j] => i = j
    <3>1. ASSUME NEW i \in 1..(k - 1), NEW j \in 1..(k - 1), u[i] = u[j] PROVE i = j
      <4>1. i \in 1..k /\ j \in 1..k /\ q.toks[i] = q.toks[j]
        BY <1>3, <2>2, <3>1
      <4> QED
        BY <1>2, <4>1
    <3>2. n.toks = u /\ Len(u) = k - 1
      BY <2>2, <2>4
    <3> QED
      BY <3>1, <3>2
  <2>8. TokSet(n) = TokSet(q) \ {t}
    <3>1. ASSUME NEW i \in 1..(k - 1) PROVE q.toks[i] \in TokSet(q) \ {t}
      BY <1>2, <1>3, <1>4 DEF TokSet
    <3>2. ASSUME NEW v \in TokSet(q), v # t PROVE \E i \in 1..(k - 1) : v = u[i]
      <4>1. PICK i \in 1..k : v = q.toks[i]
        BY <1>2 DEF TokSet
      <4>2. i \in 1..(k - 1)
        BY <1>3, <1>4, <3>2, <4>1
      <4> QED
        BY <2>2, <4>1, <4>2
    <3>3. TokSet(n) = {u[i] : i \in 1..(k - 1)}
      BY <2>2, <2>4 DEF TokSet
    <3>4. \A v \in TokSet(n) : v \in TokSet(q) \ {t}
      BY <2>2, <3>1, <3>3
    <3>5. \A v \in TokSet(q) \ {t} : v \in TokSet(n)
      BY <3>2, <3>3, Zenon
    <3> QED
      BY <3>4, <3>5, Zenon
  <2> QED
    BY <1>4, <2>4, <2>6, <2>7, <2>8
<1> QED
  BY <1>5, <1>6

(* A temporary lock is removed when the request is done. *)
LEMMA ReleaseTempSound ==
    ASSUME NEW T, NEW g, NEW K, NEW R, Sound(T, g, K, R),
           NEW r \in Requests, R[r].pc = "release", R[r].temp
    PROVE  Sound(Unlock(T, R[r].toks[Len(R[r].toks)]), g, K, [R EXCEPT ![r] = Shorter(R[r])])
<1>1. PICK q, n, t : q = R[r] /\ n = Shorter(q) /\ t = q.toks[Len(q.toks)]
  BY Zenon
<1>2. g \in Nat /\ g <= g /\ Good(T, g) /\ Served(T, g, K, R)
  BY LocksAssumption DEF Sound
<1>3. q \in Request(g) /\ Shape(q) /\ Kept(q, T, K) /\ q.pc = "release" /\ q.temp
  BY <1>1, <1>2 DEF Served
<1>4. \A i, j \in 1..Len(q.toks) : q.toks[i] = q.toks[j] => i = j
  BY <1>3 DEF Kept
<1>5. /\ n \in Request(g) /\ Shape(n) /\ n.names = {}
      /\ t \in TokSet(q) /\ TokSet(n) = TokSet(q) \ {t}
      /\ TokSet(n) # {} => n.temp
      /\ \A i, j \in 1..Len(n.toks) : n.toks[i] = n.toks[j] => i = j
  BY <1>1, <1>2, <1>3, <1>4, ShorterFacts, SMTT(30)
<1>6. \A v \in TokSet(q) : /\ v \in DOMAIN T.lock /\ ~T.lock[v].held
                           /\ v \notin K /\ ~T.lock[v].finite
  BY <1>3 DEF Kept
<1>7. PICK U : U = Unlock(T, t)
  BY Zenon
<1>8. U = RemoveAll(T, {t}) /\ {t} \in SUBSET DOMAIN T.lock
  BY <1>5, <1>6, <1>7 DEF Unlock
<1>9. /\ Good(U, g) /\ DOMAIN U.lock = DOMAIN T.lock \ {t}
      /\ \A v \in DOMAIN T.lock \ {t} : U.lock[v] = T.lock[v]
  BY <1>2, <1>8, RemoveGood
<1>10. Kept(n, U, K)
  <2>1. Secured(n, U)
    BY <1>5 DEF Secured
  <2>2. \A v \in TokSet(n) : /\ v \in DOMAIN U.lock /\ ~U.lock[v].held /\ n.temp
                             /\ v \notin K /\ ~U.lock[v].finite
    BY <1>5, <1>6, <1>9
  <2> QED
    BY <1>5, <2>1, <2>2 DEF Kept
<1>11. \A s \in Requests \ {r} :
          /\ TokSet(n) \cap TokSet(R[s]) = {}
          /\ \A v \in TokSet(R[s]) : v \in DOMAIN U.lock /\ SameLock(U.lock[v], T.lock[v])
  <2>1. ASSUME NEW s \in Requests \ {r} PROVE TokSet(q) \cap TokSet(R[s]) = {} /\ Kept(R[s], T, K)
    BY <1>1, <1>2 DEF Served, Owned
  <2>2. ASSUME NEW s \in Requests \ {r}, NEW v \in TokSet(R[s])
        PROVE  v \in DOMAIN U.lock /\ SameLock(U.lock[v], T.lock[v])
    BY <1>5, <1>9, <2>1, <2>2 DEF Kept, SameLock
  <2> QED
    BY <1>5, <2>1, <2>2
<1>12. \A v \in DOMAIN U.lock : U.lock[v].held =>
            \/ ~n.temp /\ v \in TokSet(n)
            \/ v \in DOMAIN T.lock /\ T.lock[v].held /\ v \notin TokSet(R[r])
  BY <1>1, <1>6, <1>9
<1>13. \A v \in DOMAIN U.lock \ K :
            \/ n.temp /\ v \in TokSet(n)
            \/ v \in DOMAIN T.lock /\ v \notin TokSet(R[r])
  BY <1>1, <1>5, <1>9
<1>14. Served(U, g, K, [R EXCEPT ![r] = n])
  BY <1>2, <1>5, <1>10, <1>11, <1>12, <1>13, ServedTurn
<1>15. Sound(U, g, K, [R EXCEPT ![r] = n])
  BY <1>9, <1>14 DEF Sound
<1> QED
  BY <1>1, <1>7, <1>15

(* A request lets go of the locks it has confirmed. *)
LEMMA ReleaseConfirmedSound ==
    ASSUME NEW T, NEW g, NEW K, NEW R, Sound(T, g, K, R),
           NEW r \in Requests, R[r].pc = "release", ~R[r].temp
    PROVE  Sound(Unhold(T, TokSet(R[r])), g, K, [R EXCEPT ![r] = Idle])
<1>1. PICK q, H, U : q = R[r] /\ H = TokSet(q) /\ U = Unhold(T, H)
  BY Zenon
<1>2. g \in Nat /\ g <= g /\ Good(T, g) /\ Served(T, g, K, R)
  BY LocksAssumption DEF Sound
<1>3. Kept(q, T, K) /\ ~q.temp
  BY <1>1, <1>2 DEF Served
<1>4. \A t \in H : t \in DOMAIN T.lock /\ T.lock[t].held
  BY <1>1, <1>3 DEF Kept
<1>5. /\ Good(U, g) /\ DOMAIN U.lock = DOMAIN T.lock
      /\ \A t \in DOMAIN T.lock \ H : U.lock[t] = T.lock[t]
      /\ \A t \in DOMAIN T.lock \cap H : ~U.lock[t].held
  BY <1>1, <1>2, UnholdGood
<1>6. /\ Idle \in Request(g) /\ Shape(Idle) /\ Idle.names = {} /\ TokSet(Idle) = {} /\ ~Idle.temp
  BY DEF Idle, Request, Shape, TokSet
<1>7. Kept(Idle, U, K)
  BY <1>6 DEF Kept, Secured
<1>8. \A s \in Requests \ {r} :
          /\ TokSet(Idle) \cap TokSet(R[s]) = {}
          /\ \A t \in TokSet(R[s]) : t \in DOMAIN U.lock /\ SameLock(U.lock[t], T.lock[t])
  <2>1. ASSUME NEW s \in Requests \ {r} PROVE H \cap TokSet(R[s]) = {} /\ Kept(R[s], T, K)
    BY <1>1, <1>2 DEF Served, Owned
  <2>2. ASSUME NEW s \in Requests \ {r}, NEW t \in TokSet(R[s])
        PROVE  t \in DOMAIN U.lock /\ SameLock(U.lock[t], T.lock[t])
    BY <1>5, <2>1, <2>2 DEF Kept, SameLock
  <2> QED
    BY <1>6, <2>2
<1>9. \A t \in DOMAIN U.lock : U.lock[t].held =>
            \/ ~Idle.temp /\ t \in TokSet(Idle)
            \/ t \in DOMAIN T.lock /\ T.lock[t].held /\ t \notin TokSet(R[r])
  BY <1>1, <1>5
<1>10. \A t \in DOMAIN U.lock \ K :
            \/ Idle.temp /\ t \in TokSet(Idle)
            \/ t \in DOMAIN T.lock /\ t \notin TokSet(R[r])
  <2>1. ASSUME NEW t \in DOMAIN T.lock \ K PROVE t \notin TokSet(R[r])
    <3>1. PICK s \in Requests : R[s].temp /\ t \in TokSet(R[s])
      BY <1>2, <2>1 DEF Served, Owned
    <3>2. s # r
      BY <1>1, <1>3, <3>1
    <3> QED
      BY <1>2, <3>1, <3>2 DEF Served, Owned
  <2> QED
    BY <1>5, <2>1
<1>11. Served(U, g, K, [R EXCEPT ![r] = Idle])
  BY <1>2, <1>5, <1>6, <1>7, <1>8, <1>9, <1>10, ServedTurn
<1>12. Sound(U, g, K, [R EXCEPT ![r] = Idle])
  BY <1>5, <1>11 DEF Sound
<1> QED
  BY <1>1, <1>12

(* The work of a request ends; the release of its locks comes later. *)
LEMMA FinishSound ==
    ASSUME NEW T, NEW g, NEW K, NEW R, Sound(T, g, K, R), NEW r \in Requests, R[r].pc = "busy"
    PROVE  Sound(T, g, K, [R EXCEPT ![r].pc = "release", ![r].names = {}, ![r].res = {}])
<1>1. PICK q, n : q = R[r] /\ n = [q EXCEPT !.pc = "release", !.names = {}, !.res = {}]
  BY Zenon
<1>2. g \in Nat /\ g <= g /\ Served(T, g, K, R) /\ R \in [Requests -> Request(g)]
  BY LocksAssumption DEF Sound, Served
<1>3. q \in Request(g) /\ Kept(q, T, K) /\ q.pc = "busy" /\ Shape(q)
  BY <1>1, <1>2 DEF Served
<1>4. /\ n \in Request(g) /\ n.pc = "release" /\ n.names = {} /\ n.toks = q.toks /\ (n.temp <=> q.temp)
  <2>1. {} \in SUBSET Paths
    OBVIOUS
  <2> QED
    BY <1>1, <1>3, <2>1 DEF Request
<1>5. Shape(n) /\ TokSet(n) = TokSet(q)
  BY <1>3, <1>4 DEF Shape, TokSet
<1>6. Kept(n, T, K)
  BY <1>3, <1>4, <1>5 DEF Kept, Secured
<1>7. \A s \in Requests \ {r} :
          /\ TokSet(n) \cap TokSet(R[s]) = {}
          /\ \A t \in TokSet(R[s]) : t \in DOMAIN T.lock /\ SameLock(T.lock[t], T.lock[t])
  BY <1>1, <1>2, <1>5 DEF Served, Owned, Kept, SameLock
<1>8. \A t \in DOMAIN T.lock : T.lock[t].held =>
            \/ ~n.temp /\ t \in TokSet(n)
            \/ t \in DOMAIN T.lock /\ T.lock[t].held /\ t \notin TokSet(R[r])
  BY <1>1, <1>3, <1>4, <1>5 DEF Kept
<1>9. \A t \in DOMAIN T.lock \ K :
            \/ n.temp /\ t \in TokSet(n)
            \/ t \in DOMAIN T.lock /\ t \notin TokSet(R[r])
  <2>1. ASSUME NEW t \in DOMAIN T.lock \ K, t \in TokSet(R[r]) PROVE q.temp
    <3>1. PICK s \in Requests : R[s].temp /\ t \in TokSet(R[s])
      BY <1>2, <2>1 DEF Served, Owned
    <3> QED
      BY <1>1, <1>2, <2>1, <3>1 DEF Served, Owned
  <2> QED
    BY <1>1, <1>4, <1>5, <2>1
<1>10. Served(T, g, K, [R EXCEPT ![r] = n])
  BY <1>2, <1>4, <1>5, <1>6, <1>7, <1>8, <1>9, ServedTurn
<1>11. [R EXCEPT ![r].pc = "release", ![r].names = {}, ![r].res = {}] = [R EXCEPT ![r] = n]
  BY <1>1, <1>2 DEF Request
<1> QED
  BY <1>10, <1>11 DEF Sound

-----------------------------------------------------------------------------
(* Every operation keeps the invariant. *)
LEMMA InitSound == Init => IInv
<1> SUFFICES ASSUME Init PROVE IInv
  OBVIOUS
<1>1. /\ table = [lock |-> <<>>, ref |-> [p \in Paths |-> 0]]
      /\ gen = 0 /\ known = {} /\ req = [r \in Requests |-> Idle]
  BY DEF Init
<1>2. DOMAIN table.lock = {}
  BY <1>1
<1>3. Fits(table, gen)
  <2>1. table.lock \in [DOMAIN table.lock -> Lock]
    BY <1>1
  <2> QED
    BY <1>1, <1>2, <2>1 DEF Fits
<1>4. Good(table, gen)
  <2>1. ASSUME NEW p \in Paths PROVE table.ref[p] = Cardinality(Under(table, p))
    <3>1. Under(table, p) = {}
      BY <1>2 DEF Under
    <3> QED
      BY <1>1, <3>1, FS_EmptySet
  <2> QED
    BY <1>2, <1>3, <2>1 DEF Good, Counted, Heaped, Apart
<1>5. /\ Idle \in Request(gen) /\ Shape(Idle) /\ Idle.names = {} /\ TokSet(Idle) = {} /\ ~Idle.temp
  BY DEF Idle, Request, Shape, TokSet
<1>6. Kept(Idle, table, known)
  BY <1>5 DEF Kept, Secured
<1>7. Served(table, gen, known, req)
  BY <1>1, <1>2, <1>5, <1>6 DEF Served, Owned
<1> QED
  BY <1>1, <1>4, <1>7, LocksAssumption DEF IInv, Sound

(* The step of a request without an If header that locks its next name. *)
LEMMA LockNextSound ==
    ASSUME IInv, NEW r \in Requests, NEW q \in Request(gen), q.temp, q.todo # <<>>,
           \A T : Sound(T, gen, known, req) => Kept(q, T, known),
           TokSet(req[r]) = TokSet(q), LockNext(r, q)
    PROVE  IInv'
<1>1. PICK T \in Collected :
        IF CanCreate(T, Head(q.todo), TRUE)
        THEN /\ table' = Add(T, gen + 1, Head(q.todo), TRUE, FALSE)
             /\ gen' = gen + 1
             /\ req' = [req EXCEPT ![r] = Locked(q, gen + 1)]
        ELSE table' = T /\ req' = [req EXCEPT ![r] = Refused(q)] /\ UNCHANGED gen
  BY DEF LockNext, Locked, Refused
<1>2. gen < MaxGen /\ known' = known
  BY DEF LockNext
<1>3. Sound(T, gen, known, req)
  BY CollectSound DEF Collected, IInv, Live
<1>4. Kept(q, T, known)
  BY <1>3
<1>5. CASE CanCreate(T, Head(q.todo), TRUE)
  <2>1. Sound(Add(T, gen + 1, Head(q.todo), TRUE, FALSE), gen + 1, known,
              [req EXCEPT ![r] = Locked(q, gen + 1)])
    BY <1>2, <1>3, <1>4, <1>5, NextLocked
  <2> QED
    BY <1>1, <1>2, <1>5, <2>1, Zenon DEF IInv
<1>6. CASE ~CanCreate(T, Head(q.todo), TRUE)
  <2>1. Sound(T, gen, known, [req EXCEPT ![r] = Refused(q)])
    BY <1>3, <1>4, NextRefused
  <2> QED
    BY <1>1, <1>2, <1>6, <2>1, Zenon DEF IInv
<1> QED
  BY <1>5, <1>6

(* The names of a request make one sequence. *)
LEMMA NamesJoin ==
    ASSUME NEW m \in UrlNames, NEW n \in UrlNames
    PROVE  m \in Seq(Paths) /\ n \in Seq(Paths) /\ m \o n \in Seq(Paths)
<1>1. ASSUME NEW x \in UrlNames PROVE x \in Seq(Paths)
  <2>1. CASE x = <<>>
    BY <2>1
  <2>2. ASSUME NEW p \in Paths, x = <<p>> PROVE x \in Seq(Paths)
    BY <2>2
  <2> QED
    BY <2>1, <2>2 DEF UrlNames
<1> QED
  BY <1>1

(* A name, a path and a resource of a request. *)
LEMMA NameFacts ==
    /\ <<>> \in UrlNames
    /\ \A p \in Paths : <<p>> \in UrlNames
  BY DEF UrlNames

(* The step of a request with an If header that holds all its locks. *)
LEMMA ConfirmAllSound ==
    ASSUME IInv, NEW r \in Requests, req[r] = Idle,
           NEW todo \in Seq(Paths), NEW res \in SUBSET Paths, ConfirmAll(r, todo, res)
    PROVE  IInv'
<1>1. PICK T \in Collected, f \in [1..Len(todo) -> known] :
        /\ \A i \in 1..Len(todo) : f[i] \in Lookup(T, todo[i], known)
        /\ table' = Hold(T, {f[i] : i \in 1..Len(todo)})
        /\ req' = [req EXCEPT ![r] = Confirmed(f, Len(todo), NameSet(todo), res)]
        /\ gen' = gen /\ known' = known
  BY DEF ConfirmAll, Confirmed
<1>2. Sound(T, gen, known, req)
  BY CollectSound DEF Collected, IInv, Live
<1>3. Sound(Hold(T, {f[i] : i \in 1..Len(todo)}), gen, known,
            [req EXCEPT ![r] = Confirmed(f, Len(todo), NameSet(todo), res)])
  BY <1>1, <1>2, ConfirmSound
<1> QED
  BY <1>1, <1>3, Zenon DEF IInv

(* A request that has yet to make its first temporary lock. *)
Start(todo, res) ==
    [Idle EXCEPT !.temp = TRUE, !.todo = todo, !.names = NameSet(todo), !.res = res]

(* It has nothing, and all its names are left to lock. *)
LEMMA StartFacts ==
    ASSUME NEW g \in Nat, NEW todo \in Seq(Paths), NEW res \in SUBSET Paths, NEW q,
           q = Start(todo, res)
    PROVE  /\ q \in Request(g) /\ q.temp /\ q.todo = todo /\ TokSet(q) = {}
           /\ \A T, K : Kept(q, T, K)
<1>1. <<>> \in Seq(1..g) /\ Len(todo) \in Nat
  OBVIOUS
<1>2. PICK e, names : e = <<>> /\ names = NameSet(todo)
  BY Zenon
<1>3. names \in SUBSET Paths /\ \A p \in names : \E i \in 1..Len(todo) : todo[i] = p
  BY <1>1, <1>2 DEF NameSet
<1>4. q = [pc |-> "idle", temp |-> TRUE, todo |-> todo, names |-> names, res |-> res, toks |-> e]
  BY <1>2 DEF Idle, Start
<1>5. q \in Request(g) /\ q.temp /\ q.todo = todo /\ q.names = names /\ q.toks = e
  <2>1. e \in Seq(1..g) /\ names \in SUBSET Paths
    BY <1>1, <1>2, <1>3
  <2>2. q.temp /\ q.todo = todo /\ q.names = names /\ q.toks = e
    BY <1>4
  <2>3. q \in [pc : {"idle", "create", "busy", "release"}, temp : BOOLEAN, todo : Seq(Paths),
               names : SUBSET Paths, res : SUBSET Paths, toks : Seq(1..g)]
    BY <1>4, <2>1
  <2> QED
    BY <2>2, <2>3 DEF Request
<1>6. Len(q.toks) = 0 /\ TokSet(q) = {}
  BY <1>2, <1>5 DEF TokSet
<1> QED
  BY <1>3, <1>5, <1>6 DEF Kept, Secured

(* A request arrives, in either way. *)
LEMMA ArriveSound ==
    ASSUME IInv, NEW r \in Requests, NEW src \in UrlNames, NEW dst \in UrlNames,
           NEW res \in SUBSET Paths, Arrive(r, src, dst, res)
    PROVE  IInv'
<1>1. req[r] = Idle /\ gen \in Nat
  BY LocksAssumption DEF Arrive, IInv, Sound
<1>2. CASE LockAll(r, src \o dst, res)
  <2>1. PICK todo : todo = src \o dst
    BY Zenon
  <2>2. todo \in Seq(Paths)
    BY <2>1, NamesJoin
  <2>3. PICK q : q = Start(todo, res)
    BY Zenon
  <2>4. todo # <<>> /\ LockNext(r, q)
    BY <1>2, <2>1, <2>3 DEF LockAll, Start
  <2>5. q \in Request(gen) /\ q.temp /\ q.todo = todo /\ TokSet(q) = {} /\ \A T, K : Kept(q, T, K)
    BY <1>1, <2>2, <2>3, StartFacts
  <2>6. TokSet(req[r]) = {}
    BY <1>1 DEF TokSet, Idle
  <2> QED
    BY <2>4, <2>5, <2>6, LockNextSound
<1>3. ASSUME NEW lsrc \in UrlNames, ConfirmAll(r, lsrc \o dst, res) PROVE IInv'
  <2>1. lsrc \o dst \in Seq(Paths)
    BY NamesJoin
  <2> QED
    BY <1>1, <1>3, <2>1, ConfirmAllSound
<1> QED
  BY <1>2, <1>3 DEF Arrive

(* Each step keeps the invariant. *)
LEMMA NextSound == IInv /\ [Next]_vars => IInv'
<1> SUFFICES ASSUME IInv, [Next]_vars PROVE IInv'
  OBVIOUS
<1>1. gen \in Nat /\ req \in [Requests -> Request(gen)]
  BY LocksAssumption DEF IInv, Sound, Served
<1>2. ASSUME NEW T \in Collected PROVE Sound(T, gen, known, req)
  BY CollectSound DEF Collected, IInv, Live
<1>3. ASSUME NEW b \in Bases, NEW p \in Paths, NEW z \in BOOLEAN, NEW f \in BOOLEAN,
             LockRequest(b, p, z, f)
      PROVE  IInv'
  <2>1. PICK zero, finite : zero = z /\ finite = f
    BY Zenon
  <2>2. zero \in BOOLEAN /\ finite \in BOOLEAN /\ LockRequest(b, p, zero, finite)
    BY <1>3, <2>1, Zenon
  <2>3. PICK T \in Collected :
            IF CanCreate(T, Join(b, p), zero)
            THEN /\ table' = Add(T, gen + 1, Join(b, p), zero, finite)
                 /\ gen' = gen + 1
                 /\ known' = known \cup {gen + 1}
            ELSE table' = T /\ UNCHANGED <<gen, known>>
    BY <2>2 DEF LockRequest
  <2>4. gen < MaxGen /\ Join(b, p) \in Paths /\ req' = req
    BY <2>2 DEF LockRequest
  <2>5. Sound(T, gen, known, req)
    BY <1>2
  <2>6. CASE CanCreate(T, Join(b, p), zero)
    <3>1. Sound(Add(T, gen + 1, Join(b, p), zero, finite), gen + 1, known \cup {gen + 1}, req)
      BY <2>2, <2>4, <2>5, <2>6, LockSound
    <3> QED
      BY <2>3, <2>4, <2>6, <3>1, Zenon DEF IInv
  <2>7. CASE ~CanCreate(T, Join(b, p), zero)
    BY <2>3, <2>4, <2>5, <2>7, Zenon DEF IInv
  <2> QED
    BY <2>6, <2>7
<1>4. ASSUME NEW t \in known, NEW finite \in BOOLEAN, RefreshRequest(t, finite) PROVE IInv'
  <2>1. PICK T \in Collected :
            table' = IF t \in DOMAIN T.lock /\ ~T.lock[t].held
                     THEN [T EXCEPT !.lock[t] = [@ EXCEPT !.finite = finite, !.queued = finite]]
                     ELSE T
    BY <1>4 DEF RefreshRequest
  <2>2. gen' = gen /\ known' = known /\ req' = req
    BY <1>4 DEF RefreshRequest
  <2>3. Sound(T, gen, known, req)
    BY <1>2
  <2>4. CASE t \in DOMAIN T.lock /\ ~T.lock[t].held
    <3>1. Sound([T EXCEPT !.lock[t] = [@ EXCEPT !.finite = finite, !.queued = finite]], gen, known, req)
      BY <2>3, <2>4, RefreshSound
    <3> QED
      BY <2>1, <2>2, <2>4, <3>1, Zenon DEF IInv
  <2>5. CASE ~(t \in DOMAIN T.lock /\ ~T.lock[t].held)
    BY <2>1, <2>2, <2>3, <2>5, Zenon DEF IInv
  <2> QED
    BY <2>4, <2>5
<1>5. ASSUME NEW t \in known, UnlockRequest(t) PROVE IInv'
  <2>1. PICK T \in Collected : table' = Unlock(T, t)
    BY <1>5 DEF UnlockRequest
  <2>2. gen' = gen /\ known' = known /\ req' = req
    BY <1>5 DEF UnlockRequest
  <2>3. Sound(Unlock(T, t), gen, known, req)
    BY <1>2, UnlockSound
  <2> QED
    BY <2>1, <2>2, <2>3, Zenon DEF IInv
<1>6. ASSUME NEW r \in Requests, NEW b \in Bases, NEW n \in UrlNames, OneName(r, b, n)
      PROVE  IInv'
  <2>1. Arrive(r, n, <<>>, {Join(b, Clean(n))}) /\ Join(b, Clean(n)) \in Paths
    BY <1>6 DEF OneName
  <2> QED
    BY <2>1, NameFacts, ArriveSound
<1>7. ASSUME NEW r \in Requests, NEW b \in Bases, NEW n \in UrlNames, NEW q \in Paths,
             Move(r, b, n, q)
      PROVE  IInv'
  <2>1. PICK x, y : x = Join(b, Clean(n)) /\ y = Join(b, q)
    BY Zenon
  <2>2. x \in Paths /\ y \in Paths /\ Arrive(r, <<x>>, <<y>>, {x, y})
    BY <1>7, <2>1 DEF Move
  <2>3. {x, y} \in SUBSET Paths
    BY <2>2
  <2> QED
    BY <2>2, <2>3, NameFacts, ArriveSound
<1>8. ASSUME NEW r \in Requests, NEW b \in Bases, NEW q \in Paths, Copy(r, b, q)
      PROVE  IInv'
  <2>1. PICK y : y = Join(b, q)
    BY Zenon
  <2>2. y \in Paths /\ Arrive(r, <<>>, <<y>>, {y})
    BY <1>8, <2>1 DEF Copy
  <2> QED
    BY <2>2, NameFacts, ArriveSound
<1>9. ASSUME NEW r \in Requests, SecondLock(r) PROVE IInv'
  <2>1. PICK q : q = req[r]
    BY Zenon
  <2>2. q \in Request(gen) /\ LockNext(r, q) /\ TokSet(req[r]) = TokSet(q)
    BY <1>1, <1>9, <2>1 DEF SecondLock
  <2>3. q.temp /\ q.todo # <<>>
    BY <1>9, <2>1 DEF SecondLock, IInv, Sound, Served, Shape
  <2>4. \A T : Sound(T, gen, known, req) => Kept(q, T, known)
    BY <2>1 DEF Sound, Served
  <2> QED
    BY <2>2, <2>3, <2>4, LockNextSound
<1>10. ASSUME NEW r \in Requests, Finish(r) PROVE IInv'
  <2>1. Sound(table, gen, known, [req EXCEPT ![r].pc = "release", ![r].names = {}, ![r].res = {}])
    BY <1>10, FinishSound DEF Finish, IInv
  <2> QED
    BY <1>10, <2>1, Zenon DEF Finish, IInv
<1>11. ASSUME NEW r \in Requests, ReleaseTemp(r) PROVE IInv'
  <2>1. PICK T \in Collected : table' = Unlock(T, req[r].toks[Len(req[r].toks)])
    BY <1>11 DEF ReleaseTemp
  <2>2. /\ req[r].pc = "release" /\ req[r].temp /\ gen' = gen /\ known' = known
        /\ req' = [req EXCEPT ![r] = Shorter(req[r])]
    <3>2. req' = [req EXCEPT ![r] = Shorter(req[r])]
      BY <1>11 DEF ReleaseTemp, Shorter
    <3> QED
      BY <1>11, <3>2 DEF ReleaseTemp
  <2>3. Sound(Unlock(T, req[r].toks[Len(req[r].toks)]), gen, known, [req EXCEPT ![r] = Shorter(req[r])])
    BY <1>2, <2>2, ReleaseTempSound
  <2> QED
    BY <2>1, <2>2, <2>3, Zenon DEF IInv
<1>12. ASSUME NEW r \in Requests, ReleaseConfirmed(r) PROVE IInv'
  <2>1. /\ req[r].pc = "release" /\ ~req[r].temp /\ gen' = gen /\ known' = known
        /\ table' = Unhold(table, TokSet(req[r])) /\ req' = [req EXCEPT ![r] = Idle]
    BY <1>12 DEF ReleaseConfirmed, Toks, TokSet
  <2>2. Sound(Unhold(table, TokSet(req[r])), gen, known, [req EXCEPT ![r] = Idle])
    BY <2>1, ReleaseConfirmedSound DEF IInv
  <2> QED
    BY <2>1, <2>2, Zenon DEF IInv
<1>13. ASSUME NEW r \in Requests, Unconfirmed(r) PROVE IInv'
  BY <1>2, <1>13 DEF Unconfirmed, IInv
<1>14. CASE UNCHANGED vars
  BY <1>14 DEF vars, IInv
<1> QED
  BY <1>3, <1>4, <1>5, <1>6, <1>7, <1>8, <1>9, <1>10, <1>11, <1>12, <1>13, <1>14 DEF Next

(* The inductive invariant holds in every reachable state. *)
THEOREM Invariance == Spec => []IInv
  BY InitSound, NextSound, PTL DEF Spec

-----------------------------------------------------------------------------
(* The variables keep their types (TypeOK): memLS never makes a token      *)
(* beyond its counter, and the count of no node becomes negative.          *)
THEOREM TypeCorrect == Spec => []TypeOK
<1>1. IInv => TypeOK
  <2> SUFFICES ASSUME IInv PROVE TypeOK
    OBVIOUS
  <2>1. Fits(table, gen) /\ gen \in 0..MaxGen /\ known \subseteq 1..gen
    BY DEF IInv, Sound, Good
  <2>2. req \in [Requests -> Request(gen)]
    BY DEF IInv, Sound, Served
  <2> QED
    BY <2>1, <2>2 DEF TypeOK, Fits, Live, Request
<1> QED
  BY <1>1, Invariance, PTL

(* The count of a node is the number of the locks at it and below it       *)
(* (NodesExact), so remove never meets a node that is gone and canCreate   *)
(* sees every lock.                                                        *)
THEOREM CountsExact == Spec => []NodesExact
<1>1. IInv => NodesExact
  BY DEF IInv, Sound, Good, Counted, Under, NodesExact, Live
<1> QED
  BY <1>1, Invariance, PTL

(* A lock that is held, or that no client knows, belongs to one request    *)
(* that has yet to release it, and the heap has exactly the locks that can *)
(* expire (NoOrphans): hold and unhold never panic.                        *)
THEOREM HeldHaveOwner == Spec => []NoOrphans
<1>1. IInv => NoOrphans
  <2> SUFFICES ASSUME IInv PROVE NoOrphans
    OBVIOUS
  <2>1. /\ Good(table, gen) /\ Owned(table, known, req)
        /\ \A r \in Requests : Shape(req[r]) /\ Kept(req[r], table, known)
        /\ req \in [Requests -> Request(gen)]
    BY DEF IInv, Sound, Served
  <2>2. \A r \in Requests : Toks(r) = TokSet(req[r])
    BY DEF Toks, TokSet
  <2>3. \A t \in Live : table.lock[t].queued = (table.lock[t].finite /\ ~table.lock[t].held)
    BY <2>1 DEF Good, Heaped, Live
  <2>4. ASSUME NEW t \in Live, table.lock[t].held
        PROVE  \E r \in Requests : req[r].pc \in {"busy", "release"} /\ ~req[r].temp /\ t \in Toks(r)
    <3>1. PICK r \in Requests : ~req[r].temp /\ t \in TokSet(req[r])
      BY <2>1, <2>4 DEF Owned, Live
    <3>2. req[r].pc \in {"idle", "create", "busy", "release"}
      BY <2>1 DEF Request
    <3>3. req[r].pc # "create"
      BY <2>1, <3>1 DEF Shape
    <3>4. req[r].pc # "idle"
      BY <2>1, <3>1 DEF Shape, Idle, TokSet
    <3> QED
      BY <2>2, <3>1, <3>2, <3>3, <3>4
  <2>5. \A t \in Live \ known : \E r \in Requests : req[r].temp /\ t \in Toks(r)
    BY <2>1, <2>2 DEF Owned, Live
  <2>6. ASSUME NEW r \in Requests, NEW t \in Toks(r)
        PROVE  /\ t \in Live /\ table.lock[t].held = ~req[r].temp
               /\ \A s \in Requests : t \in Toks(s) => s = r
    <3>1. t \in TokSet(req[r])
      BY <2>2, <2>6
    <3>2. t \in DOMAIN table.lock /\ (table.lock[t].held <=> ~req[r].temp)
      BY <2>1, <3>1 DEF Kept
    <3>3. \A s \in Requests : t \in TokSet(req[s]) => s = r
      BY <2>1, <3>1 DEF Owned
    <3>4. table.lock[t].held \in BOOLEAN
      BY <2>1, <3>2 DEF Good, Fits, Lock
    <3> QED
      BY <2>2, <3>2, <3>3, <3>4 DEF Live
  <2> QED
    BY <2>3, <2>4, <2>5, <2>6 DEF NoOrphans
<1> QED
  BY <1>1, Invariance, PTL

(* What a request writes under a name that it has locked, no other request *)
(* writes under a name that it has locked, and no lock covers it that the  *)
(* request does not have (ClaimsRespected): the locks of memLS do not      *)
(* overlap, and a request has one over every name it has confirmed until   *)
(* it releases them.  That a request writes to a name it has not locked is *)
(* the code's own exception, and LocksRespected fails because of it.       *)
THEOREM WritersApart == Spec => []ClaimsRespected
<1>1. ASSUME IInv PROVE ClaimsRespected
  <2>1. /\ Good(table, gen) /\ Owned(table, known, req)
        /\ \A r \in Requests : Shape(req[r]) /\ Kept(req[r], table, known)
        /\ req \in [Requests -> Request(gen)]
    BY <1>1 DEF IInv, Sound, Served
  <2>2. \A r \in Requests : Toks(r) = TokSet(req[r])
    BY DEF Toks, TokSet
  <2>3. ASSUME NEW r \in Requests, NEW p \in Claims(r)
        PROVE  /\ p \in Paths
               /\ \E t \in TokSet(req[r]) : t \in DOMAIN table.lock /\ Covers(table.lock[t], p)
    <3>1. req[r].pc = "busy" /\ p \in req[r].names
      BY <2>3 DEF Claims
    <3>2. Secured(req[r], table) /\ req[r].todo = <<>>
      BY <2>1, <3>1 DEF Kept, Shape
    <3>3. ~ \E i \in 1..Len(req[r].todo) : req[r].todo[i] = p
      BY <3>2
    <3>4. p \in Paths
      BY <2>1, <3>1 DEF Request
    <3> QED
      BY <2>1, <3>1, <3>2, <3>3, <3>4 DEF Secured, Kept
  <2>4. ASSUME NEW p \in Paths, NEW t \in DOMAIN table.lock, NEW u \in DOMAIN table.lock,
               Covers(table.lock[t], p), Covers(table.lock[u], p)
        PROVE  t = u
    <3>1. table.lock[t] \in Lock /\ table.lock[u] \in Lock
      BY <2>1 DEF Good, Fits
    <3>2. Conflict(table.lock[t], table.lock[u])
      BY <2>4, <3>1, CoverConflict
    <3> QED
      BY <2>1, <3>2 DEF Good, Apart
  <2>5. ASSUME NEW r \in Requests, NEW p \in Claims(r), NEW t \in Live, Covers(table.lock[t], p)
        PROVE  t \in Toks(r)
    BY <2>2, <2>3, <2>4, <2>5 DEF Live
  <2>6. ASSUME NEW r \in Requests, NEW s \in Requests \ {r}
        PROVE  Claims(r) \cap Claims(s) = {}
    <3>1. ASSUME NEW p \in Claims(r), p \in Claims(s) PROVE FALSE
      <4>1. PICK t \in TokSet(req[r]) : p \in Paths /\ t \in DOMAIN table.lock /\ Covers(table.lock[t], p)
        BY <2>3
      <4>2. PICK u \in TokSet(req[s]) : u \in DOMAIN table.lock /\ Covers(table.lock[u], p)
        BY <2>3, <3>1
      <4>3. t = u
        BY <2>4, <4>1, <4>2
      <4> QED
        BY <2>1, <4>3 DEF Owned
    <3> QED
      BY <3>1
  <2> QED
    BY <2>5, <2>6 DEF ClaimsRespected
<1> QED
  BY <1>1, Invariance, PTL

-----------------------------------------------------------------------------
(* The lock system keeps the promise of LockTable.  A step of memLS gives  *)
(* up the locks S and leaves the others on their resources.                *)
Gives(T, U, S) ==
    /\ S \subseteq DOMAIN T.lock
    /\ \A t \in S : ~T.lock[t].held
    /\ DOMAIN U.lock = DOMAIN T.lock \ S
    /\ \A t \in DOMAIN U.lock : U.lock[t].root = T.lock[t].root /\ U.lock[t].zero = T.lock[t].zero

(* A step that collects some locks and holds others is a step of the promise. *)
LEMMA ClaimStep ==
    ASSUME NEW S, NEW H, Gives(table, table', S),
           H \subseteq DOMAIN table'.lock,
           \A t \in H : ~table.lock[t].held,
           \A t \in DOMAIN table'.lock : table'.lock[t].held <=> (table.lock[t].held \/ t \in H)
    PROVE  Promise!TableNext
<1>1. Promise!Claim(S, H)
  BY DEF Gives, Promise!Claim, Promise!Give
<1> QED
  BY <1>1 DEF Promise!TableNext, Gives

(* So is one that only removes locks which nobody holds. *)
LEMMA GiveStep ==
    ASSUME NEW S, Gives(table, table', S),
           \A t \in DOMAIN table'.lock : table'.lock[t].held <=> table.lock[t].held
    PROVE  Promise!TableNext
<1>1. PICK H : H = {}
  BY Zenon
<1>2. /\ H \subseteq DOMAIN table'.lock
      /\ \A t \in H : ~table.lock[t].held
      /\ \A t \in DOMAIN table'.lock : table'.lock[t].held <=> (table.lock[t].held \/ t \in H)
  BY <1>1
<1> QED
  BY <1>2, ClaimStep

(* So is one that gives held locks back. *)
LEMMA ReleaseStep ==
    ASSUME NEW H, Gives(table, table', {}),
           \A t \in H : t \in DOMAIN table.lock /\ table.lock[t].held,
           \A t \in DOMAIN table'.lock : table'.lock[t].held <=> (table.lock[t].held /\ t \notin H)
    PROVE  Promise!TableNext
<1>1. Promise!Release(H)
  BY DEF Gives, Promise!Release
<1> QED
  BY <1>1 DEF Promise!TableNext, Promise!Release

(* So is one that collects some locks and grants one that is apart from the rest. *)
LEMMA GrantStep ==
    ASSUME NEW S, NEW t, NEW T, Gives(table, T, S), t \notin DOMAIN table.lock,
           \A u \in DOMAIN T.lock : T.lock[u].held <=> table.lock[u].held,
           DOMAIN table'.lock = DOMAIN T.lock \cup {t},
           \A u \in DOMAIN T.lock : table'.lock[u] = T.lock[u],
           ~table'.lock[t].held, Apart(table')
    PROVE  Promise!TableNext
<1> DEFINE l == [root |-> table'.lock[t].root, zero |-> table'.lock[t].zero]
<1>1. /\ DOMAIN T.lock = DOMAIN table.lock \ S /\ S \subseteq DOMAIN table.lock
      /\ \A u \in S : ~table.lock[u].held
      /\ \A u \in DOMAIN T.lock : T.lock[u].root = table.lock[u].root /\ T.lock[u].zero = table.lock[u].zero
  BY DEF Gives
<1>2. ASSUME NEW u \in DOMAIN table.lock \ S
      PROVE  ~Promise!Conflict([root |-> table.lock[u].root, zero |-> table.lock[u].zero], l)
  <2>1. u # t /\ u \in DOMAIN table'.lock /\ t \in DOMAIN table'.lock
    BY <1>1
  <2>2. ~Conflict(table'.lock[u], table'.lock[t])
    BY <2>1 DEF Apart
  <2>3. table'.lock[u].root = table.lock[u].root /\ table'.lock[u].zero = table.lock[u].zero
    BY <1>1
  <2> QED
    BY <2>2, <2>3 DEF Conflict, Covers, Promise!Conflict, Promise!Covers
<1>3. [u \in DOMAIN table'.lock |-> [root |-> table'.lock[u].root, zero |-> table'.lock[u].zero]]
      = [u \in (DOMAIN table.lock \ S) \cup {t} |->
            IF u = t THEN l ELSE [root |-> table.lock[u].root, zero |-> table.lock[u].zero]]
  BY <1>1
<1>4. {u \in DOMAIN table'.lock : table'.lock[u].held} = {u \in DOMAIN table.lock : table.lock[u].held}
  BY <1>1
<1>5. [u \in DOMAIN table'.lock |-> [root |-> table'.lock[u].root, zero |-> table'.lock[u].zero]][t] = l
  OBVIOUS
<1> HIDE DEF l
<1>6. Promise!Grant(S, t)
  BY <1>1, <1>2, <1>3, <1>4, <1>5 DEF Promise!Grant
<1> QED
  BY <1>1, <1>6 DEF Promise!TableNext

(* Locks that run out are given up. *)
LEMMA CollectedGives ==
    ASSUME IInv, NEW T \in Collected
    PROVE  /\ Sound(T, gen, known, req)
           /\ \E S : Gives(table, T, S)
           /\ \A t \in DOMAIN T.lock : t \in DOMAIN table.lock /\ (T.lock[t].held <=> table.lock[t].held)
<1>1. PICK S \in SUBSET {t \in DOMAIN table.lock : table.lock[t].queued} : T = RemoveAll(table, S)
  BY DEF Collected, Live
<1>2. Sound(T, gen, known, req)
  BY <1>1, CollectSound DEF IInv
<1>3. gen \in Nat /\ Good(table, gen)
  BY LocksAssumption DEF IInv, Sound
<1>4. /\ DOMAIN T.lock = DOMAIN table.lock \ S
      /\ \A t \in DOMAIN table.lock \ S : T.lock[t] = table.lock[t]
  BY <1>1, <1>3, RemoveGood
<1>5. \A t \in S : t \in DOMAIN table.lock /\ ~table.lock[t].held
  <2>1. ASSUME NEW t \in S PROVE ~table.lock[t].held
    <3>1. table.lock[t] \in Lock /\ table.lock[t].queued = (table.lock[t].finite /\ ~table.lock[t].held) /\ table.lock[t].queued
      BY <1>1, <1>3 DEF Good, Fits, Heaped
    <3> QED
      BY <3>1
  <2> QED
    BY <1>1, <2>1
<1>6. Gives(table, T, S)
  BY <1>1, <1>4, <1>5 DEF Gives
<1> QED
  BY <1>2, <1>4, <1>6

(* A call that only lets locks run out. *)
LEMMA CollectStep ==
    ASSUME IInv, NEW T \in Collected, table' = T
    PROVE  Promise!TableNext
<1>1. PICK S : Gives(table, T, S)
  BY CollectedGives
<1>2. \A t \in DOMAIN T.lock : T.lock[t].held <=> table.lock[t].held
  BY CollectedGives
<1> QED
  BY <1>1, <1>2, GiveStep

(* Unlock gives up one more. *)
LEMMA UnlockStep ==
    ASSUME IInv, NEW T \in Collected, NEW t, table' = Unlock(T, t)
    PROVE  Promise!TableNext
<1>1. PICK S : Gives(table, T, S)
  BY CollectedGives
<1>2. /\ \A u \in DOMAIN T.lock : u \in DOMAIN table.lock /\ (T.lock[u].held <=> table.lock[u].held)
      /\ gen \in Nat /\ Good(T, gen)
  BY CollectedGives, LocksAssumption DEF Sound
<1>3. CASE t \in DOMAIN T.lock /\ ~T.lock[t].held
  <2>1. table' = RemoveAll(T, {t}) /\ {t} \in SUBSET DOMAIN T.lock
    BY <1>3 DEF Unlock
  <2>2. /\ DOMAIN table'.lock = DOMAIN T.lock \ {t}
        /\ \A u \in DOMAIN T.lock \ {t} : table'.lock[u] = T.lock[u]
    BY <1>2, <2>1, RemoveGood
  <2>3. Gives(table, table', S \cup {t})
    BY <1>1, <1>2, <1>3, <2>2 DEF Gives
  <2>4. \A u \in DOMAIN table'.lock : table'.lock[u].held <=> table.lock[u].held
    BY <1>2, <2>2
  <2> QED
    BY <2>3, <2>4, GiveStep
<1>4. CASE ~(t \in DOMAIN T.lock /\ ~T.lock[t].held)
  BY <1>4, CollectStep DEF Unlock
<1> QED
  BY <1>3, <1>4

(* A new lock overlaps none of the others. *)
LEMMA AddStep ==
    ASSUME IInv, NEW T \in Collected, NEW p \in Paths, NEW zero, zero \in BOOLEAN,
           NEW finite, finite \in BOOLEAN, CanCreate(T, p, zero),
           table' = Add(T, gen + 1, p, zero, finite)
    PROVE  Promise!TableNext
<1>1. PICK S : Gives(table, T, S)
  BY CollectedGives
<1>2. /\ \A u \in DOMAIN T.lock : T.lock[u].held <=> table.lock[u].held
      /\ gen \in Nat /\ Good(T, gen) /\ Good(table, gen)
  BY CollectedGives, LocksAssumption DEF Sound, IInv
<1>3. /\ Good(table', gen + 1)
      /\ DOMAIN table'.lock = DOMAIN T.lock \cup {gen + 1}
      /\ \A t \in DOMAIN T.lock : table'.lock[t] = T.lock[t]
      /\ ~table'.lock[gen + 1].held
  BY <1>2, AddGood
<1>4. gen + 1 \notin DOMAIN table.lock
  BY <1>2 DEF Good, Fits
<1> QED
  BY <1>1, <1>2, <1>3, <1>4, GrantStep DEF Good

(* Locking the next name of a request keeps the promise. *)
LEMMA LockNextStep ==
    ASSUME IInv, NEW r \in Requests, NEW q \in Request(gen), q.todo # <<>>, LockNext(r, q)
    PROVE  Promise!TableNext
<1>1. PICK T \in Collected :
        IF CanCreate(T, Head(q.todo), TRUE)
        THEN table' = Add(T, gen + 1, Head(q.todo), TRUE, FALSE)
        ELSE table' = T
  BY DEF LockNext
<1>2. Head(q.todo) \in Paths
  BY DEF Request
<1>3. PICK zero, finite : zero = TRUE /\ finite = FALSE
  BY Zenon
<1>4. CASE CanCreate(T, Head(q.todo), TRUE)
  <2>1. /\ zero \in BOOLEAN /\ finite \in BOOLEAN /\ CanCreate(T, Head(q.todo), zero)
        /\ table' = Add(T, gen + 1, Head(q.todo), zero, finite)
    BY <1>1, <1>3, <1>4, Zenon
  <2> QED
    BY <1>2, <2>1, AddStep
<1>5. CASE ~CanCreate(T, Head(q.todo), TRUE)
  BY <1>1, <1>5, CollectStep
<1> QED
  BY <1>4, <1>5

(* Confirming all names of a request keeps the promise. *)
LEMMA ConfirmAllStep ==
    ASSUME IInv, NEW r \in Requests, NEW todo \in Seq(Paths), NEW res,
           ConfirmAll(r, todo, res)
    PROVE  Promise!TableNext
<1>1. PICK T \in Collected, f \in [1..Len(todo) -> known] :
        /\ \A i \in 1..Len(todo) : f[i] \in Lookup(T, todo[i], known)
        /\ table' = Hold(T, {f[i] : i \in 1..Len(todo)})
  BY DEF ConfirmAll
<1>2. PICK H : H = {f[i] : i \in 1..Len(todo)}
  BY Zenon
<1>3. \A t \in H : t \in DOMAIN T.lock /\ ~T.lock[t].held
  BY <1>1, <1>2 DEF Lookup
<1>4. PICK S : Gives(table, T, S)
  BY CollectedGives
<1>5. /\ \A u \in DOMAIN T.lock : u \in DOMAIN table.lock /\ (T.lock[u].held <=> table.lock[u].held)
      /\ gen \in Nat /\ Good(T, gen)
  BY CollectedGives, LocksAssumption DEF Sound
<1>6. table' = Hold(T, H)
  BY <1>1, <1>2
<1>7. /\ DOMAIN table'.lock = DOMAIN T.lock
      /\ \A t \in DOMAIN T.lock \ H : table'.lock[t] = T.lock[t]
      /\ \A t \in DOMAIN T.lock \cap H :
            /\ table'.lock[t].held /\ table'.lock[t].root = T.lock[t].root
            /\ table'.lock[t].zero = T.lock[t].zero
  BY <1>5, <1>6, HoldGood
<1>8. Gives(table, table', S)
  BY <1>4, <1>7 DEF Gives
<1>9. \A t \in DOMAIN table'.lock : table'.lock[t].held <=> (table.lock[t].held \/ t \in H)
  BY <1>5, <1>7
<1> QED
  BY <1>3, <1>5, <1>7, <1>8, <1>9, ClaimStep

(* The arrival of a request keeps the promise. *)
LEMMA ArriveStep ==
    ASSUME IInv, NEW r \in Requests, NEW src \in UrlNames, NEW dst \in UrlNames,
           NEW res \in SUBSET Paths, Arrive(r, src, dst, res)
    PROVE  Promise!TableNext
<1>1. gen \in Nat
  BY LocksAssumption DEF IInv, Sound
<1>2. CASE LockAll(r, src \o dst, res)
  <2>1. PICK todo : todo = src \o dst
    BY Zenon
  <2>2. todo \in Seq(Paths)
    BY <2>1, NamesJoin
  <2>3. PICK q : q = Start(todo, res)
    BY Zenon
  <2>4. todo # <<>> /\ LockNext(r, q)
    BY <1>2, <2>1, <2>3 DEF LockAll, Start
  <2>5. q \in Request(gen) /\ q.todo = todo
    BY <1>1, <2>2, <2>3, StartFacts
  <2> QED
    BY <2>4, <2>5, LockNextStep
<1>3. ASSUME NEW lsrc \in UrlNames, ConfirmAll(r, lsrc \o dst, res) PROVE Promise!TableNext
  <2>1. lsrc \o dst \in Seq(Paths)
    BY NamesJoin
  <2> QED
    BY <1>3, <2>1, ConfirmAllStep
<1> QED
  BY <1>2, <1>3 DEF Arrive

(* Each step of the requests is a step of the promise or changes no lock. *)
LEMMA NextStep == IInv /\ [Next]_vars => [Promise!TableNext]_(Promise!tableVars)
<1> SUFFICES ASSUME IInv, [Next]_vars PROVE Promise!TableNext \/ table' = table
  BY DEF Promise!tableVars
<1>1. req \in [Requests -> Request(gen)] /\ Served(table, gen, known, req)
      /\ gen \in Nat /\ Good(table, gen)
  BY LocksAssumption DEF IInv, Sound, Served
<1>2. ASSUME NEW b \in Bases, NEW p \in Paths, NEW z \in BOOLEAN, NEW f \in BOOLEAN,
             LockRequest(b, p, z, f)
      PROVE  Promise!TableNext
  <2>1. PICK zero, finite : zero = z /\ finite = f
    BY Zenon
  <2>2. zero \in BOOLEAN /\ finite \in BOOLEAN /\ LockRequest(b, p, zero, finite)
    BY <1>2, <2>1, Zenon
  <2>3. PICK T \in Collected :
            IF CanCreate(T, Join(b, p), zero)
            THEN table' = Add(T, gen + 1, Join(b, p), zero, finite)
            ELSE table' = T
    BY <2>2 DEF LockRequest
  <2>4. Join(b, p) \in Paths
    BY <2>2 DEF LockRequest
  <2>5. CASE CanCreate(T, Join(b, p), zero)
    BY <2>2, <2>3, <2>4, <2>5, AddStep
  <2>6. CASE ~CanCreate(T, Join(b, p), zero)
    BY <2>3, <2>6, CollectStep
  <2> QED
    BY <2>5, <2>6
<1>3. ASSUME NEW t \in known, NEW finite \in BOOLEAN, RefreshRequest(t, finite)
      PROVE  Promise!TableNext
  <2>1. PICK T \in Collected :
            table' = IF t \in DOMAIN T.lock /\ ~T.lock[t].held
                     THEN [T EXCEPT !.lock[t] = [@ EXCEPT !.finite = finite, !.queued = finite]]
                     ELSE T
    BY <1>3 DEF RefreshRequest
  <2>2. PICK S : Gives(table, T, S)
    BY CollectedGives
  <2>3. /\ \A u \in DOMAIN T.lock : u \in DOMAIN table.lock /\ (T.lock[u].held <=> table.lock[u].held)
        /\ gen \in Nat /\ Good(T, gen)
    BY CollectedGives, LocksAssumption DEF Sound
  <2>4. CASE t \in DOMAIN T.lock /\ ~T.lock[t].held
    <3>1. /\ DOMAIN table'.lock = DOMAIN T.lock
          /\ \A u \in DOMAIN T.lock :
                /\ table'.lock[u].root = T.lock[u].root /\ table'.lock[u].zero = T.lock[u].zero
                /\ table'.lock[u].held <=> T.lock[u].held
      <4>1. T = [lock |-> T.lock, ref |-> T.ref] /\ T.lock \in [DOMAIN T.lock -> Lock]
        BY <2>3 DEF Good, Fits
      <4> QED
        BY <2>1, <2>4, <4>1 DEF Lock
    <3>2. Gives(table, table', S)
      BY <2>2, <3>1 DEF Gives
    <3>3. \A u \in DOMAIN table'.lock : table'.lock[u].held <=> table.lock[u].held
      BY <2>3, <3>1
    <3> QED
      BY <3>2, <3>3, GiveStep
  <2>5. CASE ~(t \in DOMAIN T.lock /\ ~T.lock[t].held)
    BY <2>1, <2>5, CollectStep
  <2> QED
    BY <2>4, <2>5
<1>4. ASSUME NEW t \in known, UnlockRequest(t) PROVE Promise!TableNext
  BY <1>4, UnlockStep DEF UnlockRequest
<1>5. ASSUME NEW r \in Requests, NEW b \in Bases, NEW n \in UrlNames, OneName(r, b, n)
      PROVE  Promise!TableNext
  <2>1. Arrive(r, n, <<>>, {Join(b, Clean(n))}) /\ Join(b, Clean(n)) \in Paths
    BY <1>5 DEF OneName
  <2> QED
    BY <2>1, NameFacts, ArriveStep
<1>6. ASSUME NEW r \in Requests, NEW b \in Bases, NEW n \in UrlNames, NEW q \in Paths,
             Move(r, b, n, q)
      PROVE  Promise!TableNext
  <2>1. PICK x, y : x = Join(b, Clean(n)) /\ y = Join(b, q)
    BY Zenon
  <2>2. x \in Paths /\ y \in Paths /\ Arrive(r, <<x>>, <<y>>, {x, y})
    BY <1>6, <2>1 DEF Move
  <2>3. {x, y} \in SUBSET Paths
    BY <2>2
  <2> QED
    BY <2>2, <2>3, NameFacts, ArriveStep
<1>7. ASSUME NEW r \in Requests, NEW b \in Bases, NEW q \in Paths, Copy(r, b, q)
      PROVE  Promise!TableNext
  <2>1. PICK y : y = Join(b, q)
    BY Zenon
  <2>2. y \in Paths /\ Arrive(r, <<>>, <<y>>, {y})
    BY <1>7, <2>1 DEF Copy
  <2> QED
    BY <2>2, NameFacts, ArriveStep
<1>8. ASSUME NEW r \in Requests, SecondLock(r) PROVE Promise!TableNext
  <2>1. PICK q : q = req[r]
    BY Zenon
  <2>2. q \in Request(gen) /\ LockNext(r, q) /\ q.pc = "create"
    BY <1>1, <1>8, <2>1 DEF SecondLock
  <2>3. q.todo # <<>>
    BY <1>1, <2>1, <2>2 DEF Served, Shape
  <2> QED
    BY <2>2, <2>3, LockNextStep
<1>9. ASSUME NEW r \in Requests, Finish(r) PROVE table' = table
  BY <1>9 DEF Finish
<1>10. ASSUME NEW r \in Requests, ReleaseTemp(r) PROVE Promise!TableNext
  BY <1>10, UnlockStep DEF ReleaseTemp
<1>11. ASSUME NEW r \in Requests, ReleaseConfirmed(r) PROVE Promise!TableNext
  <2>1. PICK H : H = TokSet(req[r])
    BY Zenon
  <2>2. table' = Unhold(table, H) /\ ~req[r].temp
    BY <1>11, <2>1 DEF ReleaseConfirmed, Toks, TokSet
  <2>3. \A t \in H : t \in DOMAIN table.lock /\ table.lock[t].held
    BY <1>1, <2>1, <2>2 DEF Served, Kept
  <2>4. /\ DOMAIN table'.lock = DOMAIN table.lock
        /\ \A t \in DOMAIN table.lock \ H : table'.lock[t] = table.lock[t]
        /\ \A t \in DOMAIN table.lock \cap H :
              /\ ~table'.lock[t].held /\ table'.lock[t].root = table.lock[t].root
              /\ table'.lock[t].zero = table.lock[t].zero
    BY <1>1, <2>2, UnholdGood
  <2>5. Gives(table, table', {})
    BY <2>4 DEF Gives
  <2>6. \A t \in DOMAIN table'.lock : table'.lock[t].held <=> (table.lock[t].held /\ t \notin H)
    BY <2>4
  <2> QED
    BY <2>3, <2>5, <2>6, ReleaseStep
<1>12. ASSUME NEW r \in Requests, Unconfirmed(r) PROVE Promise!TableNext
  BY <1>12, CollectStep DEF Unconfirmed
<1>13. CASE UNCHANGED vars
  BY <1>13 DEF vars
<1> QED
  BY <1>2, <1>3, <1>4, <1>5, <1>6, <1>7, <1>8, <1>9, <1>10, <1>11, <1>12, <1>13 DEF Next

(* memLS keeps what the comments of LockSystem promise (LockPromise): no   *)
(* two locks overlap, and a lock a request has confirmed stays until that  *)
(* request releases it.                                                    *)
THEOREM PromiseKept == Spec => LockPromise
<1>1. Init => Promise!TableInit
  BY DEF Init, Promise!TableInit
<1> QED
  BY <1>1, NextStep, Invariance, PTL DEF Spec, LockPromise, Promise!TableSpec
=============================================================================
