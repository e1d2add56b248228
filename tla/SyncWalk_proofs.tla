--------------------------- MODULE SyncWalk_proofs ---------------------------
(***************************************************************************)
(* Proofs about SyncWalk for every tree and every number of faults and     *)
(* changes: type correctness, and, where the string order of paths agrees  *)
(* with the order of the walk, that the breakpoint is never ahead of a     *)
(* file still owed, that a sweep closes only when it is complete, and that *)
(* the walker implements Sweep.                                            *)
(***************************************************************************)
EXTENDS SyncWalk, WellFoundedInduction, SequenceTheorems, TLAPS

-----------------------------------------------------------------------------
(* Prefixes and the walk order, for paths and names of any length.         *)

(* The least-number principle, from the well-foundedness of < on Nat.      *)
LEMMA LeastNat ==
    ASSUME NEW T, T \subseteq Nat, T # {}
    PROVE  \E x \in T : \A y \in T : x <= y
<1>1. \E x \in T : \A y \in T : ~(<<y, x>> \in OpToRel(<, Nat))
  BY WFMin, NatLessThanWellFounded
<1>2. PICK x \in T : \A y \in T : ~(<<y, x>> \in OpToRel(<, Nat))
  BY <1>1
<1>3. ASSUME NEW y \in T PROVE x <= y
  <2>1. x \in Nat /\ y \in Nat
    OBVIOUS
  <2>2. ~(y < x)
    BY <1>2, <2>1 DEF OpToRel
  <2> QED
    BY <2>1, <2>2
<1> QED
  BY <1>3

(* IsPrefix, element by element.                                           *)
LEMMA PrefixElements ==
    ASSUME NEW s \in Seq(Nat), NEW t \in Seq(Nat)
    PROVE  IsPrefix(s, t) <=> Len(s) <= Len(t) /\ \A i \in 1..Len(s) : s[i] = t[i]
<1>1. CASE Len(s) <= Len(t)
  <2>1. SubSeq(s, 1, Len(s)) \in Seq(Nat) /\ SubSeq(t, 1, Len(s)) \in Seq(Nat)
    BY <1>1
  <2>2. Len(SubSeq(s, 1, Len(s))) = Len(s) /\ Len(SubSeq(t, 1, Len(s))) = Len(s)
    BY <1>1
  <2>3. \A i \in 1..Len(s) : SubSeq(s, 1, Len(s))[i] = s[i] /\ SubSeq(t, 1, Len(s))[i] = t[i]
    BY <1>1
  <2> DEFINE ss == SubSeq(s, 1, Len(s))
             tt == SubSeq(t, 1, Len(s))
  <2>4. ss = tt <=> \A i \in 1..Len(s) : s[i] = t[i]
    <3> HIDE DEF ss, tt
    <3>1. ss = tt => \A i \in 1..Len(s) : s[i] = t[i]
      BY <2>3 DEF ss, tt
    <3>2. (\A i \in 1..Len(s) : s[i] = t[i]) => \A i \in 1..Len(ss) : ss[i] = tt[i]
      BY <2>2, <2>3 DEF ss, tt
    <3>3. ss \in Seq(Nat) /\ tt \in Seq(Nat) /\ Len(ss) = Len(tt)
      BY <2>1, <2>2 DEF ss, tt
    <3>4. (\A i \in 1..Len(ss) : ss[i] = tt[i]) => ss = tt
      BY <3>3, SeqEqual
    <3> QED
      BY <3>1, <3>2, <3>4
  <2> QED
    BY <1>1, <2>4 DEF IsPrefix
<1>2. CASE ~(Len(s) <= Len(t))
  BY <1>2 DEF IsPrefix
<1> QED
  BY <1>1, <1>2

(* A strict prefix is shorter and agrees as far as it goes. *)
LEMMA StrictPrefixElements ==
    ASSUME NEW s \in Seq(Nat), NEW t \in Seq(Nat)
    PROVE  IsStrictPrefix(s, t) <=> Len(s) < Len(t) /\ \A i \in 1..Len(s) : s[i] = t[i]
<1>1. IsPrefix(s, t) /\ Len(s) = Len(t) => s = t
  BY PrefixElements, SeqEqual
<1> QED
  BY <1>1, PrefixElements DEF IsStrictPrefix

(* The walk order is a strict total order.                                 *)
LEMMA LexIrreflexive ==
    ASSUME NEW s \in Seq(Nat)
    PROVE  ~LexLess(s, s)
BY StrictPrefixElements DEF LexLess

(* The order of the walk is transitive. *)
LEMMA LexTransitive ==
    ASSUME NEW s \in Seq(Nat), NEW t \in Seq(Nat), NEW u \in Seq(Nat),
           LexLess(s, t), LexLess(t, u)
    PROVE  LexLess(s, u)
<1>1. CASE IsStrictPrefix(s, t) /\ IsStrictPrefix(t, u)
  <2>1. Len(s) < Len(t) /\ \A i \in 1..Len(s) : s[i] = t[i]
    BY <1>1, StrictPrefixElements
  <2>2. Len(t) < Len(u) /\ \A i \in 1..Len(t) : t[i] = u[i]
    BY <1>1, StrictPrefixElements
  <2>3. Len(s) < Len(u) /\ \A i \in 1..Len(s) : s[i] = u[i]
    BY <2>1, <2>2
  <2>4. IsStrictPrefix(s, u)
    BY <2>3, StrictPrefixElements
  <2> QED
    BY <2>4 DEF LexLess
<1>2. CASE ~IsStrictPrefix(s, t) /\ IsStrictPrefix(t, u)
  <2>1. PICK k \in 1..Len(s) : k <= Len(t) /\ s[k] < t[k] /\ \A j \in 1..(k - 1) : s[j] = t[j]
    BY <1>2 DEF LexLess
  <2>2. Len(t) < Len(u) /\ \A i \in 1..Len(t) : t[i] = u[i]
    BY <1>2, StrictPrefixElements
  <2>3. k <= Len(u) /\ s[k] < u[k] /\ \A j \in 1..(k - 1) : s[j] = u[j]
    BY <2>1, <2>2
  <2> QED
    BY <2>3 DEF LexLess
<1>3. CASE IsStrictPrefix(s, t) /\ ~IsStrictPrefix(t, u)
  <2>1. PICK i \in 1..Len(t) : i <= Len(u) /\ t[i] < u[i] /\ \A j \in 1..(i - 1) : t[j] = u[j]
    BY <1>3 DEF LexLess
  <2>2. CASE i <= Len(s)
    BY <1>3, <2>1, <2>2, StrictPrefixElements, SMTT(30) DEF LexLess
  <2>3. CASE i > Len(s)
    <3>1. Len(s) < Len(u) /\ \A j \in 1..Len(s) : s[j] = u[j]
      BY <1>3, <2>1, <2>3, StrictPrefixElements
    <3> QED
      BY <3>1, StrictPrefixElements DEF LexLess
  <2> QED
    BY <2>2, <2>3
<1>4. CASE ~IsStrictPrefix(s, t) /\ ~IsStrictPrefix(t, u)
  <2>1. PICK i \in 1..Len(t) : i <= Len(u) /\ t[i] < u[i] /\ \A j \in 1..(i - 1) : t[j] = u[j]
    BY <1>4 DEF LexLess
  <2>2. PICK k \in 1..Len(s) : k <= Len(t) /\ s[k] < t[k] /\ \A j \in 1..(k - 1) : s[j] = t[j]
    BY <1>4 DEF LexLess
  <2>3. \A n \in 1..Len(s) : s[n] \in Nat
    OBVIOUS
  <2>4. \A n \in 1..Len(t) : t[n] \in Nat
    OBVIOUS
  <2>5. \A n \in 1..Len(u) : u[n] \in Nat
    OBVIOUS
  <2>6. CASE k < i
    <3>1. k \in 1..Len(s) /\ k <= Len(u) /\ s[k] < u[k] /\ \A j \in 1..(k - 1) : s[j] = u[j]
      BY <2>1, <2>2, <2>6, SMTT(30)
    <3> QED
      BY <3>1 DEF LexLess
  <2>7. CASE k = i
    <3>1. k \in 1..Len(s) /\ k <= Len(u) /\ s[k] < u[k] /\ \A j \in 1..(k - 1) : s[j] = u[j]
      BY <2>1, <2>2, <2>3, <2>4, <2>5, <2>7, SMTT(30)
    <3> QED
      BY <3>1 DEF LexLess
  <2>8. CASE k > i
    <3>1. i \in 1..Len(s) /\ i <= Len(u) /\ s[i] < u[i] /\ \A j \in 1..(i - 1) : s[j] = u[j]
      BY <2>1, <2>2, <2>8, SMTT(30)
    <3> QED
      BY <3>1 DEF LexLess
  <2> QED
    BY <2>6, <2>7, <2>8
<1> QED
  BY <1>1, <1>2, <1>3, <1>4

(* Two different paths are ordered. *)
LEMMA LexTotal ==
    ASSUME NEW s \in Seq(Nat), NEW t \in Seq(Nat), s # t
    PROVE  LexLess(s, t) \/ LexLess(t, s)
<1> DEFINE Differ == {i \in Nat : i \in 1..Len(s) /\ i <= Len(t) /\ s[i] # t[i]}
<1>1. CASE Differ = {}
  <2>1. \A i \in 1..Len(s) : i <= Len(t) => s[i] = t[i]
    BY <1>1
  <2>2. Len(s) # Len(t)
    BY <2>1
  <2>3. CASE Len(s) < Len(t)
    BY <2>1, <2>3, StrictPrefixElements DEF LexLess
  <2>4. CASE Len(t) < Len(s)
    BY <2>1, <2>4, StrictPrefixElements DEF LexLess
  <2> QED
    BY <2>2, <2>3, <2>4
<1>2. CASE Differ # {}
  <2>1. PICK i \in Differ : \A j \in Differ : i <= j
    <3>1. Differ \subseteq Nat
      OBVIOUS
    <3> HIDE DEF Differ
    <3> QED
      BY <1>2, <3>1, LeastNat
  <2>2. i \in 1..Len(s) /\ i \in 1..Len(t) /\ s[i] # t[i]
    OBVIOUS
  <2>3. ASSUME NEW j \in 1..(i - 1) PROVE s[j] = t[j]
    <3>1. j \in Nat /\ j \in 1..Len(s) /\ j <= Len(t) /\ ~(i <= j)
      BY <2>2
    <3>2. j \notin Differ
      BY <2>1, <3>1
    <3> QED
      BY <3>1, <3>2
  <2>4. s[i] \in Nat /\ t[i] \in Nat
    BY <2>2
  <2>5. s[i] < t[i] \/ t[i] < s[i]
    BY <2>2, <2>4
  <2> QED
    BY <2>2, <2>3, <2>5 DEF LexLess
<1> QED
  BY <1>1, <1>2

(* What is before a directory, and not around it, is before all it holds.  *)
LEMMA SubtreeBefore ==
    ASSUME NEW e \in Seq(Nat), NEW b \in Seq(Nat), NEW f \in Seq(Nat),
           LexLess(e, b), ~IsPrefix(e, b), IsPrefix(e, f)
    PROVE  LexLess(f, b)
<1>1. PICK i \in 1..Len(e) : i <= Len(b) /\ e[i] < b[i] /\ \A j \in 1..(i - 1) : e[j] = b[j]
  BY DEF LexLess, IsStrictPrefix
<1>2. Len(e) <= Len(f) /\ \A j \in 1..Len(e) : e[j] = f[j]
  BY PrefixElements
<1>3. i \in 1..Len(f) /\ f[i] < b[i] /\ \A j \in 1..(i - 1) : f[j] = b[j]
  BY <1>1, <1>2
<1> QED
  BY <1>1, <1>3 DEF LexLess

(* What comes before an entry comes before everything inside it. *)
LEMMA SubtreeAfter ==
    ASSUME NEW x \in Seq(Nat), NEW e \in Seq(Nat), NEW f \in Seq(Nat),
           LexLess(x, e), IsPrefix(e, f)
    PROVE  LexLess(x, f)
<1>1. e = f \/ LexLess(e, f)
  BY DEF LexLess, IsStrictPrefix
<1> QED
  BY <1>1, LexTransitive

(* The child of d on the way to a path inside d.                           *)
LEMMA ChildOnTheWay ==
    ASSUME NEW d \in Seq(Nat), NEW f \in Seq(Nat), Inside(d, f)
    PROVE  LET c == SubSeq(f, 1, Len(d) + 1)
           IN  /\ Len(d) + 1 \in 1..Len(f)
               /\ c \in Seq(Nat)
               /\ Len(c) = Len(d) + 1
               /\ Inside(d, c)
               /\ IsPrefix(c, f)
<1> DEFINE c == SubSeq(f, 1, Len(d) + 1)
<1>1. Len(d) < Len(f) /\ \A i \in 1..Len(d) : d[i] = f[i]
  BY StrictPrefixElements DEF Inside
<1>2. Len(d) + 1 \in 1..Len(f)
  BY <1>1
<1>3. c \in Seq(Nat) /\ Len(c) = Len(d) + 1 /\ \A i \in 1..(Len(d) + 1) : c[i] = f[i]
  BY <1>2
<1> HIDE DEF c
<1>4. Inside(d, c)
  <2>1. IsStrictPrefix(d, c) <=> Len(d) < Len(c) /\ \A i \in 1..Len(d) : d[i] = c[i]
    BY <1>3, StrictPrefixElements
  <2>2. ASSUME NEW i \in 1..Len(d) PROVE d[i] = c[i]
    <3>1. i \in 1..(Len(d) + 1)
      OBVIOUS
    <3>2. c[i] = f[i]
      BY <1>3, <3>1
    <3> QED
      BY <1>1, <3>2
  <2> QED
    BY <1>3, <2>1, <2>2 DEF Inside
<1>5. IsPrefix(c, f)
  <2>1. Len(c) <= Len(f) /\ \A i \in 1..Len(c) : c[i] = f[i]
    BY <1>2, <1>3
  <2>2. c \in Seq(Nat)
    BY <1>3
  <2> QED
    BY <2>1, <2>2, PrefixElements
<1> QED
  BY <1>2, <1>3, <1>4, <1>5 DEF c

(* A path strictly inside another one goes through a directory.            *)
LEMMA InsideIsDir ==
    ASSUME NEW e \in Paths, NEW f \in Paths, Inside(e, f)
    PROVE  e \in Dirs
<1>1. e \in Seq(Nat) /\ f \in Seq(Nat)
  BY TreeAssumption
<1>2. Len(e) \in 0..(Len(f) - 1)
  BY <1>1, StrictPrefixElements DEF Inside
<1>3. SubSeq(f, 1, Len(e)) \in Dirs
  BY <1>2, TreeAssumption
<1>4. SubSeq(f, 1, Len(e)) = SubSeq(e, 1, Len(e))
  BY DEF Inside, IsStrictPrefix, IsPrefix
<1>5. SubSeq(e, 1, Len(e)) = e
  BY <1>1
<1> QED
  BY <1>3, <1>4, <1>5

-----------------------------------------------------------------------------
(* Paths are sequences of ranks; the root is a directory. *)
LEMMA PathFacts ==
    /\ Paths \subseteq Seq(Nat)
    /\ Root \in Paths /\ Root \in Dirs /\ Root \notin Files
    /\ Files \subseteq Paths /\ Dirs \subseteq Paths
BY TreeAssumption DEF Files

(***************************************************************************)
(* Type correctness.                                                       *)
(***************************************************************************)
LEMMA TypeInit == Init => TypeOK
<1> SUFFICES ASSUME Init PROVE TypeOK
  OBVIOUS
<1>1. present \subseteq Paths /\ Root \in present
  BY DEF Init
<1>2. faults \in 0..MaxFaults /\ changes \in 0..MaxChanges
  BY WalkAssumption DEF Init
<1>3. at \in Paths /\ pc = "sleep" /\ todo = {} /\ stable = {} /\ done = {}
  BY PathFacts DEF Init
<1> QED
  BY <1>1, <1>2, <1>3 DEF Init, TypeOK

(* Each step keeps the type invariant. *)
LEMMA TypeStep == TypeOK /\ [Next]_vars => TypeOK'
<1> SUFFICES ASSUME TypeOK, [Next]_vars PROVE TypeOK'
  OBVIOUS
<1> USE PathFacts, WalkAssumption DEF TypeOK, Running, AfterPass, memory, history
<1>1. CASE StartPass
  BY <1>1 DEF StartPass, None, Root
<1>2. CASE ListDir
  <2>1. ChildrenIn(present, at) \subseteq Paths \ {Root}
    <3>1. Len(at) \in Nat /\ Len(Root) = 0
      BY DEF Root
    <3> QED
      BY <3>1 DEF ChildrenIn
  <2> QED
    BY <1>2, <2>1 DEF ListDir
<1>3. CASE ListFails
  BY <1>3 DEF ListFails
<1>4. CASE WalkReturns
  BY <1>4 DEF WalkReturns
<1>5. CASE ClearBreakpoint
  BY <1>5 DEF ClearBreakpoint, None
<1>6. CASE FinishFile
  BY <1>6 DEF FinishFile
<1>7. ASSUME NEW e \in todo, SkipEntry(e) PROVE TypeOK'
  BY <1>7 DEF SkipEntry
<1>8. ASSUME NEW e \in todo, EnterDir(e) PROVE TypeOK'
  BY <1>8 DEF EnterDir, ScanAt, Resumes, StrLess, LexLess
<1>9. ASSUME NEW e \in todo, BeginFile(e) PROVE TypeOK'
  BY <1>9 DEF BeginFile
<1>10. CASE Signal
  BY <1>10 DEF Signal
<1>11. CASE ExitAfterSignal
  BY <1>11 DEF ExitAfterSignal, Down
<1>12. CASE Crash
  BY <1>12 DEF Crash, Down
<1>13. CASE Restart
  BY <1>13 DEF Restart
<1>14. ASSUME NEW p \in Paths, Create(p) PROVE TypeOK'
  BY <1>14 DEF Create
<1>15. ASSUME NEW p \in Paths, Delete(p) PROVE TypeOK'
  <2>1. Root # p /\ ~Inside(p, Root)
    BY <1>15, StrictPrefixElements DEF Delete, Inside, Root
  <2> QED
    BY <1>15, <2>1 DEF Delete
<1>16. CASE UNCHANGED vars
  BY <1>16 DEF vars
<1> QED
  BY <1>1, <1>2, <1>3, <1>4, <1>5, <1>6, <1>7, <1>8, <1>9, <1>10, <1>11, <1>12,
     <1>13, <1>14, <1>15, <1>16 DEF Next, Walker, Outside

(* Every variable of the walker keeps its type, whatever the tree.         *)
THEOREM TypeCorrect == Spec => []TypeOK
BY TypeInit, TypeStep, PTL DEF Spec
-----------------------------------------------------------------------------
(***************************************************************************)
(* Lemmas about the tree and about one entry of the walk.                  *)
(***************************************************************************)

(* An ancestor of an ancestor is an ancestor.                              *)
LEMMA PrefixOfPrefix ==
    ASSUME NEW s \in Seq(Nat), NEW q \in Seq(Nat), NEW n \in 0..Len(q),
           IsPrefix(s, SubSeq(q, 1, n))
    PROVE  IsPrefix(s, q)
<1> DEFINE t == SubSeq(q, 1, n)
<1>1. t \in Seq(Nat) /\ Len(t) = n /\ \A i \in 1..n : t[i] = q[i]
  OBVIOUS
<1> HIDE DEF t
<1>2. Len(s) <= Len(t) /\ \A i \in 1..Len(s) : s[i] = t[i]
  BY <1>1, PrefixElements DEF t
<1>3. Len(s) <= Len(q) /\ \A i \in 1..Len(s) : s[i] = q[i]
  BY <1>1, <1>2
<1> QED
  BY <1>3, PrefixElements

(* An ancestor of an ancestor is an ancestor. *)
LEMMA SubSeqTwice ==
    ASSUME NEW p \in Seq(Nat), NEW m \in 0..Len(p), NEW n \in 0..m
    PROVE  SubSeq(SubSeq(p, 1, m), 1, n) = SubSeq(p, 1, n)
<1> DEFINE a == SubSeq(p, 1, m)
           b == SubSeq(a, 1, n)
           c == SubSeq(p, 1, n)
<1>1. a \in Seq(Nat) /\ Len(a) = m /\ \A i \in 1..m : a[i] = p[i]
  OBVIOUS
<1>2. c \in Seq(Nat) /\ Len(c) = n /\ \A i \in 1..n : c[i] = p[i]
  OBVIOUS
<1> HIDE DEF a
<1>3. b \in Seq(Nat) /\ Len(b) = n /\ \A i \in 1..n : b[i] = a[i]
  BY <1>1
<1> HIDE DEF b, c
<1>4. ASSUME NEW i \in 1..Len(b) PROVE b[i] = c[i]
  <2>1. i \in 1..n /\ i \in 1..m
    BY <1>3
  <2> QED
    BY <1>1, <1>2, <1>3, <2>1
<1>5. b = c
  BY <1>2, <1>3, <1>4, SeqEqual
<1> QED
  BY <1>5 DEF a, b, c

(* A path is its own longest prefix. *)
LEMMA FullSubSeq ==
    ASSUME NEW p \in Seq(Nat)
    PROVE  SubSeq(p, 1, Len(p)) = p
BY SeqEqual

(* A prefix has the length it is cut to. *)
LEMMA SubSeqLen ==
    ASSUME NEW p \in Seq(Nat), NEW m \in 0..Len(p)
    PROVE  Len(SubSeq(p, 1, m)) = m
OBVIOUS

(* A path is a prefix of itself. *)
LEMMA PrefixOfItself == \A p \in Seq(Nat) : IsPrefix(p, p)
BY PrefixElements

(* A tree stays closed when an entry is created under an existing one.     *)
LEMMA CreateKeepsClosed ==
    ASSUME NEW tree, tree \subseteq Paths, TreeClosed(tree),
           NEW p \in Paths, p # Root, SubSeq(p, 1, Len(p) - 1) \in tree
    PROVE  TreeClosed(tree \cup {p})
<1>1. p \in Seq(Nat) /\ Len(p) \in Nat /\ Len(p) # 0
  BY PathFacts DEF Root
<1>2. ASSUME NEW n \in 0..Len(p) PROVE SubSeq(p, 1, n) \in tree \cup {p}
  <2>1. CASE n = Len(p)
    BY <1>1, <2>1, FullSubSeq
  <2>2. CASE n < Len(p)
    <3> DEFINE m == Len(p) - 1
    <3>1. m \in 0..Len(p) /\ n \in 0..m
      BY <1>1, <2>2
    <3>2. Len(SubSeq(p, 1, m)) = m
      BY <1>1, <3>1, SubSeqLen
    <3>3. SubSeq(SubSeq(p, 1, m), 1, n) \in tree
      BY <3>1, <3>2 DEF TreeClosed, Reachable
    <3> QED
      BY <1>1, <3>1, <3>3, SubSeqTwice
  <2> QED
    BY <2>1, <2>2
<1>3. Reachable(tree \cup {p}, p)
  BY <1>2 DEF Reachable
<1>4. ASSUME NEW q \in tree PROVE Reachable(tree \cup {p}, q)
  BY DEF TreeClosed, Reachable
<1> QED
  BY <1>3, <1>4 DEF TreeClosed

(* ... and when an entry is removed with all it contains.                  *)
LEMMA DeleteKeepsClosed ==
    ASSUME NEW tree, tree \subseteq Paths, TreeClosed(tree), NEW p \in Paths
    PROVE  TreeClosed({q \in tree : q # p /\ ~Inside(p, q)})
<1> DEFINE rest == {q \in tree : q # p /\ ~Inside(p, q)}
<1>1. ASSUME NEW q \in rest, NEW n \in 0..Len(q) PROVE SubSeq(q, 1, n) \in rest
  <2>1. SubSeq(q, 1, n) \in tree
    BY DEF TreeClosed, Reachable
  <2>2. p \in Seq(Nat) /\ q \in Seq(Nat)
    BY PathFacts
  <2>3. ~IsPrefix(p, q)
    BY DEF Inside, IsStrictPrefix
  <2>4. ~IsPrefix(p, SubSeq(q, 1, n))
    BY <2>2, <2>3, PrefixOfPrefix
  <2>5. SubSeq(q, 1, n) # p
    BY <2>2, <2>4, PrefixOfItself
  <2> QED
    BY <2>1, <2>4, <2>5 DEF Inside, IsStrictPrefix
<1> QED
  BY <1>1 DEF TreeClosed, Reachable

(* When e is the next entry, whatever comes before it in walk order has    *)
(* been attempted.                                                         *)
LEMMA BeforeNextIsDone ==
    ASSUME TypeOK, Covered, pc = "walk",
           NEW e \in todo, IsNext(e),
           NEW f \in stable, LexLess(f, e)
    PROVE  f \in done
<1>1. e \in Seq(Nat) /\ f \in Seq(Nat) /\ todo \subseteq Seq(Nat)
  BY PathFacts DEF TypeOK
<1> SUFFICES ASSUME f \notin done PROVE FALSE
  OBVIOUS
<1>2. PICK x \in todo : IsPrefix(x, f)
  BY DEF Covered, Pending
<1>3. CASE x = e
  <2>1. e = f \/ LexLess(e, f)
    BY <1>2, <1>3 DEF LexLess, IsStrictPrefix
  <2> QED
    BY <1>1, <2>1, LexTransitive, LexIrreflexive
<1>4. CASE x # e
  <2>1. LexLess(e, x)
    BY <1>4 DEF IsNext
  <2>2. LexLess(e, f)
    BY <1>1, <1>2, <2>1, SubtreeAfter
  <2> QED
    BY <1>1, <2>2, LexTransitive, LexIrreflexive
<1> QED
  BY <1>3, <1>4

(* An entry skipped while the scan is not full is before the breakpoint    *)
(* with everything under it: all of it has been attempted.                 *)
LEMMA SkippedIsDone ==
    ASSUME OrderAgrees, TypeOK, BreakpointNeverAhead, ResumePoint, pc = "walk",
           NEW e \in todo, ~ScanAt(e), ~AroundBreakpoint(e),
           NEW f \in stable, IsPrefix(e, f)
    PROVE  f \in done
<1>1. bp = passBp /\ bp # None
  BY DEF ResumePoint, ScanAt
<1>2. bp \in Paths /\ e \in Paths /\ f \in Paths
  BY <1>1, PathFacts DEF TypeOK
<1>3. e \in Seq(Nat) /\ bp \in Seq(Nat) /\ f \in Seq(Nat)
  BY <1>2, PathFacts
<1>4. e # bp /\ (AroundBreakpoint(e) \/ ~StrLess(bp, e))
  BY <1>1 DEF ScanAt, Resumes
<1>5. ~LexLess(bp, e)
  BY <1>2, <1>4 DEF OrderAgrees
<1>6. LexLess(e, bp)
  BY <1>3, <1>4, <1>5, LexTotal
<1>7. ~IsPrefix(e, bp)
  BY <1>1, <1>2, <1>4, InsideIsDir DEF AroundBreakpoint, Inside, IsStrictPrefix
<1>8. LexLess(f, bp)
  BY <1>3, <1>6, <1>7, SubtreeBefore
<1> QED
  BY <1>1, <1>8 DEF BreakpointNeverAhead

(* Where the walk starts processing or enters, it is not behind the        *)
(* breakpoint.                                                             *)
LEMMA ScanIsAhead ==
    ASSUME OrderAgrees, TypeOK, ResumePoint, TodoAhead, pc = "walk",
           NEW e \in todo, ScanAt(e), bp # None
    PROVE  e = bp \/ LexLess(bp, e)
<1>1. CASE fullScan
  BY <1>1 DEF TodoAhead
<1>2. CASE ~fullScan
  <2>1. bp = passBp
    BY <1>2 DEF ResumePoint
  <2>2. e = bp \/ StrLess(bp, e)
    BY <1>2, <2>1 DEF ScanAt, Resumes
  <2>3. bp \in Paths /\ e \in Paths
    BY PathFacts DEF TypeOK
  <2> QED
    BY <2>2, <2>3 DEF OrderAgrees
<1> QED
  BY <1>1, <1>2
-----------------------------------------------------------------------------
(***************************************************************************)
(* The inductive invariant, one lemma per action of the walk.              *)
(***************************************************************************)
LEMMA IInvInit == Init => IInv
<1> SUFFICES ASSUME Init PROVE IInv
  OBVIOUS
<1>1. TypeOK
  BY TypeInit
<1>2. TreeClosed(present)
  BY DEF Init
<1>3. StableThere /\ BreakpointNeverAhead /\ SweepComplete /\ Covered
  BY DEF Init, StableThere, BreakpointNeverAhead, SweepComplete, Covered
<1>4. ResumePoint /\ SweepOpen /\ DoneBehind /\ TodoAhead
  BY DEF Init, ResumePoint, SweepOpen, DoneBehind, TodoAhead, Running
<1> QED
  BY <1>1, <1>2, <1>3, <1>4 DEF IInv

(* A pass begins (doSync reads the breakpoint). *)
LEMMA StartPassStep ==
    ASSUME IInv, TypeOK', StartPass
    PROVE  IInv'
<1> USE DEF StartPass, history
<1>1. TreeClosed(present)'
  BY DEF IInv, TreeClosed, Reachable
<1>2. StableThere'
  BY DEF IInv, StableThere, Wanted
<1>3. BreakpointNeverAhead'
  BY DEF IInv, BreakpointNeverAhead
<1>4. SweepComplete'
  BY DEF SweepComplete
<1>5. Covered'
  <2> SUFFICES ASSUME NEW f \in stable' PROVE IsPrefix(at', f)
    BY DEF Covered, Pending
  <2>1. f \in Seq(Nat) /\ Root \in Seq(Nat) /\ Len(Root) = 0
    BY PathFacts DEF TypeOK, Root
  <2>2. Len(Root) <= Len(f) /\ \A i \in 1..Len(Root) : Root[i] = f[i]
    BY <2>1
  <2>3. IsPrefix(Root, f)
    BY <2>1, <2>2, PrefixElements
  <2> QED
    BY <2>3
<1>6. ResumePoint'
  BY DEF ResumePoint
<1>7. SweepOpen'
  BY DEF IInv, SweepOpen, Running
<1>8. DoneBehind'
  BY DEF IInv, DoneBehind
<1>9. TodoAhead'
  BY DEF TodoAhead
<1> QED
  BY <1>1, <1>2, <1>3, <1>4, <1>5, <1>6, <1>7, <1>8, <1>9 DEF IInv

(* A directory is listed (fsWalkAndSync). *)
LEMMA ListDirStep ==
    ASSUME IInv, TypeOK', ListDir
    PROVE  IInv'
<1> USE DEF ListDir, history
<1>1. TreeClosed(present)' /\ StableThere' /\ BreakpointNeverAhead' /\ SweepComplete'
  BY DEF IInv, TreeClosed, Reachable, StableThere, Wanted, BreakpointNeverAhead, SweepComplete
<1>2. Covered'
  <2> SUFFICES ASSUME NEW f \in stable, f \notin done PROVE \E e \in todo' : IsPrefix(e, f)
    BY DEF Covered, Pending
  <2>1. CASE \E e \in todo : IsPrefix(e, f)
    BY <2>1
  <2>2. CASE IsPrefix(at, f)
    <3>1. at \in Dirs /\ f \in Files /\ f \in present /\ at \in Seq(Nat) /\ f \in Seq(Nat)
      BY PathFacts DEF IInv, TypeOK, StableThere
    <3>2. Inside(at, f)
      BY <2>2, <3>1 DEF Inside, IsStrictPrefix, Files
    <3> DEFINE c == SubSeq(f, 1, Len(at) + 1)
    <3>3. Len(at) + 1 \in 0..Len(f)
      BY <3>1, <3>2, ChildOnTheWay
    <3>4. Len(c) = Len(at) + 1 /\ Inside(at, c) /\ IsPrefix(c, f)
      BY <3>1, <3>2, ChildOnTheWay
    <3>5. c \in present
      BY <3>1, <3>3 DEF IInv, TreeClosed, Reachable
    <3>6. c \in ChildrenIn(present, at)
      BY <3>4, <3>5 DEF ChildrenIn
    <3> QED
      BY <3>4, <3>6
  <2> QED
    BY <2>1, <2>2 DEF IInv, Covered, Pending
<1>3. ResumePoint' /\ SweepOpen' /\ DoneBehind'
  BY DEF IInv, ResumePoint, SweepOpen, DoneBehind, Running
<1>4. TodoAhead'
  <2> SUFFICES ASSUME fullScan, bp # None, NEW x \in todo' PROVE LexLess(bp, x)
    BY DEF TodoAhead
  <2>1. CASE x \in todo
    BY <2>1 DEF IInv, TodoAhead
  <2>2. CASE x \in ChildrenIn(present, at)
    <3>1. LexLess(bp, at)
      BY DEF IInv, TodoAhead
    <3>2. LexLess(at, x)
      BY <2>2 DEF ChildrenIn, Inside, LexLess
    <3>3. bp \in Seq(Nat) /\ at \in Seq(Nat) /\ x \in Seq(Nat)
      BY PathFacts DEF IInv, TypeOK
    <3> QED
      BY <3>1, <3>2, <3>3, LexTransitive
  <2> QED
    BY <2>1, <2>2
<1> QED
  BY <1>1, <1>2, <1>3, <1>4 DEF IInv

(* A pass that ends early, by an error, a signal or a crash, leaves the    *)
(* breakpoint and what it stands for.                                      *)
LEMMA PassEndsStep ==
    ASSUME IInv, TypeOK', pc' \in {"down", "sleep"}, todo' = {},
           UNCHANGED <<bp, present, history>>
    PROVE  IInv'
<1> USE DEF history, Running
<1>1. TreeClosed(present)' /\ StableThere' /\ BreakpointNeverAhead' /\ SweepComplete'
  BY DEF IInv, TreeClosed, Reachable, StableThere, Wanted, BreakpointNeverAhead, SweepComplete
<1>2. Covered' /\ ResumePoint' /\ SweepOpen' /\ DoneBehind' /\ TodoAhead'
  BY DEF IInv, Covered, ResumePoint, SweepOpen, DoneBehind, TodoAhead
<1> QED
  BY <1>1, <1>2 DEF IInv

(* An entry before the breakpoint is skipped. *)
LEMMA SkipEntryStep ==
    ASSUME OrderAgrees, IInv, TypeOK', NEW e \in todo, SkipEntry(e)
    PROVE  IInv'
<1> USE DEF SkipEntry, history
<1>1. TreeClosed(present)' /\ StableThere' /\ BreakpointNeverAhead' /\ SweepComplete'
  BY DEF IInv, TreeClosed, Reachable, StableThere, Wanted, BreakpointNeverAhead, SweepComplete
<1>2. Covered'
  <2> SUFFICES ASSUME NEW f \in stable, f \notin done PROVE \E x \in todo' : IsPrefix(x, f)
    BY DEF Covered, Pending
  <2>1. PICK x \in todo : IsPrefix(x, f)
    BY DEF IInv, Covered, Pending
  <2>2. CASE x = e /\ e \notin Listed
    <3>1. Wanted(f)
      BY DEF IInv, StableThere
    <3>2. e \in Paths /\ f \in Paths /\ e \in Seq(Nat) /\ f \in Seq(Nat)
      BY PathFacts DEF IInv, TypeOK
    <3>3. Len(e) <= Len(f) /\ SubSeq(f, 1, Len(e)) = e
      BY <2>1, <2>2, <3>2, FullSubSeq DEF IsPrefix
    <3>4. Len(e) = 0
      <4>1. Len(e) \notin 1..Len(f)
        BY <2>2, <3>1, <3>3 DEF Wanted
      <4>2. Len(e) \in Nat /\ Len(f) \in Nat
        BY <3>2
      <4> QED
        BY <3>3, <4>1, <4>2
    <3>5. e # << >> => Len(e) \in Nat \ {0}
      BY <3>2, EmptySeq
    <3>6. e = Root
      BY <3>4, <3>5 DEF Root
    <3> QED
      BY <3>6 DEF IInv, TypeOK
  <2>3. CASE x = e /\ e \in Listed
    BY <2>1, <2>3, SkippedIsDone DEF IInv
  <2>4. CASE x # e
    BY <2>1, <2>4
  <2> QED
    BY <2>2, <2>3, <2>4
<1>3. ResumePoint' /\ SweepOpen' /\ DoneBehind' /\ TodoAhead'
  BY DEF IInv, ResumePoint, SweepOpen, DoneBehind, TodoAhead, Running
<1> QED
  BY <1>1, <1>2, <1>3 DEF IInv

(* The walk goes down into a directory. *)
LEMMA EnterDirStep ==
    ASSUME OrderAgrees, IInv, TypeOK', NEW e \in todo, EnterDir(e)
    PROVE  IInv'
<1> USE DEF EnterDir, history
<1>1. TreeClosed(present)' /\ StableThere' /\ BreakpointNeverAhead' /\ SweepComplete'
  BY DEF IInv, TreeClosed, Reachable, StableThere, Wanted, BreakpointNeverAhead, SweepComplete
<1>2. Covered'
  <2> SUFFICES ASSUME NEW f \in stable, f \notin done
               PROVE  IsPrefix(e, f) \/ \E x \in todo' : IsPrefix(x, f)
    BY DEF Covered, Pending
  <2> QED
    BY DEF IInv, Covered, Pending
<1>3. ResumePoint'
  BY DEF IInv, ResumePoint, ScanAt
<1>4. SweepOpen' /\ DoneBehind'
  BY DEF IInv, SweepOpen, DoneBehind, Running
<1>5. TodoAhead'
  <2> SUFFICES ASSUME ScanAt(e), bp # None
               PROVE  LexLess(bp, e) /\ \A x \in todo \ {e} : LexLess(bp, x)
    BY DEF TodoAhead
  <2>1. LexLess(bp, e)
    <3>1. e # bp
      BY DEF IInv, TypeOK, Files
    <3> QED
      BY <3>1, ScanIsAhead DEF IInv
  <2>2. ASSUME NEW x \in todo \ {e} PROVE LexLess(bp, x)
    <3>1. LexLess(e, x)
      BY DEF IsNext
    <3>2. bp \in Seq(Nat) /\ e \in Seq(Nat) /\ x \in Seq(Nat)
      BY PathFacts DEF IInv, TypeOK
    <3> QED
      BY <2>1, <3>1, <3>2, LexTransitive
  <2> QED
    BY <2>1, <2>2
<1> QED
  BY <1>1, <1>2, <1>3, <1>4, <1>5 DEF IInv

(* The breakpoint moves to a file and the file is begun. *)
LEMMA BeginFileStep ==
    ASSUME OrderAgrees, IInv, TypeOK', NEW e \in todo, BeginFile(e)
    PROVE  IInv'
<1> USE DEF BeginFile, history
<1>1. TreeClosed(present)' /\ StableThere' /\ SweepComplete'
  BY DEF IInv, TreeClosed, Reachable, StableThere, Wanted, SweepComplete
<1>2. BreakpointNeverAhead'
  BY BeforeNextIsDone DEF IInv, BreakpointNeverAhead
<1>3. Covered'
  <2> SUFFICES ASSUME NEW f \in stable, f \notin done
               PROVE  f = e \/ \E x \in todo' : IsPrefix(x, f)
    BY DEF Covered, Pending
  <2>1. PICK x \in todo : IsPrefix(x, f)
    BY DEF IInv, Covered, Pending
  <2>2. CASE x = e
    <3>1. e \in Paths /\ f \in Paths /\ e \notin Dirs
      BY PathFacts DEF IInv, TypeOK, Files
    <3>2. ~Inside(e, f)
      BY <3>1, InsideIsDir
    <3> QED
      BY <2>1, <2>2, <3>2 DEF Inside, IsStrictPrefix
  <2>3. CASE x # e
    BY <2>1, <2>3
  <2> QED
    BY <2>2, <2>3
<1>4. ResumePoint'
  BY DEF ResumePoint
<1>5. SweepOpen'
  BY PathFacts DEF IInv, SweepOpen, Running, None, Root
<1>6. DoneBehind'
  <2> SUFFICES ASSUME NEW f \in done PROVE f = e \/ LexLess(f, e)
    BY DEF DoneBehind
  <2>1. bp # None
    BY DEF IInv, SweepOpen, Running
  <2>2. f = bp \/ LexLess(f, bp)
    BY <2>1 DEF IInv, DoneBehind
  <2>3. e = bp \/ LexLess(bp, e)
    BY <2>1, ScanIsAhead DEF IInv
  <2>4. f \in Seq(Nat) /\ bp \in Seq(Nat) /\ e \in Seq(Nat)
    BY <2>1, PathFacts DEF IInv, TypeOK
  <2> QED
    BY <2>2, <2>3, <2>4, LexTransitive
<1>7. TodoAhead'
  BY DEF TodoAhead, IsNext
<1> QED
  BY <1>1, <1>2, <1>3, <1>4, <1>5, <1>6, <1>7 DEF IInv

(* processSingleFile returns. *)
LEMMA FinishFileStep ==
    ASSUME IInv, TypeOK', FinishFile
    PROVE  IInv'
<1> USE DEF FinishFile
<1>1. TreeClosed(present)' /\ StableThere' /\ BreakpointNeverAhead' /\ SweepComplete'
  BY DEF IInv, TreeClosed, Reachable, StableThere, Wanted, BreakpointNeverAhead, SweepComplete
<1>2. Covered'
  BY DEF IInv, Covered, Pending
<1>3. ResumePoint' /\ DoneBehind' /\ TodoAhead'
  BY DEF IInv, ResumePoint, DoneBehind, TodoAhead
<1>4. SweepOpen'
  BY PathFacts DEF IInv, SweepOpen, ResumePoint, TypeOK, Running, None, Root
<1> QED
  BY <1>1, <1>2, <1>3, <1>4 DEF IInv

(* The walk is over. *)
LEMMA WalkReturnsStep ==
    ASSUME IInv, TypeOK', WalkReturns
    PROVE  IInv'
<1> USE DEF WalkReturns, history
<1>1. TreeClosed(present)' /\ StableThere' /\ BreakpointNeverAhead'
  BY DEF IInv, TreeClosed, Reachable, StableThere, Wanted, BreakpointNeverAhead
<1>2. SweepComplete'
  BY DEF IInv, SweepComplete, Covered, Pending
<1>3. Covered' /\ ResumePoint' /\ SweepOpen' /\ DoneBehind' /\ TodoAhead'
  BY DEF IInv, Covered, ResumePoint, SweepOpen, DoneBehind, TodoAhead, Running
<1> QED
  BY <1>1, <1>2, <1>3 DEF IInv

(* The end of doSync clears the breakpoint. *)
LEMMA ClearBreakpointStep ==
    ASSUME IInv, TypeOK', ClearBreakpoint
    PROVE  IInv'
<1> USE DEF ClearBreakpoint, AfterPass
<1>1. TreeClosed(present)' /\ StableThere' /\ BreakpointNeverAhead' /\ SweepComplete'
  BY DEF IInv, TreeClosed, Reachable, StableThere, Wanted, BreakpointNeverAhead, SweepComplete
<1>2. Covered' /\ ResumePoint' /\ SweepOpen' /\ DoneBehind' /\ TodoAhead'
  BY DEF IInv, Covered, ResumePoint, SweepOpen, DoneBehind, TodoAhead, Running
<1> QED
  BY <1>1, <1>2 DEF IInv

(* The source side changes under the walk.                                 *)
LEMMA CreateStep ==
    ASSUME IInv, TypeOK', NEW p \in Paths, Create(p)
    PROVE  IInv'
<1> USE DEF Create, memory, history
<1>1. TreeClosed(present)'
  BY CreateKeepsClosed DEF IInv, TypeOK
<1>2. StableThere' /\ BreakpointNeverAhead' /\ SweepComplete'
  BY DEF IInv, StableThere, Wanted, BreakpointNeverAhead, SweepComplete
<1>3. Covered' /\ ResumePoint' /\ SweepOpen' /\ DoneBehind' /\ TodoAhead'
  BY DEF IInv, Covered, Pending, ResumePoint, SweepOpen, DoneBehind, TodoAhead
<1> QED
  BY <1>1, <1>2, <1>3 DEF IInv

(* A file or directory of the source disappears. *)
LEMMA DeleteStep ==
    ASSUME IInv, TypeOK', NEW p \in Paths, Delete(p)
    PROVE  IInv'
<1> USE DEF Delete, memory
<1>1. TreeClosed(present)'
  BY DeleteKeepsClosed DEF IInv, TypeOK
<1>2. StableThere' /\ BreakpointNeverAhead' /\ SweepComplete'
  BY DEF IInv, StableThere, Wanted, BreakpointNeverAhead, SweepComplete
<1>3. Covered' /\ ResumePoint' /\ SweepOpen' /\ DoneBehind' /\ TodoAhead'
  BY DEF IInv, Covered, Pending, ResumePoint, SweepOpen, DoneBehind, TodoAhead
<1> QED
  BY <1>1, <1>2, <1>3 DEF IInv

(* A step that changes only counters and the ctx. *)
LEMMA IdleStep ==
    ASSUME IInv, TypeOK',
           UNCHANGED <<pc, at, todo, fullScan, passBp, bp, present, history>>
    PROVE  IInv'
<1> USE DEF history
<1>1. TreeClosed(present)' /\ StableThere' /\ BreakpointNeverAhead' /\ SweepComplete'
  BY DEF IInv, TreeClosed, Reachable, StableThere, Wanted, BreakpointNeverAhead, SweepComplete
<1>2. Covered' /\ ResumePoint' /\ SweepOpen' /\ DoneBehind' /\ TodoAhead'
  BY DEF IInv, Covered, Pending, ResumePoint, SweepOpen, DoneBehind, TodoAhead
<1> QED
  BY <1>1, <1>2 DEF IInv

(* Each step keeps the invariant. *)
LEMMA IInvStep ==
    ASSUME OrderAgrees, IInv, [Next]_vars
    PROVE  IInv'
<1> USE DEF memory, history
<1>1. TypeOK'
  BY TypeStep DEF IInv
<1>2. CASE StartPass
  BY <1>1, <1>2, StartPassStep
<1>3. CASE ListDir
  BY <1>1, <1>3, ListDirStep
<1>4. CASE ListFails
  <2>1. pc' \in {"down", "sleep"} /\ todo' = {} /\ UNCHANGED <<bp, present, history>>
    BY <1>4 DEF ListFails, AfterPass
  <2> QED
    BY <1>1, <2>1, PassEndsStep
<1>5. CASE WalkReturns
  BY <1>1, <1>5, WalkReturnsStep
<1>6. CASE ClearBreakpoint
  BY <1>1, <1>6, ClearBreakpointStep
<1>7. CASE FinishFile
  BY <1>1, <1>7, FinishFileStep
<1>8. ASSUME NEW e \in todo, SkipEntry(e) PROVE IInv'
  BY <1>1, <1>8, SkipEntryStep
<1>9. ASSUME NEW e \in todo, EnterDir(e) PROVE IInv'
  BY <1>1, <1>9, EnterDirStep
<1>10. ASSUME NEW e \in todo, BeginFile(e) PROVE IInv'
  BY <1>1, <1>10, BeginFileStep
<1>11. CASE Signal
  <2>1. UNCHANGED <<pc, at, todo, fullScan, passBp, bp, present, history>>
    BY <1>11 DEF Signal
  <2> QED
    BY <1>1, <2>1, IdleStep
<1>12. CASE ExitAfterSignal \/ Crash
  <2>1. pc' \in {"down", "sleep"} /\ todo' = {} /\ UNCHANGED <<bp, present, history>>
    BY <1>12 DEF ExitAfterSignal, Crash, Down
  <2> QED
    BY <1>1, <2>1, PassEndsStep
<1>13. CASE Restart
  <2>1. pc' \in {"down", "sleep"} /\ UNCHANGED <<bp, present, history>>
    BY <1>13 DEF Restart
  <2>2. Covered' /\ ResumePoint' /\ SweepOpen' /\ DoneBehind' /\ TodoAhead' /\ SweepComplete'
    BY <1>13 DEF Restart, IInv, Covered, ResumePoint, SweepOpen, DoneBehind, TodoAhead,
                 SweepComplete, Running
  <2>3. TreeClosed(present)' /\ StableThere' /\ BreakpointNeverAhead'
    BY <2>1 DEF IInv, TreeClosed, Reachable, StableThere, Wanted, BreakpointNeverAhead
  <2> QED
    BY <1>1, <2>2, <2>3 DEF IInv
<1>14. ASSUME NEW p \in Paths, Create(p) PROVE IInv'
  BY <1>1, <1>14, CreateStep
<1>15. ASSUME NEW p \in Paths, Delete(p) PROVE IInv'
  BY <1>1, <1>15, DeleteStep
<1>16. CASE UNCHANGED vars
  <2>1. UNCHANGED <<pc, at, todo, fullScan, passBp, bp, present, history>>
    BY <1>16 DEF vars
  <2> QED
    BY <1>1, <2>1, IdleStep
<1> QED
  BY <1>2, <1>3, <1>4, <1>5, <1>6, <1>7, <1>8, <1>9, <1>10, <1>11, <1>12,
     <1>13, <1>14, <1>15, <1>16 DEF Next, Walker, Outside

(* The inductive invariant holds on every behaviour of the walker, when    *)
(* the string order of paths agrees with the walk.                         *)
THEOREM Invariance == OrderAgrees => (Spec => []IInv)
<1> SUFFICES ASSUME OrderAgrees PROVE Spec => []IInv
  OBVIOUS
<1>1. Init => IInv
  BY IInvInit
<1>2. IInv /\ [Next]_vars => IInv'
  BY IInvStep
<1> QED
  BY <1>1, <1>2, PTL DEF Spec
-----------------------------------------------------------------------------
(***************************************************************************)
(* What the walker guarantees.                                             *)
(***************************************************************************)

(* Resuming at the persisted breakpoint loses no file: what lies before it *)
(* has been attempted in this sweep.                                       *)
THEOREM NothingLostBehindBreakpoint == OrderAgrees => (Spec => []BreakpointNeverAhead)
<1>1. IInv => BreakpointNeverAhead
  BY DEF IInv
<1> QED
  BY <1>1, Invariance, PTL

(* A pass that is about to clear the breakpoint has completed the sweep.   *)
THEOREM ClearedOnlyWhenComplete == OrderAgrees => (Spec => []SweepComplete)
<1>1. IInv => SweepComplete
  BY DEF IInv
<1> QED
  BY <1>1, Invariance, PTL

(* The facts about one step of BeginFile that both action properties use.  *)
LEMMA BeginFileAhead ==
    ASSUME OrderAgrees, IInv, NEW e \in todo, BeginFile(e), bp # None
    PROVE  /\ e = bp \/ LexLess(bp, e)
           /\ e \in done => e = bp
<1>1. e = bp \/ LexLess(bp, e)
  BY ScanIsAhead DEF IInv, BeginFile
<1>2. e \in done => e = bp \/ LexLess(e, bp)
  BY DEF IInv, DoneBehind
<1>3. e \in Seq(Nat) /\ bp \in Seq(Nat)
  BY PathFacts DEF IInv, TypeOK
<1>4. LexLess(bp, e) => ~LexLess(e, bp)
  BY <1>3, LexTransitive, LexIrreflexive
<1> QED
  BY <1>1, <1>2, <1>4

(* Only BeginFile begins a file or moves the breakpoint on. *)
LEMMA OnlyBeginFileMovesOn ==
    ASSUME IInv, [Next]_vars
    PROVE  /\ pc = "walk" /\ pc' = "upload" => \E e \in todo : BeginFile(e) /\ at' = e
           /\ bp' # bp /\ bp' # None => \E e \in todo : BeginFile(e) /\ bp' = e
BY DEF Next, Walker, Outside, StartPass, ListDir, ListFails, WalkReturns, ClearBreakpoint,
       FinishFile, SkipEntry, EnterDir, BeginFile, Signal, ExitAfterSignal, Crash, Down,
       Restart, Create, Delete, AfterPass, vars, memory, history

(* After a restart only the file of the breakpoint is processed again.     *)
THEOREM RedoIsBounded == OrderAgrees => (Spec => RedoOnlyBreakpoint)
<1> SUFFICES ASSUME OrderAgrees PROVE Spec => RedoOnlyBreakpoint
  OBVIOUS
<1>1. ASSUME IInv, [Next]_vars
      PROVE  \A f \in done : (pc = "walk" /\ pc' = "upload" /\ at' = f) => f = bp
  <2> SUFFICES ASSUME NEW f \in done, pc = "walk", pc' = "upload", at' = f PROVE f = bp
    OBVIOUS
  <2>1. f \in todo /\ BeginFile(f)
    BY <1>1, OnlyBeginFileMovesOn
  <2>2. bp # None
    BY <1>1 DEF IInv, SweepOpen, Running
  <2> QED
    BY <1>1, <2>1, <2>2, BeginFileAhead
<1> QED
  BY <1>1, Invariance, PTL DEF Spec, RedoOnlyBreakpoint

(* The breakpoint moves forward in walk order until it is cleared.         *)
THEOREM BreakpointMonotone == OrderAgrees => (Spec => BreakpointMovesForward)
<1> SUFFICES ASSUME OrderAgrees PROVE Spec => BreakpointMovesForward
  OBVIOUS
<1>1. ASSUME IInv, [Next]_vars
      PROVE  bp' # bp /\ bp # None /\ bp' # None => LexLess(bp, bp')
  BY <1>1, OnlyBeginFileMovesOn, BeginFileAhead
<1> QED
  BY <1>1, Invariance, PTL DEF Spec, BreakpointMovesForward

(* The walker implements Sweep: it closes a sweep only when nothing is     *)
(* owed and never starts over a sweep that has settled a file.             *)
THEOREM WalkerKeepsPromise == OrderAgrees => (Spec => SweepPromise)
<1> SUFFICES ASSUME OrderAgrees PROVE Spec => Promise!Spec
  BY DEF SweepPromise
<1>1. Init => Promise!Init
  BY DEF Init, Promise!Init
<1>2. ASSUME IInv, [Next]_vars
      PROVE  [Promise!Next]_(Promise!vars)
  <2> USE DEF memory, history, Promise!vars
  <2>1. CASE StartPass
    <3>1. CASE bp = None
      BY <1>2, <2>1, <3>1 DEF StartPass, IInv, SweepOpen, Promise!Next, Promise!Open
    <3>2. CASE bp # None
      BY <2>1, <3>2 DEF StartPass
    <3> QED
      BY <3>1, <3>2
  <2>2. CASE FinishFile
    <3>1. at \in Files /\ open
      BY <1>2, <2>2 DEF IInv, TypeOK, SweepOpen, FinishFile, Running
    <3>2. Promise!Settle(at)
      BY <2>2, <3>1 DEF FinishFile, Promise!Settle
    <3> QED
      BY <3>1, <3>2 DEF Promise!Next
  <2>3. CASE ClearBreakpoint
    BY <1>2, <2>3 DEF ClearBreakpoint, IInv, SweepComplete, SweepOpen, Running,
                      Promise!Next, Promise!Close
  <2>4. ASSUME NEW p \in Paths, Delete(p) PROVE [Promise!Next]_(Promise!vars)
    <3>1. (stable \ done)' \in SUBSET (stable \ done)
      BY <2>4 DEF Delete
    <3> QED
      BY <2>4, <3>1 DEF Delete, Promise!Next, Promise!Forget
  <2>5. CASE UNCHANGED <<open, stable, done>>
    BY <2>5
  <2> QED
    BY <1>2, <2>1, <2>2, <2>3, <2>4, <2>5
       DEF Next, Walker, Outside, ListDir, ListFails, WalkReturns, SkipEntry, EnterDir, BeginFile,
           Signal, ExitAfterSignal, Crash, Down, Restart, Create, vars
<1> QED
  BY <1>1, <1>2, Invariance, PTL DEF Spec, Promise!Spec
=============================================================================
