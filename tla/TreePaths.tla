----------------------------- MODULE TreePaths -----------------------------
(***************************************************************************)
(* The mounted tree as the walker of drivers/aliyun_to_115 sees it: paths, *)
(* the order in which sort.Slice and the recursion visit them, and the     *)
(* order in which Go compares two full paths as strings.                   *)
(*                                                                         *)
(* A path is a sequence of names and a name is its rank in byte order      *)
(* among all names, so that the depth-first order of the walk is the       *)
(* lexicographic order on paths.  Spell gives the bytes of a name; the     *)
(* resume test of the walker compares spelled paths, in which '/' is a     *)
(* byte like any other.                                                    *)
(***************************************************************************)
EXTENDS Integers, Sequences, SequencesExt

CONSTANTS
    Paths,   \* every path that may exist during a behaviour
    Dirs,    \* the paths that are directories
    Spell    \* Spell[n]: the bytes of the name of rank n

Root  == << >>
Files == Paths \ Dirs

(* The byte '/'. *)
Slash == 47

LexLess(s, t) ==
    \/ IsStrictPrefix(s, t)
    \/ \E i \in 1..Len(s) :
          /\ i <= Len(t)
          /\ s[i] < t[i]
          /\ \A j \in 1..(i - 1) : s[j] = t[j]

(* The full path as a string of bytes, without a trailing slash. *)
Str(p) == FlattenSeq([i \in 1..Len(p) |-> <<Slash>> \o Spell[p[i]]])

StrLess(p, q) == LexLess(Str(p), Str(q))

(* p is in the directory d, at any depth. *)
Inside(d, p) == IsStrictPrefix(d, p)

ChildrenIn(present, d) == {p \in present : Len(p) = Len(d) + 1 /\ Inside(d, p)}

ASSUME TreeAssumption ==
    /\ Paths \subseteq Seq(Nat)
    /\ Dirs \subseteq Paths
    /\ Root \in Dirs
    /\ \A p \in Paths : \A n \in 0..(Len(p) - 1) : SubSeq(p, 1, n) \in Dirs

(* Ranks are the byte order of the names: files[i].GetName() < ...         *)
ASSUME SpellAssumption ==
    \A m, n \in DOMAIN Spell : m < n <=> LexLess(Spell[m], Spell[n])

(* What the comment in the walker takes for granted: an entry compares     *)
(* with the breakpoint as a string the way the walk orders them.  It holds *)
(* when no name that extends another goes on with a byte below '/'.        *)
OrderAgrees == \A p, q \in Paths : StrLess(p, q) <=> LexLess(p, q)
=============================================================================
