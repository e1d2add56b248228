------------------------------ MODULE DirCache ------------------------------
(***************************************************************************)
(* The directory cache of one mount (src/internal/op/cache.go,             *)
(* src/internal/cache/keyed_cache.go) and the operations of                *)
(* src/internal/op/fs.go that read and update it while listings of the     *)
(* same directories are under way (src/pkg/singleflight).                  *)
(*                                                                         *)
(* The driver has no Get of its own (neither has 115), so an object is     *)
(* looked up in the listing of its parent and handed to the driver, which  *)
(* knows it by its id and acts on it wherever it is by then.  The entry of *)
(* a listing that nothing has put in doubt leads to the object at its      *)
(* path; one of another listing may lead to any object or to none.  Which  *)
(* listings under way and which calls have been led astray is kept in      *)
(* crossed and in the field lost; ids are not.                             *)
(*                                                                         *)
(* A listing is the sequence of entries the driver returned; an entry an   *)
(* operation adds is temporary when the driver did not return the new      *)
(* object.  The storage holds one object at a path.                        *)
(***************************************************************************)
EXTENDS Naturals, Sequences, FiniteSets

CONSTANTS
    Paths,      \* the paths an object of the storage may have
    Dirs,       \* those of them that are directories
    Stored,     \* the paths of the objects that exist at first
    Calls,      \* the callers of the operations
    Returned,   \* whether the driver returns the objects it creates: a set of BOOLEANs
    MaxListings,\* bound on the listings under way at a time
    MaxBegun    \* bound on the operations that begin

(* The names that paths are made of. *)
Names == UNION {{p[i] : i \in DOMAIN p} : p \in Paths}

(* Paths form a tree, and so do the objects that exist at first. *)
ASSUME CacheAssumption ==
    /\ IsFiniteSet(Paths) /\ Paths \subseteq Seq(Names)
    /\ Dirs \subseteq Paths
    /\ \A p \in Paths : \A n \in 0 .. Len(p) - 1 : SubSeq(p, 1, n) \in Dirs
    /\ <<>> \in Stored /\ Stored \subseteq Paths
    /\ \A p \in Stored : \A n \in 0 .. Len(p) - 1 : SubSeq(p, 1, n) \in Stored
    /\ Returned \subseteq BOOLEAN
    /\ MaxListings \in Nat \ {0} /\ MaxBegun \in Nat

VARIABLES
    store,   \* the paths of the objects the storage holds
    cached,  \* directory -> its entry in dirCache
    flight,  \* directory -> the listing under way in listG, with its answer
    call,    \* caller -> the operation it performs and where it stands
    begun,   \* history: operations that have begun
    crossed, \* listings under way that a change has overtaken, or that may be of another directory
    doubted  \* cached listings a race or an unreached tree may have falsified

cacheVars == <<store, cached, flight, call, begun, crossed, doubted>>
-----------------------------------------------------------------------------
Name(p) == p[Len(p)]
Parent(p) == SubSeq(p, 1, Len(p) - 1)
Below(k) == {p \in Paths : Len(p) >= Len(k) /\ SubSeq(p, 1, Len(k)) = k}
Children(d) == {p \in store : p # <<>> /\ Parent(p) = d}

Entries == [name : {Name(p) : p \in Paths \ {<<>>}}, temp : BOOLEAN]
Entry(p, t) == [name |-> Name(p), temp |-> t]

Absent == [in |-> FALSE, objs |-> <<>>]
Present(objs) == [in |-> TRUE, objs |-> objs]
NoFlight == [on |-> FALSE, ok |-> FALSE, objs |-> <<>>]
Idle == [op |-> "none", path |-> <<>>, new |-> <<>>, pc |-> "idle", lost |-> FALSE]

(* The files a driver returns for a directory: each object once. *)
Listing(d) ==
    CHOOSE s \in [1 .. Cardinality(Children(d)) -> {Entry(p, FALSE) : p \in Children(d)}] :
        \A p \in Children(d) : \E i \in DOMAIN s : s[i] = Entry(p, FALSE)

Named(objs, n) == {i \in DOMAIN objs : objs[i].name = n}
First(objs, n) == CHOOSE i \in Named(objs, n) : \A j \in Named(objs, n) : i <= j

(* dc.RemoveObject: the first entry of the name goes. *)
RemoveObject(objs, n) ==
    IF Named(objs, n) = {} THEN objs
    ELSE LET i == First(objs, n)
         IN  SubSeq(objs, 1, i - 1) \o SubSeq(objs, i + 1, Len(objs))

(* dc.UpdateObject: the first entry of the old name is replaced, or the new *)
(* entry is appended. *)
UpdateObject(objs, old, e) ==
    IF Named(objs, old) = {} THEN Append(objs, e)
    ELSE [objs EXCEPT ![First(objs, old)] = e]

(* deleteDirectoryTree: the directories reached from k through listings     *)
(* that are cached themselves. *)
Reached(C, k) ==
    {d \in Dirs \cap Below(k) :
        \A i \in Len(k) .. Len(d) - 1 :
            LET up == C[SubSeq(d, 1, i)]
            IN  up.in /\ Named(up.objs, d[i + 1]) # {}}

(* Mutant: the entry goes but the tree below it stays. *)
DeleteTreeNot(C, k) == C

DeleteTree(C, k) == [d \in Dirs |-> IF d \in Reached(C, k) THEN Absent ELSE C[d]]

-----------------------------------------------------------------------------
(* The directories whose listing an operation disturbs. *)
Touched(k) ==
    Dirs \cap ({Parent(k.path), Parent(k.new)} \cup Below(k.path) \cup Below(k.new))

Updating(c) == call[c].pc \in {"update", "update2"}

(* Operations that have changed the storage and not yet the cache of d. *)
Pending(d) == {c \in Calls : Updating(c) /\ d \in Touched(call[c])}

Cached(C) == {d \in Dirs : C[d].in}

(* The listing of d is cached and may not be what d holds, so that one of   *)
(* its entries may lead to an object that is elsewhere or gone. *)
Stale(d) == cached[d].in /\ (d \in doubted \/ Pending(d) # {})

(* Whether a lookup of the directory d finds one, and whether it may be     *)
(* another. *)
Finds(d) ==
    d # <<>> =>
        LET up == cached[Parent(d)]
        IN  IF up.in THEN \E i \in Named(up.objs, Name(d)) : ~up.objs[i].temp ELSE d \in store
Astray(d) == d # <<>> /\ Stale(Parent(d))

CacheInit ==
    /\ store = Stored
    /\ cached = [d \in Dirs |-> Absent]
    /\ flight = [d \in Dirs |-> NoFlight]
    /\ call = [c \in Calls |-> Idle]
    /\ begun = 0 /\ crossed = {} /\ doubted = {}

(* What a caller may ask of a storage. *)
Operations == {"makedir", "remove", "move", "rename", "copy", "put"}

(* What an operation may be asked to do. *)
Sensible(k) ==
    /\ k.op \in Operations /\ k.path # <<>> /\ k.new # <<>>
    /\ (k.new \in Dirs) = (k.path \in Dirs)
    /\ k.op \in {"move", "copy"} => Parent(k.new) # Parent(k.path) /\ Name(k.new) = Name(k.path)
    /\ k.op = "rename" => Parent(k.new) = Parent(k.path) /\ k.new # k.path
    /\ k.op \in {"makedir", "remove", "put"} => k.new = k.path
    /\ k.op = "makedir" => k.path \in Dirs
    /\ k.op = "put" => k.path \notin Dirs
    /\ k.new \in Below(k.path) => k.new = k.path

(* The operations that put something into a directory: it is looked up last. *)
Giving == {"makedir", "put", "move", "copy"}

(* A call begins.  A second MakeDir of the same path joins the first in     *)
(* mkdirG and is no call of its own.  A Put that finds an empty object      *)
(* under its name removes it, or renames one out of the way, by a call of   *)
(* its own before this one. *)
Begin(c, op, p, q) ==
    LET k == [op |-> op, path |-> p, new |-> q, lost |-> FALSE,
              pc |-> IF op = "put" THEN "target" ELSE "find"]
    IN  /\ call[c].pc = "idle"
        /\ begun < MaxBegun /\ begun' = begun + 1
        /\ Sensible(k)
        /\ op = "makedir" => \A c2 \in Calls : call[c2].op = op => call[c2].path # p
        /\ call' = [call EXCEPT ![c] = k]
        /\ UNCHANGED <<store, cached, flight, crossed, doubted>>

(* What a lookup leads to: MakeDir goes on when there is nothing, the other *)
(* operations when there is something, maybe not the object at the path. *)
After(k, found, lost) ==
    IF found = (k.op = "makedir") THEN Idle
    ELSE [k EXCEPT !.pc = IF k.op \in Giving THEN "target" ELSE "driver", !.lost = lost]

(* Temporary entries do not count for the operations that need the real     *)
(* object (excludeTemp). *)
Counts(k, e) == k.op = "makedir" \/ ~e.temp

(* Mutant: a temporary entry that does not count is taken for none. *)
LookUpNoRefresh(c) ==
    LET k == call[c]
        d == Parent(k.path)
        found == \E i \in Named(cached[d].objs, Name(k.path)) : Counts(k, cached[d].objs[i])
    IN  /\ k.pc = "find" /\ cached[d].in
        /\ call' = [call EXCEPT ![c] = After(k, found, Stale(d))]
        /\ UNCHANGED <<store, cached, flight, begun, crossed, doubted>>

(* Get: the parent's listing is cached and has the name (which of two       *)
(* entries of one name comes first is up to the sort), or has not. *)
LookUp(c) ==
    LET k == call[c]
        d == Parent(k.path)
        objs == cached[d].objs
    IN  /\ k.pc = "find" /\ cached[d].in
        /\ \/ \E i \in Named(objs, Name(k.path)) :
                Counts(k, objs[i]) /\ call' = [call EXCEPT ![c] = After(k, TRUE, Stale(d))]
           \/ Named(objs, Name(k.path)) = {} /\ call' = [call EXCEPT ![c] = After(k, FALSE, FALSE)]
        /\ UNCHANGED <<store, cached, flight, begun, crossed, doubted>>

(* The directory is looked up and storage.List asked for it: it answers, or *)
(* fails, by a fault or because there is no such directory.  The answer is  *)
(* on its way until ListEnd. *)
Ask(d, ok) ==
    /\ Cardinality({d2 \in Dirs : flight[d2].on}) < MaxListings
    /\ ok => Finds(d)
    /\ flight' = [flight EXCEPT ![d] = [on |-> TRUE, ok |-> ok,
                                        objs |-> IF ok THEN Listing(d) ELSE <<>>]]
    /\ crossed' = IF Astray(d) THEN crossed \cup {d} ELSE crossed

(* Get: the listing is not cached, or shows a temporary entry where the     *)
(* real object is needed: the caller lists, or joins the listing under way. *)
LookUpByList(c) ==
    LET k == call[c]
        d == Parent(k.path)
    IN  /\ k.pc = "find"
        /\ cached[d].in => \E i \in Named(cached[d].objs, Name(k.path)) : ~Counts(k, cached[d].objs[i])
        /\ call' = [call EXCEPT ![c].pc = "wait"]
        /\ \/ flight[d].on /\ UNCHANGED <<flight, crossed>>
           \/ ~flight[d].on /\ \E ok \in BOOLEAN : Ask(d, ok)
        /\ UNCHANGED <<store, cached, begun, doubted>>

(* A user lists a directory, or a lookup does on its way down. *)
ListBegin(d) ==
    /\ ~flight[d].on
    /\ \E ok \in BOOLEAN : Ask(d, ok)
    /\ UNCHANGED <<store, cached, call, begun, doubted>>

(* The cache takes the answer: an empty one deletes the tree. *)
Filled(C, d, objs) ==
    IF objs = <<>> THEN DeleteTree(C, d) ELSE [C EXCEPT ![d] = Present(objs)]

(* The callers the answer of a listing reaches. *)
Woken(d) == {c \in Calls : call[c].pc = "wait" /\ Parent(call[c].path) = d}

(* What a listing may have brought: one that was crossed may be that of     *)
(* another directory, or of none (115 lists a directory that is gone as an  *)
(* empty one). *)
Answers(d) ==
    {flight[d].objs} \cup
        (IF flight[d].ok /\ d \in crossed THEN {Listing(e) : e \in Dirs} ELSE {})

(* The listing ends.  Get drops its error: a listing that failed counts as  *)
(* one without the name. *)
ListEnd(d) ==
    LET f == flight[d]
    IN  /\ f.on
        /\ flight' = [flight EXCEPT ![d] = NoFlight]
        /\ \E objs \in Answers(d) :
            /\ cached' = IF f.ok THEN Filled(cached, d, objs) ELSE cached
            /\ call' = [c \in Calls |->
                IF c \in Woken(d)
                THEN After(call[c], Named(objs, Name(call[c].path)) # {}, d \in crossed)
                ELSE call[c]]
        /\ crossed' = crossed \ {d}
        /\ doubted' = Cached(cached') \cap
                        (IF ~f.ok THEN doubted
                         ELSE IF d \in crossed \/ Pending(d) # {} THEN doubted \cup {d}
                         ELSE doubted \ {d})
        /\ UNCHANGED <<store, begun>>

(* The directory that is to receive something is looked up. *)
FindTarget(c) ==
    LET k == call[c]
        d == Parent(k.new)
    IN  /\ k.pc = "target" /\ Finds(d)
        /\ call' = [call EXCEPT ![c] = [k EXCEPT !.pc = "driver", !.lost = @ \/ Astray(d)]]
        /\ UNCHANGED <<store, cached, flight, begun, crossed, doubted>>

(* The storage after an operation: the tree at a path goes, comes or        *)
(* appears a second time. *)
Moved(k, p) == k.new \o SubSeq(p, Len(k.path) + 1, Len(p))
Tree(k) == store \cap Below(k.path)

Accepts(k) ==
    /\ k.op \notin {"makedir", "put"} => k.path \in store
    /\ k.op \notin {"remove", "put"} => k.new \notin store
    /\ k.op # "remove" => Parent(k.new) \in store
    /\ k.op \in {"move", "rename", "copy"} => \A p \in Tree(k) : Moved(k, p) \in Paths

Changed(k) ==
    (IF k.op \in {"remove", "move", "rename"} THEN store \ Tree(k) ELSE store)
        \cup (CASE k.op = "remove" -> {}
                [] k.op \in {"makedir", "put"} -> {k.new}
                [] OTHER -> {Moved(k, p) : p \in Tree(k)})

(* A call that comes to its driver may act as j: its objects are at their   *)
(* paths, unless one of them was found in a stale listing or has been taken *)
(* away since. *)
MayActAs(k, j) ==
    IF ~k.lost THEN j = k
    ELSE /\ Sensible(j)
         /\ (j.path \in Dirs) = (k.path \in Dirs)
         /\ k.op \notin {"move", "copy"} => j.op = "remove" \/ Name(j.new) = Name(k.new)

(* The objects a call has looked up for its driver, and those that are not  *)
(* at their paths any more after an operation. *)
Held(k) ==
    (IF k.pc \in {"target", "driver"} /\ k.op \notin {"makedir", "put"} THEN {k.path} ELSE {})
        \cup (IF k.pc = "driver" /\ k.op \in Giving THEN {Parent(k.new)} ELSE {})
Displaced(k) == IF k.op \in {"remove", "move", "rename"} THEN Below(k.path) ELSE {k.new}

(* The driver performs the operation; asked for an object that is gone it   *)
(* may also answer without an error and do nothing.  When its objects were  *)
(* not at their paths, the listings it has changed and those the call is    *)
(* going to update are in doubt. *)
Driver(c) ==
    LET k == call[c]
    IN  /\ k.pc = "driver"
        /\ \E p, q \in Paths :
            LET j == [k EXCEPT !.path = p, !.new = q]
                astray == j # k \/ ~Accepts(j)
            IN  /\ MayActAs(k, j)
                /\ Accepts(j) \/ k.lost
                /\ store' = IF Accepts(j) THEN Changed(j) ELSE store
                /\ call' = [b \in Calls |->
                    IF b = c THEN [k EXCEPT !.pc = "update", !.lost = astray]
                    ELSE IF Held(call[b]) \cap Displaced(j) # {} THEN [call[b] EXCEPT !.lost = TRUE]
                    ELSE call[b]]
                /\ crossed' = crossed \cup {d \in Touched(j) : flight[d].on}
                /\ doubted' = IF astray
                              THEN doubted \cup (Cached(cached) \cap (Touched(j) \cup Touched(k)))
                              ELSE doubted
        /\ UNCHANGED <<cached, flight, begun>>

(* A directory is not found, or the driver refuses or fails: the cache is   *)
(* left alone. *)
DriverFails(c) ==
    /\ call[c].pc \in {"target", "driver"}
    /\ call' = [call EXCEPT ![c] = Idle]
    /\ UNCHANGED <<store, cached, flight, begun, crossed, doubted>>

(* The entry of k.path leaves the cache (Move, and Remove through           *)
(* removeDirectoryObject). *)
Forget(C, k) ==
    LET d == Parent(k.path)
        T == IF k.path \in Dirs THEN DeleteTree(C, k.path) ELSE C
    IN  IF ~C[d].in THEN C
        ELSE [T EXCEPT ![d].objs = RemoveObject(@, Name(k.path))]

(* The entry of k.new enters the cache in the place the operation gives it: *)
(* MakeDir appends, Rename replaces the old name, the others their own. *)
Remember(C, k, t) ==
    LET d == Parent(k.new)
        T == IF k.op = "rename" /\ k.path \in Dirs THEN DeleteTree(C, k.path) ELSE C
    IN  IF ~C[d].in THEN C
        ELSE IF k.op = "makedir" THEN [C EXCEPT ![d].objs = Append(@, Entry(k.new, t))]
        ELSE [T EXCEPT ![d].objs = UpdateObject(@, Name(k.path), Entry(k.new, t))]

(* Listings left behind by an operation on a tree: cached below the path,   *)
(* and not reached from it. *)
LeftBehind(C, k) ==
    IF k.path \in Dirs /\ k.op \in {"remove", "move", "rename"} /\ k.pc = "update"
    THEN {d \in Cached(C) \cap Below(k.path) :
            C[Parent(k.path)].in => d \notin Reached(C, k.path)}
    ELSE {}

Doubt(c) ==
    doubted' = Cached(cached') \cap
        (doubted \cup LeftBehind(cached, call[c])
                 \cup {d \in Touched(call[c]) : Pending(d) # {c}})

(* The operation updates the cache: first the directory it took from... *)
UpdateSource(c) ==
    LET k == call[c]
    IN  /\ k.pc = "update" /\ k.op \in {"remove", "move"}
        /\ cached' = Forget(cached, k)
        /\ call' = [call EXCEPT ![c] = IF k.op = "move" THEN [k EXCEPT !.pc = "update2"] ELSE Idle]
        /\ Doubt(c)
        /\ UNCHANGED <<store, flight, begun, crossed>>

(* ... then the one it gave to; the entry is temporary when the driver did  *)
(* not return the new object. *)
UpdateTarget(c) ==
    LET k == call[c]
    IN  /\ \/ k.pc = "update" /\ k.op \notin {"remove", "move"}
           \/ k.pc = "update2"
        /\ \E r \in Returned : cached' = Remember(cached, k, ~r)
        /\ call' = [call EXCEPT ![c] = Idle]
        /\ Doubt(c)
        /\ UNCHANGED <<store, flight, begun, crossed>>

(* An entry's time is up (KeyedCache.Get, GC). *)
Expire(d) ==
    /\ cached[d].in
    /\ cached' = [cached EXCEPT ![d] = Absent]
    /\ doubted' = doubted \ {d}
    /\ UNCHANGED <<store, flight, call, begun, crossed>>

CacheNext ==
    \/ \E c \in Calls, op \in Operations, p, q \in Paths : Begin(c, op, p, q)
    \/ \E c \in Calls : LookUp(c)
    \/ \E c \in Calls : LookUpByList(c)
    \/ \E c \in Calls : FindTarget(c)
    \/ \E c \in Calls : Driver(c)
    \/ \E c \in Calls : DriverFails(c)
    \/ \E c \in Calls : UpdateSource(c)
    \/ \E c \in Calls : UpdateTarget(c)
    \/ \E d \in Dirs : ListBegin(d)
    \/ \E d \in Dirs : ListEnd(d)
    \/ \E d \in Dirs : Expire(d)

CacheSpec == CacheInit /\ [][CacheNext]_cacheVars
-----------------------------------------------------------------------------
(* The types of the variables, and what ties them together: a caller waits  *)
(* only for a listing that is under way (singleflight.Do wakes every caller *)
(* that joined), and nothing is remembered of a listing that is gone.       *)
CacheTypeOK ==
    /\ store \subseteq Paths
    /\ cached \in [Dirs -> [in : BOOLEAN, objs : Seq(Entries)]]
    /\ flight \in [Dirs -> [on : BOOLEAN, ok : BOOLEAN, objs : Seq(Entries)]]
    /\ \A d \in Dirs :
        /\ ~cached[d].in => cached[d] = Absent
        /\ ~flight[d].on => flight[d] = NoFlight
        /\ \A i \in DOMAIN flight[d].objs : ~flight[d].objs[i].temp
    /\ call \in [Calls -> [op : Operations \cup {"none"}, path : Paths, new : Paths,
                          pc : {"idle", "find", "wait", "target", "driver", "update", "update2"},
                          lost : BOOLEAN]]
    /\ \A c \in Calls :
        /\ call[c].pc = "idle" <=> call[c] = Idle
        /\ call[c].pc = "wait" => flight[Parent(call[c].path)].on
    /\ begun \in 0 .. MaxBegun
    /\ crossed \subseteq {d \in Dirs : flight[d].on}
    /\ doubted \subseteq Cached(cached)

(* A cached listing shows what the directory holds, each object once, and   *)
(* the directory exists, except while an operation that changed it has not  *)
(* yet come to its update, and until the entry expires or is listed again   *)
(* when a change crossed the listing that filled it, when two operations    *)
(* updated it out of order, or when deleteDirectoryTree did not reach it.   *)
(* So operations that do not overlap keep the cache exact by themselves     *)
(* (RemoveObject, UpdateObject and deleteDirectoryTree in fs.go).           *)
CacheExact ==
    \A d \in Dirs :
        cached[d].in /\ d \notin doubted /\ Pending(d) = {} =>
            /\ d \in store
            /\ Len(cached[d].objs) = Cardinality(Children(d))
            /\ {cached[d].objs[i].name : i \in DOMAIN cached[d].objs} = {Name(p) : p \in Children(d)}

(* An operation ends because its object was not found.                      *)
NotFound(c) ==
    /\ call[c].pc \in {"find", "wait"} /\ call[c].op # "makedir"
    /\ call'[c].pc = "idle"

(* An operation is told that its object does not exist, although it does,   *)
(* only by a listing that failed, by one that a change crossed, by a cached *)
(* one that is in doubt, or while another operation is at work on the       *)
(* directory (Get in fs.go).                                                *)
NotFoundHasCause ==
    [][\A c \in Calls :
        LET d == Parent(call[c].path)
        IN  NotFound(c) /\ call[c].path \in store =>
                \/ Pending(d) # {}
                \/ d \in doubted \cup crossed
                \/ flight[d].on /\ ~flight[d].ok]_cacheVars

(* Remove answers without an error only when there is nothing left at the   *)
(* path: "if object not found, it's ok".  Stated for calls that have the    *)
(* storage for themselves.                                                  *)
RemovedIsGone ==
    [][\A c \in Calls :
        NotFound(c) /\ call[c].op = "remove" /\ (\A c2 \in Calls \ {c} : call[c2] = Idle)
            => call[c].path \notin store]_cacheVars

(* A removed or moved directory leaves no listing below its path in the     *)
(* cache.  "if it's a directory, remove all its children from dirCache too" *)
TreeForgotten ==
    [][\A c \in Calls :
        /\ call[c].pc = "update" /\ call[c].op \in {"remove", "move"} /\ call[c].path \in Dirs
        /\ call'[c].pc # "update"
        => Cached(cached') \cap Below(call[c].path) = {}]_cacheVars
=============================================================================
