-------------------------- MODULE SearchBuild_proofs -------------------------
(***************************************************************************)
(* A build of the search index loses nothing that its walk has found, and  *)
(* a node is indexed twice only when two writers met or a deletion left    *)
(* it, for every tree, every number of requests and updates, and whatever  *)
(* is stopped, cleared, changed or fails meanwhile.                        *)
(***************************************************************************)
EXTENDS SearchBuild, TLAPS

(* What the walk of b has found waits, is indexed or has a reason. *)
NoneLost == \A b \in Builds : \A n \in walked[b] \ lost[b] : n \in Waiting(b) \/ index[n] > 0

(* The two goroutines of a build that nobody has stopped. *)
InStep(b) ==
    /\ walker[b] \in {"idle", "clear", "start"} =>
          consumer[b] = "none" /\ Waiting(b) = {} /\ todo[b] = {} /\ walked[b] = {}
    /\ walker[b] = "begin" => Waiting(b) = {} /\ todo[b] = {} /\ walked[b] = {}
    /\ consumer[b] \in {"loop", "quit"} => quit = b
    /\ b \notin stopped =>
          /\ walker[b] \in {"idle", "clear", "start"} => b \notin asked
          /\ walker[b] \in {"begin", "next", "walk", "leave", "send"} =>
                consumer[b] = "loop" /\ b \in running /\ b \notin asked
          /\ walker[b] = "wait" /\ consumer[b] # "loop" => Waiting(b) = {}
          /\ walker[b] = "over" => Waiting(b) = {} /\ consumer[b] # "loop"

Lockstep == \A b \in Builds : InStep(b)

(* The paths that a build has begun to walk, and the one it is walking.    *)
Begun(b) == {i \in DOMAIN Paths[b] : i < at[b] \/ (i = at[b] /\ walker[b] = "walk")}
Here(b) == Paths[b][at[b]]

(* The nodes of the path being walked that no other path has.              *)
Mine(b) == Under(Here(b)) \ Repeated(b)

(* A walk visits a node once: what it has found is not to be visited       *)
(* again, and a node is found, or its visit planned, after its parent.     *)
InWalk(b) ==
    /\ at[b] \in DOMAIN Paths[b]
    /\ todo[b] \subseteq Under(Here(b)) \cup {Root}
    /\ todo[b] \cap walked[b] \subseteq Repeated(b)
    /\ \A n \in (walked[b] \cup todo[b]) \cap Mine(b) :
          n # Here(b) => /\ Parent[n] \notin todo[b]
                         /\ Parent[n] \in walked[b] \/ (Here(b) = Root /\ Parent[n] = Root)
    /\ Root \in todo[b] => Here(b) = Root /\ todo[b] = {Root} /\ walked[b] \subseteq Repeated(b)

OnWay(b) ==
    /\ Waiting(b) \subseteq walked[b]
    /\ \A n \in walked[b] : \E i \in Begun(b) : n \in Under(Paths[b][i])
    /\ todo[b] # {} => walker[b] = "walk"
    /\ walker[b] = "walk" => InWalk(b)

Walks == \A b \in Builds : OnWay(b)

(* Who is about to add documents, and of which nodes. *)
Pending(u) == update[u].pc \in {"delete", "add"}

Marked ==
    /\ \A b, c \in Builds : b # c /\ Writing(b) /\ Writing(c) => Scope(b) \cap Scope(c) \subseteq doubled
    /\ \A b \in Builds, u \in Updates :
          Writing(b) /\ Pending(u) => Scope(b) \cap update[u].objs \subseteq doubled
    /\ \A b \in Builds : Writing(b) => Repeated(b) \subseteq doubled
    /\ \A u, v \in Updates :
          u # v /\ Pending(u) /\ Pending(v) => update[u].objs \cap update[v].objs \subseteq doubled

(* What a writer will still add has no document yet, and waits once. *)
Fresh ==
    /\ \A b \in Builds : Writing(b) =>
          /\ \A n \in Scope(b) \ doubled : index[n] > 0 => n \in walked[b] \ Waiting(b)
          /\ \A n \in Nodes \ doubled : queue[b][n] <= 1
    /\ \A u \in Updates : Pending(u) =>
          \A n \in update[u].objs \ (update[u].old \cup doubled) : index[n] = 0

(* A listing has the nodes of one directory. *)
Listings == \A u \in Updates : \A n \in update[u].objs : Parent[n] = update[u].dir

IInv == TypeOK /\ NoneLost /\ Lockstep /\ Walks /\ Marked /\ Fresh /\ Listings /\ DoublesHaveCause

-----------------------------------------------------------------------------
(* What the proofs mostly need of the constants. *)
LEMMA Basics ==
    /\ Root \in Dirs /\ Root \notin Nodes /\ Dirs \subseteq Nodes \cup {Root}
    /\ Parent \in [Nodes -> Dirs]
    /\ None \notin Builds /\ Builds \cap Updates = {} /\ MaxUpsets \in Nat
  BY BuildAssumption

(* The variables keep their types. *)
LEMMA TypeInit == Init => TypeOK
  BY BuildAssumption DEF Init, TypeOK, At, Counts, Calls

(* A build may add nodes only. *)
LEMMA ScopeNodes ==
    ASSUME NEW b \in Builds
    PROVE  Scope(b) \subseteq Nodes /\ Repeated(b) \subseteq Nodes
  BY DEF Scope, Repeated

(* After a deletion the counts are still numbers. *)
LEMMA DropType ==
    ASSUME TypeOK, NEW S, Drop(S)
    PROVE  index' \in Counts /\ lost' \in [Builds -> SUBSET Nodes]
  BY DEF TypeOK, Drop, Counts

(* So they are after documents were added. *)
LEMMA AddType ==
    ASSUME TypeOK, NEW S, AddAll(S)
    PROVE  index' \in Counts
  BY DEF TypeOK, AddAll, Counts

(* A batch that is indexed, or fails, keeps the types of what it writes.  *)
LEMMA IndexesType ==
    ASSUME TypeOK, NEW b \in Builds, Indexes(b)
    PROVE  /\ index' \in Counts /\ lost' \in [Builds -> SUBSET Nodes]
           /\ queue' \in [Builds -> Counts] /\ failed' \subseteq Builds
           /\ upsets' \in 0..MaxUpsets
<1>1. queue' \in [Builds -> Counts] /\ failed' \subseteq Builds
  BY DEF TypeOK, Indexes, Counts
<1>2. CASE AddWaiting(b) /\ UNCHANGED <<lost, upsets>>
  <2>1. queue[b] \in Counts /\ index \in Counts
    BY DEF TypeOK
  <2>2. index' \in Counts
    BY <1>2, <2>1 DEF AddWaiting, Counts
  <2> QED
    BY <1>1, <1>2, <2>2 DEF TypeOK
<1>3. CASE Upset /\ lost' = [lost EXCEPT ![b] = @ \cup Waiting(b)] /\ UNCHANGED index
  BY <1>1, <1>3, BuildAssumption DEF TypeOK, Upset, Waiting
<1> QED
  BY <1>2, <1>3 DEF Indexes

(* Every step keeps the types. *)
LEMMA TypeNext == TypeOK /\ Next => TypeOK'
<1> SUFFICES ASSUME TypeOK, Next PROVE TypeOK'
  OBVIOUS
<1>1. ASSUME NEW b \in Builds, Request(b) PROVE TypeOK'
  BY <1>1, Basics DEF TypeOK, Request, store, build, history
<1>2. ASSUME NEW b \in Builds, ClearFirst(b) PROVE TypeOK'
  <2>1. index' \in Counts /\ lost' \in [Builds -> SUBSET Nodes]
    BY <1>2, Basics, DropType DEF TypeOK, ClearFirst
  <2>2. at' \in [Builds -> Nat \ {0}]
    BY <1>2 DEF TypeOK, ClearFirst
  <2> QED
    BY <2>1, <2>2, <1>2 DEF TypeOK, ClearFirst
<1>3. ASSUME NEW b \in Builds, ClearFails(b) PROVE TypeOK'
  BY <1>3, Basics DEF TypeOK, ClearFails, Upset, store, build, history
<1>4. ASSUME NEW b \in Builds, Start(b) PROVE TypeOK'
  BY <1>4, Basics DEF TypeOK, Start, store, build, history
<1>5. ASSUME NEW b \in Builds, Begin(b) PROVE TypeOK'
  BY <1>5, Basics, SMTT(30) DEF TypeOK, Begin, store, build, history
<1>6. ASSUME NEW b \in Builds, NEW n \in todo[b], Visit(b, n) PROVE TypeOK'
  <2>1. queue' \in [Builds -> Counts]
    BY <1>6, Basics DEF TypeOK, Visit, Counts
  <2>2. todo' \in [Builds -> SUBSET (Nodes \cup {Root})] /\ walked' \in [Builds -> SUBSET Nodes]
    BY <1>6, Basics DEF TypeOK, Visit, Children
  <2> QED
    BY <1>6, <2>1, <2>2, BuildAssumption DEF TypeOK, Visit, Upset, store, history
<1>7. ASSUME NEW b \in Builds, SkipDir(b) PROVE TypeOK'
  BY <1>7, Basics DEF TypeOK, SkipDir, store, build, history
<1>8. ASSUME NEW b \in Builds, WalkEnds(b) PROVE TypeOK'
  BY <1>8, Basics DEF TypeOK, WalkEnds, store, build, history
<1>9. ASSUME NEW b \in Builds, Leave(b) PROVE TypeOK'
  BY <1>9, Basics DEF TypeOK, Leave, store, build, history
<1>10. ASSUME NEW b \in Builds, SendQuit(b) PROVE TypeOK'
  BY <1>10, Basics DEF TypeOK, SendQuit, store, build, history
<1>11. ASSUME NEW b \in Builds, Waited(b) PROVE TypeOK'
  BY <1>11, Basics DEF TypeOK, Waited, store, build, history
<1>12. ASSUME NEW b \in Builds, Tick(b) PROVE TypeOK'
  <2>1. progress' \in [done : BOOLEAN, error : BOOLEAN]
    BY <1>12 DEF TypeOK, Tick, Reports
  <2> QED
    BY <1>12, <2>1, IndexesType DEF TypeOK, Tick
<1>13. ASSUME NEW b \in Builds, TakeQuit(b) PROVE TypeOK'
  <2>1. /\ index' \in Counts /\ lost' \in [Builds -> SUBSET Nodes]
        /\ queue' \in [Builds -> Counts] /\ failed' \subseteq Builds
        /\ upsets' \in 0..MaxUpsets
    BY <1>13, Basics, IndexesType DEF TypeOK, TakeQuit, Reports
  <2>2. progress' \in [done : BOOLEAN, error : BOOLEAN]
    BY <1>13, Basics DEF TypeOK, TakeQuit, Reports
  <2> QED
    BY <2>1, <2>2, <1>13 DEF TypeOK, TakeQuit
<1>14. ASSUME NEW b \in Builds, Resign(b) PROVE TypeOK'
  BY <1>14, Basics DEF TypeOK, Resign, store, build, history
<1>15. ASSUME StopRequest PROVE TypeOK'
  BY <1>15, Basics DEF TypeOK, StopRequest, Upset, store, build, history
<1>16. ASSUME ClearRequest PROVE TypeOK'
  BY <1>16, Basics DEF TypeOK, ClearRequest, Upset, store, build, history
<1>17. ASSUME ClearIndex PROVE TypeOK'
  BY <1>17, Basics DEF TypeOK, Counts, ClearIndex, Drop, Upset, store, build, history
<1>18. ASSUME ClearReports PROVE TypeOK'
  BY <1>18, Basics DEF TypeOK, ClearReports, store, build, history
<1>19. ASSUME NEW u \in Updates, NEW d \in Dirs, Listed(u, d) PROVE TypeOK'
  BY <1>19, Basics DEF TypeOK, Calls, Listed, At, Children, store, build, history
<1>20. ASSUME NEW u \in Updates, Test(u) PROVE TypeOK'
  BY <1>20, Basics, SMTT(30) DEF TypeOK, Calls, Test, store, build, history
<1>21. ASSUME NEW u \in Updates, Get(u) PROVE TypeOK'
  <2>1. PICK O : O = {n \in Nodes : Parent[n] = update[u].dir /\ index[n] > 0}
    BY Zenon
  <2>2. O \in SUBSET Nodes /\ update' = [update EXCEPT ![u].pc = "delete", ![u].old = O]
    BY <1>21, <2>1 DEF Get
  <2>3. update' \in [Updates -> Calls]
    <3>1. PICK v : v = [update[u] EXCEPT !.pc = "delete", !.old = O]
      BY Zenon
    <3>2. v \in Calls
      <4>1. update[u] \in Calls
        BY DEF TypeOK
      <4>2. v = [pc |-> "delete", dir |-> update[u].dir, objs |-> update[u].objs, old |-> O]
        BY <3>1, <4>1 DEF Calls
      <4> QED
        BY <2>2, <4>1, <4>2 DEF Calls
    <3>3. update' = [update EXCEPT ![u] = v]
      BY <2>2, <3>1 DEF TypeOK
    <3> QED
      BY <3>2, <3>3 DEF TypeOK
  <2>4. doubled' \subseteq Nodes
    BY <1>21 DEF TypeOK, Get, Calls
  <2> QED
    BY <1>21, <2>3, <2>4 DEF TypeOK, Get, store, build
<1>22. ASSUME NEW u \in Updates, Deletes(u) PROVE TypeOK'
  <2>1. index' \in Counts /\ lost' \in [Builds -> SUBSET Nodes]
    BY <1>22, Basics, DropType DEF TypeOK, Deletes
  <2>2. update' \in [Updates -> Calls]
    BY <1>22, Basics DEF TypeOK, Calls, Deletes
  <2> QED
    BY <2>1, <2>2, <1>22 DEF TypeOK, Deletes, build
<1>23. ASSUME NEW u \in Updates, Adds(u) PROVE TypeOK'
  <2>1. index' \in Counts
    BY <1>23, Basics, AddType DEF TypeOK, Adds
  <2>2. update' \in [Updates -> Calls]
    BY <1>23, Basics DEF TypeOK, Calls, Adds
  <2> QED
    BY <2>1, <2>2, <1>23 DEF TypeOK, Adds, build, history
<1>24. ASSUME NEW u \in Updates, UpdateFails(u) PROVE TypeOK'
  <2>1. index' \in Counts /\ lost' \in [Builds -> SUBSET Nodes]
    <3>1. CASE \E S \in SUBSET Gone(u) : Drop(UNION {DeletedWith(n) : n \in S})
      BY <3>1, DropType
    <3>2. CASE UNCHANGED <<index, lost>>
      BY <3>2 DEF TypeOK
    <3> QED
      BY <1>24, <3>1, <3>2 DEF UpdateFails
  <2>2. update' \in [Updates -> Calls]
    BY <1>24 DEF TypeOK, Calls, UpdateFails
  <2> QED
    BY <1>24, <2>1, <2>2, Basics DEF TypeOK, UpdateFails, Upset, build
<1>25. ASSUME NEW n \in Nodes, Change(n) PROVE TypeOK'
  BY <1>25, Basics DEF TypeOK, Change, Upset, store, build, history
<1>26. ASSUME NEW b \in Builds, Cleared(b) PROVE TypeOK'
  <2>1. doubled' \subseteq Nodes
    BY <1>26, ScopeNodes DEF TypeOK, Cleared
  <2> QED
    BY <2>1, <1>26 DEF TypeOK, Cleared, store
<1>27. ASSUME NEW b \in Builds, NextPath(b) PROVE TypeOK'
  BY <1>27, Basics DEF TypeOK, NextPath, Upset, store, build, history
<1>28. ASSUME NEW b \in Builds, NoPathLeft(b) PROVE TypeOK'
  BY <1>28, Basics DEF TypeOK, NoPathLeft, Upset, store, build, history
<1> QED
  BY <1>1, <1>2, <1>3, <1>4, <1>5, <1>6, <1>7, <1>8, <1>9, <1>10, <1>11,
     <1>12, <1>13, <1>14, <1>15, <1>16, <1>17, <1>18, <1>19, <1>20, <1>21,
     <1>22, <1>23, <1>24, <1>25, <1>26, <1>27, <1>28 DEF Next, Walker, Consumer

-----------------------------------------------------------------------------
(* What the walk has found stays accounted for. *)
LEMMA NoneLostNext == TypeOK /\ NoneLost /\ Next => NoneLost'
<1> SUFFICES ASSUME TypeOK, NoneLost, Next PROVE NoneLost'
  OBVIOUS
<1>1. ASSUME NEW b \in Builds, Request(b) PROVE NoneLost'
  BY <1>1, Basics DEF TypeOK, Counts, Calls, NoneLost, Waiting, Request, store, build, history
<1>2. ASSUME NEW b \in Builds, ClearFirst(b) PROVE NoneLost'
  BY <1>2, Basics DEF TypeOK, Counts, Calls, NoneLost, Waiting, ClearFirst, Drop, store, build, history
<1>3. ASSUME NEW b \in Builds, ClearFails(b) PROVE NoneLost'
  BY <1>3, Basics DEF TypeOK, Counts, Calls, NoneLost, Waiting, ClearFails, Upset, store, build, history
<1>4. ASSUME NEW b \in Builds, Start(b) PROVE NoneLost'
  BY <1>4, Basics DEF TypeOK, Counts, Calls, NoneLost, Waiting, Start, store, build, history
<1>5. ASSUME NEW b \in Builds, Begin(b) PROVE NoneLost'
  BY <1>5, Basics DEF TypeOK, Counts, Calls, NoneLost, Waiting, Begin, store, build, history
<1>6. ASSUME NEW b \in Builds, NEW n \in todo[b], Visit(b, n) PROVE NoneLost'
  BY <1>6, Basics DEF TypeOK, Counts, Calls, NoneLost, Waiting, Visit, Upset, Children, store, build, history
<1>7. ASSUME NEW b \in Builds, SkipDir(b) PROVE NoneLost'
  BY <1>7, Basics DEF TypeOK, Counts, Calls, NoneLost, Waiting, SkipDir, store, build, history
<1>8. ASSUME NEW b \in Builds, WalkEnds(b) PROVE NoneLost'
  BY <1>8, Basics DEF TypeOK, Counts, Calls, NoneLost, Waiting, WalkEnds, store, build, history
<1>9. ASSUME NEW b \in Builds, Leave(b) PROVE NoneLost'
  BY <1>9, Basics DEF TypeOK, Counts, Calls, NoneLost, Waiting, Leave, store, build, history
<1>10. ASSUME NEW b \in Builds, SendQuit(b) PROVE NoneLost'
  BY <1>10, Basics DEF TypeOK, Counts, Calls, NoneLost, Waiting, SendQuit, store, build, history
<1>11. ASSUME NEW b \in Builds, Waited(b) PROVE NoneLost'
  BY <1>11, Basics DEF TypeOK, Counts, Calls, NoneLost, Waiting, Waited, store, build, history
<1>12. ASSUME NEW b \in Builds, Tick(b) PROVE NoneLost'
  BY <1>12, Basics DEF TypeOK, Counts, Calls, NoneLost, Waiting, Tick, Indexes, AddWaiting, Reports, Upset, store, build, history
<1>13. ASSUME NEW b \in Builds, TakeQuit(b) PROVE NoneLost'
  BY <1>13, Basics DEF TypeOK, Counts, Calls, NoneLost, Waiting, TakeQuit, Indexes, AddWaiting, Reports, Upset, store, build, history
<1>14. ASSUME NEW b \in Builds, Resign(b) PROVE NoneLost'
  BY <1>14, Basics DEF TypeOK, Counts, Calls, NoneLost, Waiting, Resign, store, build, history
<1>15. ASSUME StopRequest PROVE NoneLost'
  BY <1>15, Basics DEF TypeOK, Counts, Calls, NoneLost, Waiting, StopRequest, store, build, history
<1>16. ASSUME ClearRequest PROVE NoneLost'
  BY <1>16, Basics DEF TypeOK, Counts, Calls, NoneLost, Waiting, ClearRequest, store, build, history
<1>17. ASSUME ClearIndex PROVE NoneLost'
  BY <1>17, Basics DEF TypeOK, Counts, Calls, NoneLost, Waiting, ClearIndex, Drop, Upset, store, build, history
<1>18. ASSUME ClearReports PROVE NoneLost'
  BY <1>18, Basics DEF TypeOK, Counts, Calls, NoneLost, Waiting, ClearReports, store, build, history
<1>19. ASSUME NEW u \in Updates, NEW d \in Dirs, Listed(u, d) PROVE NoneLost'
  BY <1>19, Basics DEF TypeOK, Counts, Calls, NoneLost, Waiting, Listed, At, Children, store, build, history
<1>20. ASSUME NEW u \in Updates, Test(u) PROVE NoneLost'
  BY <1>20, Basics DEF TypeOK, Counts, Calls, NoneLost, Waiting, Test, store, build, history
<1>21. ASSUME NEW u \in Updates, Get(u) PROVE NoneLost'
  BY <1>21, Basics DEF TypeOK, Counts, Calls, NoneLost, Waiting, Get, AddedBeside, store, build, history
<1>22. ASSUME NEW u \in Updates, Deletes(u) PROVE NoneLost'
  BY <1>22, Basics DEF TypeOK, Counts, Calls, NoneLost, Waiting, Deletes, Drop, store, build, history
<1>23. ASSUME NEW u \in Updates, Adds(u) PROVE NoneLost'
  BY <1>23, Basics DEF TypeOK, Counts, Calls, NoneLost, Waiting, Adds, AddAll, store, build, history
<1>24. ASSUME NEW u \in Updates, UpdateFails(u) PROVE NoneLost'
  <2>1. queue' = queue /\ walked' = walked
    BY <1>24 DEF UpdateFails, build
  <2>2. CASE \E S \in SUBSET Gone(u) : Drop(UNION {DeletedWith(n) : n \in S})
    <3>1. PICK D : Drop(D)
      BY <2>2
    <3> QED
      BY <2>1, <3>1 DEF NoneLost, Waiting, Drop, TypeOK
  <2>3. CASE UNCHANGED <<index, lost>>
    BY <2>1, <2>3 DEF NoneLost, Waiting
  <2> QED
    BY <1>24, <2>2, <2>3 DEF UpdateFails
<1>25. ASSUME NEW n \in Nodes, Change(n) PROVE NoneLost'
  BY <1>25, Basics DEF TypeOK, Counts, Calls, NoneLost, Waiting, Change, store, build, history
<1>26. ASSUME NEW b \in Builds, Cleared(b) PROVE NoneLost'
  BY <1>26, Basics DEF TypeOK, Counts, Calls, NoneLost, Waiting, Cleared, Upset, store, build, history
<1>27. ASSUME NEW b \in Builds, NextPath(b) PROVE NoneLost'
  BY <1>27, Basics DEF TypeOK, Counts, Calls, NoneLost, Waiting, NextPath, Upset, store, build, history
<1>28. ASSUME NEW b \in Builds, NoPathLeft(b) PROVE NoneLost'
  BY <1>28, Basics DEF TypeOK, Counts, Calls, NoneLost, Waiting, NoPathLeft, Upset, store, build, history
<1> QED
  BY <1>1, <1>2, <1>3, <1>4, <1>5, <1>6, <1>7, <1>8, <1>9, <1>10, <1>11,
     <1>12, <1>13, <1>14, <1>15, <1>16, <1>17, <1>18, <1>19, <1>20, <1>21,
     <1>22, <1>23, <1>24, <1>25, <1>26, <1>27, <1>28 DEF Next, Walker, Consumer

(* The goroutines of a build stay in step until somebody stops them. *)
LEMMA LockstepNext == TypeOK /\ Lockstep /\ Next => Lockstep'
<1> SUFFICES ASSUME TypeOK, Lockstep, Next PROVE Lockstep'
  OBVIOUS
<1>1. ASSUME NEW b \in Builds, Request(b) PROVE Lockstep'
  BY <1>1, Basics DEF TypeOK, Counts, Calls, Lockstep, InStep, Waiting, Request, store, build, history
<1>2. ASSUME NEW b \in Builds, ClearFirst(b) PROVE Lockstep'
  BY <1>2, Basics DEF TypeOK, Counts, Calls, Lockstep, InStep, Waiting, ClearFirst, Drop, store, build, history
<1>3. ASSUME NEW b \in Builds, ClearFails(b) PROVE Lockstep'
  BY <1>3, Basics DEF TypeOK, Counts, Calls, Lockstep, InStep, Waiting, ClearFails, Upset, store, build, history
<1>4. ASSUME NEW b \in Builds, Start(b) PROVE Lockstep'
  BY <1>4, Basics DEF TypeOK, Counts, Calls, Lockstep, InStep, Waiting, Start, store, build, history
<1>5. ASSUME NEW b \in Builds, Begin(b) PROVE Lockstep'
  BY <1>5, Basics DEF TypeOK, Counts, Calls, Lockstep, InStep, Waiting, Begin, store, build, history
<1>6. ASSUME NEW b \in Builds, NEW n \in todo[b], Visit(b, n) PROVE Lockstep'
  BY <1>6, Basics DEF TypeOK, Counts, Calls, Lockstep, InStep, Waiting, Visit, Upset, Children, store, build, history
<1>7. ASSUME NEW b \in Builds, SkipDir(b) PROVE Lockstep'
  BY <1>7, Basics DEF TypeOK, Counts, Calls, Lockstep, InStep, Waiting, SkipDir, store, build, history
<1>8. ASSUME NEW b \in Builds, WalkEnds(b) PROVE Lockstep'
  BY <1>8, Basics DEF TypeOK, Counts, Calls, Lockstep, InStep, Waiting, WalkEnds, store, build, history
<1>9. ASSUME NEW b \in Builds, Leave(b) PROVE Lockstep'
  BY <1>9, Basics DEF TypeOK, Counts, Calls, Lockstep, InStep, Waiting, Leave, store, build, history
<1>10. ASSUME NEW b \in Builds, SendQuit(b) PROVE Lockstep'
  BY <1>10, Basics DEF TypeOK, Counts, Calls, Lockstep, InStep, Waiting, SendQuit, store, build, history
<1>11. ASSUME NEW b \in Builds, Waited(b) PROVE Lockstep'
  BY <1>11, Basics DEF TypeOK, Counts, Calls, Lockstep, InStep, Waiting, Waited, store, build, history
<1>12. ASSUME NEW b \in Builds, Tick(b) PROVE Lockstep'
  BY <1>12, Basics DEF TypeOK, Counts, Calls, Lockstep, InStep, Waiting, Tick, Indexes, AddWaiting, Reports, Upset, store, build, history
<1>13. ASSUME NEW b \in Builds, TakeQuit(b) PROVE Lockstep'
  BY <1>13, Basics DEF TypeOK, Counts, Calls, Lockstep, InStep, Waiting, TakeQuit, Indexes, AddWaiting, Reports, Upset, store, build, history
<1>14. ASSUME NEW b \in Builds, Resign(b) PROVE Lockstep'
  BY <1>14, Basics DEF TypeOK, Counts, Calls, Lockstep, InStep, Waiting, Resign, store, build, history
<1>15. ASSUME StopRequest PROVE Lockstep'
  BY <1>15, Basics DEF TypeOK, Counts, Calls, Lockstep, InStep, Waiting, StopRequest, store, build, history
<1>16. ASSUME ClearRequest PROVE Lockstep'
  BY <1>16, Basics DEF TypeOK, Counts, Calls, Lockstep, InStep, Waiting, ClearRequest, store, build, history
<1>17. ASSUME ClearIndex PROVE Lockstep'
  BY <1>17, Basics DEF TypeOK, Counts, Calls, Lockstep, InStep, Waiting, ClearIndex, Drop, Upset, store, build, history
<1>18. ASSUME ClearReports PROVE Lockstep'
  BY <1>18, Basics DEF TypeOK, Counts, Calls, Lockstep, InStep, Waiting, ClearReports, store, build, history
<1>19. ASSUME NEW u \in Updates, NEW d \in Dirs, Listed(u, d) PROVE Lockstep'
  BY <1>19, Basics DEF TypeOK, Counts, Calls, Lockstep, InStep, Waiting, Listed, At, Children, store, build, history
<1>20. ASSUME NEW u \in Updates, Test(u) PROVE Lockstep'
  BY <1>20, Basics DEF TypeOK, Counts, Calls, Lockstep, InStep, Waiting, Test, store, build, history
<1>21. ASSUME NEW u \in Updates, Get(u) PROVE Lockstep'
  BY <1>21, Basics DEF TypeOK, Counts, Calls, Lockstep, InStep, Waiting, Get, AddedBeside, store, build, history
<1>22. ASSUME NEW u \in Updates, Deletes(u) PROVE Lockstep'
  BY <1>22, Basics DEF TypeOK, Counts, Calls, Lockstep, InStep, Waiting, Deletes, Drop, store, build, history
<1>23. ASSUME NEW u \in Updates, Adds(u) PROVE Lockstep'
  BY <1>23, Basics DEF TypeOK, Counts, Calls, Lockstep, InStep, Waiting, Adds, AddAll, store, build, history
<1>24. ASSUME NEW u \in Updates, UpdateFails(u) PROVE Lockstep'
  BY <1>24, Basics DEF TypeOK, Counts, Calls, Lockstep, InStep, Waiting, UpdateFails, Drop, Upset, store, build, history
<1>25. ASSUME NEW n \in Nodes, Change(n) PROVE Lockstep'
  BY <1>25, Basics DEF TypeOK, Counts, Calls, Lockstep, InStep, Waiting, Change, store, build, history
<1>26. ASSUME NEW b \in Builds, Cleared(b) PROVE Lockstep'
  BY <1>26, Basics DEF TypeOK, Counts, Calls, Lockstep, InStep, Waiting, Cleared, Upset, store, build, history
<1>27. ASSUME NEW b \in Builds, NextPath(b) PROVE Lockstep'
  BY <1>27, Basics DEF TypeOK, Counts, Calls, Lockstep, InStep, Waiting, NextPath, Upset, store, build, history
<1>28. ASSUME NEW b \in Builds, NoPathLeft(b) PROVE Lockstep'
  BY <1>28, Basics DEF TypeOK, Counts, Calls, Lockstep, InStep, Waiting, NoPathLeft, Upset, store, build, history
<1> QED
  BY <1>1, <1>2, <1>3, <1>4, <1>5, <1>6, <1>7, <1>8, <1>9, <1>10, <1>11,
     <1>12, <1>13, <1>14, <1>15, <1>16, <1>17, <1>18, <1>19, <1>20, <1>21,
     <1>22, <1>23, <1>24, <1>25, <1>26, <1>27, <1>28 DEF Next, Walker, Consumer

-----------------------------------------------------------------------------
(* What is in a directory under a path is under it too.                    *)
LEMMA UnderClosed ==
    ASSUME NEW p \in Nodes \cup {Root}, NEW k \in Nodes,
           Parent[k] \in Under(p) \/ (p = Root /\ Parent[k] = Root)
    PROVE  k \in Under(p)
<1>1. CASE p = Root
  BY <1>1 DEF Under
<1>2. CASE p # Root
  <2>1. Parent[k] \in {p} \cup Below(p)
    BY <1>2 DEF Under
  <2>2. ASSUME NEW S \in SUBSET Nodes, \A j \in Nodes : Parent[j] \in S \cup {p} => j \in S
        PROVE  k \in S
    BY <2>1, <2>2 DEF Below
  <2>3. k \in Below(p)
    BY <2>2 DEF Below
  <2> QED
    BY <1>2, <2>3 DEF Under
<1> QED
  BY <1>1, <1>2

(* So is the directory of what is under a path, but of the path itself.    *)
LEMMA UnderParent ==
    ASSUME NEW p \in Nodes \cup {Root}, NEW k \in Under(p), k # p
    PROVE  k \in Nodes /\ (Parent[k] \in Under(p) \/ (p = Root /\ Parent[k] = Root))
<1>1. CASE p = Root
  BY <1>1, Basics DEF Under
<1>2. CASE p # Root
  <2> DEFINE S == {m \in Nodes : Parent[m] \in {p} \cup Below(p)}
  <2>1. k \in Below(p)
    BY <1>2 DEF Under
  <2>2. ASSUME NEW j \in Nodes, Parent[j] \in S \cup {p} PROVE j \in S
    <3>1. CASE Parent[j] = p
      BY <3>1
    <3>2. CASE Parent[j] \in S
      <4>1. ASSUME NEW T \in SUBSET Nodes, \A i \in Nodes : Parent[i] \in T \cup {p} => i \in T
            PROVE  Parent[j] \in T
        BY <3>2, <4>1 DEF Below
      <4>2. Parent[j] \in Below(p)
        BY <3>2, <4>1 DEF Below
      <4> QED
        BY <4>2
    <3> QED
      BY <2>2, <3>1, <3>2
  <2>3. S \in SUBSET Nodes
    OBVIOUS
  <2>4. k \in S
    BY <2>1, <2>2, <2>3 DEF Below
  <2> QED
    BY <1>2, <2>4 DEF Under
<1> QED
  BY <1>1, <1>2

(* Under a path there are nodes only. *)
LEMMA UnderNodes ==
    ASSUME NEW p \in Nodes \cup {Root}
    PROVE  Under(p) \subseteq Nodes
  BY DEF Under, Below

(* No node is under its own children.                                      *)
LEMMA NoCircle ==
    ASSUME NEW p \in Nodes
    PROVE  Parent[p] \notin Under(p)
<1>1. SUFFICES ASSUME Parent[p] \in Under(p) PROVE FALSE
  OBVIOUS
<1>2. p # Root /\ p \in Under(p) /\ Under(p) \subseteq Nodes
  BY BuildAssumption, UnderNodes DEF Under
<1>3. PICK k \in Under(p) : Parent[k] \notin Under(p)
  BY <1>2, BuildAssumption
<1> QED
  BY <1>1, <1>2, <1>3, UnderParent

(* The paths of a build are paths. *)
LEMMA PathTypes ==
    ASSUME NEW b \in Builds, NEW i \in DOMAIN Paths[b]
    PROVE  Paths[b][i] \in Nodes \cup {Root}
<1>1. Paths[b] \in Seq(Nodes \cup {Root})
  BY BuildAssumption
<1> QED
  BY <1>1

(* What is in a directory that several walks visit is visited by them too. *)
LEMMA RepeatedClosed ==
    ASSUME NEW b \in Builds, NEW k \in Nodes, Parent[k] \in Repeated(b)
    PROVE  k \in Repeated(b)
<1>1. PICK i \in DOMAIN Paths[b], j \in DOMAIN Paths[b] :
        i # j /\ Parent[k] \in Under(Paths[b][i]) /\ Parent[k] \in Under(Paths[b][j])
  BY DEF Repeated
<1>2. k \in Under(Paths[b][i]) /\ k \in Under(Paths[b][j])
  BY <1>1, PathTypes, UnderClosed
<1> QED
  BY <1>1, <1>2 DEF Repeated

(* What is in a directory still to be visited has not been found, unless   *)
(* several walks find it: its parent would have been visited, or the tree  *)
(* would have a circle.                                                    *)
LEMMA ChildrenNew ==
    ASSUME TypeOK, NEW b \in Builds, InWalk(b), NEW n \in todo[b], NEW m \in Children(n)
    PROVE  /\ m \in Under(Here(b)) /\ m # n
           /\ m \in Nodes /\ Parent[m] = n
           /\ m \in walked[b] \cup todo[b] => m \in Repeated(b)
<1>1. Here(b) \in Nodes \cup {Root}
  BY PathTypes DEF InWalk, Here
<1>2. m \in Nodes /\ Parent[m] = n
  BY DEF Children, TypeOK, Counts, Calls
<1>3. n \in Under(Here(b)) \/ (Here(b) = Root /\ n = Root)
  BY DEF InWalk
<1>4. m \in Under(Here(b))
  BY <1>1, <1>2, <1>3, UnderClosed
<1>5. m # n
  <2>1. ASSUME m = n PROVE FALSE
    <3>1. m \notin Under(m) /\ m # Root
      BY <1>2, <2>1, NoCircle, BuildAssumption
    <3> QED
      BY <3>1 DEF Under
  <2> QED
    BY <2>1
<1>6. m # Here(b)
  <2>1. ASSUME m = Here(b) PROVE FALSE
    <3>1. Here(b) # Root
      BY <1>2, <2>1, BuildAssumption
    <3> QED
      BY <1>2, <1>3, <2>1, <3>1, NoCircle
  <2> QED
    BY <2>1
<1>7. ASSUME m \in walked[b] \cup todo[b], m \notin Repeated(b) PROVE FALSE
  BY <1>2, <1>4, <1>6, <1>7 DEF InWalk, Mine
<1> QED
  BY <1>2, <1>4, <1>5, <1>7

(* One visit. *)
LEMMA VisitOnWay ==
    ASSUME TypeOK, NEW b \in Builds, OnWay(b), NEW n \in todo[b], Visit(b, n)
    PROVE  OnWay(b)'
<1>1. /\ walked'[b] = walked[b] \cup ({n} \ {Root}) /\ at' = at /\ walker' = walker
      /\ \/ todo'[b] = (todo[b] \ {n}) \cup Children(n)
         \/ todo'[b] = todo[b] \ {n}
  BY DEF Visit, TypeOK, Counts, Calls
<1>2. walker[b] = "walk" /\ InWalk(b) /\ at[b] \in DOMAIN Paths[b]
  BY DEF Visit, OnWay, InWalk
<1>3. Waiting(b)' \subseteq walked'[b]
  <2>1. Waiting(b)' \subseteq Waiting(b) \cup ({n} \ {Root})
    BY BuildAssumption DEF Visit, Waiting, TypeOK, Counts, Calls
  <2> QED
    BY <1>1, <2>1 DEF OnWay
<1>4. /\ Begun(b)' = Begun(b) /\ Here(b)' = Here(b) /\ Mine(b)' = Mine(b) /\ at[b] \in Begun(b)
      /\ Repeated(b)' = Repeated(b) /\ Under(Here(b))' = Under(Here(b))
  BY <1>1, <1>2 DEF Begun, Here, Mine, Under, Below, Repeated
<1>5. \A m \in walked'[b] : \E i \in Begun(b)' : m \in Under(Paths[b][i])
  <2>1. n \in Under(Paths[b][at[b]]) \cup {Root}
    BY <1>2 DEF InWalk, Here
  <2> QED
    BY <1>1, <1>4, <2>1 DEF OnWay
<1>6. todo'[b] \subseteq Under(Here(b)) \cup {Root}
  BY <1>1, <1>2, ChildrenNew DEF InWalk
<1>7. todo'[b] \cap walked'[b] \subseteq Repeated(b)
  BY <1>1, <1>2, ChildrenNew DEF InWalk
<1>8. ASSUME NEW k \in (walked'[b] \cup todo'[b]) \cap Mine(b), k # Here(b)
      PROVE  /\ Parent[k] \notin todo'[b]
             /\ Parent[k] \in walked'[b] \/ (Here(b) = Root /\ Parent[k] = Root)
  <2>0. k \in Nodes /\ k \notin Repeated(b) /\ Here(b) \in Nodes \cup {Root}
    BY <1>2, UnderNodes, PathTypes DEF Mine, Here
  <2>1. CASE k \in walked[b] \cup todo[b]
    <3>1. /\ Parent[k] \notin todo[b]
          /\ Parent[k] \in walked[b] \/ (Here(b) = Root /\ Parent[k] = Root)
      BY <1>2, <1>8, <2>1 DEF InWalk
    <3>2. ASSUME Parent[k] \in Children(n) PROVE FALSE
      <4>1. Parent[k] \in Nodes /\ Parent[k] \in walked[b]
        BY <1>2, <3>1, <3>2, ChildrenNew, BuildAssumption
      <4>2. Parent[k] \in Repeated(b)
        BY <1>2, <3>2, <4>1, ChildrenNew
      <4> QED
        BY <2>0, <4>2, RepeatedClosed
    <3> QED
      BY <1>1, <3>1, <3>2
  <2>2. CASE k \in Children(n)
    <3>1. Parent[k] = n /\ n \notin Children(n)
      BY <1>2, <2>2, ChildrenNew
    <3>2. n \in walked'[b] \/ (Here(b) = Root /\ n = Root)
      BY <1>1, <1>2 DEF InWalk
    <3> QED
      BY <1>1, <3>1, <3>2
  <2>3. CASE k = n
    BY <1>2, <2>1, <2>3
  <2> QED
    BY <1>1, <1>8, <2>1, <2>2, <2>3
<1>9. Root \notin todo'[b]
  <2>1. Root \notin Children(n)
    BY BuildAssumption DEF Children, TypeOK, Counts, Calls
  <2>2. Root \in todo[b] => n = Root
    BY <1>2 DEF InWalk
  <2> QED
    BY <1>1, <2>1, <2>2
<1>10. InWalk(b)'
  BY <1>1, <1>2, <1>4, <1>6, <1>7, <1>8, <1>9 DEF InWalk
<1> QED
  BY <1>1, <1>2, <1>3, <1>5, <1>10 DEF OnWay

(* The next walk begins: what an earlier one has found and this one will   *)
(* find is found by several.                                               *)
LEMMA NextOnWay ==
    ASSUME TypeOK, NEW b \in Builds, OnWay(b), NextPath(b)
    PROVE  OnWay(b)'
<1>1. /\ walked' = walked /\ at' = at /\ queue' = queue /\ walker[b] = "next"
      /\ at[b] \in DOMAIN Paths[b] /\ todo[b] = {}
  BY DEF NextPath, history, OnWay
<1>2. Waiting(b)' = Waiting(b) /\ Here(b)' = Here(b) /\ Mine(b)' = Mine(b) /\ Repeated(b)' = Repeated(b)
      /\ Begun(b) \subseteq Begun(b)' /\ Under(Here(b))' = Under(Here(b))
  BY <1>1 DEF Waiting, Here, Mine, Under, Below, Repeated, Begun
<1>3. CASE todo'[b] = {Here(b)} /\ walker'[b] = "walk"
  <2>1. \A n \in walked[b] \cap Under(Here(b)) : n \in Repeated(b)
    <3> SUFFICES ASSUME NEW n \in walked[b] \cap Under(Here(b)) PROVE n \in Repeated(b)
      OBVIOUS
    <3>1. PICK i \in Begun(b) : n \in Under(Paths[b][i])
      BY DEF OnWay
    <3>2. i \in DOMAIN Paths[b] /\ i # at[b] /\ n \in Nodes
      BY <1>1, <3>1 DEF Begun, TypeOK, Counts, Calls
    <3> QED
      BY <1>1, <3>1, <3>2 DEF Repeated, Here
  <2>2. Here(b) \in Nodes \cup {Root} /\ Here(b) \in Under(Here(b)) \cup {Root}
    BY <1>1, PathTypes DEF Here, Under
  <2>3. Here(b) = Root => walked[b] \subseteq Under(Here(b)) /\ Root \notin walked[b]
    BY BuildAssumption DEF Under, TypeOK, Counts, Calls
  <2>4. Root \notin walked[b]
    BY BuildAssumption DEF TypeOK, Counts, Calls
  <2>5. Mine(b) \subseteq Under(Here(b)) /\ Mine(b) \cap Repeated(b) = {}
    BY DEF Mine
  <2>6. InWalk(b)'
    BY <1>1, <1>2, <1>3, <2>1, <2>2, <2>3, <2>4, <2>5 DEF InWalk
  <2> QED
    BY <1>1, <1>2, <1>3, <2>6 DEF OnWay
<1>4. CASE todo'[b] = {} /\ walker'[b] = "leave"
  BY <1>1, <1>2, <1>4 DEF OnWay
<1> QED
  BY <1>1, <1>3, <1>4 DEF NextPath, TypeOK, Here

(* A walk ends, or goes on with less. *)
LEMMA SameOnWay ==
    ASSUME NEW b \in Builds, OnWay(b), walked'[b] = walked[b],
           Waiting(b)' \subseteq Waiting(b), at'[b] = at[b],
           \/ todo'[b] = todo[b] /\ walker'[b] = walker[b]
           \/ todo'[b] = {} /\ walker'[b] = walker[b]
           \/ todo[b] = {} /\ todo'[b] = {} /\ walker[b] # "walk" /\ walker'[b] # "walk"
    PROVE  OnWay(b)'
<1>1. /\ Here(b)' = Here(b) /\ Mine(b)' = Mine(b) /\ Repeated(b)' = Repeated(b)
      /\ Begun(b)' = Begun(b) /\ Under(Here(b))' = Under(Here(b))
  BY DEF Here, Mine, Under, Below, Repeated, Begun
<1>2. walker'[b] = "walk" => InWalk(b)'
  BY <1>1 DEF InWalk, OnWay
<1> QED
  BY <1>1, <1>2 DEF OnWay

(* Every step keeps the walks in order. *)
LEMMA WalksNext == TypeOK /\ Lockstep /\ Walks /\ Next => Walks'
<1> SUFFICES ASSUME TypeOK, Lockstep, Walks, Next PROVE Walks'
  OBVIOUS
<1> DEFINE Same(c) ==
      /\ walked'[c] = walked[c] /\ Waiting(c)' \subseteq Waiting(c) /\ at'[c] = at[c]
      /\ \/ todo'[c] = todo[c] /\ walker'[c] = walker[c]
         \/ todo'[c] = {} /\ walker'[c] = walker[c]
         \/ todo[c] = {} /\ todo'[c] = {} /\ walker[c] # "walk" /\ walker'[c] # "walk"
<1>0. ASSUME \A c \in Builds : Same(c) PROVE Walks'
  BY <1>0, SameOnWay DEF Walks
<1>1. ASSUME NEW b \in Builds, Request(b) PROVE Walks'
  <2>1. \A c \in Builds : Same(c)
    BY <1>1 DEF Request, TypeOK, Counts, Calls, Walks, OnWay, Waiting, store, build, history
  <2> QED
    BY <2>1, <1>0
<1>3. ASSUME NEW b \in Builds, ClearFails(b) PROVE Walks'
  <2>1. \A c \in Builds : Same(c)
    BY <1>3 DEF ClearFails, TypeOK, Counts, Calls, Walks, OnWay, Waiting, store, build, history
  <2> QED
    BY <2>1, <1>0
<1>4. ASSUME NEW b \in Builds, Start(b) PROVE Walks'
  <2>1. \A c \in Builds : Same(c)
    BY <1>4 DEF Start, TypeOK, Counts, Calls, Walks, OnWay, Waiting, store, build, history
  <2> QED
    BY <2>1, <1>0
<1>5. ASSUME NEW b \in Builds, Begin(b) PROVE Walks'
  <2>1. \A c \in Builds : Same(c)
    BY <1>5 DEF Begin, TypeOK, Counts, Calls, Walks, OnWay, Waiting, store, build, history
  <2> QED
    BY <2>1, <1>0
<1>7. ASSUME NEW b \in Builds, SkipDir(b) PROVE Walks'
  <2>1. \A c \in Builds : Same(c)
    BY <1>7 DEF SkipDir, TypeOK, Counts, Calls, Walks, OnWay, Waiting, store, build, history
  <2> QED
    BY <2>1, <1>0
<1>9. ASSUME NEW b \in Builds, Leave(b) PROVE Walks'
  <2>1. \A c \in Builds : Same(c)
    BY <1>9 DEF Leave, TypeOK, Counts, Calls, Walks, OnWay, Waiting, store, build, history
  <2> QED
    BY <2>1, <1>0
<1>10. ASSUME NEW b \in Builds, SendQuit(b) PROVE Walks'
  <2>1. \A c \in Builds : Same(c)
    BY <1>10 DEF SendQuit, TypeOK, Counts, Calls, Walks, OnWay, Waiting, store, build, history
  <2> QED
    BY <2>1, <1>0
<1>11. ASSUME NEW b \in Builds, Waited(b) PROVE Walks'
  <2>1. \A c \in Builds : Same(c)
    BY <1>11 DEF Waited, TypeOK, Counts, Calls, Walks, OnWay, Waiting, store, build, history
  <2> QED
    BY <2>1, <1>0
<1>14. ASSUME NEW b \in Builds, Resign(b) PROVE Walks'
  <2>1. \A c \in Builds : Same(c)
    BY <1>14 DEF Resign, TypeOK, Counts, Calls, Walks, OnWay, Waiting, store, build, history
  <2> QED
    BY <2>1, <1>0
<1>28. ASSUME NEW b \in Builds, NoPathLeft(b) PROVE Walks'
  <2>1. \A c \in Builds : Same(c)
    BY <1>28 DEF NoPathLeft, TypeOK, Counts, Calls, Walks, OnWay, Waiting, store, build, history
  <2> QED
    BY <2>1, <1>0
<1>12. ASSUME NEW b \in Builds, Tick(b) PROVE Walks'
  <2>1. \A c \in Builds : Same(c)
    BY <1>12 DEF Tick, TypeOK, Counts, Calls, Walks, OnWay, Waiting, Indexes, store, build, history
  <2> QED
    BY <2>1, <1>0
<1>13. ASSUME NEW b \in Builds, TakeQuit(b) PROVE Walks'
  <2>1. \A c \in Builds : Same(c)
    BY <1>13 DEF TakeQuit, TypeOK, Counts, Calls, Walks, OnWay, Waiting, Indexes, store, build, history
  <2> QED
    BY <2>1, <1>0
<1>15. ASSUME StopRequest PROVE Walks'
  <2>1. \A c \in Builds : Same(c)
    BY <1>15 DEF StopRequest, TypeOK, Counts, Calls, Walks, OnWay, Waiting, store, build, history
  <2> QED
    BY <2>1, <1>0
<1>16. ASSUME ClearRequest PROVE Walks'
  <2>1. \A c \in Builds : Same(c)
    BY <1>16 DEF ClearRequest, TypeOK, Counts, Calls, Walks, OnWay, Waiting, store, build, history
  <2> QED
    BY <2>1, <1>0
<1>17. ASSUME ClearIndex PROVE Walks'
  <2>1. \A c \in Builds : Same(c)
    BY <1>17 DEF ClearIndex, TypeOK, Counts, Calls, Walks, OnWay, Waiting, store, build, history
  <2> QED
    BY <2>1, <1>0
<1>18. ASSUME ClearReports PROVE Walks'
  <2>1. \A c \in Builds : Same(c)
    BY <1>18 DEF ClearReports, TypeOK, Counts, Calls, Walks, OnWay, Waiting, store, build, history
  <2> QED
    BY <2>1, <1>0
<1>19. ASSUME NEW u \in Updates, NEW d \in Dirs, Listed(u, d) PROVE Walks'
  <2>1. \A c \in Builds : Same(c)
    BY <1>19 DEF Listed, TypeOK, Counts, Calls, Walks, OnWay, Waiting, store, build, history
  <2> QED
    BY <2>1, <1>0
<1>20. ASSUME NEW u \in Updates, Test(u) PROVE Walks'
  <2>1. \A c \in Builds : Same(c)
    BY <1>20 DEF Test, TypeOK, Counts, Calls, Walks, OnWay, Waiting, store, build, history
  <2> QED
    BY <2>1, <1>0
<1>21. ASSUME NEW u \in Updates, Get(u) PROVE Walks'
  <2>1. \A c \in Builds : Same(c)
    BY <1>21 DEF Get, TypeOK, Counts, Calls, Walks, OnWay, Waiting, store, build, history
  <2> QED
    BY <2>1, <1>0
<1>22. ASSUME NEW u \in Updates, Deletes(u) PROVE Walks'
  <2>1. \A c \in Builds : Same(c)
    BY <1>22 DEF Deletes, TypeOK, Counts, Calls, Walks, OnWay, Waiting, store, build, history
  <2> QED
    BY <2>1, <1>0
<1>23. ASSUME NEW u \in Updates, Adds(u) PROVE Walks'
  <2>1. \A c \in Builds : Same(c)
    BY <1>23 DEF Adds, TypeOK, Counts, Calls, Walks, OnWay, Waiting, store, build, history
  <2> QED
    BY <2>1, <1>0
<1>24. ASSUME NEW u \in Updates, UpdateFails(u) PROVE Walks'
  <2>1. \A c \in Builds : Same(c)
    BY <1>24 DEF UpdateFails, TypeOK, Counts, Calls, Walks, OnWay, Waiting, store, build, history
  <2> QED
    BY <2>1, <1>0
<1>25. ASSUME NEW n \in Nodes, Change(n) PROVE Walks'
  <2>1. \A c \in Builds : Same(c)
    BY <1>25 DEF Change, TypeOK, Counts, Calls, Walks, OnWay, Waiting, store, build, history
  <2> QED
    BY <2>1, <1>0
<1>6. ASSUME NEW b \in Builds, NEW n \in todo[b], Visit(b, n) PROVE Walks'
  <2>1. OnWay(b)'
    BY <1>6, VisitOnWay DEF Walks
  <2>2. ASSUME NEW c \in Builds \ {b} PROVE OnWay(c)'
    <3>1. Same(c)
      BY <1>6 DEF Visit, TypeOK, Counts, Calls, Waiting, store, history
    <3> QED
      BY <3>1, SameOnWay DEF Walks
  <2> QED
    BY <2>1, <2>2 DEF Walks
<1>8. ASSUME NEW b \in Builds, WalkEnds(b) PROVE Walks'
  <2>1. OnWay(b)'
    <3>1. /\ walked' = walked /\ queue' = queue /\ at'[b] = at[b] + 1 /\ walker[b] = "walk"
          /\ walker'[b] = "next" /\ todo'[b] = {} /\ at[b] \in Nat
      BY <1>8 DEF WalkEnds, TypeOK, Counts, Calls, history
    <3>2. Begun(b) \subseteq Begun(b)'
      <4>1. \A i \in DOMAIN Paths[b] : i \in Nat
        <5>1. Paths[b] \in Seq(Nodes \cup {Root})
          BY BuildAssumption
        <5> QED
          BY <5>1
      <4> QED
        BY <3>1, <4>1 DEF Begun
    <3>3. Waiting(b)' = Waiting(b)
      BY <3>1 DEF Waiting
    <3>4. \A i : Under(Paths[b][i])' = Under(Paths[b][i])
      BY DEF Under, Below
    <3> QED
      BY <3>1, <3>2, <3>3, <3>4 DEF Walks, OnWay
  <2>2. ASSUME NEW c \in Builds \ {b} PROVE OnWay(c)'
    <3>1. Same(c)
      BY <1>8 DEF WalkEnds, TypeOK, Counts, Calls, Waiting, store, history
    <3> QED
      BY <3>1, SameOnWay DEF Walks
  <2> QED
    BY <2>1, <2>2 DEF Walks
<1>2. ASSUME NEW b \in Builds, ClearFirst(b) PROVE Walks'
  <2>1. OnWay(b)'
    <3>1. /\ walked'[b] = {} /\ Waiting(b)' = {} /\ todo'[b] = {}
          /\ walker'[b] \in {"clear", "start"}
      BY <1>2 DEF ClearFirst, TypeOK, Counts, Calls, Lockstep, InStep, Waiting, store, history
    <3> QED
      BY <3>1 DEF OnWay
  <2>2. ASSUME NEW c \in Builds \ {b} PROVE OnWay(c)'
    <3>1. Same(c)
      BY <1>2 DEF ClearFirst, TypeOK, Counts, Calls, Waiting, store, history
    <3> QED
      BY <3>1, SameOnWay DEF Walks
  <2> QED
    BY <2>1, <2>2 DEF Walks
<1>26. ASSUME NEW b \in Builds, Cleared(b) PROVE Walks'
  <2>1. OnWay(b)'
    <3>1. /\ walked'[b] = {} /\ Waiting(b)' = {} /\ todo'[b] = {}
          /\ walker'[b] \in {"clear", "start"}
      BY <1>26 DEF Cleared, TypeOK, Counts, Calls, Lockstep, InStep, Waiting, store, history
    <3> QED
      BY <3>1 DEF OnWay
  <2>2. ASSUME NEW c \in Builds \ {b} PROVE OnWay(c)'
    <3>1. Same(c)
      BY <1>26 DEF Cleared, TypeOK, Counts, Calls, Waiting, store, history
    <3> QED
      BY <3>1, SameOnWay DEF Walks
  <2> QED
    BY <2>1, <2>2 DEF Walks
<1>27. ASSUME NEW b \in Builds, NextPath(b) PROVE Walks'
  <2>1. OnWay(b)'
    BY <1>27, NextOnWay DEF Walks
  <2>2. ASSUME NEW c \in Builds \ {b} PROVE OnWay(c)'
    <3>1. Same(c)
      BY <1>27 DEF NextPath, TypeOK, Counts, Calls, Waiting, store, history
    <3> QED
      BY <3>1, SameOnWay DEF Walks
  <2> QED
    BY <2>1, <2>2 DEF Walks
<1> HIDE DEF Same
<1> QED
  BY <1>1, <1>2, <1>3, <1>4, <1>5, <1>6, <1>7, <1>8, <1>9, <1>10, <1>11,
     <1>12, <1>13, <1>14, <1>15, <1>16, <1>17, <1>18, <1>19, <1>20, <1>21,
     <1>22, <1>23, <1>24, <1>25, <1>26, <1>27, <1>28 DEF Next, Walker, Consumer

-----------------------------------------------------------------------------
(* A listing stays one of one directory. *)
LEMMA ListingsNext == TypeOK /\ Listings /\ Next => Listings'
<1> SUFFICES ASSUME TypeOK, Listings, Next PROVE Listings'
  OBVIOUS
<1>1. ASSUME NEW b \in Builds, Request(b) PROVE Listings'
  BY <1>1, Basics DEF TypeOK, Counts, Calls, Listings, Request, store, build, history
<1>2. ASSUME NEW b \in Builds, ClearFirst(b) PROVE Listings'
  BY <1>2, Basics DEF TypeOK, Counts, Calls, Listings, ClearFirst, Drop, store, build, history
<1>3. ASSUME NEW b \in Builds, ClearFails(b) PROVE Listings'
  BY <1>3, Basics DEF TypeOK, Counts, Calls, Listings, ClearFails, Upset, store, build, history
<1>4. ASSUME NEW b \in Builds, Start(b) PROVE Listings'
  BY <1>4, Basics DEF TypeOK, Counts, Calls, Listings, Start, store, build, history
<1>5. ASSUME NEW b \in Builds, Begin(b) PROVE Listings'
  BY <1>5, Basics DEF TypeOK, Counts, Calls, Listings, Begin, store, build, history
<1>6. ASSUME NEW b \in Builds, NEW n \in todo[b], Visit(b, n) PROVE Listings'
  BY <1>6, Basics DEF TypeOK, Counts, Calls, Listings, Visit, Upset, Children, store, build, history
<1>7. ASSUME NEW b \in Builds, SkipDir(b) PROVE Listings'
  BY <1>7, Basics DEF TypeOK, Counts, Calls, Listings, SkipDir, store, build, history
<1>8. ASSUME NEW b \in Builds, WalkEnds(b) PROVE Listings'
  BY <1>8, Basics DEF TypeOK, Counts, Calls, Listings, WalkEnds, store, build, history
<1>9. ASSUME NEW b \in Builds, Leave(b) PROVE Listings'
  BY <1>9, Basics DEF TypeOK, Counts, Calls, Listings, Leave, store, build, history
<1>10. ASSUME NEW b \in Builds, SendQuit(b) PROVE Listings'
  BY <1>10, Basics DEF TypeOK, Counts, Calls, Listings, SendQuit, store, build, history
<1>11. ASSUME NEW b \in Builds, Waited(b) PROVE Listings'
  BY <1>11, Basics DEF TypeOK, Counts, Calls, Listings, Waited, store, build, history
<1>12. ASSUME NEW b \in Builds, Tick(b) PROVE Listings'
  BY <1>12, Basics DEF TypeOK, Counts, Calls, Listings, Tick, Indexes, AddWaiting, Reports, Upset, store, build, history
<1>13. ASSUME NEW b \in Builds, TakeQuit(b) PROVE Listings'
  BY <1>13, Basics DEF TypeOK, Counts, Calls, Listings, TakeQuit, Indexes, AddWaiting, Reports, Upset, store, build, history
<1>14. ASSUME NEW b \in Builds, Resign(b) PROVE Listings'
  BY <1>14, Basics DEF TypeOK, Counts, Calls, Listings, Resign, store, build, history
<1>15. ASSUME StopRequest PROVE Listings'
  BY <1>15, Basics DEF TypeOK, Counts, Calls, Listings, StopRequest, store, build, history
<1>16. ASSUME ClearRequest PROVE Listings'
  BY <1>16, Basics DEF TypeOK, Counts, Calls, Listings, ClearRequest, store, build, history
<1>17. ASSUME ClearIndex PROVE Listings'
  BY <1>17, Basics DEF TypeOK, Counts, Calls, Listings, ClearIndex, Drop, Upset, store, build, history
<1>18. ASSUME ClearReports PROVE Listings'
  BY <1>18, Basics DEF TypeOK, Counts, Calls, Listings, ClearReports, store, build, history
<1>19. ASSUME NEW u \in Updates, NEW d \in Dirs, Listed(u, d) PROVE Listings'
  BY <1>19, Basics DEF TypeOK, Counts, Calls, Listings, Listed, At, Children, store, build, history
<1>20. ASSUME NEW u \in Updates, Test(u) PROVE Listings'
  BY <1>20, Basics DEF TypeOK, Counts, Calls, Listings, Test, store, build, history
<1>21. ASSUME NEW u \in Updates, Get(u) PROVE Listings'
  BY <1>21, Basics DEF TypeOK, Counts, Calls, Listings, Get, AddedBeside, store, build, history
<1>22. ASSUME NEW u \in Updates, Deletes(u) PROVE Listings'
  BY <1>22, Basics DEF TypeOK, Counts, Calls, Listings, Deletes, Drop, store, build, history
<1>23. ASSUME NEW u \in Updates, Adds(u) PROVE Listings'
  BY <1>23, Basics DEF TypeOK, Counts, Calls, Listings, Adds, AddAll, store, build, history
<1>24. ASSUME NEW u \in Updates, UpdateFails(u) PROVE Listings'
  BY <1>24, Basics DEF TypeOK, Counts, Calls, Listings, UpdateFails, Drop, Upset, store, build, history
<1>25. ASSUME NEW n \in Nodes, Change(n) PROVE Listings'
  BY <1>25, Basics DEF TypeOK, Counts, Calls, Listings, Change, store, build, history
<1>26. ASSUME NEW b \in Builds, Cleared(b) PROVE Listings'
  BY <1>26, Basics DEF TypeOK, Counts, Calls, Listings, Cleared, Upset, store, build, history
<1>27. ASSUME NEW b \in Builds, NextPath(b) PROVE Listings'
  BY <1>27, Basics DEF TypeOK, Counts, Calls, Listings, NextPath, Upset, store, build, history
<1>28. ASSUME NEW b \in Builds, NoPathLeft(b) PROVE Listings'
  BY <1>28, Basics DEF TypeOK, Counts, Calls, Listings, NoPathLeft, Upset, store, build, history
<1> QED
  BY <1>1, <1>2, <1>3, <1>4, <1>5, <1>6, <1>7, <1>8, <1>9, <1>10, <1>11,
     <1>12, <1>13, <1>14, <1>15, <1>16, <1>17, <1>18, <1>19, <1>20, <1>21,
     <1>22, <1>23, <1>24, <1>25, <1>26, <1>27, <1>28 DEF Next, Walker, Consumer

(* No new writer, and none has more to add. *)
NoNewWriter ==
    /\ \A b \in Builds : Writing(b)' => Writing(b)
    /\ \A u \in Updates : Pending(u)' => /\ Pending(u) /\ update'[u].objs = update[u].objs
                                         /\ update'[u].old = update[u].old
    /\ doubled \subseteq doubled'

(* No document more, and nothing waits again. *)
NoMore ==
    /\ \A n \in Nodes : index'[n] <= index[n]
    /\ \A b \in Builds :
          /\ walked[b] \ Waiting(b) \subseteq walked'[b] \ Waiting(b)'
          /\ \A n \in Nodes : queue'[b][n] <= queue[b][n]

(* A step that makes nobody a writer keeps the overlaps marked. *)
LEMMA MarkedStays == Marked /\ NoNewWriter => Marked'
<1>1. \A b \in Builds : Scope(b)' = Scope(b) /\ Repeated(b)' = Repeated(b)
  BY DEF Scope, Under, Below, Repeated
<1> QED
  BY <1>1 DEF Marked, NoNewWriter

(* One that moreover adds no document keeps what will be added fresh. *)
LEMMA FreshStays == TypeOK /\ TypeOK' /\ Fresh /\ NoNewWriter /\ NoMore => Fresh'
<1> SUFFICES ASSUME TypeOK, TypeOK', Fresh, NoNewWriter, NoMore PROVE Fresh'
  OBVIOUS
<1>1. ASSUME NEW b \in Builds, Writing(b)', NEW n \in Scope(b)' \ doubled', index'[n] > 0
      PROVE  n \in walked'[b] \ Waiting(b)'
  <2>1. Writing(b) /\ n \in Scope(b) \ doubled
    BY <1>1 DEF NoNewWriter, Scope, Under, Below
  <2>2. n \in Nodes
    BY <2>1, ScopeNodes
  <2>3. index[n] > 0
    BY <1>1, <2>2 DEF NoMore, TypeOK, Counts, Calls
  <2> QED
    BY <2>1, <2>3 DEF Fresh, NoMore
<1>2. ASSUME NEW u \in Updates, Pending(u)', NEW n \in update'[u].objs \ (update'[u].old \cup doubled')
      PROVE  index'[n] = 0
  <2>1. Pending(u) /\ n \in update[u].objs \ (update[u].old \cup doubled) /\ n \in Nodes
    BY <1>2 DEF NoNewWriter, TypeOK, Counts, Calls
  <2>2. index[n] = 0
    BY <2>1 DEF Fresh
  <2> QED
    BY <2>1, <2>2 DEF NoMore, TypeOK, Counts, Calls
<1>3. ASSUME NEW b \in Builds, Writing(b)', NEW n \in Nodes \ doubled'
      PROVE  queue'[b][n] <= 1
  <2>1. queue[b][n] <= 1 /\ queue'[b][n] <= queue[b][n]
    BY <1>3 DEF NoNewWriter, NoMore, Fresh
  <2>2. queue[b][n] \in Nat /\ queue'[b][n] \in Nat
    BY DEF TypeOK, Counts, Calls
  <2> QED
    BY <2>1, <2>2
<1> QED
  BY <1>1, <1>2, <1>3 DEF Fresh

(* It doubles nothing either. *)
LEMMA DoublesStay == TypeOK /\ TypeOK' /\ DoublesHaveCause /\ NoNewWriter /\ NoMore => DoublesHaveCause'
  BY DEF DoublesHaveCause, NoNewWriter, NoMore, TypeOK, Counts, Calls

(* A build adds what its walk has found and it alone may still add.        *)
LEMMA BuildAdds ==
    ASSUME TypeOK, TypeOK', Walks, Marked, Fresh, DoublesHaveCause,
           NEW b \in Builds, consumer[b] = "loop", Indexes(b),
           NoNewWriter, UNCHANGED walked
    PROVE  Fresh' /\ DoublesHaveCause'
<1> DEFINE W == Waiting(b)
<1>1. W \subseteq Scope(b) /\ W \subseteq walked[b] /\ Writing(b) /\ W \subseteq Nodes
  BY DEF Walks, OnWay, Begun, Scope, Writing, Waiting
<1>2. /\ queue' = [queue EXCEPT ![b] = [n \in Nodes |-> 0]]
      /\ Waiting(b)' = {} /\ \A c \in Builds \ {b} : Waiting(c)' = Waiting(c)
  BY DEF Indexes, Waiting, TypeOK, Counts, Calls
<1>3. CASE UNCHANGED index
  <2>1. NoMore
    BY <1>2, <1>3 DEF NoMore, TypeOK, Counts, Calls
  <2> QED
    BY <2>1, FreshStays, DoublesStay
<1>4. CASE AddWaiting(b)
  <2>1. /\ \A n \in Nodes \ W : index'[n] = index[n]
        /\ \A n \in W \ doubled : index'[n] = index[n] + 1
    <3>1. ASSUME NEW n \in Nodes PROVE index'[n] = index[n] + queue[b][n] /\ index[n] \in Nat /\ queue[b][n] \in Nat
      BY <1>4 DEF AddWaiting, TypeOK, Counts, Calls
    <3>2. \A n \in Nodes \ doubled : queue[b][n] <= 1
      BY <1>1 DEF Fresh
    <3> QED
      BY <3>1, <3>2 DEF Waiting
  <2>2. \A n \in W \ doubled : index[n] = 0
    BY <1>1 DEF Fresh, TypeOK, Counts, Calls
  <2>3. ASSUME NEW n \in Nodes \ doubled' PROVE index'[n] <= 1
    <3>1. index[n] <= 1 /\ n \notin doubled
      BY DEF DoublesHaveCause, NoNewWriter
    <3>2. CASE n \in W
      BY <2>1, <2>2, <3>1, <3>2
    <3>3. CASE n \notin W
      BY <2>1, <3>1, <3>3
    <3> QED
      BY <3>2, <3>3
  <2>4. ASSUME NEW c \in Builds, Writing(c)', NEW n \in Scope(c)' \ doubled', index'[n] > 0
        PROVE  n \in walked'[c] \ Waiting(c)'
    <3>1. Writing(c) /\ n \in Scope(c) \ doubled /\ n \in Nodes
      BY <2>4, ScopeNodes DEF NoNewWriter, Scope, Under, Below
    <3>2. CASE c = b
      <4>1. n \in walked[b]
        BY <1>1, <2>1, <2>4, <3>1, <3>2 DEF Fresh, TypeOK, Counts, Calls
      <4> QED
        BY <1>2, <3>2, <4>1
    <3>3. CASE c # b
      <4>1. n \notin W
        BY <1>1, <3>1, <3>3 DEF Marked
      <4>2. index[n] > 0
        BY <2>1, <2>4, <3>1, <4>1
      <4> QED
        BY <1>2, <3>1, <3>3, <4>2 DEF Fresh
    <3> QED
      BY <3>2, <3>3
  <2>5. ASSUME NEW u \in Updates, Pending(u)', NEW n \in update'[u].objs \ (update'[u].old \cup doubled')
        PROVE  index'[n] = 0
    <3>1. Pending(u) /\ n \in update[u].objs \ (update[u].old \cup doubled) /\ n \in Nodes
      BY <2>5 DEF NoNewWriter, TypeOK, Counts, Calls
    <3>2. n \notin W /\ index[n] = 0
      BY <1>1, <3>1 DEF Marked, Fresh
    <3> QED
      BY <2>1, <3>1, <3>2
  <2>6. ASSUME NEW c \in Builds, Writing(c)', NEW n \in Nodes \ doubled' PROVE queue'[c][n] <= 1
    BY <1>2, <2>6 DEF Fresh, NoNewWriter, TypeOK, Counts, Calls
  <2> QED
    BY <2>3, <2>4, <2>5, <2>6 DEF Fresh, DoublesHaveCause
<1> QED
  BY <1>3, <1>4 DEF Indexes

(* What an update under way may add, it adds beside any other writer.      *)
LEMMA UpdateBeside ==
    ASSUME TypeOK, NEW w, NEW u \in Updates \ {w}, Pending(u)
    PROVE  update[u].objs \subseteq AddedBeside(w)
  BY DEF AddedBeside, Pending, TypeOK, Counts, Calls

(* What a build under way may add, it adds beside any other writer.        *)
LEMMA BuildBeside ==
    ASSUME NEW w, NEW b \in Builds \ {w}, Writing(b)
    PROVE  Scope(b) \subseteq AddedBeside(w)
  BY ScopeNodes DEF AddedBeside

(* Whoever may add a node that another one may add has marked it. *)
LEMMA MarksNext == TypeOK /\ TypeOK' /\ Lockstep /\ Walks /\ Listings /\ Marked /\ Fresh /\ DoublesHaveCause /\ Next => Marked' /\ Fresh' /\ DoublesHaveCause'
<1> SUFFICES ASSUME TypeOK, TypeOK', Lockstep, Walks, Listings, Marked, Fresh, DoublesHaveCause, Next PROVE Marked' /\ Fresh' /\ DoublesHaveCause'
  OBVIOUS
<1>1. ASSUME NEW b \in Builds, Request(b) PROVE Marked' /\ Fresh' /\ DoublesHaveCause'
  <2>1. NoNewWriter
    BY <1>1 DEF NoNewWriter, Writing, Pending, TypeOK, Counts, Calls, Request, store, build, history
  <2>2. NoMore
    BY <1>1 DEF NoMore, Waiting, TypeOK, Counts, Calls, Request, store, build, history
  <2> QED
    BY <2>1, <2>2, MarkedStays, FreshStays, DoublesStay
<1>2. ASSUME NEW b \in Builds, ClearFirst(b) PROVE Marked' /\ Fresh' /\ DoublesHaveCause'
  <2>1. NoNewWriter
    BY <1>2 DEF NoNewWriter, Writing, Pending, TypeOK, Counts, Calls, ClearFirst
  <2>2. NoMore
    BY <1>2 DEF NoMore, Waiting, TypeOK, Counts, Calls, ClearFirst, Drop
  <2> QED
    BY <2>1, <2>2, MarkedStays, FreshStays, DoublesStay
<1>3. ASSUME NEW b \in Builds, ClearFails(b) PROVE Marked' /\ Fresh' /\ DoublesHaveCause'
  <2>1. NoNewWriter
    BY <1>3 DEF NoNewWriter, Writing, Pending, TypeOK, Counts, Calls, ClearFails, Upset, store, build, history
  <2>2. NoMore
    BY <1>3 DEF NoMore, Waiting, TypeOK, Counts, Calls, ClearFails, Upset, store, build, history
  <2> QED
    BY <2>1, <2>2, MarkedStays, FreshStays, DoublesStay
<1>4. ASSUME NEW b \in Builds, Start(b) PROVE Marked' /\ Fresh' /\ DoublesHaveCause'
  <2>1. NoNewWriter
    BY <1>4 DEF NoNewWriter, Writing, Pending, TypeOK, Counts, Calls, Start, store, build, history
  <2>2. NoMore
    BY <1>4 DEF NoMore, Waiting, TypeOK, Counts, Calls, Start, store, build, history
  <2> QED
    BY <2>1, <2>2, MarkedStays, FreshStays, DoublesStay
<1>5. ASSUME NEW b \in Builds, Begin(b) PROVE Marked' /\ Fresh' /\ DoublesHaveCause'
  <2>1. NoNewWriter
    BY <1>5 DEF NoNewWriter, Writing, Pending, TypeOK, Counts, Calls, Begin, store, build, history
  <2>2. NoMore
    BY <1>5 DEF NoMore, Waiting, TypeOK, Counts, Calls, Begin, store, build, history
  <2> QED
    BY <2>1, <2>2, MarkedStays, FreshStays, DoublesStay
<1>6. ASSUME NEW b \in Builds, NEW n \in todo[b], Visit(b, n) PROVE Marked' /\ Fresh' /\ DoublesHaveCause'
  <2>1. NoNewWriter
    BY <1>6 DEF NoNewWriter, Writing, Pending, TypeOK, Counts, Calls, Visit
  <2>2. /\ queue' = IF n = Root THEN queue ELSE [queue EXCEPT ![b][n] = @ + 1]
        /\ walked' = [walked EXCEPT ![b] = @ \cup ({n} \ {Root})] /\ index' = index
    BY <1>6 DEF Visit, store
  <2>3. Writing(b) => n \in doubled \/ n \notin walked[b]
    BY <1>6 DEF Walks, OnWay, InWalk, Marked
  <2>4. /\ \A c \in Builds \ {b} : walked'[c] = walked[c] /\ queue'[c] = queue[c]
        /\ \A c \in Builds \ {b} : Waiting(c)' = Waiting(c)
        /\ \A m \in Nodes \ {n} : queue'[b][m] = queue[b][m]
        /\ n \in Nodes => queue'[b][n] = queue[b][n] + 1
        /\ walked[b] \subseteq walked'[b] /\ Waiting(b)' \subseteq Waiting(b) \cup {n}
    <3>1. /\ \A c \in Builds \ {b} : walked'[c] = walked[c] /\ queue'[c] = queue[c]
          /\ walked[b] \subseteq walked'[b]
      BY <2>2 DEF TypeOK
    <3>2. \A m \in Nodes \ {n} : queue'[b][m] = queue[b][m]
      BY <2>2 DEF TypeOK, Counts
    <3>3. n \in Nodes => queue'[b][n] = queue[b][n] + 1
      BY <2>2, Basics DEF TypeOK, Counts
    <3>4. \A c \in Builds \ {b} : Waiting(c)' = Waiting(c)
      BY <3>1 DEF Waiting
    <3>5. Waiting(b)' \subseteq Waiting(b) \cup {n}
      BY <3>2 DEF Waiting
    <3> QED
      BY <3>1, <3>2, <3>3, <3>4, <3>5
  <2>5. ASSUME NEW c \in Builds, Writing(c)', NEW m \in Scope(c)' \ doubled', index'[m] > 0
        PROVE  m \in walked'[c] \ Waiting(c)'
    <3>1. Writing(c) /\ m \in Scope(c) \ doubled
      BY <2>1, <2>5 DEF NoNewWriter, Scope, Under, Below
    <3>2. m \in walked[c] \ Waiting(c)
      BY <2>2, <2>5, <3>1 DEF Fresh
    <3>3. CASE c # b
      BY <2>4, <3>2, <3>3
    <3>4. CASE c = b
      <4>1. m # n
        BY <2>3, <3>1, <3>2, <3>4
      <4> QED
        BY <2>4, <3>2, <3>4, <4>1
    <3> QED
      BY <3>3, <3>4
  <2>6. ASSUME NEW u \in Updates, Pending(u)', NEW m \in update'[u].objs \ (update'[u].old \cup doubled')
        PROVE  index'[m] = 0
    BY <2>1, <2>2, <2>6 DEF Fresh, NoNewWriter
  <2>7. ASSUME NEW c \in Builds, Writing(c)', NEW m \in Nodes \ doubled' PROVE queue'[c][m] <= 1
    <3>1. Writing(c) /\ m \notin doubled /\ queue[c][m] <= 1
      BY <2>1, <2>7 DEF NoNewWriter, Fresh
    <3>2. CASE c = b /\ m = n
      <4>1. n \notin Waiting(b)
        BY <1>6, <2>3, <3>1, <3>2 DEF Walks, OnWay
      <4>2. queue[b][n] \in Nat /\ ~(queue[b][n] > 0)
        BY <2>7, <3>2, <4>1 DEF Waiting, TypeOK, Counts, Calls
      <4> QED
        BY <2>4, <3>2, <4>2
    <3>3. CASE c # b
      <4>1. queue'[c] = queue[c]
        BY <2>4, <3>3
      <4> QED
        BY <3>1, <4>1
    <3>4. CASE c = b /\ m # n
      BY <2>4, <2>7, <3>1, <3>4
    <3> QED
      BY <3>2, <3>3, <3>4
  <2>8. Fresh' /\ DoublesHaveCause'
    BY <2>1, <2>2, <2>5, <2>6, <2>7 DEF Fresh, DoublesHaveCause, NoNewWriter
  <2> QED
    BY <2>1, <2>8, MarkedStays
<1>7. ASSUME NEW b \in Builds, SkipDir(b) PROVE Marked' /\ Fresh' /\ DoublesHaveCause'
  <2>1. NoNewWriter
    BY <1>7 DEF NoNewWriter, Writing, Pending, TypeOK, Counts, Calls, SkipDir, store, build, history
  <2>2. NoMore
    BY <1>7 DEF NoMore, Waiting, TypeOK, Counts, Calls, SkipDir, store, build, history
  <2> QED
    BY <2>1, <2>2, MarkedStays, FreshStays, DoublesStay
<1>8. ASSUME NEW b \in Builds, WalkEnds(b) PROVE Marked' /\ Fresh' /\ DoublesHaveCause'
  <2>1. NoNewWriter
    BY <1>8 DEF NoNewWriter, Writing, Pending, TypeOK, Counts, Calls, WalkEnds, store, build, history
  <2>2. NoMore
    BY <1>8 DEF NoMore, Waiting, TypeOK, Counts, Calls, WalkEnds, store, build, history
  <2> QED
    BY <2>1, <2>2, MarkedStays, FreshStays, DoublesStay
<1>9. ASSUME NEW b \in Builds, Leave(b) PROVE Marked' /\ Fresh' /\ DoublesHaveCause'
  <2>1. NoNewWriter
    BY <1>9 DEF NoNewWriter, Writing, Pending, TypeOK, Counts, Calls, Leave, store, build, history
  <2>2. NoMore
    BY <1>9 DEF NoMore, Waiting, TypeOK, Counts, Calls, Leave, store, build, history
  <2> QED
    BY <2>1, <2>2, MarkedStays, FreshStays, DoublesStay
<1>10. ASSUME NEW b \in Builds, SendQuit(b) PROVE Marked' /\ Fresh' /\ DoublesHaveCause'
  <2>1. NoNewWriter
    BY <1>10 DEF NoNewWriter, Writing, Pending, TypeOK, Counts, Calls, SendQuit, store, build, history
  <2>2. NoMore
    BY <1>10 DEF NoMore, Waiting, TypeOK, Counts, Calls, SendQuit, store, build, history
  <2> QED
    BY <2>1, <2>2, MarkedStays, FreshStays, DoublesStay
<1>11. ASSUME NEW b \in Builds, Waited(b) PROVE Marked' /\ Fresh' /\ DoublesHaveCause'
  <2>1. NoNewWriter
    BY <1>11 DEF NoNewWriter, Writing, Pending, TypeOK, Counts, Calls, Waited, store, build, history
  <2>2. NoMore
    BY <1>11 DEF NoMore, Waiting, TypeOK, Counts, Calls, Waited, store, build, history
  <2> QED
    BY <2>1, <2>2, MarkedStays, FreshStays, DoublesStay
<1>12. ASSUME NEW b \in Builds, Tick(b) PROVE Marked' /\ Fresh' /\ DoublesHaveCause'
  <2>1. NoNewWriter
    BY <1>12 DEF NoNewWriter, Writing, Pending, TypeOK, Counts, Calls, Tick, store, build, history
  <2>2. consumer[b] = "loop" /\ Indexes(b) /\ UNCHANGED walked
    BY <1>12 DEF Tick
  <2> QED
    BY <2>1, <2>2, MarkedStays, BuildAdds
<1>13. ASSUME NEW b \in Builds, TakeQuit(b) PROVE Marked' /\ Fresh' /\ DoublesHaveCause'
  <2>1. NoNewWriter
    BY <1>13 DEF NoNewWriter, Writing, Pending, TypeOK, Counts, Calls, TakeQuit, store, build, history
  <2>2. consumer[b] = "loop" /\ Indexes(b) /\ UNCHANGED walked
    BY <1>13 DEF TakeQuit
  <2> QED
    BY <2>1, <2>2, MarkedStays, BuildAdds
<1>14. ASSUME NEW b \in Builds, Resign(b) PROVE Marked' /\ Fresh' /\ DoublesHaveCause'
  <2>1. NoNewWriter
    BY <1>14 DEF NoNewWriter, Writing, Pending, TypeOK, Counts, Calls, Resign, store, build, history
  <2>2. NoMore
    BY <1>14 DEF NoMore, Waiting, TypeOK, Counts, Calls, Resign, store, build, history
  <2> QED
    BY <2>1, <2>2, MarkedStays, FreshStays, DoublesStay
<1>15. ASSUME StopRequest PROVE Marked' /\ Fresh' /\ DoublesHaveCause'
  <2>1. NoNewWriter
    BY <1>15 DEF NoNewWriter, Writing, Pending, TypeOK, Counts, Calls, StopRequest, store, build, history
  <2>2. NoMore
    BY <1>15 DEF NoMore, Waiting, TypeOK, Counts, Calls, StopRequest, store, build, history
  <2> QED
    BY <2>1, <2>2, MarkedStays, FreshStays, DoublesStay
<1>16. ASSUME ClearRequest PROVE Marked' /\ Fresh' /\ DoublesHaveCause'
  <2>1. NoNewWriter
    BY <1>16 DEF NoNewWriter, Writing, Pending, TypeOK, Counts, Calls, ClearRequest, store, build, history
  <2>2. NoMore
    BY <1>16 DEF NoMore, Waiting, TypeOK, Counts, Calls, ClearRequest, store, build, history
  <2> QED
    BY <2>1, <2>2, MarkedStays, FreshStays, DoublesStay
<1>17. ASSUME ClearIndex PROVE Marked' /\ Fresh' /\ DoublesHaveCause'
  <2>1. NoNewWriter
    BY <1>17 DEF NoNewWriter, Writing, Pending, TypeOK, Counts, Calls, ClearIndex, Drop, Upset, store, build, history
  <2>2. NoMore
    BY <1>17 DEF NoMore, Waiting, TypeOK, Counts, Calls, ClearIndex, Drop, Upset, store, build, history
  <2> QED
    BY <2>1, <2>2, MarkedStays, FreshStays, DoublesStay
<1>18. ASSUME ClearReports PROVE Marked' /\ Fresh' /\ DoublesHaveCause'
  <2>1. NoNewWriter
    BY <1>18 DEF NoNewWriter, Writing, Pending, TypeOK, Counts, Calls, ClearReports, store, build, history
  <2>2. NoMore
    BY <1>18 DEF NoMore, Waiting, TypeOK, Counts, Calls, ClearReports, store, build, history
  <2> QED
    BY <2>1, <2>2, MarkedStays, FreshStays, DoublesStay
<1>19. ASSUME NEW u \in Updates, NEW d \in Dirs, Listed(u, d) PROVE Marked' /\ Fresh' /\ DoublesHaveCause'
  <2>1. NoNewWriter
    BY <1>19 DEF NoNewWriter, Writing, Pending, TypeOK, Counts, Calls, Listed, At, Children, store, build, history
  <2>2. NoMore
    BY <1>19 DEF NoMore, Waiting, TypeOK, Counts, Calls, Listed, At, Children, store, build, history
  <2> QED
    BY <2>1, <2>2, MarkedStays, FreshStays, DoublesStay
<1>20. ASSUME NEW u \in Updates, Test(u) PROVE Marked' /\ Fresh' /\ DoublesHaveCause'
  <2>1. NoNewWriter
    BY <1>20 DEF NoNewWriter, Writing, Pending, TypeOK, Counts, Calls, Test, store, build, history
  <2>2. NoMore
    BY <1>20 DEF NoMore, Waiting, TypeOK, Counts, Calls, Test, store, build, history
  <2> QED
    BY <2>1, <2>2, MarkedStays, FreshStays, DoublesStay
<1>21. ASSUME NEW u \in Updates, Get(u) PROVE Marked' /\ Fresh' /\ DoublesHaveCause'
  <2>1. /\ \A c \in Builds : Writing(c)' = Writing(c) /\ Scope(c)' = Scope(c)
        /\ \A c \in Builds : Repeated(c)' = Repeated(c) /\ Waiting(c)' = Waiting(c)
        /\ \A v \in Updates \ {u} : update'[v] = update[v]
        /\ update'[u].objs = update[u].objs
        /\ update'[u].old = {n \in Nodes : Parent[n] = update[u].dir /\ index[n] > 0}
        /\ index' = index /\ walked' = walked /\ queue' = queue
        /\ doubled' = doubled \cup (update[u].objs \cap AddedBeside(u))
    BY <1>21 DEF Writing, Scope, Under, Below, Repeated, Waiting, TypeOK, Counts, Calls, Get, store, build
  <2>2. ASSUME NEW c \in Builds, Writing(c) PROVE Scope(c) \cap update[u].objs \subseteq doubled'
    <3>1. c \in Builds \ {u}
      BY BuildAssumption
    <3> QED
      BY <2>1, <2>2, <3>1, BuildBeside
  <2>3. ASSUME NEW v \in Updates \ {u}, Pending(v) PROVE update[v].objs \cap update[u].objs \subseteq doubled'
    <3>1. update[v].objs \subseteq AddedBeside(u)
      BY <2>3, UpdateBeside
    <3> QED
      BY <2>1, <3>1
  <2>4. \A v \in Updates \ {u} : Pending(v)' = Pending(v)
    BY <2>1 DEF Pending
  <2>5. Marked'
    <3>1. /\ \A c, e \in Builds : c # e /\ Writing(c)' /\ Writing(e)' => Scope(c)' \cap Scope(e)' \subseteq doubled'
      BY <2>1 DEF Marked
    <3>2. ASSUME NEW c \in Builds, NEW v \in Updates, Writing(c)', Pending(v)'
          PROVE  Scope(c)' \cap update'[v].objs \subseteq doubled'
      BY <2>1, <2>2, <2>4, <3>2 DEF Marked
    <3>3. ASSUME NEW v \in Updates, NEW w \in Updates, v # w, Pending(v)', Pending(w)'
          PROVE  update'[v].objs \cap update'[w].objs \subseteq doubled'
      BY <2>1, <2>3, <2>4, <3>3 DEF Marked
    <3> QED
      BY <2>1, <3>1, <3>2, <3>3 DEF Marked
  <2>6. ASSUME NEW c \in Builds, Writing(c)', NEW n \in Scope(c)' \ doubled', index'[n] > 0
        PROVE  n \in walked'[c] \ Waiting(c)'
    BY <2>1, <2>6 DEF Fresh
  <2>7. ASSUME NEW v \in Updates, Pending(v)', NEW n \in update'[v].objs \ (update'[v].old \cup doubled')
        PROVE  index'[n] = 0
    <3>1. CASE v = u
      <4>1. n \in Nodes /\ Parent[n] = update[u].dir
        BY <2>1, <2>7, <3>1 DEF Listings, TypeOK, Counts, Calls
      <4> QED
        BY <2>1, <2>7, <3>1, <4>1 DEF TypeOK, Counts, Calls
    <3>2. CASE v # u
      BY <2>1, <2>4, <2>7, <3>2 DEF Fresh
    <3> QED
      BY <3>1, <3>2
  <2>8. DoublesHaveCause' /\ \A c \in Builds : Writing(c)' => \A n \in Nodes \ doubled' : queue'[c][n] <= 1
    BY <2>1 DEF DoublesHaveCause, Fresh
  <2> QED
    BY <2>5, <2>6, <2>7, <2>8 DEF Fresh
<1>22. ASSUME NEW u \in Updates, Deletes(u) PROVE Marked' /\ Fresh' /\ DoublesHaveCause'
  <2>1. NoNewWriter
    BY <1>22 DEF NoNewWriter, Writing, Pending, TypeOK, Counts, Calls, Deletes, Drop, store, build, history
  <2>2. NoMore
    BY <1>22 DEF NoMore, Waiting, TypeOK, Counts, Calls, Deletes, Drop, store, build, history
  <2> QED
    BY <2>1, <2>2, MarkedStays, FreshStays, DoublesStay
<1>23. ASSUME NEW u \in Updates, Adds(u) PROVE Marked' /\ Fresh' /\ DoublesHaveCause'
  <2>1. NoNewWriter
    BY <1>23 DEF NoNewWriter, Writing, Pending, TypeOK, Counts, Calls, Adds, build, history
  <2>2. /\ \A n \in Nodes : index'[n] = IF n \in update[u].objs \ update[u].old THEN index[n] + 1 ELSE index[n]
        /\ Pending(u) /\ ~Pending(u)' /\ walked' = walked /\ queue' = queue
        /\ \A c \in Builds : Waiting(c)' = Waiting(c)
    BY <1>23 DEF Adds, AddAll, Pending, Waiting, TypeOK, Counts, Calls, build, history
  <2>3. ASSUME NEW n \in Nodes \ doubled' PROVE index'[n] <= 1
    <3>1. n \in update[u].objs \ update[u].old => index[n] = 0
      BY <2>1, <2>2 DEF Fresh, NoNewWriter
    <3> QED
      BY <2>1, <2>2, <3>1 DEF DoublesHaveCause, NoNewWriter, TypeOK, Counts, Calls
  <2>4. ASSUME NEW c \in Builds, Writing(c)', NEW n \in Scope(c)' \ doubled', index'[n] > 0
        PROVE  n \in walked'[c] \ Waiting(c)'
    <3>1. Writing(c) /\ n \in Scope(c) \ doubled /\ n \in Nodes
      BY <2>1, <2>4, ScopeNodes DEF NoNewWriter, Scope, Under, Below
    <3>2. n \notin update[u].objs
      BY <2>2, <3>1 DEF Marked
    <3>3. index[n] > 0
      BY <2>2, <2>4, <3>1, <3>2
    <3> QED
      BY <2>2, <3>1, <3>3 DEF Fresh
  <2>5. ASSUME NEW v \in Updates, Pending(v)', NEW n \in update'[v].objs \ (update'[v].old \cup doubled')
        PROVE  index'[n] = 0
    <3>1. v # u /\ Pending(v) /\ n \in update[v].objs \ (update[v].old \cup doubled) /\ n \in Nodes
      BY <2>1, <2>2, <2>5 DEF NoNewWriter, TypeOK, Counts, Calls
    <3>2. n \notin update[u].objs /\ index[n] = 0
      BY <2>2, <3>1 DEF Marked, Fresh
    <3> QED
      BY <2>2, <3>1, <3>2
  <2>6. \A c \in Builds : Writing(c)' => \A n \in Nodes \ doubled' : queue'[c][n] <= 1
    BY <2>1, <2>2 DEF Fresh, NoNewWriter
  <2> QED
    BY <2>1, <2>3, <2>4, <2>5, <2>6, MarkedStays DEF Fresh, DoublesHaveCause
<1>24. ASSUME NEW u \in Updates, UpdateFails(u) PROVE Marked' /\ Fresh' /\ DoublesHaveCause'
  <2>1. NoNewWriter
    BY <1>24 DEF NoNewWriter, Writing, Pending, TypeOK, Counts, Calls, UpdateFails, Drop, Upset, store, build, history
  <2>2. NoMore
    <3>1. queue' = queue /\ walked' = walked
      BY <1>24 DEF UpdateFails, build
    <3>2. \A n \in Nodes : index'[n] = 0 \/ index'[n] = index[n]
      <4>1. CASE \E S \in SUBSET Gone(u) : Drop(UNION {DeletedWith(n) : n \in S})
        <5>1. PICK D : Drop(D)
          BY <4>1
        <5> QED
          BY <5>1 DEF Drop
      <4>2. CASE UNCHANGED <<index, lost>>
        BY <4>2
      <4> QED
        BY <1>24, <4>1, <4>2 DEF UpdateFails
    <3> QED
      <4>1. \A n \in Nodes : index[n] \in Nat
        BY DEF TypeOK, Counts
      <4>2. \A c \in Builds : Waiting(c)' = Waiting(c) /\ \A n \in Nodes : queue[c][n] \in Nat
        BY <3>1 DEF Waiting, TypeOK, Counts
      <4> QED
        BY <3>1, <3>2, <4>1, <4>2 DEF NoMore
  <2> QED
    BY <2>1, <2>2, MarkedStays, FreshStays, DoublesStay
<1>25. ASSUME NEW n \in Nodes, Change(n) PROVE Marked' /\ Fresh' /\ DoublesHaveCause'
  <2>1. NoNewWriter
    BY <1>25 DEF NoNewWriter, Writing, Pending, TypeOK, Counts, Calls, Change, store, build, history
  <2>2. NoMore
    BY <1>25 DEF NoMore, Waiting, TypeOK, Counts, Calls, Change, store, build, history
  <2> QED
    BY <2>1, <2>2, MarkedStays, FreshStays, DoublesStay
<1>26. ASSUME NEW b \in Builds, Cleared(b) PROVE Marked' /\ Fresh' /\ DoublesHaveCause'
  <2>1. /\ \A c \in Builds \ {b} : Writing(c)' => Writing(c)
        /\ update' = update /\ walked' = walked /\ queue' = queue
        /\ doubled' = doubled \cup {n \in Scope(b) : index[n] > 0} \cup (Scope(b) \cap AddedBeside(b))
                               \cup Repeated(b)
        /\ index' = index /\ \A c \in Builds : Waiting(c)' = Waiting(c)
        /\ Waiting(b) = {}
    BY <1>26 DEF Writing, TypeOK, Counts, Calls, Cleared, Waiting, Lockstep, InStep, store
  <2>3. ASSUME NEW c \in Builds \ {b}, Writing(c) PROVE Scope(b) \cap Scope(c) \subseteq doubled'
    BY <2>1, <2>3, BuildBeside
  <2>4. ASSUME NEW u \in Updates, Pending(u) PROVE Scope(b) \cap update[u].objs \subseteq doubled'
    <3>1. u \in Updates \ {b}
      BY BuildAssumption
    <3>2. update[u].objs \subseteq AddedBeside(b)
      BY <2>4, <3>1, UpdateBeside
    <3> QED
      BY <2>1, <3>2
  <2>5. \A c \in Builds : Scope(c)' = Scope(c) /\ Repeated(c)' = Repeated(c)
    BY DEF Scope, Under, Below, Repeated
  <2>6. Marked'
    BY <2>1, <2>3, <2>4, <2>5 DEF Marked, Pending
  <2>7. ASSUME NEW c \in Builds, Writing(c)', NEW n \in Scope(c)' \ doubled', index'[n] > 0
        PROVE  n \in walked'[c] \ Waiting(c)'
    <3>1. n \in Scope(c) /\ n \in Nodes
      BY <2>5, <2>7, ScopeNodes
    <3>2. c # b
      BY <2>1, <2>7, <3>1
    <3>3. index[n] > 0
      BY <2>1, <2>7, <3>1
    <3> QED
      BY <2>1, <2>7, <3>1, <3>2, <3>3 DEF Fresh
  <2>8. ASSUME NEW u \in Updates, Pending(u)', NEW n \in update'[u].objs \ (update'[u].old \cup doubled')
        PROVE  index'[n] = 0
    <3>1. n \in Nodes /\ index[n] = 0
      BY <2>1, <2>8 DEF Fresh, Pending, TypeOK, Counts, Calls
    <3> QED
      BY <2>1, <3>1
  <2>9. DoublesHaveCause'
    BY <2>1 DEF DoublesHaveCause
  <2>10. ASSUME NEW c \in Builds, Writing(c)', NEW n \in Nodes \ doubled' PROVE queue'[c][n] <= 1
    <3>1. CASE c = b
      BY <2>1, <3>1 DEF Waiting, TypeOK, Counts, Calls
    <3>2. CASE c # b
      BY <2>1, <2>10, <3>2 DEF Fresh
    <3> QED
      BY <3>1, <3>2
  <2> QED
    BY <2>6, <2>7, <2>8, <2>9, <2>10 DEF Fresh
<1>27. ASSUME NEW b \in Builds, NextPath(b) PROVE Marked' /\ Fresh' /\ DoublesHaveCause'
  <2>1. NoNewWriter
    BY <1>27 DEF NoNewWriter, Writing, Pending, TypeOK, Counts, Calls, NextPath, store, history
  <2>2. NoMore
    BY <1>27 DEF NoMore, Waiting, TypeOK, Counts, Calls, NextPath, store, history
  <2> QED
    BY <2>1, <2>2, MarkedStays, FreshStays, DoublesStay
<1>28. ASSUME NEW b \in Builds, NoPathLeft(b) PROVE Marked' /\ Fresh' /\ DoublesHaveCause'
  <2>1. NoNewWriter
    BY <1>28 DEF NoNewWriter, Writing, Pending, TypeOK, Counts, Calls, NoPathLeft, store, history
  <2>2. NoMore
    BY <1>28 DEF NoMore, Waiting, TypeOK, Counts, Calls, NoPathLeft, store, history
  <2> QED
    BY <2>1, <2>2, MarkedStays, FreshStays, DoublesStay
<1> QED
  BY <1>1, <1>2, <1>3, <1>4, <1>5, <1>6, <1>7, <1>8, <1>9, <1>10, <1>11,
     <1>12, <1>13, <1>14, <1>15, <1>16, <1>17, <1>18, <1>19, <1>20, <1>21,
     <1>22, <1>23, <1>24, <1>25, <1>26, <1>27, <1>28 DEF Next, Walker, Consumer

-----------------------------------------------------------------------------
(* Before the first request nothing is indexed, found or added. *)
LEMMA IInvInit == Init => IInv
<1> SUFFICES ASSUME Init PROVE IInv
  OBVIOUS
<1>1. TypeOK
  BY TypeInit
<1>2. \A b \in Builds : ~Writing(b)
  BY DEF Init, Writing
<1>3. \A u \in Updates : ~Pending(u) /\ update[u].objs = {}
  BY DEF Init, At, Pending
<1>4. NoneLost /\ Lockstep
  BY BuildAssumption DEF Init, NoneLost, Lockstep, InStep, Waiting
<1>5. Walks
  BY DEF Init, Walks, OnWay, Waiting
<1>6. Marked /\ Fresh /\ Listings
  BY <1>2, <1>3 DEF Marked, Fresh, Listings
<1>7. DoublesHaveCause
  BY DEF Init, DoublesHaveCause
<1> QED
  BY <1>1, <1>4, <1>5, <1>6, <1>7 DEF IInv

(* Every step of the program keeps all of it. *)
LEMMA IInvNext == IInv /\ Next => IInv'
<1> SUFFICES ASSUME IInv, Next PROVE IInv'
  OBVIOUS
<1>1. TypeOK' /\ NoneLost' /\ Lockstep'
  BY TypeNext, NoneLostNext, LockstepNext DEF IInv
<1>2. Walks' /\ Listings'
  BY WalksNext, ListingsNext DEF IInv
<1>3. Marked' /\ Fresh' /\ DoublesHaveCause'
  BY <1>1, MarksNext DEF IInv
<1> QED
  BY <1>1, <1>2, <1>3 DEF IInv

(* So does a step of something else. *)
LEMMA IInvStutter == IInv /\ UNCHANGED vars => IInv'
<1> SUFFICES ASSUME IInv, UNCHANGED vars PROVE IInv'
  OBVIOUS
<1>1. TypeOK'
  BY DEF IInv, TypeOK, Counts, Calls, vars
<1>2. NoneLost' /\ Lockstep' /\ Listings' /\ DoublesHaveCause'
  BY DEF IInv, NoneLost, Lockstep, InStep, Waiting, Listings, DoublesHaveCause, vars
<1>3. Walks'
  <2>1. \A b \in Builds : /\ walked' = walked /\ Waiting(b)' = Waiting(b) /\ at' = at
                           /\ todo' = todo /\ walker' = walker
    BY DEF vars, Waiting
  <2> QED
    BY <2>1, SameOnWay DEF IInv, Walks
<1>4. NoNewWriter /\ NoMore
  BY DEF IInv, NoNewWriter, NoMore, Writing, Waiting, Pending, TypeOK, Counts, Calls, vars
<1>5. Marked' /\ Fresh'
  BY <1>1, <1>4, MarkedStays, FreshStays DEF IInv
<1> QED
  BY <1>1, <1>2, <1>3, <1>5 DEF IInv

(* The invariant holds in every state of every build of the index. *)
THEOREM Invariance == Spec => []IInv
<1>1. IInv /\ [Next]_vars => IInv'
  BY IInvNext, IInvStutter
<1> QED
  BY IInvInit, <1>1, PTL DEF Spec

(* Every variable of the builds and the updates keeps its type. *)
THEOREM TypeCorrect == Spec => []TypeOK
<1>1. IInv => TypeOK
  BY DEF IInv
<1> QED
  BY Invariance, <1>1, PTL

(* What the walk of BuildIndex has found is in the index or waits in its   *)
(* queue unless a statement failed or somebody else deleted it, and a      *)
(* build that nobody stopped ends with nothing waiting.                    *)
THEOREM FoundIsKept == Spec => []NothingDropped
<1>1. IInv => NothingDropped
  <2> SUFFICES ASSUME IInv, NEW b \in Builds
               PROVE  /\ \A n \in walked[b] \ lost[b] : n \in Waiting(b) \/ index[n] > 0
                      /\ walker[b] = "over" /\ b \notin stopped => Waiting(b) = {}
    BY DEF NothingDropped
  <2> QED
    BY DEF IInv, NoneLost, Lockstep, InStep
<1> QED
  BY Invariance, <1>1, PTL

(* A node has two documents only when two writers overlapped on it,       *)
(* when a deletion had left one that a build then added again, or when it  *)
(* lies below two paths of one update of the index.                        *)
THEOREM DoublesExplained == Spec => []DoublesHaveCause
<1>1. IInv => DoublesHaveCause
  BY DEF IInv
<1> QED
  BY Invariance, <1>1, PTL
=============================================================================
