----------------------------- MODULE SearchBuild -----------------------------
(***************************************************************************)
(* Building the search index (internal/search/build.go) when it is kept in *)
(* the database: the goroutine that walks the tree and fills a queue, the  *)
(* one that empties the queue into the index, the requests to build, to    *)
(* update a part, to stop and to clear (server/handles/index.go), and the  *)
(* updates after each listing of a directory, which run beside all this.   *)
(***************************************************************************)
EXTENDS Naturals, FiniteSets, Sequences

CONSTANTS
    Nodes, Dirs, Root,  \* the files and directories; those that can be listed
    Parent,             \* of every node
    Builds,             \* the requests to build the index or parts of it
    Whole,              \* those to build it all, which report their progress
    Paths,              \* of each: where its walks start, one after the other
    Mounts,             \* the nodes at which a storage is mounted
    Updates,            \* the calls of the hook after a listing
    None,
    MaxUpsets           \* bound on stops, clears, changes of the tree, and
                        \* failed statements and listings, together

ASSUME BuildAssumption ==
    /\ Root \in Dirs \ Nodes /\ Dirs \subseteq Nodes \cup {Root}
    /\ Parent \in [Nodes -> Dirs] /\ Paths \in [Builds -> Seq(Nodes \cup {Root})]
    /\ Whole \subseteq {b \in Builds : Paths[b] = <<Root>>} /\ Mounts \subseteq Nodes
    /\ \A S \in SUBSET Nodes : S # {} => \E n \in S : Parent[n] \notin S   \* a tree
    /\ None \notin Builds /\ Builds \cap Updates = {}
    /\ MaxUpsets \in Nat

VARIABLES
    tree,       \* what is there
    index,      \* how many documents each node has
    progress,   \* the setting IndexProgress: done, with an error
    quit,       \* Quit: the build it belongs to
    asked,      \* the builds whose channel has the message to quit
    running,    \* the builds whose consumer has not gone yet
    failed,     \* the variable err of each build is not nil
    queue,      \* how often each node waits to be indexed
    todo,       \* what the walk still has to visit
    at,         \* of each build: which of its paths is next
    walker, consumer,   \* where the two goroutines of each build are
    update,     \* the calls of the hook
    clearing,   \* where the request to clear the index is
    walked,     \* of each build: what its walks have put into the queue
    lost,       \* of each build: what has a reason not to be in the index
    stopped,    \* the builds that a request has stopped
    doubled,    \* nodes that two writers, or two walks, may have added
    upsets

vars == <<tree, index, progress, quit, asked, running, failed, queue, todo, at, walker,
          consumer, update, clearing, walked, lost, stopped, doubled, upsets>>

build == <<quit, asked, running, failed, queue, todo, at, walker, consumer>>
store == <<index, progress>>
history == <<walked, lost, stopped, doubled>>

(* What is below n is in every set that has, with a directory or with n,   *)
(* what is in it.                                                          *)
Below(n) ==
    {m \in Nodes : \A S \in SUBSET Nodes :
        (\A k \in Nodes : Parent[k] \in S \cup {n} => k \in S) => m \in S}
Children(d) == {n \in tree : Parent[n] = d}

(* A stop, a clear, a change or a failure. *)
Upset == upsets < MaxUpsets /\ upsets' = upsets + 1

At(pc, d, S, O) == [pc |-> pc, dir |-> d, objs |-> S, old |-> O]

Init ==
    /\ tree = Nodes
    /\ index = [n \in Nodes |-> 0]
    /\ progress = [done |-> FALSE, error |-> FALSE]
    /\ quit = None /\ asked = {} /\ running = {} /\ failed = {}
    /\ queue = [b \in Builds |-> [n \in Nodes |-> 0]] /\ todo = [b \in Builds |-> {}]
    /\ at = [b \in Builds |-> 1]
    /\ walker = [b \in Builds |-> "idle"] /\ consumer = [b \in Builds |-> "none"]
    /\ update = [u \in Updates |-> At("idle", Root, {}, {})]
    /\ clearing = "idle"
    /\ walked = [b \in Builds |-> {}] /\ lost = [b \in Builds |-> {}]
    /\ stopped = {} /\ doubled = {}
    /\ upsets = 0

-----------------------------------------------------------------------------
(* The documents of S go, the others stay. *)
Drop(S) ==
    /\ index' = [n \in Nodes |-> IF n \in S THEN 0 ELSE index[n]]
    /\ lost' = [b \in Builds |-> lost[b] \cup (S \cap walked[b])]

AddAll(S) == index' = [n \in Nodes |-> IF n \in S THEN index[n] + 1 ELSE index[n]]

(* DeleteSearchNodesByParent: what is below n; n itself is looked for with *)
(* the directory above it and a slash, which fits below the root only.     *)
DeletedWith(n) == Below(n) \cup (IF n # Root /\ Parent[n] = Root THEN {n} ELSE {})

(* What a walk that starts at p may find, and what those of a build may.   *)
Under(p) == IF p = Root THEN Nodes ELSE {p} \cup Below(p)
Scope(b) == {n \in Nodes : \E i \in DOMAIN Paths[b] : n \in Under(Paths[b][i])}

(* What more than one of its walks may find: a path repeats, or lies below *)
(* another one.                                                            *)
Repeated(b) ==
    {n \in Nodes : \E i, j \in DOMAIN Paths[b] :
        i # j /\ n \in Under(Paths[b][i]) /\ n \in Under(Paths[b][j])}

(* What others than w that are under way may add. *)
Writing(b) == walker[b] \in {"start", "begin"} \/ consumer[b] \in {"loop", "quit"}
AddedBeside(w) ==
    {n \in Nodes :
        \/ \E b \in Builds \ {w} : Writing(b) /\ n \in Scope(b)
        \/ \E u \in Updates \ {w} : update[u].pc \in {"delete", "add"} /\ n \in update[u].objs}

-----------------------------------------------------------------------------
(* The handlers BuildIndex and UpdateIndex: the test, then in a goroutine  *)
(* of their own the deletion and the call of BuildIndex.                   *)
Request(b) ==
    /\ walker[b] = "idle" /\ quit = None
    /\ walker' = [walker EXCEPT ![b] = "clear"]
    /\ UNCHANGED <<tree, store, quit, asked, running, failed, queue, todo, at, consumer, update,
                   clearing, history, upsets>>

(* The deletions, one path after the other. *)
ClearFirst(b) ==
    /\ walker[b] = "clear" /\ at[b] \in DOMAIN Paths[b]
    /\ Drop(IF b \in Whole THEN Nodes ELSE DeletedWith(Paths[b][at[b]]))
    /\ at' = [at EXCEPT ![b] = @ + 1]
    /\ UNCHANGED <<tree, progress, quit, asked, running, failed, queue, todo, walker,
                   consumer, update, clearing, walked, stopped, doubled, upsets>>

(* From now on the build may double what is left, what others are adding   *)
(* and what it is going to walk twice.                                     *)
Cleared(b) ==
    /\ walker[b] = "clear" /\ at[b] \notin DOMAIN Paths[b]
    /\ walker' = [walker EXCEPT ![b] = "start"]
    /\ at' = [at EXCEPT ![b] = 1]
    /\ doubled' = doubled \cup {n \in Scope(b) : index[n] > 0}
                          \cup (Scope(b) \cap AddedBeside(b)) \cup Repeated(b)
    /\ UNCHANGED <<tree, store, quit, asked, running, failed, queue, todo, consumer, update,
                   clearing, walked, lost, stopped, upsets>>

ClearFails(b) ==
    /\ walker[b] = "clear" /\ at[b] \in DOMAIN Paths[b] /\ Upset
    /\ walker' = [walker EXCEPT ![b] = "over"]
    /\ UNCHANGED <<tree, store, quit, asked, running, failed, queue, todo, at, consumer, update,
                   clearing, history>>

(* BuildIndex: Quit is taken, or another build has it. *)
Start(b) ==
    /\ walker[b] = "start"
    /\ IF quit # None
       THEN /\ walker' = [walker EXCEPT ![b] = "over"]
            /\ UNCHANGED <<quit, running, consumer>>
       ELSE /\ walker' = [walker EXCEPT ![b] = "begin"]
            /\ quit' = b
            /\ running' = running \cup {b}
            /\ consumer' = [consumer EXCEPT ![b] = "loop"]
    /\ UNCHANGED <<tree, store, asked, failed, queue, todo, at, update, clearing, history, upsets>>

(* The progress is written. *)
Begin(b) ==
    /\ walker[b] = "begin"
    /\ progress' = IF b \in Whole THEN [done |-> FALSE, error |-> FALSE] ELSE progress
    /\ walker' = [walker EXCEPT ![b] = "next"]
    /\ failed' = failed \ {b}
    /\ UNCHANGED <<tree, index, quit, asked, running, queue, todo, at, consumer, update,
                   clearing, history, upsets>>

(* The next path and its walk, until there is none; fs.Get sets err.       *)
NextPath(b) ==
    /\ walker[b] = "next" /\ at[b] \in DOMAIN Paths[b]
    /\ \/ /\ Paths[b][at[b]] \in tree \cup {Root}
          /\ walker' = [walker EXCEPT ![b] = "walk"]
          /\ todo' = [todo EXCEPT ![b] = {Paths[b][at[b]]}]
          /\ failed' = failed \ {b}
          /\ UNCHANGED upsets
       \/ /\ \/ Paths[b][at[b]] \notin tree \cup {Root} /\ UNCHANGED upsets
             \/ Upset
          /\ walker' = [walker EXCEPT ![b] = "leave"]
          /\ failed' = failed \cup {b}
          /\ UNCHANGED todo
    /\ UNCHANGED <<tree, store, quit, asked, running, queue, at, consumer, update, clearing,
                   history>>

NoPathLeft(b) ==
    /\ walker[b] = "next" /\ at[b] \notin DOMAIN Paths[b]
    /\ walker' = [walker EXCEPT ![b] = "leave"]
    /\ UNCHANGED <<tree, store, quit, asked, running, failed, queue, todo, at, consumer,
                   update, clearing, history, upsets>>

(* WalkFS with walkFn: a node goes into the queue, a directory is listed.  *)
(* A listing that fails is passed over.                                    *)
Visit(b, n) ==
    /\ walker[b] = "walk" /\ n \in todo[b] /\ b \in running
    /\ queue' = IF n = Root THEN queue ELSE [queue EXCEPT ![b][n] = @ + 1]
    /\ walked' = [walked EXCEPT ![b] = @ \cup ({n} \ {Root})]
    /\ \/ /\ todo' = [todo EXCEPT ![b] = (@ \ {n}) \cup (IF n \in Dirs THEN Children(n) ELSE {})]
          /\ UNCHANGED upsets
       \/ /\ n \in Dirs /\ Upset
          /\ todo' = [todo EXCEPT ![b] = @ \ {n}]
    /\ UNCHANGED <<tree, store, quit, asked, running, failed, at, walker, consumer, update,
                   clearing, lost, stopped, doubled>>

(* The consumer has gone: everything else is skipped. *)
SkipDir(b) ==
    /\ walker[b] = "walk" /\ todo[b] # {} /\ b \notin running
    /\ todo' = [todo EXCEPT ![b] = {}]
    /\ UNCHANGED <<tree, store, quit, asked, running, failed, queue, at, walker, consumer,
                   update, clearing, history, upsets>>

(* The error of the walk is none. *)
WalkEnds(b) ==
    /\ walker[b] = "walk" /\ todo[b] = {}
    /\ walker' = [walker EXCEPT ![b] = "next"]
    /\ at' = [at EXCEPT ![b] = @ + 1]
    /\ failed' = failed \ {b}
    /\ UNCHANGED <<tree, store, quit, asked, running, queue, todo, consumer, update,
                   clearing, history, upsets>>

(* The deferred function: nothing to wait for after a stop. *)
Leave(b) ==
    /\ walker[b] = "leave"
    /\ walker' = [walker EXCEPT ![b] = IF b \in running /\ quit = b THEN "send" ELSE "over"]
    /\ UNCHANGED <<tree, store, quit, asked, running, failed, queue, todo, at, consumer, update,
                   clearing, history, upsets>>

(* The channel has room for one message; another one is dropped. *)
SendQuit(b) ==
    /\ walker[b] = "send"
    /\ asked' = asked \cup {b}
    /\ walker' = [walker EXCEPT ![b] = "wait"]
    /\ UNCHANGED <<tree, store, quit, running, failed, queue, todo, at, consumer, update,
                   clearing, history, upsets>>

(* wg.Wait *)
Waited(b) ==
    /\ walker[b] = "wait" /\ consumer[b] \in {"done", "gone"}
    /\ walker' = [walker EXCEPT ![b] = "over"]
    /\ UNCHANGED <<tree, store, quit, asked, running, failed, queue, todo, at, consumer, update,
                   clearing, history, upsets>>

Walker(b) ==
    \/ ClearFirst(b) \/ Cleared(b) \/ ClearFails(b) \/ Start(b) \/ Begin(b)
    \/ NextPath(b) \/ NoPathLeft(b)
    \/ \E n \in todo[b] : Visit(b, n)
    \/ SkipDir(b) \/ WalkEnds(b) \/ Leave(b) \/ SendQuit(b) \/ Waited(b)

-----------------------------------------------------------------------------
(* BatchIndex of all that is in the queue, into which nothing can be put   *)
(* meanwhile; err is nil or the error of this batch.                       *)
Waiting(b) == {n \in Nodes : queue[b][n] > 0}

AddWaiting(b) == index' = [n \in Nodes |-> index[n] + queue[b][n]]

Indexes(b) ==
    /\ queue' = [queue EXCEPT ![b] = [n \in Nodes |-> 0]]
    /\ \/ /\ AddWaiting(b)
          /\ failed' = failed \ {b}
          /\ UNCHANGED <<lost, upsets>>
       \/ /\ Waiting(b) # {} /\ Upset
          /\ failed' = failed \cup {b}
          /\ lost' = [lost EXCEPT ![b] = @ \cup Waiting(b)]
          /\ UNCHANGED index

Reports(b, p) == progress' = IF b \in Whole THEN p ELSE progress

(* Mutant: what was indexed stays in the queue. *)
TickKeeps(b) ==
    /\ consumer[b] = "loop"
    /\ AddWaiting(b)
    /\ Reports(b, [done |-> FALSE, error |-> FALSE])
    /\ UNCHANGED <<tree, quit, asked, running, failed, queue, todo, at, walker, consumer, update,
                   clearing, history, upsets>>

(* The queue is emptied now and then, also when there is nothing in it. *)
Tick(b) ==
    /\ consumer[b] = "loop"
    /\ Indexes(b)
    /\ Reports(b, [done |-> FALSE, error |-> FALSE])
    /\ UNCHANGED <<tree, quit, asked, running, todo, at, walker, consumer, update, clearing,
                   walked, stopped, doubled>>

(* Mutant: what is still in the queue is not indexed. *)
TakeQuitAtOnce(b) ==
    /\ consumer[b] = "loop" /\ b \in asked
    /\ asked' = asked \ {b}
    /\ Reports(b, [done |-> TRUE, error |-> b \in failed])
    /\ consumer' = [consumer EXCEPT ![b] = "quit"]
    /\ UNCHANGED <<tree, index, quit, running, failed, queue, todo, at, walker, update, clearing,
                   history, upsets>>

(* The message to quit: the rest is indexed.  The error that is reported   *)
(* is the one that was there before.                                       *)
TakeQuit(b) ==
    /\ consumer[b] = "loop" /\ b \in asked
    /\ asked' = asked \ {b}
    /\ Indexes(b)
    /\ Reports(b, [done |-> TRUE, error |-> b \in failed])
    /\ consumer' = [consumer EXCEPT ![b] = "quit"]
    /\ UNCHANGED <<tree, quit, running, todo, at, walker, update, clearing, walked, stopped,
                   doubled>>

(* Quit.Store(nil), wg.Done and running.Store(false), in this order. *)
Resign(b) ==
    /\ \/ /\ consumer[b] = "quit"
          /\ quit' = None
          /\ consumer' = [consumer EXCEPT ![b] = "free"]
          /\ UNCHANGED running
       \/ /\ consumer[b] = "free"
          /\ consumer' = [consumer EXCEPT ![b] = "done"]
          /\ UNCHANGED <<quit, running>>
       \/ /\ consumer[b] = "done"
          /\ running' = running \ {b}
          /\ consumer' = [consumer EXCEPT ![b] = "gone"]
          /\ UNCHANGED quit
    /\ UNCHANGED <<tree, store, asked, failed, queue, todo, at, walker, update, clearing,
                   history, upsets>>

Consumer(b) == Tick(b) \/ TakeQuit(b) \/ Resign(b)

-----------------------------------------------------------------------------
(* StopIndex: a message to whatever build has Quit. *)
StopRequest ==
    /\ quit # None
    /\ Upset
    /\ asked' = asked \cup {quit}
    /\ stopped' = stopped \cup {quit}
    /\ UNCHANGED <<tree, store, quit, running, failed, queue, todo, at, walker, consumer, update,
                   clearing, walked, lost, doubled>>

(* ClearIndex: the test, Clear, whose error is dropped, and the progress. *)
ClearRequest ==
    /\ clearing = "idle" /\ quit = None
    /\ Upset
    /\ clearing' = "clear"
    /\ UNCHANGED <<tree, store, build, update, history>>

ClearIndex ==
    /\ clearing = "clear"
    /\ clearing' = "report"
    /\ \/ Drop(Nodes) /\ UNCHANGED upsets
       \/ Upset /\ UNCHANGED <<index, lost>>
    /\ UNCHANGED <<tree, progress, build, update, walked, stopped, doubled>>

ClearReports ==
    /\ clearing = "report"
    /\ clearing' = "idle"
    /\ progress' = [done |-> TRUE, error |-> FALSE]
    /\ UNCHANGED <<tree, index, build, update, history, upsets>>

-----------------------------------------------------------------------------
(* A listing of d is made; the hook runs later, in its own goroutine. *)
Listed(u, d) ==
    /\ update[u].pc = "idle" /\ d \in tree \cup {Root}
    /\ update' = [update EXCEPT ![u] = At("test", d, Children(d), {})]
    /\ UNCHANGED <<tree, store, build, clearing, history, upsets>>

(* Update: not while an index is built, and not before. *)
Test(u) ==
    /\ update[u].pc = "test"
    /\ update' = [update EXCEPT ![u].pc = IF quit = None /\ progress.done THEN "get" ELSE "over"]
    /\ UNCHANGED <<tree, store, build, clearing, history, upsets>>

Get(u) ==
    /\ update[u].pc = "get"
    /\ update' = [update EXCEPT ![u].pc = "delete", ![u].old =
                        {n \in Nodes : Parent[n] = update[u].dir /\ index[n] > 0}]
    /\ doubled' = doubled \cup (update[u].objs \cap AddedBeside(u))
    /\ UNCHANGED <<tree, store, build, clearing, walked, lost, stopped, upsets>>

(* A storage that is mounted there counts as being there. *)
Gone(u) == update[u].old \ (update[u].objs \cup Mounts)

(* Del for each name that is no longer there. *)
Deletes(u) ==
    /\ update[u].pc = "delete"
    /\ Drop(UNION {DeletedWith(n) : n \in Gone(u)})
    /\ update' = [update EXCEPT ![u].pc = "add"]
    /\ UNCHANGED <<tree, progress, build, clearing, walked, stopped, doubled, upsets>>

Adds(u) ==
    /\ update[u].pc = "add"
    /\ AddAll(update[u].objs \ update[u].old)
    /\ update' = [update EXCEPT ![u].pc = "over"]
    /\ UNCHANGED <<tree, progress, build, clearing, history, upsets>>

(* A statement fails: the update ends there, some names may be deleted. *)
UpdateFails(u) ==
    /\ update[u].pc \in {"get", "delete", "add"} /\ Upset
    /\ IF update[u].pc = "delete"
       THEN \E S \in SUBSET Gone(u) : Drop(UNION {DeletedWith(n) : n \in S})
       ELSE UNCHANGED <<index, lost>>
    /\ update' = [update EXCEPT ![u].pc = "over"]
    /\ UNCHANGED <<tree, progress, build, clearing, walked, stopped, doubled>>

(* The tree changes: something comes or goes. *)
Change(n) ==
    /\ Upset
    /\ \/ n \in tree /\ tree' = tree \ ({n} \cup Below(n))
       \/ n \notin tree /\ Parent[n] \in tree \cup {Root} /\ tree' = tree \cup {n}
    /\ UNCHANGED <<store, build, update, clearing, history>>

Next ==
    \/ \E b \in Builds : Request(b) \/ Walker(b) \/ Consumer(b)
    \/ StopRequest \/ ClearRequest \/ ClearIndex \/ ClearReports
    \/ \E u \in Updates : Test(u) \/ Get(u) \/ Deletes(u) \/ Adds(u) \/ UpdateFails(u)
    \/ \E u \in Updates, d \in Dirs : Listed(u, d)
    \/ \E n \in Nodes : Change(n)

(* Both goroutines of a build go on, its ticker ticks. *)
Fairness == \A b \in Builds : WF_vars(Walker(b)) /\ WF_vars(Consumer(b))

Spec == Init /\ [][Next]_vars /\ Fairness

-----------------------------------------------------------------------------
(* The types of the variables. *)
Counts == [Nodes -> Nat]
Calls == [pc : {"idle", "test", "get", "delete", "add", "over"}, dir : Dirs,
          objs : SUBSET Nodes, old : SUBSET Nodes]

TypeOK ==
    /\ tree \subseteq Nodes /\ index \in Counts /\ doubled \subseteq Nodes
    /\ progress \in [done : BOOLEAN, error : BOOLEAN]
    /\ quit \in Builds \cup {None}
    /\ asked \cup running \cup failed \cup stopped \subseteq Builds
    /\ queue \in [Builds -> Counts] /\ todo \in [Builds -> SUBSET (Nodes \cup {Root})]
    /\ at \in [Builds -> Nat \ {0}]
    /\ walked \in [Builds -> SUBSET Nodes] /\ lost \in [Builds -> SUBSET Nodes]
    /\ walker \in [Builds -> {"idle", "clear", "start", "begin", "next", "walk", "leave", "send",
                               "wait", "over"}]
    /\ consumer \in [Builds -> {"none", "loop", "quit", "free", "done", "gone"}]
    /\ update \in [Updates -> Calls]
    /\ clearing \in {"idle", "clear", "report"}
    /\ upsets \in 0..MaxUpsets

(* What the walk has put into the queue is in the index or still waits, at *)
(* every moment, and nothing waits when a build that nobody stopped is     *)
(* over.  What failed, or was deleted since by somebody else, has a reason.*)
NothingDropped ==
    \A b \in Builds :
        /\ \A n \in walked[b] \ lost[b] : n \in Waiting(b) \/ index[n] > 0
        /\ walker[b] = "over" /\ b \notin stopped => Waiting(b) = {}

(* A node has more than one document only when two writers overlapped on   *)
(* it, when an update of the index started on a node whose document the    *)
(* deletions before it have left, or when it lies below two of the paths   *)
(* of one update (BuildIndex, UpdateIndex, Update).                        *)
DoublesHaveCause == \A n \in Nodes \ doubled : index[n] <= 1

(* A call of BuildIndex that has begun returns and its goroutine ends,     *)
(* with or without a stop ("avoid goroutine leak").                        *)
BuildsEnd ==
    \A b \in Builds :
        walker[b] = "start" ~> walker[b] = "over" /\ consumer[b] \in {"none", "gone"}

(* "delete data that no longer exists" (build.go): after the deletions of  *)
(* an update what is gone from the directory has no document.              *)
GoneIsDeleted ==
    \A u \in Updates : update[u].pc = "add" =>
        \A n \in Gone(u) : index[n] = 0 \/ n \in doubled
=============================================================================
