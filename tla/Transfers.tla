----------------------------- MODULE Transfers ------------------------------
(***************************************************************************)
(* Copying and moving between two storages (internal/fs/copy_move.go) and  *)
(* the coordinator that removes the sources of a move when the last task   *)
(* of its group is done (internal/task_group).  A task for a directory     *)
(* adds a task for everything in it; the tasks of a group run side by      *)
(* side, fail, are tried again by the task manager or by the user, and are *)
(* loaded again after a restart.  The source and the target are two        *)
(* storages; everything the user asks for goes to one directory of the     *)
(* target.                                                                 *)
(***************************************************************************)
EXTENDS Naturals, Sequences, FiniteSets

CONSTANTS
    Files, Dirs,    \* what may be at the source
    Top,            \* the directory of the target, and the parent of what is submitted
    Parent,         \* the directory above a file or a directory, or Top
    Late,           \* files that another program may add to the source later
    Tasks,          \* the tasks that may exist, 1..n
    MaxRetry,       \* how often the task manager tries a task again
    MaxFaults       \* bound on failures, canceled tasks, manual retries and crashes

Nodes == Files \cup Dirs
Groups == Dirs \cup {Top}

ASSUME TreeAssumption ==
    /\ Parent \in [Nodes -> Groups] /\ Late \subseteq Files
    /\ Files \cap Dirs = {} /\ Top \notin Nodes

ASSUME TasksAssumption == IsFiniteSet(Tasks) /\ Tasks \subseteq Nat

ASSUME BoundsAssumption == MaxRetry \in Nat /\ MaxFaults \in Nat

VARIABLES
    src,        \* what the source holds
    dst,        \* the target: "none", "old" or "new" file, "dir"
    group,      \* TransferCoordinator: tasks not done, a success, sources to remove
    task,       \* the tasks of both managers and of the requests that wait
    moved,      \* what was asked to be moved
    over,       \* files at the target when it all began
    coming,     \* late files that have not come yet
    unseen,     \* late files that the cached listing of their directory lacks
    missed,     \* late files that a verification of their directory did not see
    faults

vars == <<src, dst, group, task, moved, over, coming, unseen, missed, faults>>

Active == {"pending", "listing", "putting"}
NoGroup == [pending |-> 0, ok |-> FALSE, payload |-> {}]
Fresh(st, n, g, move) ==
    [st |-> st, node |-> n, group |-> g, move |-> move, kids |-> {}, retry |-> 0,
     good |-> FALSE, todo |-> {}, frames |-> <<>>]
NoTask == Fresh("none", Top, Top, FALSE)

(* A node and the directories above it: what is in every set that has the  *)
(* node and with a node its directory.                                     *)
Chain ==
    [n \in Nodes |-> {m \in Nodes : \A S \in SUBSET Nodes :
        n \in S /\ (\A k \in S : Parent[k] \in S \cup {Top}) => m \in S}]

(* A node and everything below it. *)
Below(n) == {m \in Nodes : n \in Chain[m]}
ChildrenIn(S, n) == {m \in S : Parent[m] = n}

(* The target may hold files under some of the names; then the directories *)
(* above them are there.                                                   *)
Init ==
    /\ src = Nodes \ Late
    /\ \E O \in SUBSET Nodes :
        /\ \A n \in O : Chain[n] \cap O = {n}
        /\ over = O
        /\ dst = [n \in Nodes |-> IF n \in O THEN "old"
                                  ELSE IF Below(n) \cap O # {} THEN "dir" ELSE "none"]
    /\ group = [g \in Groups |-> NoGroup]
    /\ task = [t \in Tasks |-> NoTask]
    /\ moved = {}
    /\ coming = Late
    /\ unseen = {}
    /\ missed = {}
    /\ faults = 0

-----------------------------------------------------------------------------
(* TaskGroupCoordinator: AddTask with its payload, AppendPayload.          *)
AddTask(G, g, P) == [G EXCEPT ![g].pending = @ + 1, ![g].payload = @ \cup P]
AppendPayload(G, g, P) == [G EXCEPT ![g].payload = @ \cup P]

(* The sources that go when a task of the group g is done: none before the *)
(* last one, and none at all if every task has failed.                     *)
Completes(g, success) ==
    IF group[g].pending = 1 /\ (group[g].ok \/ success) THEN group[g].payload ELSE {}

Done(g, success) ==
    group' = CASE group[g].pending = 0 -> group
               [] group[g].pending = 1 -> [group EXCEPT ![g] = NoGroup]
               [] OTHER -> [group EXCEPT ![g].pending = @ - 1, ![g].ok = @ \/ success]

(* OnSucceeded and OnFailed; the task that is last goes on with            *)
(* HookAndRemove outside the lock.                                         *)
Settle(t, success) ==
    /\ Done(task[t].group, success)
    /\ task' = [task EXCEPT ![t].st = "removing", ![t].good = success, ![t].kids = {},
                            ![t].todo = Completes(task[t].group, success)]
    /\ UNCHANGED <<src, dst, moved, over, coming, unseen, missed>>

Ended(t) ==
    /\ task[t].st = "removing" /\ task[t].todo = {} /\ task[t].frames = <<>>
    /\ task' = [task EXCEPT ![t].st = IF task[t].good THEN "over" ELSE "failed"]
    /\ UNCHANGED <<src, dst, group, moved, over, coming, unseen, missed, faults>>

(* The payload of a task: the source of a move. *)
Payload(move, n) == IF move THEN {n} ELSE {}

NewTask(n, g, move) == Fresh("pending", n, g, move)

Free(t) == task[t].st = "none" /\ \A u \in Tasks : u < t => task[u].st # "none"

(* transfer, as a task: AddTask, AppendPayload, then the task manager. *)
Submit(t, n, move) ==
    /\ Free(t) /\ Parent[n] = Top /\ \A u \in Tasks : task[u].node # n
    /\ group' = AppendPayload(AddTask(group, Top, {}), Top, Payload(move, n))
    /\ task' = [task EXCEPT ![t] = NewTask(n, Top, move)]
    /\ moved' = moved \cup Payload(move, n)
    /\ UNCHANGED <<src, dst, over, coming, unseen, missed, faults>>

(* RunWithNextTaskCallback: what kind of object the source is.  op.List    *)
(* answers from the cache of directories when it can.                      *)
Run(t) ==
    /\ task[t].st = "pending" /\ task[t].node \in src
    /\ task' = [task EXCEPT ![t].st = IF task[t].node \in Dirs THEN "listing" ELSE "putting",
                            ![t].kids = ChildrenIn(src \ unseen, task[t].node)]
    /\ UNCHANGED <<src, dst, group, moved, over, coming, unseen, missed, faults>>

(* The callback of Run, once for everything in the directory. *)
NextTask(t, u, k) ==
    /\ task[t].st = "listing" /\ k \in task[t].kids
    /\ Free(u)
    /\ group' = AddTask(group, task[t].group, {})
    /\ task' = [task EXCEPT ![t].kids = @ \ {k}, ![u] = NewTask(k, task[t].group, task[t].move)]
    /\ UNCHANGED <<src, dst, moved, over, coming, unseen, missed, faults>>

Listed(t) ==
    /\ task[t].st = "listing" /\ task[t].kids = {}
    /\ Settle(t, TRUE)
    /\ UNCHANGED faults

(* op.Put makes the directories above the file; a file that is in their    *)
(* place is in the way.                                                    *)
CanPut(n) == \A d \in Chain[n] \ {n} : dst[d] \in {"none", "dir"}

Put(t) ==
    LET n == task[t].node
    IN  /\ task[t].st = "putting" /\ CanPut(n)
        /\ Done(task[t].group, TRUE)
        /\ dst' = [m \in Nodes |-> IF m = n THEN "new"
                                   ELSE IF m \in Chain[n] THEN "dir" ELSE dst[m]]
        /\ task' = [task EXCEPT ![t].st = "removing", ![t].good = TRUE,
                                ![t].todo = Completes(task[t].group, TRUE)]
        /\ UNCHANGED <<src, moved, over, coming, unseen, missed, faults>>

(* The source is not found, or the target refuses the file, or a fault.    *)
(* The task manager tries again, then calls OnFailed.                      *)
Fails(t) ==
    /\ task[t].st \in Active
    /\ IF \/ task[t].st = "pending" /\ task[t].node \notin src \ unseen
          \/ task[t].st = "putting" /\ ~CanPut(task[t].node)
       THEN UNCHANGED faults
       ELSE faults < MaxFaults /\ faults' = faults + 1
    /\ IF task[t].retry < MaxRetry
       THEN /\ task' = [task EXCEPT ![t].st = "pending", ![t].kids = {}, ![t].retry = @ + 1]
            /\ UNCHANGED <<src, dst, group, moved, over, coming, unseen, missed>>
       ELSE Settle(t, FALSE)

(* Mutant: a task that comes back is not counted again. *)
RejoinUncounted(t) ==
    /\ task' = [task EXCEPT ![t] = NewTask(task[t].node, Parent[task[t].node], task[t].move)]
    /\ UNCHANGED <<src, dst, group, moved, over, coming, unseen, missed>>

(* SetRetry after a manual retry and after a restart: the group is that of *)
(* the directory this task writes to, and a move names its own source.     *)
Rejoin(t) ==
    LET n == task[t].node
    IN  /\ group' = AddTask(group, Parent[n], Payload(task[t].move, n))
        /\ task' = [task EXCEPT ![t] = NewTask(n, Parent[n], task[t].move)]
        /\ UNCHANGED <<src, dst, moved, over, coming, unseen, missed>>

Retry(t) ==
    /\ task[t].st = "failed"
    /\ faults < MaxFaults /\ faults' = faults + 1
    /\ Rejoin(t)

(* The groups and the cache of directories are in memory only; tasks that  *)
(* are not finished are stored.                                            *)
Crash ==
    /\ faults < MaxFaults /\ faults' = faults + 1
    /\ \E t \in Tasks : task[t].st # "none"
    /\ group' = [g \in Groups |-> NoGroup]
    /\ task' = [t \in Tasks |->
                    CASE task[t].st \in Active \cup {"stored"} ->
                            [task[t] EXCEPT !.st = "stored", !.kids = {}]
                      [] task[t].st = "removing" ->
                            [task[t] EXCEPT !.st = "over", !.todo = {}, !.frames = <<>>]
                      [] OTHER -> task[t]]
    /\ unseen' = {}
    /\ UNCHANGED <<src, dst, moved, over, coming, missed>>

Load(t) ==
    /\ task[t].st = "stored"
    /\ Rejoin(t)
    /\ UNCHANGED faults

-----------------------------------------------------------------------------
(* HookAndRemove takes one source after the other; verifyAndRemove goes    *)
(* down into directories, one frame for each.                              *)
TopFrame(t) == Head(task[t].frames)

(* verifyAndRemove has come to an end for a node: its directory remembers  *)
(* a failure.                                                              *)
Back(fs, good) ==
    IF fs = <<>> \/ good THEN fs ELSE <<[Head(fs) EXCEPT !.bad = TRUE]>> \o Tail(fs)

(* Mutant: a directory at the target stands for the source as well. *)
VerifyByName(t, n, fs, todo) ==
    /\ src' = IF n \in src /\ dst[n] # "none" THEN src \ Below(n) ELSE src
    /\ task' = [task EXCEPT ![t].frames = fs, ![t].todo = todo]
    /\ UNCHANGED <<missed, faults>>

(* Both objects are looked up: a file at the target stands for the source, *)
(* a directory has to be compared.  Its listing may be one that was cached *)
(* before, when the directory was copied say (ListArgs without Refresh).   *)
Verify(t, n, fs, todo) ==
    \/ /\ n \in src /\ dst[n] \in {"old", "new"}
       /\ src' = src \ Below(n)
       /\ task' = [task EXCEPT ![t].frames = fs, ![t].todo = todo]
       /\ UNCHANGED <<missed, faults>>
    \/ /\ n \in src /\ dst[n] = "dir"
       /\ task' = [task EXCEPT ![t].todo = todo,
              ![t].frames = <<[node |-> n, kids |-> ChildrenIn(src \ unseen, n),
                               bad |-> FALSE]>> \o fs]
       /\ missed' = missed \cup ChildrenIn(src \cap unseen, n)
       /\ UNCHANGED <<src, faults>>
    \/ /\ IF n \in src \ unseen /\ dst[n] # "none"
          THEN faults < MaxFaults /\ faults' = faults + 1
          ELSE UNCHANGED faults
       /\ task' = [task EXCEPT ![t].frames = Back(fs, FALSE), ![t].todo = todo]
       /\ UNCHANGED <<src, missed>>

VerifySource(t) ==
    /\ task[t].st = "removing" /\ task[t].frames = <<>>
    /\ \E n \in task[t].todo : Verify(t, n, <<>>, task[t].todo \ {n})
    /\ UNCHANGED <<dst, group, moved, over, coming, unseen>>

VerifyKid(t) ==
    /\ task[t].st = "removing" /\ task[t].frames # <<>>
    /\ \E k \in TopFrame(t).kids :
        Verify(t, k, <<[TopFrame(t) EXCEPT !.kids = @ \ {k}]>> \o Tail(task[t].frames),
               task[t].todo)
    /\ UNCHANGED <<dst, group, moved, over, coming, unseen>>

(* A directory goes with all that is in it when nothing in it has failed.  *)
RemoveDir(t) ==
    /\ task[t].st = "removing" /\ task[t].frames # <<>> /\ TopFrame(t).kids = {}
    /\ LET f == TopFrame(t)
           Leave(good) == task' = [task EXCEPT ![t].frames = Back(Tail(@), good)]
       IN  \/ ~f.bad /\ src' = src \ Below(f.node) /\ Leave(TRUE) /\ UNCHANGED faults
           \/ f.bad /\ Leave(FALSE) /\ UNCHANGED <<src, faults>>
           \/ /\ ~f.bad /\ faults < MaxFaults /\ faults' = faults + 1
              /\ Leave(FALSE) /\ UNCHANGED src
    /\ UNCHANGED <<dst, group, moved, over, coming, unseen, missed>>

(* Another program adds a file to a directory of the source.  The listing  *)
(* of the directory may be in the cache: anybody may have asked for it.    *)
Verifying(n) ==
    \E t \in Tasks : \E i \in DOMAIN task[t].frames : task[t].frames[i].node \in Chain[n]

Arrive(n) ==
    /\ n \in coming /\ Parent[n] \in src \cup {Top}
    /\ coming' = coming \ {n}
    /\ src' = src \cup {n}
    /\ unseen' \in {unseen, unseen \cup {n}}
    /\ missed' = IF Verifying(n) THEN missed \cup {n} ELSE missed
    /\ UNCHANGED <<dst, group, task, moved, over, faults>>

(* The listing of a directory expires, or somebody has it made anew. *)
Relist(g) ==
    /\ ChildrenIn(unseen, g) # {}
    /\ unseen' = unseen \ ChildrenIn(unseen, g)
    /\ UNCHANGED <<src, dst, group, task, moved, over, coming, missed, faults>>

Work(t) ==
    \/ Run(t) \/ Listed(t) \/ Put(t) \/ Fails(t) \/ Load(t)
    \/ \E u \in Tasks, k \in Nodes : NextTask(t, u, k)
    \/ VerifySource(t) \/ VerifyKid(t) \/ RemoveDir(t) \/ Ended(t)

Next ==
    \/ \E t \in Tasks : Work(t) \/ Retry(t)
    \/ \E t \in Tasks, n \in Nodes, move \in BOOLEAN : Submit(t, n, move)
    \/ \E n \in Late : Arrive(n)
    \/ \E g \in Groups : Relist(g)
    \/ Crash

(* The workers of the task managers go on. *)
Fairness == \A t \in Tasks : WF_vars(Work(t))

Spec == Init /\ [][Next]_vars /\ Fairness

-----------------------------------------------------------------------------
States == Active \cup {"none", "stored", "removing", "failed", "over"}
Frames == [node : Nodes, kids : SUBSET Nodes, bad : BOOLEAN]
TaskRecords == [st : States, node : Nodes \cup {Top}, group : Groups, move : BOOLEAN,
                kids : SUBSET Nodes, retry : Nat, good : BOOLEAN, todo : SUBSET Nodes,
                frames : Seq(Frames)]
GroupRecords == [pending : Nat, ok : BOOLEAN, payload : SUBSET Nodes]

(* The types of the variables; every task that exists is about a node. *)
TypeOK ==
    /\ src \subseteq Nodes /\ moved \subseteq Nodes
    /\ over \subseteq Nodes /\ coming \subseteq Late
    /\ unseen \subseteq Late /\ missed \subseteq Late
    /\ dst \in [Nodes -> {"none", "old", "new", "dir"}]
    /\ group \in [Groups -> GroupRecords]
    /\ task \in [Tasks -> TaskRecords]
    /\ \A t \in Tasks : task[t].st # "none" => task[t].node \in Nodes
    /\ faults \in Nat

(* The tasks of a group that are not done. *)
Live(T, g) == {t \in Tasks : T[t].group = g /\ T[t].st \in Active}

(* The coordinator counts the tasks of a group that are not done exactly,  *)
(* however often tasks are tried again, added twice by a directory that is *)
(* tried again, or loaded after a restart.  A count that is too low removes*)
(* sources early, one that is too high never does (group.go, AddTask and   *)
(* Done; copy_move.go, SetRetry).                                          *)
CountExact == \A g \in Groups : group[g].pending = Cardinality(Live(task, g))

(* A file of the source is gone only if it was part of a move and the      *)
(* target has its content, whatever other tasks of the group have failed,  *)
(* been canceled or tried again.  Two ways to lose one are named: a file   *)
(* that stood at the target before under that name or in place of a        *)
(* directory above it, which verifyAndRemove takes for the moved one, and  *)
(* a file of another program that the verification of a directory did not  *)
(* see, because it came while the directory was verified or after the      *)
(* listing that the cache answered with (transfer.go, HookAndRemove and    *)
(* verifyAndRemove).                                                       *)
RemovedForCause ==
    \A n \in Files \ (src \cup coming) :
        /\ Chain[n] \cap moved # {}
        /\ dst[n] = "new" \/ n \in missed \/ Chain[n] \cap over # {}

(* Without a failure, a file in the way or a late file, what is to be      *)
(* moved finally leaves the source: the last task of the group finds the   *)
(* payload and everything below it at the target.                          *)
MovesFinish ==
    \A n \in Nodes :
        n \in moved ~> (n \notin src \/ faults > 0 \/ over # {} \/ coming # Late)
=============================================================================
