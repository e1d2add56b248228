-------------------------- MODULE Transfers_proofs --------------------------
(***************************************************************************)
(* The coordinator of transfers counts the tasks of every group exactly,   *)
(* and a source is removed only after it was asked for and has been        *)
(* verified at the target, for every tree of files, every number of tasks, *)
(* retries and faults.  The first inductive invariant, IInv, is the type   *)
(* together with the count itself: a task that is done was counted, so     *)
(* Done finds at least one.  The second, CInv, follows the recursion of    *)
(* verifyAndRemove: what its frames have not verified is still to be       *)
(* visited, or is one of the late files that no verification has seen.     *)
(***************************************************************************)
EXTENDS Transfers, FiniteSetTheorems, TLAPS

Counted(G, T) == \A g \in Groups : G[g].pending = Cardinality(Live(T, g))

(* Between T and U the task u has neither changed its group nor come to    *)
(* life or to an end.                                                      *)
AsBefore(T, U, u) == U[u].group = T[u].group /\ (U[u].st \in Active <=> T[u].st \in Active)

OthersAsBefore(T, U, t) == \A u \in Tasks \ {t} : AsBefore(T, U, u)

(* H counts one task more, or one less, in the group k than G. *)
OneMore(G, H, k) ==
    \A g \in Groups : H[g].pending = IF g = k THEN G[g].pending + 1 ELSE G[g].pending
OneLess(G, H, k) ==
    \A g \in Groups : H[g].pending = IF g = k THEN G[g].pending - 1 ELSE G[g].pending

IInv == TypeOK /\ CountExact
-----------------------------------------------------------------------------
(* There are finitely many tasks in a group. *)
LEMMA LiveFinite ==
    ASSUME NEW T, NEW g
    PROVE  IsFiniteSet(Live(T, g)) /\ Cardinality(Live(T, g)) \in Nat
<1>1. Live(T, g) \in SUBSET Tasks
  BY DEF Live
<1>2. IsFiniteSet(Live(T, g))
  BY <1>1, FS_Subset, TasksAssumption
<1> QED
  BY <1>2, FS_CardinalityType

(* The count stays right when no task changes. *)
LEMMA CountStays ==
    ASSUME NEW T, NEW U, NEW G, NEW H, Counted(G, T),
           \A u \in Tasks : AsBefore(T, U, u),
           \A g \in Groups : H[g].pending = G[g].pending
    PROVE  Counted(H, U)
<1>1. ASSUME NEW g \in Groups PROVE Live(U, g) = Live(T, g)
  BY DEF Live, AsBefore
<1> QED
  BY <1>1 DEF Counted

(* It is one more where a task has come to life (AddTask). *)
LEMMA CountEnters ==
    ASSUME NEW T, NEW U, NEW G, NEW H, NEW t \in Tasks, Counted(G, T),
           OthersAsBefore(T, U, t),
           T[t].st \notin Active, U[t].st \in Active,
           OneMore(G, H, U[t].group)
    PROVE  Counted(H, U)
<1>1. ASSUME NEW g \in Groups, g = U[t].group
      PROVE  Cardinality(Live(U, g)) = Cardinality(Live(T, g)) + 1
  <2>1. Live(U, g) = Live(T, g) \cup {t} /\ t \notin Live(T, g)
    BY <1>1 DEF Live, AsBefore, OthersAsBefore
  <2> QED
    BY <2>1, LiveFinite, FS_AddElement
<1>2. ASSUME NEW g \in Groups, g # U[t].group
      PROVE  Live(U, g) = Live(T, g)
  BY <1>2 DEF Live, AsBefore, OthersAsBefore
<1> QED
  BY <1>1, <1>2 DEF Counted, OneMore

(* It is one less where a task has come to its end (Done). *)
LEMMA CountLeaves ==
    ASSUME NEW T, NEW U, NEW G, NEW H, NEW t \in Tasks, Counted(G, T),
           OthersAsBefore(T, U, t),
           T[t].st \in Active, U[t].st \notin Active,
           OneLess(G, H, T[t].group)
    PROVE  Counted(H, U)
<1>1. ASSUME NEW g \in Groups, g = T[t].group
      PROVE  Cardinality(Live(U, g)) = Cardinality(Live(T, g)) - 1
  <2>1. Live(U, g) = Live(T, g) \ {t} /\ t \in Live(T, g)
    BY <1>1 DEF Live, AsBefore, OthersAsBefore
  <2> QED
    BY <2>1, LiveFinite, FS_RemoveElement
<1>2. ASSUME NEW g \in Groups, g # T[t].group
      PROVE  Live(U, g) = Live(T, g)
  BY <1>2 DEF Live, AsBefore, OthersAsBefore
<1> QED
  BY <1>1, <1>2 DEF Counted, OneLess

(* Done finds the task that ends among those it has counted. *)
LEMMA DoneCounts ==
    ASSUME IInv, NEW t \in Tasks, task[t].st \in Active, NEW success \in BOOLEAN,
           Done(task[t].group, success)
    PROVE  /\ group' \in [Groups -> GroupRecords]
           /\ OneLess(group, group', task[t].group)
<1> DEFINE h == task[t].group
<1>1. h \in Groups /\ group \in [Groups -> GroupRecords]
  BY DEF IInv, TypeOK, TaskRecords
<1>2. group[h].pending \in Nat /\ group[h].pending # 0
  <2>1. t \in Live(task, h)
    BY DEF Live
  <2>2. Cardinality(Live(task, h)) # 0
    BY <2>1, LiveFinite, FS_EmptySet
  <2> QED
    BY <1>1, <2>2 DEF IInv, CountExact, GroupRecords
<1>3. CASE group[h].pending = 1
  BY <1>1, <1>3 DEF Done, NoGroup, GroupRecords, OneLess
<1>4. CASE group[h].pending # 1
  <2>1. group[h].ok \in BOOLEAN
    BY <1>1 DEF GroupRecords
  <2>2. PICK b \in BOOLEAN :
            group' = [group EXCEPT ![h].pending = group[h].pending - 1, ![h].ok = b]
    <3> DEFINE c == group[h].ok \/ success
    <3>1. c \in BOOLEAN
      BY <2>1
    <3>2. group' = [group EXCEPT ![h].pending = group[h].pending - 1, ![h].ok = c]
      BY <1>2, <1>4 DEF Done
    <3> QED
      BY <3>1, <3>2
  <2>3. group[h].pending - 1 \in Nat
    BY <1>2
  <2> HIDE DEF h
  <2>4. group' \in [Groups -> GroupRecords]
    <3>1. group[h].payload \in SUBSET Nodes
      BY <1>1 DEF GroupRecords
    <3>2. PICK rec : rec = [group[h] EXCEPT !.pending = group[h].pending - 1, !.ok = b]
      BY Zenon
    <3>3. rec \in GroupRecords
      BY <1>1, <2>3, <3>1, <3>2, ZenonT(30) DEF GroupRecords
    <3>4. group' = [group EXCEPT ![h] = rec]
      BY <1>1, <2>2, <3>2, ZenonT(30)
    <3> QED
      BY <1>1, <3>3, <3>4, ZenonT(30)
  <2>5. OneLess(group, group', h)
    BY <1>1, <2>2, SMTT(30) DEF OneLess
  <2> QED
    BY <2>4, <2>5 DEF h
<1> QED
  BY <1>3, <1>4

(* A task that has just been added. *)
LEMMA NewTaskType ==
    ASSUME NEW n \in Nodes, NEW g \in Groups, NEW move \in BOOLEAN
    PROVE  /\ NewTask(n, g, move) \in TaskRecords
           /\ NewTask(n, g, move).st = "pending"
           /\ NewTask(n, g, move).node = n
           /\ NewTask(n, g, move).group = g
<1>1. "pending" \in States /\ n \in Nodes \cup {Top}
  BY DEF States, Active
<1> QED
  BY <1>1 DEF NewTask, Fresh, TaskRecords

(* AddTask and AppendPayload: one more task, more to remove. *)
LEMMA AddTaskCounts ==
    ASSUME NEW G \in [Groups -> GroupRecords], NEW g \in Groups, NEW P \in SUBSET Nodes
    PROVE  /\ AddTask(G, g, P) \in [Groups -> GroupRecords]
           /\ OneMore(G, AddTask(G, g, P), g)
           /\ AppendPayload(G, g, P) \in [Groups -> GroupRecords]
           /\ \A h \in Groups : AppendPayload(G, g, P)[h].pending = G[h].pending
<1>1. /\ G[g].pending + 1 \in Nat /\ G[g].payload \cup P \in SUBSET Nodes
      /\ G[g].pending \in Nat /\ G[g].ok \in BOOLEAN
  BY DEF GroupRecords
<1>2. [G[g] EXCEPT !.pending = @ + 1, !.payload = @ \cup P] \in GroupRecords
  BY <1>1 DEF GroupRecords
<1>3. [G[g] EXCEPT !.payload = @ \cup P] \in GroupRecords
  BY <1>1 DEF GroupRecords
<1>4. /\ AddTask(G, g, P) = [G EXCEPT ![g] = [G[g] EXCEPT !.pending = @ + 1,
                                                        !.payload = @ \cup P]]
      /\ AppendPayload(G, g, P) = [G EXCEPT ![g] = [G[g] EXCEPT !.payload = @ \cup P]]
  BY DEF AddTask, AppendPayload
<1> QED
  BY <1>1, <1>2, <1>3, <1>4 DEF GroupRecords, OneMore

(* What is true of the tasks when one of them becomes the record r. *)
TasksOK(T) == T \in [Tasks -> TaskRecords] /\ \A u \in Tasks : T[u].st # "none" => T[u].node \in Nodes

(* A step that replaces the record of one task keeps the types of all. *)
LEMMA OneTask ==
    ASSUME IInv, NEW t \in Tasks, NEW r \in TaskRecords, r.node \in Nodes,
           task' = [task EXCEPT ![t] = r]
    PROVE  TasksOK(task') /\ task'[t] = r /\ \A u \in Tasks \ {t} : task'[u] = task[u]
BY DEF IInv, TypeOK, TasksOK

(* A task that is not done keeps its place among those that are counted,   *)
(* and so does one that is done.                                           *)
LEMMA StayCounts ==
    ASSUME IInv, NEW t \in Tasks, NEW r \in TaskRecords, r.node \in Nodes,
           task' = [task EXCEPT ![t] = r],
           AsBefore(task, [task EXCEPT ![t] = r], t), group' = group
    PROVE  TasksOK(task') /\ CountExact'
<1>1. TasksOK(task') /\ task'[t] = r /\ \A u \in Tasks \ {t} : task'[u] = task[u]
  BY OneTask
<1>2. \A u \in Tasks : AsBefore(task, task', u)
  BY <1>1 DEF AsBefore
<1>3. Counted(group, task)
  BY DEF IInv, CountExact, Counted
<1>4. Counted(group', task')
  BY <1>2, <1>3, CountStays
<1> QED
  BY <1>1, <1>4 DEF Counted, CountExact, Live

(* A task that ends with Done. *)
LEMMA EndCounts ==
    ASSUME IInv, NEW t \in Tasks, task[t].st \in Active, NEW success \in BOOLEAN,
           Done(task[t].group, success),
           NEW r \in TaskRecords, r.node \in Nodes, r.st \notin Active,
           task' = [task EXCEPT ![t] = r]
    PROVE  TasksOK(task') /\ group' \in [Groups -> GroupRecords] /\ CountExact'
<1>1. /\ group' \in [Groups -> GroupRecords]
      /\ OneLess(group, group', task[t].group)
  BY DoneCounts
<1>2. TasksOK(task') /\ task'[t] = r /\ \A u \in Tasks \ {t} : task'[u] = task[u]
  BY OneTask
<1>3. OthersAsBefore(task, task', t)
  BY <1>2 DEF AsBefore, OthersAsBefore
<1>4. Counted(group, task)
  BY DEF IInv, CountExact, Counted
<1>5. Counted(group', task')
  BY <1>1, <1>2, <1>3, <1>4, CountLeaves
<1> QED
  BY <1>1, <1>2, <1>5 DEF Counted, CountExact, Live

(* A task that is added, or comes back, with AddTask. *)
LEMMA JoinCounts ==
    ASSUME IInv, NEW t \in Tasks, task[t].st \notin Active,
           NEW r \in TaskRecords, r.node \in Nodes, r.st \in Active,
           task' = [task EXCEPT ![t] = r], group' \in [Groups -> GroupRecords],
           OneMore(group, group', r.group)
    PROVE  TasksOK(task') /\ CountExact'
<1>1. TasksOK(task') /\ task'[t] = r /\ \A u \in Tasks \ {t} : task'[u] = task[u]
  BY OneTask
<1>2. OthersAsBefore(task, task', t)
  BY <1>1 DEF AsBefore, OthersAsBefore
<1>3. Counted(group, task)
  BY DEF IInv, CountExact, Counted
<1>4. Counted(group', task')
  BY <1>1, <1>2, <1>3, CountEnters
<1> QED
  BY <1>1, <1>4 DEF Counted, CountExact, Live

(* A task that exists has a node of the tree. *)
LEMMA ActiveNode ==
    ASSUME IInv, NEW t \in Tasks, task[t].st # "none"
    PROVE  task[t] \in TaskRecords /\ task[t].node \in Nodes
BY DEF IInv, TypeOK

(* OnSucceeded and OnFailed. *)
LEMMA SettleCounts ==
    ASSUME IInv, NEW t \in Tasks, task[t].st \in Active, NEW success \in BOOLEAN,
           Settle(t, success), faults' \in Nat
    PROVE  IInv'
<1> DEFINE r == [task[t] EXCEPT !.st = "removing", !.good = success, !.kids = {},
                                !.todo = Completes(task[t].group, success)]
<1>1. Completes(task[t].group, success) \in SUBSET Nodes
  BY DEF Completes, IInv, TypeOK, GroupRecords, TaskRecords
<1>2. task[t] \in TaskRecords /\ task[t].node \in Nodes
  BY ActiveNode DEF Active
<1>3. "removing" \in States \ Active
  BY DEF States, Active
<1>4. r \in TaskRecords /\ r.st = "removing" /\ r.node = task[t].node
  BY <1>1, <1>2, <1>3 DEF TaskRecords
<1>5. task' = [task EXCEPT ![t] = r] /\ Done(task[t].group, success)
  BY DEF Settle
<1> HIDE DEF r
<1>6. TasksOK(task') /\ group' \in [Groups -> GroupRecords] /\ CountExact'
  BY <1>2, <1>3, <1>4, <1>5, EndCounts
<1> QED
  BY <1>6 DEF Settle, IInv, TypeOK, TasksOK

-----------------------------------------------------------------------------
(* The frames of verifyAndRemove: the one on top and those below it. *)
LEMMA FrameType ==
    ASSUME IInv, NEW t \in Tasks, task[t].frames # <<>>
    PROVE  TopFrame(t) \in Frames /\ Tail(task[t].frames) \in Seq(Frames)
<1>1. task[t].frames \in Seq(Frames)
  BY DEF IInv, TypeOK, TaskRecords
<1> QED
  BY <1>1 DEF TopFrame

(* What is left of the stack when a frame returns is a stack. *)
LEMMA BackType ==
    ASSUME NEW fs \in Seq(Frames), NEW good \in BOOLEAN
    PROVE  Back(fs, good) \in Seq(Frames)
<1>1. CASE fs = <<>> \/ good
  BY <1>1 DEF Back
<1>2. CASE ~(fs = <<>> \/ good)
  <2>1. Head(fs) \in Frames /\ Tail(fs) \in Seq(Frames)
    BY <1>2
  <2>2. [Head(fs) EXCEPT !.bad = TRUE] \in Frames
    BY <2>1 DEF Frames
  <2> QED
    BY <1>2, <2>1, <2>2 DEF Back
<1> QED
  BY <1>1, <1>2

(* A task whose record changes in what it still has to do only.            *)
LEMMA MovesOn ==
    ASSUME IInv, NEW t \in Tasks, task[t].st # "none",
           NEW fs \in Seq(Frames), NEW todo \in SUBSET Nodes,
           task' = [task EXCEPT ![t].frames = fs, ![t].todo = todo], group' = group
    PROVE  TasksOK(task') /\ CountExact'
<1> DEFINE r == [task[t] EXCEPT !.frames = fs, !.todo = todo]
<1>1. task[t] \in TaskRecords /\ task[t].node \in Nodes
  BY ActiveNode
<1>2. r \in TaskRecords /\ r.node = task[t].node /\ r.st = task[t].st /\ r.group = task[t].group
  BY <1>1 DEF TaskRecords
<1>3. task' = [task EXCEPT ![t] = r]
  OBVIOUS
<1>4. task \in [Tasks -> TaskRecords]
  BY DEF IInv, TypeOK
<1> HIDE DEF r
<1>5. AsBefore(task, [task EXCEPT ![t] = r], t)
  BY <1>2, <1>4 DEF AsBefore
<1> QED
  BY <1>1, <1>2, <1>3, <1>5, StayCounts

(* verifyAndRemove touches no group. *)
LEMMA VerifyKeeps ==
    ASSUME IInv, NEW t \in Tasks, task[t].st # "none", NEW n \in Nodes,
           NEW fs \in Seq(Frames), NEW todo \in SUBSET Nodes,
           Verify(t, n, fs, todo), group' = group
    PROVE  /\ TasksOK(task') /\ CountExact'
           /\ src' \subseteq Nodes /\ missed' \subseteq Late /\ faults' \in Nat
<1>1. src \subseteq Nodes /\ unseen \subseteq Late /\ missed \subseteq Late /\ faults \in Nat
  BY DEF IInv, TypeOK
<1>2. src' \subseteq Nodes /\ missed' \subseteq Late /\ faults' \in Nat
  <2>1. /\ src' = src \ Below(n) \/ src' = src
        /\ missed' = missed \cup ChildrenIn(src \cap unseen, n) \/ missed' = missed
        /\ faults' = faults \/ faults' = faults + 1
    BY Zenon DEF Verify
  <2>2. ChildrenIn(src \cap unseen, n) \subseteq Late
    BY <1>1 DEF ChildrenIn
  <2>3. faults' \in Nat
    BY <1>1, <2>1
  <2>4. missed' \subseteq Late
    BY <1>1, <2>1, <2>2
  <2>5. src' \subseteq Nodes
    BY <1>1, <2>1
  <2> QED
    BY <2>3, <2>4, <2>5
<1>3. PICK gs \in Seq(Frames) : task' = [task EXCEPT ![t].frames = gs, ![t].todo = todo]
  <2>1. CASE task' = [task EXCEPT ![t].frames = fs, ![t].todo = todo]
    BY <2>1
  <2>2. CASE task' = [task EXCEPT ![t].todo = todo,
              ![t].frames = <<[node |-> n, kids |-> ChildrenIn(src \ unseen, n), bad |-> FALSE]>> \o fs]
    <3>1. [node |-> n, kids |-> ChildrenIn(src \ unseen, n), bad |-> FALSE] \in Frames
      BY <1>1 DEF Frames, ChildrenIn
    <3> DEFINE gs == <<[node |-> n, kids |-> ChildrenIn(src \ unseen, n), bad |-> FALSE]>> \o fs
    <3>2. gs \in Seq(Frames)
      BY <3>1
    <3> HIDE DEF gs
    <3>3. task' = [task EXCEPT ![t].frames = gs, ![t].todo = todo]
      BY <2>2 DEF gs
    <3> QED
      BY <3>2, <3>3
  <2>3. CASE task' = [task EXCEPT ![t].frames = Back(fs, FALSE), ![t].todo = todo]
    BY <2>3, BackType
  <2> QED
    BY <2>1, <2>2, <2>3 DEF Verify
<1> QED
  BY <1>2, <1>3, MovesOn

-----------------------------------------------------------------------------
(* The invariant holds before the first step. *)
LEMMA InitInv == Init => IInv
<1> SUFFICES ASSUME Init PROVE IInv
  OBVIOUS
<1>1. NoTask \in TaskRecords /\ NoTask.st = "none"
  BY DEF NoTask, Fresh, TaskRecords, States, Groups
<1>2. NoGroup \in GroupRecords /\ NoGroup.pending = 0
  BY DEF NoGroup, GroupRecords
<1>3. PICK O \in SUBSET Nodes :
        /\ over = O
        /\ dst = [n \in Nodes |-> IF n \in O THEN "old"
                                  ELSE IF Below(n) \cap O # {} THEN "dir" ELSE "none"]
  BY DEF Init
<1>4. TypeOK
  BY <1>1, <1>2, <1>3 DEF Init, TypeOK
<1>5. CountExact
  <2> SUFFICES ASSUME NEW g \in Groups PROVE group[g].pending = Cardinality(Live(task, g))
    BY DEF CountExact
  <2>1. Live(task, g) = {}
    BY <1>1 DEF Init, Live, Active
  <2> QED
    BY <1>2, <2>1, FS_EmptySet DEF Init
<1> QED
  BY <1>4, <1>5 DEF IInv

(* Each step keeps the invariant. *)
LEMMA StepInv == IInv /\ [Next]_vars => IInv'
<1> SUFFICES ASSUME IInv, [Next]_vars PROVE IInv'
  OBVIOUS
<1>0. /\ src \subseteq Nodes /\ moved \subseteq Nodes
      /\ over \subseteq Nodes /\ coming \subseteq Late
      /\ unseen \subseteq Late /\ missed \subseteq Late
      /\ dst \in [Nodes -> {"none", "old", "new", "dir"}]
      /\ group \in [Groups -> GroupRecords]
      /\ task \in [Tasks -> TaskRecords]
      /\ \A t \in Tasks : task[t].st # "none" => task[t].node \in Nodes
      /\ faults \in Nat
  BY DEF IInv, TypeOK
<1>1. ASSUME NEW t \in Tasks, NEW n \in Nodes, NEW move \in BOOLEAN, Submit(t, n, move)
      PROVE  IInv'
  <2>1. NewTask(n, Top, move) \in TaskRecords /\ Top \in Groups /\ task[t].st = "none"
        /\ Payload(move, n) \in SUBSET Nodes
    BY <1>1, NewTaskType DEF Submit, Free, Groups, Payload
  <2> DEFINE G == AddTask(group, Top, {})
  <2>2. G \in [Groups -> GroupRecords] /\ OneMore(group, G, Top)
    BY <1>0, <2>1, AddTaskCounts
  <2>3. group' = AppendPayload(G, Top, Payload(move, n))
    BY <1>1 DEF Submit
  <2> HIDE DEF G
  <2>4. group' \in [Groups -> GroupRecords] /\ OneMore(group, group', Top)
    BY <2>1, <2>2, <2>3, AddTaskCounts DEF OneMore
  <2> DEFINE r == NewTask(n, Top, move)
  <2>5. r.st \in Active /\ r.node \in Nodes /\ r.group = Top /\ task[t].st \notin Active
        /\ task' = [task EXCEPT ![t] = r]
    BY <1>1, <2>1, NewTaskType DEF Submit, Active
  <2> HIDE DEF r
  <2>6. TasksOK(task') /\ CountExact'
    BY <2>1, <2>4, <2>5, JoinCounts DEF r
  <2> QED
    BY <1>0, <1>1, <2>1, <2>4, <2>6 DEF Submit, IInv, TypeOK, TasksOK
<1>2. ASSUME NEW t \in Tasks, Run(t) PROVE IInv'
  <2> DEFINE s == IF task[t].node \in Dirs THEN "listing" ELSE "putting"
             r == [task[t] EXCEPT !.st = s, !.kids = ChildrenIn(src \ unseen, task[t].node)]
  <2>1. task[t] \in TaskRecords /\ task[t].node \in Nodes /\ task[t].st = "pending"
    BY <1>2, ActiveNode DEF Run
  <2>2. s \in States \cap Active /\ ChildrenIn(src \ unseen, task[t].node) \in SUBSET Nodes
    BY <1>0 DEF States, Active, ChildrenIn
  <2>3. r \in TaskRecords /\ r.node = task[t].node /\ r.st = s /\ r.group = task[t].group
    BY <2>1, <2>2 DEF TaskRecords
  <2>4. task' = [task EXCEPT ![t] = r] /\ group' = group
    BY <1>2 DEF Run
  <2> HIDE DEF r, s
  <2>5. AsBefore(task, [task EXCEPT ![t] = r], t)
    BY <1>0, <2>1, <2>2, <2>3 DEF AsBefore, Active
  <2>6. TasksOK(task') /\ CountExact'
    BY <2>1, <2>3, <2>4, <2>5, StayCounts
  <2> QED
    BY <1>0, <1>2, <2>6 DEF Run, IInv, TypeOK, TasksOK
<1>3. ASSUME NEW t \in Tasks, NEW u \in Tasks, NEW k \in Nodes, NextTask(t, u, k)
      PROVE  IInv'
  <2>1. /\ task[t] \in TaskRecords /\ task[t].node \in Nodes /\ task[t].st = "listing"
        /\ task[u].st = "none" /\ t # u
    BY <1>3, ActiveNode DEF NextTask, Free
  <2> DEFINE r == [task[t] EXCEPT !.kids = @ \ {k}]
             n == NewTask(k, task[t].group, task[t].move)
             T == [task EXCEPT ![t] = r]
  <2>2. r \in TaskRecords /\ r.st = task[t].st /\ r.node = task[t].node
        /\ r.group = task[t].group
    BY <2>1 DEF TaskRecords
  <2>3. task[t].group \in Groups /\ task[t].move \in BOOLEAN
    BY <2>1 DEF TaskRecords
  <2>4. n \in TaskRecords /\ n.st = "pending" /\ n.node = k /\ n.group = task[t].group
    BY <2>3, NewTaskType
  <2>5. task' = [T EXCEPT ![u] = n]
    BY <1>3, <2>1 DEF NextTask
  <2>6. group' \in [Groups -> GroupRecords] /\ OneMore(group, group', n.group)
    BY <1>0, <1>3, <2>3, <2>4, AddTaskCounts DEF NextTask
  <2> HIDE DEF r, n
  <2>7. /\ task' \in [Tasks -> TaskRecords] /\ task'[u] = n /\ task'[t] = r
        /\ \A v \in Tasks \ {t, u} : task'[v] = task[v]
    BY <1>0, <2>1, <2>2, <2>4, <2>5
  <2>8. OthersAsBefore(task, task', u)
    BY <2>2, <2>7 DEF OthersAsBefore, AsBefore
  <2>9. Counted(group, task) /\ task[u].st \notin Active /\ task'[u].st \in Active
    BY <2>1, <2>4, <2>7 DEF IInv, CountExact, Counted, Active
  <2>10. Counted(group', task')
    BY <2>6, <2>7, <2>8, <2>9, CountEnters
  <2>11. CountExact'
    BY <2>10 DEF Counted, CountExact, Live
  <2>12. TasksOK(task')
    BY <1>0, <2>1, <2>2, <2>4, <2>7 DEF TasksOK
  <2> QED
    BY <1>0, <1>3, <2>6, <2>11, <2>12 DEF NextTask, IInv, TypeOK, TasksOK
<1>4. ASSUME NEW t \in Tasks, Listed(t) PROVE IInv'
  BY <1>0, <1>4, SettleCounts DEF Listed, Active
<1>5. ASSUME NEW t \in Tasks, Put(t) PROVE IInv'
  <2> DEFINE todo == Completes(task[t].group, TRUE)
             r == [task[t] EXCEPT !.st = "removing", !.good = TRUE, !.todo = todo]
  <2>1. task[t] \in TaskRecords /\ task[t].node \in Nodes /\ task[t].st = "putting"
    BY <1>5, ActiveNode DEF Put
  <2>2. todo \in SUBSET Nodes
    BY <1>0, <2>1 DEF Completes, GroupRecords, TaskRecords
  <2>3. "removing" \in States \ Active /\ task[t].st \in Active
    BY <2>1 DEF States, Active
  <2>4. r \in TaskRecords /\ r.st = "removing" /\ r.node = task[t].node
    BY <2>1, <2>2, <2>3 DEF TaskRecords
  <2>5. task' = [task EXCEPT ![t] = r] /\ Done(task[t].group, TRUE)
    BY <1>5 DEF Put
  <2> HIDE DEF r
  <2>6. TasksOK(task') /\ group' \in [Groups -> GroupRecords] /\ CountExact'
    BY <2>1, <2>3, <2>4, <2>5, EndCounts
  <2>7. dst' \in [Nodes -> {"none", "old", "new", "dir"}]
    BY <1>0, <1>5 DEF Put
  <2> QED
    BY <1>0, <1>5, <2>6, <2>7 DEF Put, IInv, TypeOK, TasksOK
<1>6. ASSUME NEW t \in Tasks, Fails(t) PROVE IInv'
  <2>1. task[t].st \in Active /\ faults' \in Nat /\ task[t].st # "none"
    BY <1>0, <1>6 DEF Fails, Active
  <2>2. CASE Settle(t, FALSE)
    BY <2>1, <2>2, SettleCounts
  <2>3. CASE /\ task' = [task EXCEPT ![t].st = "pending", ![t].kids = {}, ![t].retry = @ + 1]
             /\ UNCHANGED <<src, dst, group, moved, over, coming, unseen, missed>>
    <3> DEFINE r == [task[t] EXCEPT !.st = "pending", !.kids = {}, !.retry = @ + 1]
    <3>1. task[t] \in TaskRecords /\ task[t].node \in Nodes
      BY <2>1, ActiveNode
    <3>2. "pending" \in States \cap Active /\ task[t].retry + 1 \in Nat
      BY <3>1 DEF States, Active, TaskRecords
    <3>3. r \in TaskRecords /\ r.node = task[t].node /\ r.st = "pending"
          /\ r.group = task[t].group
      BY <3>1, <3>2 DEF TaskRecords
    <3>4. task' = [task EXCEPT ![t] = r] /\ group' = group
      BY <2>3
    <3> HIDE DEF r
    <3>5. AsBefore(task, [task EXCEPT ![t] = r], t)
      BY <1>0, <2>1, <3>2, <3>3 DEF AsBefore
    <3>6. TasksOK(task') /\ CountExact'
      BY <3>1, <3>3, <3>4, <3>5, StayCounts
    <3> QED
      BY <1>0, <2>1, <2>3, <3>6 DEF IInv, TypeOK, TasksOK
  <2> QED
    BY <1>6, <2>2, <2>3, Zenon DEF Fails
<1>7. ASSUME NEW t \in Tasks, task[t].st \in {"failed", "stored"}, Rejoin(t), faults' \in Nat
      PROVE  IInv'
  <2> DEFINE n == task[t].node
             r == NewTask(n, Parent[n], task[t].move)
  <2>1. task[t] \in TaskRecords /\ n \in Nodes /\ task[t].st \notin Active
    BY <1>7, ActiveNode DEF Active
  <2>2. Parent[n] \in Groups /\ task[t].move \in BOOLEAN
        /\ Payload(task[t].move, n) \in SUBSET Nodes
    BY <2>1, TreeAssumption DEF TaskRecords, Payload
  <2>3. r \in TaskRecords /\ r.st = "pending" /\ r.node = n /\ r.group = Parent[n]
    BY <2>1, <2>2, NewTaskType
  <2>4. group' \in [Groups -> GroupRecords] /\ OneMore(group, group', Parent[n])
    BY <1>0, <1>7, <2>2, AddTaskCounts DEF Rejoin
  <2>5. task' = [task EXCEPT ![t] = r]
    BY <1>7 DEF Rejoin
  <2> HIDE DEF r
  <2>6. TasksOK(task') /\ CountExact'
    BY <2>1, <2>3, <2>4, <2>5, JoinCounts DEF Active
  <2> QED
    BY <1>0, <1>7, <2>4, <2>6 DEF Rejoin, IInv, TypeOK, TasksOK
<1>8. ASSUME NEW t \in Tasks, Retry(t) \/ Load(t) PROVE IInv'
  BY <1>0, <1>7, <1>8 DEF Retry, Load
<1>9. CASE Crash
  <2>1. group' = [g \in Groups |-> NoGroup] /\ NoGroup \in GroupRecords /\ NoGroup.pending = 0
    BY <1>9 DEF Crash, NoGroup, GroupRecords
  <2>2. ASSUME NEW t \in Tasks
        PROVE  /\ task'[t] \in TaskRecords /\ task'[t].st \notin Active
               /\ task'[t].st # "none" => task'[t].node \in Nodes
    <3>1. task[t] \in TaskRecords /\ (task[t].st # "none" => task[t].node \in Nodes)
      BY <1>0
    <3>2. CASE task[t].st \in Active \cup {"stored"}
      <4>1. task'[t] = [task[t] EXCEPT !.st = "stored", !.kids = {}]
        BY <1>9, <3>2 DEF Crash, Active
      <4>2. "stored" \in States \ Active
        BY DEF States, Active
      <4> QED
        BY <3>1, <3>2, <4>1, <4>2 DEF TaskRecords, Active
    <3>3. CASE task[t].st = "removing"
      <4>1. task'[t] = [task[t] EXCEPT !.st = "over", !.todo = {}, !.frames = <<>>]
        BY <1>9, <3>3 DEF Crash, Active
      <4>2. "over" \in States \ Active /\ <<>> \in Seq(Frames)
        BY DEF States, Active
      <4> QED
        BY <3>1, <3>3, <4>1, <4>2, ZenonT(30) DEF TaskRecords
    <3>4. CASE task[t].st \notin Active \cup {"stored", "removing"}
      BY <1>9, <3>1, <3>4 DEF Crash
    <3> QED
      BY <3>2, <3>3, <3>4
  <2>3. task' \in [Tasks -> TaskRecords]
    <3> DEFINE F(t) == CASE task[t].st \in Active \cup {"stored"} ->
                                [task[t] EXCEPT !.st = "stored", !.kids = {}]
                         [] task[t].st = "removing" ->
                                [task[t] EXCEPT !.st = "over", !.todo = {}, !.frames = <<>>]
                         [] OTHER -> task[t]
    <3>1. task' = [t \in Tasks |-> F(t)]
      BY <1>9 DEF Crash
    <3> HIDE DEF F
    <3> QED
      BY <2>2, <3>1
  <2>4. CountExact'
    <3> SUFFICES ASSUME NEW g \in Groups
                 PROVE  group'[g].pending = Cardinality(Live(task', g))
      BY DEF CountExact, Live
    <3>1. Live(task', g) = {}
      BY <2>2 DEF Live
    <3> QED
      BY <2>1, <3>1, FS_EmptySet
  <2>5. faults' \in Nat /\ unseen' = {} /\ UNCHANGED <<src, dst, moved, over, coming, missed>>
    <3>1. faults' = faults + 1 /\ unseen' = {} /\ UNCHANGED <<src, dst, moved, over, coming, missed>>
      BY <1>9, Zenon DEF Crash
    <3> QED
      BY <1>0, <3>1
  <2> QED
    BY <1>0, <2>1, <2>2, <2>3, <2>4, <2>5 DEF IInv, TypeOK
<1>10. ASSUME NEW t \in Tasks, VerifySource(t) PROVE IInv'
  <2>1. /\ task[t].st # "none" /\ <<>> \in Seq(Frames)
        /\ task[t].todo \in SUBSET Nodes
    BY <1>0, <1>10 DEF VerifySource, TaskRecords
  <2>2. PICK n \in task[t].todo : Verify(t, n, <<>>, task[t].todo \ {n})
    BY <1>10 DEF VerifySource
  <2>3. TasksOK(task') /\ CountExact' /\ src' \subseteq Nodes
        /\ missed' \subseteq Late /\ faults' \in Nat
    BY <1>10, <2>1, <2>2, VerifyKeeps DEF VerifySource
  <2> QED
    BY <1>0, <1>10, <2>3 DEF VerifySource, IInv, TypeOK, TasksOK
<1>11. ASSUME NEW t \in Tasks, VerifyKid(t) PROVE IInv'
  <2>1. /\ task[t].st # "none" /\ task[t].todo \in SUBSET Nodes
        /\ TopFrame(t) \in Frames /\ Tail(task[t].frames) \in Seq(Frames)
    BY <1>0, <1>11, FrameType DEF VerifyKid, TaskRecords
  <2>2. PICK k \in TopFrame(t).kids :
          Verify(t, k, <<[TopFrame(t) EXCEPT !.kids = @ \ {k}]>> \o Tail(task[t].frames),
                 task[t].todo)
    BY <1>11 DEF VerifyKid
  <2>3. k \in Nodes /\ [TopFrame(t) EXCEPT !.kids = @ \ {k}] \in Frames
    BY <2>1 DEF Frames
  <2>4. <<[TopFrame(t) EXCEPT !.kids = @ \ {k}]>> \o Tail(task[t].frames) \in Seq(Frames)
    BY <2>1, <2>3
  <2>5. TasksOK(task') /\ CountExact' /\ src' \subseteq Nodes
        /\ missed' \subseteq Late /\ faults' \in Nat
    BY <1>11, <2>1, <2>2, <2>3, <2>4, VerifyKeeps DEF VerifyKid
  <2> QED
    BY <1>0, <1>11, <2>5 DEF VerifyKid, IInv, TypeOK, TasksOK
<1>12. ASSUME NEW t \in Tasks, RemoveDir(t) PROVE IInv'
  <2>1. /\ task[t].st # "none" /\ task[t].todo \in SUBSET Nodes
        /\ Tail(task[t].frames) \in Seq(Frames)
    BY <1>0, <1>12, FrameType DEF RemoveDir, TaskRecords
  <2>2. /\ src' = src \ Below(TopFrame(t).node) \/ src' = src
        /\ faults' = faults \/ faults' = faults + 1
        /\ UNCHANGED <<dst, group, moved, over, coming, unseen, missed>>
        /\ \E good \in BOOLEAN : task' = [task EXCEPT ![t].frames = Back(Tail(@), good)]
    BY <1>12, Zenon DEF RemoveDir
  <2>3. PICK good \in BOOLEAN : task' = [task EXCEPT ![t].frames = Back(Tail(@), good)]
    BY <2>2
  <2> DEFINE fs == Back(Tail(task[t].frames), good)
  <2>4. fs \in Seq(Frames)
    BY <2>1, BackType
  <2>5. task' = [task EXCEPT ![t].frames = fs, ![t].todo = task[t].todo]
    BY <1>0, <2>3 DEF TaskRecords
  <2> HIDE DEF fs
  <2>6. TasksOK(task') /\ CountExact'
    BY <2>1, <2>2, <2>4, <2>5, MovesOn
  <2> QED
    BY <1>0, <2>2, <2>6 DEF IInv, TypeOK, TasksOK
<1>13. ASSUME NEW t \in Tasks, Ended(t) PROVE IInv'
  <2> DEFINE s == IF task[t].good THEN "over" ELSE "failed"
             r == [task[t] EXCEPT !.st = s]
  <2>1. task[t] \in TaskRecords /\ task[t].node \in Nodes /\ task[t].st = "removing"
    BY <1>13, ActiveNode DEF Ended
  <2>2. s \in States /\ s \notin Active /\ "removing" \notin Active
    BY DEF States, Active
  <2>3. r \in TaskRecords /\ r.node = task[t].node /\ r.st = s /\ r.group = task[t].group
    BY <2>1, <2>2 DEF TaskRecords
  <2>4. task' = [task EXCEPT ![t] = r] /\ group' = group
    BY <1>13 DEF Ended
  <2> HIDE DEF r, s
  <2>5. AsBefore(task, [task EXCEPT ![t] = r], t)
    BY <1>0, <2>1, <2>2, <2>3 DEF AsBefore
  <2>6. TasksOK(task') /\ CountExact'
    BY <2>1, <2>3, <2>4, <2>5, StayCounts
  <2> QED
    BY <1>0, <1>13, <2>6 DEF Ended, IInv, TypeOK, TasksOK
<1>14. ASSUME NEW n \in Late, Arrive(n) PROVE IInv'
  BY <1>0, <1>14, TreeAssumption DEF Arrive, IInv, TypeOK, CountExact, Live, Nodes
<1>15. ASSUME NEW g \in Groups, Relist(g) PROVE IInv'
  BY <1>0, <1>15 DEF Relist, IInv, TypeOK, CountExact, Live
<1>16. CASE UNCHANGED vars
  BY <1>16 DEF vars, IInv, TypeOK, CountExact, Live
<1>17. ASSUME NEW t \in Tasks, Work(t) PROVE IInv'
  BY <1>2, <1>3, <1>4, <1>5, <1>6, <1>8, <1>10, <1>11, <1>12, <1>13, <1>17 DEF Work
<1> QED
  BY <1>1, <1>8, <1>9, <1>14, <1>16, <1>17, <1>15 DEF Next

(* The coordinator counts the tasks of a group that are not done exactly,  *)
(* for every tree, every number of tasks, retries and faults (group.go).   *)
THEOREM CountIsExact == Spec => []CountExact
<1>1. IInv => CountExact
  BY DEF IInv
<1> QED
  BY <1>1, InitInv, StepInv, PTL DEF Spec

(* Every variable of the transfers keeps its type. *)
THEOREM TypeCorrect == Spec => []TypeOK
<1>1. IInv => TypeOK
  BY DEF IInv
<1> QED
  BY <1>1, InitInv, StepInv, PTL DEF Spec

-----------------------------------------------------------------------------
(* Something at or above n was asked to be moved. *)
Asked(M, n) == Chain[n] \cap M # {}

(* What is at the source is in a directory of the source. *)
Rooted == \A n \in src : Parent[n] \in src \cup {Top}

(* Files are put, directories are made, and what was there is known. *)
Target ==
    \A n \in Nodes :
        /\ dst[n] = "new" => n \in Files
        /\ dst[n] = "dir" => n \in Dirs
        /\ dst[n] = "old" => n \in over

(* A task that moves, and the tasks it adds, do so because somebody asked. *)
TaskAsked(M, r) ==
    /\ r.st # "none" /\ r.move => Asked(M, r.node)
    /\ \A k \in r.kids : Parent[k] = r.node
    /\ r.st = "putting" => r.node \in Files
    /\ \A n \in r.todo : Asked(M, n)

(* Nothing is verified that nobody asked to be moved. *)
FramesAsked(M, fs) ==
    \A i \in 1..Len(fs) : Asked(M, fs[i].node) /\ \A k \in fs[i].kids : Asked(M, k)

(* A file of a directory that is being verified and has not failed still   *)
(* is to be verified, is below the directory that is verified next, or has *)
(* been missed.                                                            *)
Covered(S, R, fs) ==
    \A i \in 1..Len(fs) : ~fs[i].bad =>
        \A n \in Files \cap S \cap Below(fs[i].node) :
            \/ n \in R
            \/ \E k \in fs[i].kids : n \in Below(k)
            \/ i > 1 /\ n \in Below(fs[i - 1].node)

GroupsAsked == \A g \in Groups : \A n \in group[g].payload : Asked(moved, n)
TasksAsked == \A t \in Tasks : TaskAsked(moved, task[t])
StacksAsked == \A t \in Tasks : FramesAsked(moved, task[t].frames)
StacksCover == \A t \in Tasks : Covered(src, missed, task[t].frames)

(* Why a file is gone: what verifyAndRemove still relies on. *)
CInv == Rooted /\ Target /\ GroupsAsked /\ TasksAsked /\ StacksAsked /\ StacksCover /\ RemovedForCause

-----------------------------------------------------------------------------
(* A node is in its own chain. *)
LEMMA ChainSelf ==
    ASSUME NEW n \in Nodes
    PROVE  n \in Chain[n] /\ Chain[n] \subseteq Nodes
BY DEF Chain

(* With a node its chain has the directory above it. *)
LEMMA ChainUp ==
    ASSUME NEW n \in Nodes, NEW m \in Chain[n], Parent[m] # Top
    PROVE  Parent[m] \in Chain[n]
<1>1. m \in Nodes /\ Parent[m] \in Nodes
  BY ChainSelf, TreeAssumption DEF Nodes, Groups
<1>2. ASSUME NEW S \in SUBSET Nodes, n \in S, \A k \in S : Parent[k] \in S \cup {Top}
      PROVE  Parent[m] \in S
  <2>1. m \in S
    BY <1>2 DEF Chain
  <2> QED
    BY <1>2, <2>1
<1> QED
  BY <1>1, <1>2 DEF Chain

(* It is in every set that is closed like this. *)
LEMMA ChainIn ==
    ASSUME NEW n \in Nodes, NEW S \in SUBSET Nodes, n \in S,
           \A k \in S : Parent[k] \in S \cup {Top}
    PROVE  Chain[n] \subseteq S
BY DEF Chain

(* What is above something above a node is above the node. *)
LEMMA ChainTransitive ==
    ASSUME NEW n \in Nodes, NEW m \in Chain[n]
    PROVE  m \in Nodes /\ Chain[m] \subseteq Chain[n]
<1>1. m \in Nodes /\ Chain[n] \in SUBSET Nodes
  BY ChainSelf
<1>2. \A k \in Chain[n] : Parent[k] \in Chain[n] \cup {Top}
  BY ChainUp
<1> QED
  BY <1>1, <1>2, ChainIn

(* Above a node there are directories only. *)
LEMMA ChainDirs ==
    ASSUME NEW n \in Nodes, NEW m \in Chain[n], m # n
    PROVE  m \in Dirs
<1> DEFINE S == {k \in Chain[n] : k = n \/ k \in Dirs}
<1>1. S \in SUBSET Nodes /\ n \in S
  BY ChainSelf
<1>2. ASSUME NEW k \in S PROVE Parent[k] \in S \cup {Top}
  <2>1. k \in Nodes /\ Parent[k] \in Dirs \cup {Top}
    BY <1>1, TreeAssumption DEF Groups
  <2> QED
    BY <2>1, ChainUp
<1> HIDE DEF S
<1>3. Chain[n] \subseteq S
  BY <1>1, <1>2, ChainIn
<1> QED
  BY <1>3 DEF S

(* A node below a directory is below, or is, something in it. *)
LEMMA ChainChild ==
    ASSUME NEW n \in Nodes, NEW m \in Chain[n], m # n
    PROVE  \E k \in Chain[n] : Parent[k] = m
<1> SUFFICES ASSUME \A k \in Chain[n] : Parent[k] # m PROVE FALSE
  OBVIOUS
<1> DEFINE S == Chain[n] \ {m}
<1>1. S \in SUBSET Nodes /\ n \in S
  BY ChainSelf
<1>2. ASSUME NEW k \in S PROVE Parent[k] \in S \cup {Top}
  BY ChainUp
<1> HIDE DEF S
<1>3. Chain[n] \subseteq S
  BY <1>1, <1>2, ChainIn
<1> QED
  BY <1>3 DEF S

(* Where something was asked for, so was everything below it. *)
LEMMA AskedBelow ==
    ASSUME NEW M, NEW n \in Nodes, NEW m \in Chain[n], Asked(M, m)
    PROVE  Asked(M, n)
BY ChainTransitive DEF Asked

(* What is in a directory of the source has all its chain at the source. *)
LEMMA ChainThere ==
    ASSUME src \subseteq Nodes, Rooted, NEW n \in src
    PROVE  Chain[n] \subseteq src
BY ChainIn DEF Rooted

-----------------------------------------------------------------------------
(* More that was asked for, less at the source, more that was missed. *)
LEMMA TaskAskedMore ==
    ASSUME NEW M, NEW Q, M \subseteq Q, NEW r, TaskAsked(M, r)
    PROVE  TaskAsked(Q, r)
BY DEF TaskAsked, Asked

(* What was asked for stays asked for when more is removed by the transfers. *)
LEMMA FramesAskedMore ==
    ASSUME NEW M, NEW Q, M \subseteq Q, NEW fs, FramesAsked(M, fs)
    PROVE  FramesAsked(Q, fs)
BY DEF FramesAsked, Asked

(* A stack covers what remains when files disappear and more are missed. *)
LEMMA CoveredMore ==
    ASSUME NEW S, NEW T, T \subseteq S, NEW R, NEW Q, R \subseteq Q, NEW fs, Covered(S, R, fs)
    PROVE  Covered(T, Q, fs)
BY DEF Covered

(* Nothing is covered when there are no frames. *)
LEMMA NoFrames ==
    ASSUME NEW M, NEW S, NEW R
    PROVE  FramesAsked(M, <<>>) /\ Covered(S, R, <<>>)
BY DEF FramesAsked, Covered

(* One task changes and the others need not notice.                        *)
LEMMA OneChanges ==
    ASSUME TypeOK, TasksAsked, StacksAsked, StacksCover, NEW t \in Tasks, NEW r,
           task' = [task EXCEPT ![t] = r],
           moved \subseteq moved', missed \subseteq missed', src' \subseteq src,
           TaskAsked(moved', r), FramesAsked(moved', r.frames), Covered(src', missed', r.frames)
    PROVE  TasksAsked' /\ StacksAsked' /\ StacksCover'
<1>1. task'[t] = r /\ \A u \in Tasks \ {t} : task'[u] = task[u]
  BY DEF TypeOK
<1>2. ASSUME NEW u \in Tasks \ {t}
      PROVE  /\ TaskAsked(moved', task[u]) /\ FramesAsked(moved', task[u].frames)
             /\ Covered(src', missed', task[u].frames)
  BY TaskAskedMore, FramesAskedMore, CoveredMore DEF TasksAsked, StacksAsked, StacksCover
<1>3. ASSUME NEW u \in Tasks
      PROVE  /\ TaskAsked(moved', task'[u]) /\ FramesAsked(moved', task'[u].frames)
             /\ Covered(src', missed', task'[u].frames)
  BY <1>1, <1>2
<1>4. \A u \in Tasks : TaskAsked(moved, task[u])' <=> TaskAsked(moved', task'[u])
  BY DEF TaskAsked, Asked
<1> QED
  BY <1>3 DEF TasksAsked, StacksAsked, StacksCover, TaskAsked, FramesAsked, Covered, Asked, Below

(* What is at the source and at the target stays as it is.                 *)
LEMMA StoresStay ==
    ASSUME Rooted, Target, RemovedForCause, UNCHANGED <<src, dst, over, coming>>,
           moved \subseteq moved', missed \subseteq missed'
    PROVE  Rooted' /\ Target' /\ RemovedForCause'
<1>1. RemovedForCause'
  BY DEF RemovedForCause
<1> QED
  BY <1>1 DEF Rooted, Target

(* The payloads after Done, AddTask and AppendPayload. *)
LEMMA DoneAsked ==
    ASSUME TypeOK, GroupsAsked, NEW g \in Groups, NEW success, Done(g, success),
           moved \subseteq moved'
    PROVE  GroupsAsked'
<1>1. \A h \in Groups : group'[h].payload \subseteq group[h].payload
  BY DEF TypeOK, GroupRecords, Done, NoGroup
<1> QED
  BY <1>1 DEF GroupsAsked, Asked

(* AddTask and AppendPayload put into a group only what was asked for. *)
LEMMA AddTaskAsked ==
    ASSUME TypeOK, GroupsAsked, NEW g \in Groups, NEW P \in SUBSET Nodes,
           \/ group' = AddTask(group, g, P)
           \/ group' = AppendPayload(AddTask(group, g, {}), g, P),
           moved \subseteq moved', \A n \in P : Asked(moved', n)
    PROVE  GroupsAsked'
<1>1. \A h \in Groups : group'[h].payload \subseteq group[h].payload \cup P
  BY DEF TypeOK, GroupRecords, AddTask, AppendPayload
<1> QED
  BY <1>1 DEF GroupsAsked, Asked

-----------------------------------------------------------------------------
(* A new task has nothing to remove yet. *)
LEMMA NewTaskAsked ==
    ASSUME NEW M, NEW n, NEW g, NEW move, move => Asked(M, n)
    PROVE  LET r == NewTask(n, g, move)
           IN  TaskAsked(M, r) /\ r.frames = <<>>
<1> DEFINE r == NewTask(n, g, move)
<1>1. r.st = "pending" /\ r.node = n /\ r.move = move /\ r.kids = {} /\ r.todo = {} /\ r.frames = <<>>
  BY DEF NewTask, Fresh
<1> HIDE DEF r
<1>2. TaskAsked(M, r)
  BY <1>1 DEF TaskAsked
<1> QED
  BY <1>1, <1>2 DEF r

(* What is asked for is asked for now. *)
LEMMA PayloadAsked ==
    ASSUME NEW move, NEW n \in Nodes, NEW M, move => Asked(M, n)
    PROVE  \A m \in Payload(move, n) : Asked(M, m)
BY DEF Payload

(* Submit asks for the node, so it may be moved. *)
LEMMA SubmitCause ==
    ASSUME TypeOK, CInv, NEW t \in Tasks, NEW n \in Nodes, NEW move \in BOOLEAN, Submit(t, n, move)
    PROVE  CInv'
<1>1. /\ moved' = moved \cup Payload(move, n)
      /\ group' = AppendPayload(AddTask(group, Top, {}), Top, Payload(move, n))
      /\ task' = [task EXCEPT ![t] = NewTask(n, Top, move)]
      /\ UNCHANGED <<src, dst, over, coming, missed>>
  BY DEF Submit
<1>2. move => Asked(moved', n)
  BY <1>1, ChainSelf DEF Payload, Asked
<1>3. Payload(move, n) \in SUBSET Nodes /\ Top \in Groups /\ moved \subseteq moved'
  BY <1>1 DEF Payload, Groups
<1>4. GroupsAsked'
  BY <1>1, <1>2, <1>3, PayloadAsked, AddTaskAsked DEF CInv
<1> DEFINE r == NewTask(n, Top, move)
<1>5. TaskAsked(moved', r) /\ r.frames = <<>>
  BY <1>2, NewTaskAsked
<1>6. task' = [task EXCEPT ![t] = r]
  BY <1>1
<1> HIDE DEF r
<1>7. TasksAsked' /\ StacksAsked' /\ StacksCover'
  <2>1. moved \subseteq moved' /\ missed \subseteq missed' /\ src' \subseteq src
    BY <1>1, <1>3
  <2>2. TasksAsked /\ StacksAsked /\ StacksCover
    BY DEF CInv
  <2>3. FramesAsked(moved', r.frames) /\ Covered(src', missed', r.frames)
    BY <1>5, NoFrames
  <2> QED
    BY <1>5, <1>6, <2>1, <2>2, <2>3, OneChanges
<1>8. Rooted' /\ Target' /\ RemovedForCause'
  BY <1>1, <1>3, StoresStay DEF CInv
<1> QED
  BY <1>4, <1>7, <1>8 DEF CInv

(* A task changes in a way that removes nothing. *)
LEMMA TaskCause ==
    ASSUME TypeOK, CInv, NEW t \in Tasks, NEW r, task' = [task EXCEPT ![t] = r],
           TaskAsked(moved, r), r.frames = task[t].frames \/ r.frames = <<>>,
           GroupsAsked', UNCHANGED <<src, dst, moved, over, coming, missed>>
    PROVE  CInv'
<1>1. FramesAsked(moved', r.frames) /\ Covered(src', missed', r.frames)
  BY NoFrames DEF CInv, StacksAsked, StacksCover
<1>2. TasksAsked' /\ StacksAsked' /\ StacksCover'
  BY <1>1, OneChanges DEF CInv
<1>3. Rooted' /\ Target' /\ RemovedForCause'
  BY StoresStay DEF CInv
<1> QED
  BY <1>2, <1>3 DEF CInv

(* Run: only a file is put. *)
LEMMA RunCause ==
    ASSUME TypeOK, CInv, NEW t \in Tasks, Run(t)
    PROVE  CInv'
<1> DEFINE s == IF task[t].node \in Dirs THEN "listing" ELSE "putting"
           r == [task[t] EXCEPT !.st = s, !.kids = ChildrenIn(src \ unseen, task[t].node)]
<1>1. task[t] \in TaskRecords /\ task[t].node \in Nodes /\ task[t].st = "pending"
      /\ TaskAsked(moved, task[t])
  BY DEF Run, TypeOK, CInv, TasksAsked
<1>2. /\ r.st = s /\ r.node = task[t].node /\ r.move = task[t].move /\ r.todo = task[t].todo
      /\ r.frames = task[t].frames /\ r.kids = ChildrenIn(src \ unseen, task[t].node)
  BY <1>1 DEF TaskRecords
<1>3. s # "none" /\ (s = "putting" => task[t].node \in Files)
  BY <1>1 DEF Nodes
<1>4. task' = [task EXCEPT ![t] = r] /\ UNCHANGED <<src, dst, group, moved, over, coming, missed>>
  BY DEF Run
<1> HIDE DEF r, s
<1>5. TaskAsked(moved, r)
  BY <1>1, <1>2, <1>3 DEF TaskAsked, ChildrenIn
<1>6. GroupsAsked'
  BY <1>4 DEF CInv, GroupsAsked, Asked
<1> QED
  BY <1>2, <1>4, <1>5, <1>6, TaskCause

(* NextTask: what is in a directory that was asked for is asked for. *)
LEMMA NextTaskCause ==
    ASSUME TypeOK, CInv, NEW t \in Tasks, NEW u \in Tasks, NEW k \in Nodes, NextTask(t, u, k)
    PROVE  CInv'
<1> DEFINE r == [task[t] EXCEPT !.kids = @ \ {k}]
           n == NewTask(k, task[t].group, task[t].move)
<1>1. /\ task[t] \in TaskRecords /\ task[t].node \in Nodes /\ task[t].st = "listing"
      /\ task[u].st = "none" /\ t # u /\ k \in task[t].kids /\ TaskAsked(moved, task[t])
  BY DEF NextTask, Free, TypeOK, CInv, TasksAsked
<1>2. /\ r.st = task[t].st /\ r.node = task[t].node /\ r.move = task[t].move
      /\ r.todo = task[t].todo /\ r.frames = task[t].frames /\ r.kids = task[t].kids \ {k}
  BY <1>1 DEF TaskRecords
<1>3. task[t].move => Asked(moved, k)
  <2>1. Parent[k] = task[t].node
    BY <1>1 DEF TaskAsked
  <2>2. Parent[k] \in Chain[k]
    BY <1>1, <2>1, ChainSelf, ChainUp, TreeAssumption
  <2> QED
    BY <1>1, <2>1, <2>2, AskedBelow DEF TaskAsked
<1>4. TaskAsked(moved, n) /\ n.frames = <<>>
  BY <1>3, NewTaskAsked
<1>5. /\ task' = [[task EXCEPT ![t] = r] EXCEPT ![u] = n]
      /\ group' = AddTask(group, task[t].group, {})
      /\ UNCHANGED <<src, dst, moved, over, coming, missed>>
  BY <1>1 DEF NextTask
<1> HIDE DEF r, n
<1>6. TaskAsked(moved, r)
  BY <1>1, <1>2 DEF TaskAsked
<1>7. task'[u] = n /\ task'[t] = r /\ \A v \in Tasks \ {t, u} : task'[v] = task[v]
  BY <1>1, <1>5 DEF TypeOK
<1>8. ASSUME NEW v \in Tasks
      PROVE  /\ TaskAsked(moved, task'[v]) /\ FramesAsked(moved, task'[v].frames)
             /\ Covered(src, missed, task'[v].frames)
  BY <1>2, <1>4, <1>6, <1>7, NoFrames DEF CInv, TasksAsked, StacksAsked, StacksCover
<1>9. TasksAsked' /\ StacksAsked' /\ StacksCover'
  <2>1. ASSUME NEW v \in Tasks
        PROVE  /\ TaskAsked(moved', task'[v]) /\ FramesAsked(moved', task'[v].frames)
               /\ Covered(src', missed', task'[v].frames)
    BY <1>5, <1>8
  <2>2. TasksAsked'
    BY <2>1 DEF TasksAsked, TaskAsked, Asked
  <2>3. StacksAsked'
    BY <2>1 DEF StacksAsked, FramesAsked, Asked
  <2>4. StacksCover'
    BY <2>1 DEF StacksCover, Covered, Below
  <2> QED
    BY <2>2, <2>3, <2>4
<1>10. GroupsAsked'
  BY <1>1, <1>5, AddTaskAsked DEF CInv, TaskRecords
<1>11. Rooted' /\ Target' /\ RemovedForCause'
  BY <1>5, StoresStay DEF CInv
<1> QED
  BY <1>9, <1>10, <1>11 DEF CInv

(* OnSucceeded and OnFailed: the last task removes what was asked for. *)
LEMMA SettleCause ==
    ASSUME TypeOK, CInv, NEW t \in Tasks, task[t].st \in Active, NEW success \in BOOLEAN,
           Settle(t, success)
    PROVE  CInv'
<1> DEFINE todo == Completes(task[t].group, success)
           r == [task[t] EXCEPT !.st = "removing", !.good = success, !.kids = {}, !.todo = todo]
<1>1. task[t] \in TaskRecords /\ task[t].st # "none" /\ TaskAsked(moved, task[t])
  BY DEF TypeOK, CInv, TasksAsked, Active
<1>2. \A n \in todo : Asked(moved, n)
  BY <1>1 DEF Completes, CInv, GroupsAsked, TaskRecords
<1> HIDE DEF todo
<1>3. /\ r.st = "removing" /\ r.node = task[t].node /\ r.move = task[t].move /\ r.todo = todo
      /\ r.frames = task[t].frames /\ r.kids = {}
  BY <1>1 DEF TaskRecords
<1>4. /\ task' = [task EXCEPT ![t] = r] /\ Done(task[t].group, success)
      /\ UNCHANGED <<src, dst, moved, over, coming, missed>>
  BY DEF Settle, todo
<1> HIDE DEF r
<1>5. TaskAsked(moved, r)
  BY <1>1, <1>2, <1>3 DEF TaskAsked
<1>6. GroupsAsked'
  BY <1>1, <1>4, DoneAsked DEF CInv, TaskRecords
<1> QED
  BY <1>3, <1>4, <1>5, <1>6, TaskCause

(* Put: the file has its content at the target, the directories above it   *)
(* are there, and no other file changes.                                   *)
LEMMA PutCause ==
    ASSUME TypeOK, CInv, NEW t \in Tasks, Put(t)
    PROVE  CInv'
<1> DEFINE todo == Completes(task[t].group, TRUE)
           r == [task[t] EXCEPT !.st = "removing", !.good = TRUE, !.todo = todo]
<1>1. task[t] \in TaskRecords /\ task[t].st = "putting" /\ TaskAsked(moved, task[t])
      /\ task[t].node \in Files
  BY DEF Put, TypeOK, CInv, TasksAsked, TaskAsked
<1>2. \A n \in todo : Asked(moved, n)
  BY <1>1 DEF Completes, CInv, GroupsAsked, TaskRecords
<1> HIDE DEF todo
<1>3. /\ r.st = "removing" /\ r.node = task[t].node /\ r.move = task[t].move /\ r.todo = todo
      /\ r.frames = task[t].frames /\ r.kids = task[t].kids
  BY <1>1 DEF TaskRecords
<1>4. /\ task' = [task EXCEPT ![t] = r] /\ Done(task[t].group, TRUE)
      /\ UNCHANGED <<src, moved, over, coming, missed>>
  BY DEF Put, todo
<1> HIDE DEF r
<1>5. TaskAsked(moved', r)
  BY <1>1, <1>2, <1>3, <1>4 DEF TaskAsked
<1>6. GroupsAsked'
  BY <1>1, <1>4, DoneAsked DEF CInv, TaskRecords
<1>7. FramesAsked(moved', r.frames) /\ Covered(src', missed', r.frames)
  BY <1>3, <1>4 DEF CInv, StacksAsked, StacksCover
<1>8. TasksAsked' /\ StacksAsked' /\ StacksCover'
  <2>1. moved \subseteq moved' /\ missed \subseteq missed' /\ src' \subseteq src
    BY <1>4
  <2>2. TasksAsked /\ StacksAsked /\ StacksCover
    BY DEF CInv
  <2> QED
    BY <1>4, <1>5, <1>7, <2>1, <2>2, OneChanges
<1>9. ASSUME NEW m \in Nodes
      PROVE  \/ m = task[t].node /\ dst'[m] = "new"
             \/ m \in Dirs /\ dst'[m] = "dir"
             \/ dst'[m] = dst[m]
  <2>1. dst' = [k \in Nodes |-> IF k = task[t].node THEN "new"
                               ELSE IF k \in Chain[task[t].node] THEN "dir" ELSE dst[k]]
    BY DEF Put
  <2> QED
    BY <1>1, <2>1, ChainDirs DEF Nodes
<1>10. Target'
  BY <1>1, <1>4, <1>9 DEF CInv, Target
<1>11. RemovedForCause'
  <2>1. \A m \in Files : dst[m] = "new" => dst'[m] = "new"
    BY <1>9, TreeAssumption DEF Nodes
  <2> QED
    BY <1>4, <2>1 DEF CInv, RemovedForCause
<1>12. Rooted'
  BY <1>4 DEF CInv, Rooted
<1> QED
  BY <1>6, <1>8, <1>10, <1>11, <1>12 DEF CInv

(* Fails: a task that is tried again has still to look at its source. *)
LEMMA FailsCause ==
    ASSUME TypeOK, CInv, NEW t \in Tasks, Fails(t)
    PROVE  CInv'
<1>1. task[t].st \in Active
  BY DEF Fails
<1>2. CASE Settle(t, FALSE)
  BY <1>1, <1>2, SettleCause
<1>3. CASE /\ task' = [task EXCEPT ![t].st = "pending", ![t].kids = {}, ![t].retry = @ + 1]
           /\ UNCHANGED <<src, dst, group, moved, over, coming, missed>>
  <2> DEFINE r == [task[t] EXCEPT !.st = "pending", !.kids = {}, !.retry = @ + 1]
  <2>1. task[t] \in TaskRecords /\ task[t].st # "none" /\ TaskAsked(moved, task[t])
    BY <1>1 DEF TypeOK, CInv, TasksAsked, Active
  <2>2. /\ r.st = "pending" /\ r.node = task[t].node /\ r.move = task[t].move
        /\ r.todo = task[t].todo /\ r.frames = task[t].frames /\ r.kids = {}
    BY <2>1 DEF TaskRecords
  <2>3. task' = [task EXCEPT ![t] = r]
    BY <1>3
  <2> HIDE DEF r
  <2>4. TaskAsked(moved, r)
    BY <2>1, <2>2 DEF TaskAsked
  <2>5. GroupsAsked'
    BY <1>3 DEF CInv, GroupsAsked, Asked
  <2> QED
    BY <1>3, <2>2, <2>3, <2>4, <2>5, TaskCause
<1> QED
  BY <1>2, <1>3, Zenon DEF Fails

(* SetRetry: a move names its own source, which was asked for. *)
LEMMA RejoinCause ==
    ASSUME TypeOK, CInv, NEW t \in Tasks, task[t].st # "none", Rejoin(t)
    PROVE  CInv'
<1> DEFINE n == task[t].node
           r == NewTask(n, Parent[n], task[t].move)
<1>1. task[t] \in TaskRecords /\ n \in Nodes /\ TaskAsked(moved, task[t]) /\ Parent[n] \in Groups
  BY TreeAssumption DEF TypeOK, CInv, TasksAsked
<1>2. task[t].move => Asked(moved, n)
  BY <1>1 DEF TaskAsked
<1>3. TaskAsked(moved, r) /\ r.frames = <<>>
  BY <1>2, NewTaskAsked
<1>4. /\ group' = AddTask(group, Parent[n], Payload(task[t].move, n))
      /\ task' = [task EXCEPT ![t] = r] /\ UNCHANGED <<src, dst, moved, over, coming, missed>>
  BY DEF Rejoin
<1> HIDE DEF r
<1>5. GroupsAsked'
  <2>1. PICK P : P = Payload(task[t].move, n)
    BY Zenon
  <2>2. P \in SUBSET Nodes /\ \A m \in P : Asked(moved', m)
    BY <1>1, <1>2, <1>4, <2>1 DEF Payload
  <2> QED
    BY <1>1, <1>4, <2>1, <2>2, AddTaskAsked DEF CInv
<1> QED
  BY <1>3, <1>4, <1>5, TaskCause

(* Ended. *)
LEMMA EndedCause ==
    ASSUME TypeOK, CInv, NEW t \in Tasks, Ended(t)
    PROVE  CInv'
<1> DEFINE s == IF task[t].good THEN "over" ELSE "failed"
           r == [task[t] EXCEPT !.st = s]
<1>1. task[t] \in TaskRecords /\ task[t].st = "removing" /\ TaskAsked(moved, task[t])
  BY DEF Ended, TypeOK, CInv, TasksAsked
<1>2. s # "none" /\ s # "putting"
  OBVIOUS
<1> HIDE DEF s
<1>3. /\ r.st = s /\ r.node = task[t].node /\ r.move = task[t].move
      /\ r.todo = task[t].todo /\ r.frames = task[t].frames /\ r.kids = task[t].kids
  BY <1>1 DEF TaskRecords
<1>4. task' = [task EXCEPT ![t] = r] /\ UNCHANGED <<src, dst, group, moved, over, coming, missed>>
  BY DEF Ended, s
<1> HIDE DEF r
<1>5. TaskAsked(moved, r)
  BY <1>1, <1>2, <1>3 DEF TaskAsked
<1>6. GroupsAsked'
  BY <1>4 DEF CInv, GroupsAsked, Asked
<1> QED
  BY <1>3, <1>4, <1>5, <1>6, TaskCause

(* A crash forgets the groups and what was being removed. *)
LEMMA CrashCause ==
    ASSUME TypeOK, CInv, Crash
    PROVE  CInv'
<1>1. group' = [g \in Groups |-> NoGroup] /\ UNCHANGED <<src, dst, moved, over, coming, missed>>
  BY DEF Crash
<1>2. ASSUME NEW t \in Tasks
      PROVE  /\ TaskAsked(moved, task'[t]) /\ FramesAsked(moved, task'[t].frames)
             /\ Covered(src, missed, task'[t].frames)
  <2>1. /\ task[t] \in TaskRecords /\ TaskAsked(moved, task[t]) /\ FramesAsked(moved, task[t].frames)
        /\ Covered(src, missed, task[t].frames)
    BY DEF TypeOK, CInv, TasksAsked, StacksAsked, StacksCover
  <2>2. CASE task[t].st \in Active \cup {"stored"}
    <3>1. task'[t] = [task[t] EXCEPT !.st = "stored", !.kids = {}]
      BY <2>2 DEF Crash, Active
    <3>2. /\ task'[t].st = "stored" /\ task'[t].node = task[t].node /\ task'[t].move = task[t].move
          /\ task'[t].todo = task[t].todo /\ task'[t].frames = task[t].frames /\ task'[t].kids = {}
      BY <2>1, <3>1 DEF TaskRecords
    <3>3. TaskAsked(moved, task'[t])
      BY <2>1, <2>2, <3>2 DEF TaskAsked, Active
    <3> QED
      BY <2>1, <3>2, <3>3
  <2>3. CASE task[t].st = "removing"
    <3>1. task'[t] = [task[t] EXCEPT !.st = "over", !.todo = {}, !.frames = <<>>]
      BY <2>3 DEF Crash, Active
    <3>2. /\ task'[t].st = "over" /\ task'[t].node = task[t].node /\ task'[t].move = task[t].move
          /\ task'[t].todo = {} /\ task'[t].frames = <<>> /\ task'[t].kids = task[t].kids
      BY <2>1, <3>1 DEF TaskRecords
    <3>3. TaskAsked(moved, task'[t])
      BY <2>1, <2>3, <3>2 DEF TaskAsked
    <3> QED
      BY <3>2, <3>3, NoFrames
  <2>4. CASE task[t].st \notin Active \cup {"stored", "removing"}
    <3>1. task'[t] = task[t]
      BY <2>4 DEF Crash
    <3> QED
      BY <2>1, <3>1
  <2> QED
    BY <2>2, <2>3, <2>4
<1>3. TasksAsked' /\ StacksAsked' /\ StacksCover'
  BY <1>1, <1>2 DEF TasksAsked, StacksAsked, StacksCover, TaskAsked, FramesAsked, Covered, Asked, Below
<1>4. GroupsAsked'
  BY <1>1 DEF GroupsAsked, NoGroup
<1>5. Rooted' /\ Target' /\ RemovedForCause'
  BY <1>1, StoresStay DEF CInv
<1> QED
  BY <1>3, <1>4, <1>5 DEF CInv

(* Arrive: a file that comes into a directory while it is verified is      *)
(* named, and it is in no other one that is verified.                      *)
LEMMA ArriveCause ==
    ASSUME TypeOK, CInv, NEW n \in Late, Arrive(n)
    PROVE  CInv'
<1>1. /\ n \in Nodes /\ src' = src \cup {n} /\ coming' = coming \ {n} /\ n \in coming
      /\ Parent[n] \in src \cup {Top} /\ UNCHANGED <<dst, group, task, moved, over>>
      /\ missed' = IF Verifying(n) THEN missed \cup {n} ELSE missed
  BY TreeAssumption DEF Arrive, Nodes
<1>2. Rooted'
  BY <1>1 DEF CInv, Rooted
<1>3. Target' /\ GroupsAsked' /\ TasksAsked' /\ StacksAsked'
  BY <1>1 DEF CInv, Target, GroupsAsked, TasksAsked, StacksAsked, TaskAsked, FramesAsked, Asked
<1>4. RemovedForCause'
  BY <1>1 DEF CInv, RemovedForCause
<1>5. ASSUME NEW t \in Tasks PROVE Covered(src', missed', task[t].frames)
  <2>1. Covered(src, missed, task[t].frames) /\ task[t].frames \in Seq(Frames)
    BY DEF CInv, StacksCover, TypeOK, TaskRecords
  <2>2. ASSUME NEW i \in 1..Len(task[t].frames), n \in Below(task[t].frames[i].node)
        PROVE  n \in missed'
    <3>1. Verifying(n)
      BY <2>1, <2>2 DEF Verifying, Below
    <3> QED
      BY <1>1, <3>1
  <2> QED
    BY <1>1, <2>1, <2>2 DEF Covered
<1>6. StacksCover'
  BY <1>1, <1>5 DEF StacksCover, Covered, Below
<1> QED
  BY <1>2, <1>3, <1>4, <1>6 DEF CInv

-----------------------------------------------------------------------------
(* The frames cover all but what is in A, which is taken care of now. *)
CoveredBut(S, R, A, fs) ==
    \A i \in 1..Len(fs) : ~fs[i].bad =>
        \A n \in Files \cap S \cap Below(fs[i].node) :
            \/ n \in R
            \/ \E k \in fs[i].kids : n \in Below(k)
            \/ i > 1 /\ n \in Below(fs[i - 1].node)
            \/ i = 1 /\ n \in A

(* It is gone. *)
LEMMA CoverRemoved ==
    ASSUME NEW S, NEW R, NEW A, NEW fs, CoveredBut(S, R, A, fs)
    PROVE  Covered(S \ A, R, fs)
BY DEF Covered, CoveredBut

(* It is not: the directory remembers a failure. *)
LEMMA CoverFailed ==
    ASSUME NEW S, NEW R, NEW A, NEW fs \in Seq(Frames), CoveredBut(S, R, A, fs)
    PROVE  Covered(S, R, Back(fs, FALSE))
<1>1. CASE fs = <<>>
  BY <1>1 DEF Back, Covered
<1>2. CASE fs # <<>>
  <2> DEFINE g == [Head(fs) EXCEPT !.bad = TRUE]
             gs == <<g>> \o Tail(fs)
  <2>1. Head(fs) = fs[1] /\ fs[1] \in Frames /\ Len(fs) \in Nat \ {0}
    BY <1>2
  <2>2. g.node = fs[1].node /\ g.bad
    BY <2>1 DEF Frames
  <2>3. g \in Frames
    BY <2>1 DEF Frames
  <2> HIDE DEF g
  <2>4. Len(gs) = Len(fs) /\ gs[1] = g /\ \A i \in 2..Len(fs) : gs[i] = fs[i]
    BY <1>2, <2>3
  <2>5. Back(fs, FALSE) = gs
    BY <1>2 DEF Back, g
  <2> HIDE DEF gs
  <2>6. \A i \in 2..Len(fs) : gs[i - 1].node = fs[i - 1].node
    <3> SUFFICES ASSUME NEW i \in 2..Len(fs) PROVE gs[i - 1].node = fs[i - 1].node
      OBVIOUS
    <3>1. CASE i = 2
      BY <2>2, <2>4, <3>1
    <3>2. CASE i # 2
      BY <2>1, <2>4, <3>2
    <3> QED
      BY <3>1, <3>2
  <2>7. ASSUME NEW i \in 1..Len(gs), ~gs[i].bad,
               NEW n \in Files \cap S \cap Below(gs[i].node)
        PROVE  \/ n \in R
               \/ \E k \in gs[i].kids : n \in Below(k)
               \/ i > 1 /\ n \in Below(gs[i - 1].node)
    <3>1. i \in 2..Len(fs)
      BY <2>1, <2>2, <2>4, <2>7
    <3>2. gs[i] = fs[i] /\ i # 1 /\ i \in 1..Len(fs)
      BY <2>1, <2>4, <3>1
    <3> QED
      BY <2>6, <2>7, <3>1, <3>2 DEF CoveredBut
  <2>8. Covered(S, R, gs)
    BY <2>7 DEF Covered
  <2> QED
    BY <2>5, <2>8
<1> QED
  BY <1>1, <1>2

(* It is below a directory that is verified next. *)
LEMMA CoverDeeper ==
    ASSUME NEW S, NEW R, NEW m, NEW fs \in Seq(Frames), CoveredBut(S, R, Below(m), fs),
           NEW f \in Frames, f.node = m,
           \A n \in Files \cap S \cap Below(m) : n \in R \/ \E k \in f.kids : n \in Below(k)
    PROVE  Covered(S, R, <<f>> \o fs)
<1> DEFINE gs == <<f>> \o fs
<1>1. Len(gs) = Len(fs) + 1 /\ Len(fs) \in Nat /\ gs[1] = f /\ \A i \in 1..Len(fs) : gs[i + 1] = fs[i]
  OBVIOUS
<1> HIDE DEF gs
<1>2. ASSUME NEW i \in 1..Len(gs), ~gs[i].bad,
             NEW n \in Files \cap S \cap Below(gs[i].node)
      PROVE  \/ n \in R
             \/ \E k \in gs[i].kids : n \in Below(k)
             \/ i > 1 /\ n \in Below(gs[i - 1].node)
  <2>1. CASE i = 1
    BY <1>1, <1>2, <2>1
  <2>2. CASE i > 1
    <3>1. PICK j \in 1..Len(fs) : i = j + 1
      <4>1. i - 1 \in 1..Len(fs) /\ i = (i - 1) + 1
        BY <1>1, <2>2
      <4> QED
        BY <4>1
    <3>2. gs[i] = fs[j] /\ i - 1 = j
      BY <1>1, <3>1
    <3>3. CASE j = 1
      BY <1>1, <1>2, <2>2, <3>1, <3>2, <3>3 DEF CoveredBut
    <3>4. CASE j > 1
      <4>1. gs[j] = fs[j - 1]
        <5>1. j - 1 \in 1..Len(fs) /\ j = (j - 1) + 1
          BY <1>1, <3>4
        <5> QED
          BY <1>1, <5>1
      <4> QED
        BY <1>2, <2>2, <3>2, <3>4, <4>1 DEF CoveredBut
    <3> QED
      BY <3>1, <3>3, <3>4
  <2> QED
    BY <1>1, <2>1, <2>2
<1>3. Covered(S, R, gs)
  BY <1>2 DEF Covered
<1> QED
  BY <1>3 DEF gs

(* The directory on top has been verified: the one below it takes over. *)
LEMMA CoverPopped ==
    ASSUME NEW S, NEW R, NEW fs \in Seq(Frames), fs # <<>>, Covered(S, R, fs)
    PROVE  CoveredBut(S, R, Below(fs[1].node), Tail(fs))
<1> DEFINE gs == Tail(fs)
<1>1. Len(gs) = Len(fs) - 1 /\ Len(fs) \in Nat \ {0} /\ \A i \in 1..Len(gs) : gs[i] = fs[i + 1]
  OBVIOUS
<1> HIDE DEF gs
<1>2. ASSUME NEW i \in 1..Len(gs), ~gs[i].bad,
             NEW n \in Files \cap S \cap Below(gs[i].node)
      PROVE  \/ n \in R
             \/ \E k \in gs[i].kids : n \in Below(k)
             \/ i > 1 /\ n \in Below(gs[i - 1].node)
             \/ i = 1 /\ n \in Below(fs[1].node)
  <2>1. i + 1 \in 1..Len(fs) /\ gs[i] = fs[i + 1] /\ (i + 1) - 1 = i
    BY <1>1
  <2>2. \/ n \in R
        \/ \E k \in gs[i].kids : n \in Below(k)
        \/ n \in Below(fs[i].node)
    <3>1. PICK j \in 1..Len(fs) : j = i + 1
      BY <2>1
    <3>2. gs[i] = fs[j] /\ j - 1 = i
      BY <2>1, <3>1
    <3> QED
      BY <1>2, <3>2 DEF Covered
  <2>3. i > 1 => fs[i] = gs[i - 1]
    <3> SUFFICES ASSUME i > 1 PROVE fs[i] = gs[i - 1]
      OBVIOUS
    <3>1. i - 1 \in 1..Len(gs) /\ (i - 1) + 1 = i
      BY <1>1
    <3> QED
      BY <1>1, <3>1
  <2> QED
    BY <1>1, <2>2, <2>3
<1>3. CoveredBut(S, R, Below(fs[1].node), gs)
  BY <1>2 DEF CoveredBut
<1> QED
  BY <1>3 DEF gs

(* The directory on top takes one of its kids. *)
LEMMA CoverKid ==
    ASSUME NEW S, NEW R, NEW fs \in Seq(Frames), fs # <<>>, Covered(S, R, fs),
           NEW k, NEW f \in Frames, f.node = fs[1].node, f.kids = fs[1].kids \ {k},
           f.bad = fs[1].bad
    PROVE  CoveredBut(S, R, Below(k), <<f>> \o Tail(fs))
<1> DEFINE gs == <<f>> \o Tail(fs)
<1>1. Len(gs) = Len(fs) /\ Len(fs) \in Nat \ {0} /\ gs[1] = f /\ \A i \in 2..Len(fs) : gs[i] = fs[i]
  OBVIOUS
<1> HIDE DEF gs
<1>2. ASSUME NEW i \in 1..Len(gs), ~gs[i].bad,
             NEW n \in Files \cap S \cap Below(gs[i].node)
      PROVE  \/ n \in R
             \/ \E m \in gs[i].kids : n \in Below(m)
             \/ i > 1 /\ n \in Below(gs[i - 1].node)
             \/ i = 1 /\ n \in Below(k)
  <2>1. CASE i = 1
    BY <1>1, <1>2, <2>1 DEF Covered
  <2>2. CASE i > 1
    <3>1. gs[i] = fs[i] /\ i \in 1..Len(fs)
      BY <1>1, <2>2
    <3>2. gs[i - 1].node = fs[i - 1].node
      <4>1. CASE i = 2
        BY <1>1, <4>1
      <4>2. CASE i # 2
        BY <1>1, <2>2, <4>2
      <4> QED
        BY <4>1, <4>2
    <3> QED
      BY <1>2, <2>2, <3>1, <3>2 DEF Covered
  <2> QED
    BY <1>1, <2>1, <2>2
<1>3. CoveredBut(S, R, Below(k), gs)
  BY <1>2 DEF CoveredBut
<1> QED
  BY <1>3 DEF gs

(* Nothing that nobody asked for comes among the frames. *)
LEMMA BackAsked ==
    ASSUME NEW M, NEW fs \in Seq(Frames), FramesAsked(M, fs), NEW good \in BOOLEAN
    PROVE  FramesAsked(M, Back(fs, good))
<1>1. CASE fs = <<>> \/ good
  BY <1>1 DEF Back
<1>2. CASE fs # <<>> /\ ~good
  <2> DEFINE g == [Head(fs) EXCEPT !.bad = TRUE]
             gs == <<g>> \o Tail(fs)
  <2>1. Head(fs) = fs[1] /\ fs[1] \in Frames /\ Len(fs) \in Nat \ {0}
    BY <1>2
  <2>2. g.node = fs[1].node /\ g.kids = fs[1].kids /\ g \in Frames
    BY <2>1 DEF Frames
  <2>3. Back(fs, good) = gs
    BY <1>2 DEF Back
  <2> HIDE DEF g
  <2>4. Len(gs) = Len(fs) /\ gs[1] = g /\ \A i \in 2..Len(fs) : gs[i] = fs[i]
    BY <1>2, <2>2
  <2> HIDE DEF gs
  <2>5. ASSUME NEW i \in 1..Len(gs) PROVE gs[i].node = fs[i].node /\ gs[i].kids = fs[i].kids
    <3>1. CASE i = 1
      BY <2>2, <2>4, <3>1
    <3>2. CASE i # 1
      BY <2>1, <2>4, <3>2
    <3> QED
      BY <3>1, <3>2
  <2>6. FramesAsked(M, gs)
    BY <2>4, <2>5 DEF FramesAsked
  <2> QED
    BY <2>3, <2>6
<1> QED
  BY <1>1, <1>2

(* A new frame on a stack whose frames were all asked for. *)
LEMMA PushAsked ==
    ASSUME NEW M, NEW fs \in Seq(Frames), FramesAsked(M, fs), NEW f \in Frames,
           Asked(M, f.node), \A k \in f.kids : Asked(M, k)
    PROVE  FramesAsked(M, <<f>> \o fs)
<1> DEFINE gs == <<f>> \o fs
<1>1. Len(gs) = Len(fs) + 1 /\ Len(fs) \in Nat /\ gs[1] = f /\ \A i \in 1..Len(fs) : gs[i + 1] = fs[i]
  OBVIOUS
<1> HIDE DEF gs
<1>2. ASSUME NEW i \in 1..Len(gs) PROVE Asked(M, gs[i].node) /\ \A k \in gs[i].kids : Asked(M, k)
  <2>1. CASE i = 1
    BY <1>1, <2>1
  <2>2. CASE i # 1
    <3>1. i - 1 \in 1..Len(fs) /\ i = (i - 1) + 1
      BY <1>1, <2>2
    <3>2. PICK j \in 1..Len(fs) : i = j + 1
      BY <3>1
    <3> QED
      BY <1>1, <3>2 DEF FramesAsked
  <2> QED
    BY <2>1, <2>2
<1>3. FramesAsked(M, gs)
  BY <1>2 DEF FramesAsked
<1> QED
  BY <1>3 DEF gs

(* The stack below a frame that returns. *)
LEMMA TailAsked ==
    ASSUME NEW M, NEW fs \in Seq(Frames), fs # <<>>, FramesAsked(M, fs)
    PROVE  FramesAsked(M, Tail(fs))
<1>1. Len(Tail(fs)) = Len(fs) - 1 /\ Len(fs) \in Nat \ {0} /\ \A i \in 1..Len(Tail(fs)) : Tail(fs)[i] = fs[i + 1]
  OBVIOUS
<1> QED
  BY <1>1 DEF FramesAsked

-----------------------------------------------------------------------------
(* Sources go with all that is below them, each file for a cause. *)
LEMMA RemovalCause ==
    ASSUME TypeOK, CInv, NEW m \in Nodes, Asked(moved, m), src' = src \ Below(m),
           UNCHANGED <<dst, moved, over, coming, missed>>,
           \A n \in Files \cap src \cap Below(m) :
               dst[n] = "new" \/ n \in missed \/ Chain[n] \cap over # {}
    PROVE  Rooted' /\ Target' /\ RemovedForCause'
<1>1. Rooted'
  <2> SUFFICES ASSUME NEW n \in src \ Below(m), Parent[n] \in Below(m) PROVE FALSE
    BY DEF CInv, Rooted
  <2>1. n \in Nodes /\ Parent[n] \in Nodes /\ m \in Chain[Parent[n]]
    BY DEF TypeOK, Below
  <2>2. Parent[n] \in Chain[n]
    BY <2>1, ChainSelf, ChainUp, TreeAssumption
  <2>3. m \in Chain[n]
    BY <2>1, <2>2, ChainTransitive
  <2> QED
    BY <2>1, <2>3 DEF Below
<1>2. Target'
  BY DEF CInv, Target
<1>3. RemovedForCause'
  <2> SUFFICES ASSUME NEW n \in Files, n \notin src', n \notin coming
               PROVE  Chain[n] \cap moved # {} /\ (dst[n] = "new" \/ n \in missed \/ Chain[n] \cap over # {})
    BY DEF RemovedForCause
  <2>1. CASE n \notin src
    BY <2>1 DEF CInv, RemovedForCause
  <2>2. CASE n \in src
    <3>1. n \in Nodes /\ n \in Below(m) /\ m \in Chain[n]
      BY <2>2 DEF Below, Nodes
    <3> QED
      BY <2>2, <3>1, AskedBelow DEF Asked
  <2> QED
    BY <2>1, <2>2
<1> QED
  BY <1>1, <1>2, <1>3

(* What a file at the target stands for: itself, or what it is in place of.*)
LEMMA FileStands ==
    ASSUME CInv, NEW m \in Nodes, dst[m] \in {"old", "new"}, NEW n \in Files \cap Below(m)
    PROVE  dst[n] = "new" \/ Chain[n] \cap over # {}
<1>1. n \in Nodes /\ m \in Chain[n]
  BY DEF Below, Nodes
<1>2. CASE dst[m] = "old"
  BY <1>1, <1>2 DEF CInv, Target
<1>3. CASE dst[m] = "new"
  <2>1. m \in Files
    BY <1>3 DEF CInv, Target
  <2>2. m = n
    BY <1>1, <2>1, ChainDirs, TreeAssumption
  <2> QED
    BY <1>3, <2>2
<1> QED
  BY <1>2, <1>3

(* Below a directory of the source everything is below something that its  *)
(* listing shows, but for what came after the listing was cached.          *)
LEMMA ListingCovers ==
    ASSUME TypeOK, CInv, NEW m \in Nodes, dst[m] = "dir", NEW n \in Files \cap src \cap Below(m)
    PROVE  \/ n \in ChildrenIn(src \cap unseen, m)
           \/ \E k \in ChildrenIn(src \ unseen, m) : n \in Below(k)
<1>1. n \in Nodes /\ m \in Chain[n] /\ m \in Dirs /\ m # n
  BY TreeAssumption DEF Below, Nodes, CInv, Target
<1>2. PICK k \in Chain[n] : Parent[k] = m
  BY <1>1, ChainChild
<1>3. k \in src
  BY <1>2, ChainThere DEF TypeOK, CInv
<1>4. CASE k \in unseen
  <2>1. k \in Files
    BY <1>4, TreeAssumption DEF TypeOK
  <2>2. k = n
    BY <1>1, <1>2, <2>1, ChainDirs, TreeAssumption
  <2> QED
    BY <1>2, <1>3, <1>4, <2>2 DEF ChildrenIn
<1>5. CASE k \notin unseen
  BY <1>1, <1>2, <1>3, <1>5 DEF ChildrenIn, Below
<1> QED
  BY <1>4, <1>5

(* The task goes on with other frames and fewer sources. *)
LEMMA GoesOn ==
    ASSUME TypeOK, CInv, NEW t \in Tasks, task[t].st = "removing",
           NEW fs, NEW todo \in SUBSET task[t].todo,
           task' = [task EXCEPT ![t].frames = fs, ![t].todo = todo],
           FramesAsked(moved, fs), Covered(src', missed', fs), src' \subseteq src,
           missed \subseteq missed', UNCHANGED <<group, moved>>
    PROVE  TasksAsked' /\ StacksAsked' /\ StacksCover' /\ GroupsAsked'
<1> DEFINE r == [task[t] EXCEPT !.frames = fs, !.todo = todo]
<1>1. task[t] \in TaskRecords /\ TaskAsked(moved, task[t])
  BY DEF TypeOK, CInv, TasksAsked
<1>2. /\ r.st = "removing" /\ r.node = task[t].node /\ r.move = task[t].move
      /\ r.todo = todo /\ r.frames = fs /\ r.kids = task[t].kids
  BY <1>1 DEF TaskRecords
<1>3. task' = [task EXCEPT ![t] = r]
  OBVIOUS
<1> HIDE DEF r
<1>4. TaskAsked(moved', r)
  BY <1>1, <1>2 DEF TaskAsked
<1>5. moved \subseteq moved' /\ missed \subseteq missed' /\ TasksAsked /\ StacksAsked /\ StacksCover
  BY DEF CInv
<1>6. FramesAsked(moved', r.frames) /\ Covered(src', missed', r.frames)
  BY <1>2
<1>7. TasksAsked' /\ StacksAsked' /\ StacksCover'
  BY <1>3, <1>4, <1>5, <1>6, OneChanges
<1>8. GroupsAsked'
  BY DEF CInv, GroupsAsked, Asked
<1> QED
  BY <1>7, <1>8

(* verifyAndRemove of a node that was asked for, above frames that cover   *)
(* everything but what is below it.                                        *)
LEMMA VerifyCause ==
    ASSUME TypeOK, CInv, NEW t \in Tasks, task[t].st = "removing",
           NEW n \in Nodes, Asked(moved, n), NEW todo \in SUBSET task[t].todo,
           NEW fs \in Seq(Frames), FramesAsked(moved, fs), CoveredBut(src, missed, Below(n), fs),
           Verify(t, n, fs, todo), UNCHANGED <<dst, group, moved, over, coming>>
    PROVE  CInv'
<1>1. CASE /\ n \in src /\ dst[n] \in {"old", "new"}
           /\ src' = src \ Below(n)
           /\ task' = [task EXCEPT ![t].frames = fs, ![t].todo = todo]
           /\ UNCHANGED missed
  <2>1. Rooted' /\ Target' /\ RemovedForCause'
    BY <1>1, FileStands, RemovalCause
  <2>2. Covered(src', missed', fs) /\ src' \subseteq src
    BY <1>1, CoverRemoved
  <2>3. TasksAsked' /\ StacksAsked' /\ StacksCover' /\ GroupsAsked'
    BY <1>1, <2>2, GoesOn
  <2> QED
    BY <2>1, <2>3 DEF CInv
<1>2. CASE /\ n \in src /\ dst[n] = "dir"
           /\ task' = [task EXCEPT ![t].todo = todo,
                  ![t].frames = <<[node |-> n, kids |-> ChildrenIn(src \ unseen, n), bad |-> FALSE]>> \o fs]
           /\ missed' = missed \cup ChildrenIn(src \cap unseen, n)
           /\ UNCHANGED <<src, faults>>
  <2> DEFINE f == [node |-> n, kids |-> ChildrenIn(src \ unseen, n), bad |-> FALSE]
             gs == <<f>> \o fs
  <2>1. f \in Frames /\ f.node = n /\ f.kids = ChildrenIn(src \ unseen, n)
    BY DEF Frames, ChildrenIn, TypeOK
  <2>2. ASSUME NEW k \in f.kids PROVE Asked(moved, k)
    <3>1. k \in Nodes /\ Parent[k] = n
      BY <2>1, <2>2 DEF ChildrenIn, TypeOK
    <3>2. n \in Chain[k]
      BY <3>1, ChainSelf, ChainUp, TreeAssumption
    <3> QED
      BY <3>1, <3>2, AskedBelow
  <2>3. \A m \in Files \cap src \cap Below(n) : m \in missed' \/ \E k \in f.kids : m \in Below(k)
    BY <1>2, <2>1, ListingCovers
  <2> HIDE DEF f
  <2>4. Covered(src, missed', gs)
    <3>1. CoveredBut(src, missed', Below(n), fs)
      BY <1>2 DEF CoveredBut
    <3> QED
      BY <2>1, <2>3, <3>1, CoverDeeper
  <2>5. FramesAsked(moved, gs)
    BY <2>1, <2>2, PushAsked
  <2>6. task' = [task EXCEPT ![t].frames = gs, ![t].todo = todo]
    <3>1. task[t] \in TaskRecords
      BY DEF TypeOK
    <3> HIDE DEF gs
    <3>2. task' = [task EXCEPT ![t].todo = todo, ![t].frames = gs]
      BY <1>2 DEF f, gs
    <3> QED
      BY <3>1, <3>2 DEF TypeOK
  <2> HIDE DEF gs
  <2>7. TasksAsked' /\ StacksAsked' /\ StacksCover' /\ GroupsAsked'
    <3>1. Covered(src', missed', gs) /\ src' \subseteq src /\ missed \subseteq missed'
      BY <1>2, <2>4
    <3> QED
      BY <2>5, <2>6, <3>1, GoesOn
  <2>8. Rooted' /\ Target' /\ RemovedForCause'
    BY <1>2, StoresStay DEF CInv
  <2> QED
    BY <2>7, <2>8 DEF CInv
<1>3. CASE /\ task' = [task EXCEPT ![t].frames = Back(fs, FALSE), ![t].todo = todo]
           /\ UNCHANGED <<src, missed>>
  <2>1. Covered(src', missed', Back(fs, FALSE)) /\ src' \subseteq src
    BY <1>3, CoverFailed
  <2>2. FramesAsked(moved, Back(fs, FALSE))
    BY BackAsked
  <2>3. TasksAsked' /\ StacksAsked' /\ StacksCover' /\ GroupsAsked'
    BY <1>3, <2>1, <2>2, GoesOn
  <2>4. Rooted' /\ Target' /\ RemovedForCause'
    BY <1>3, StoresStay DEF CInv
  <2> QED
    BY <2>3, <2>4 DEF CInv
<1> QED
  BY <1>1, <1>2, <1>3, Zenon DEF Verify

(* HookAndRemove takes a source out of what it has to remove. *)
LEMMA VerifySourceCause ==
    ASSUME TypeOK, CInv, NEW t \in Tasks, VerifySource(t)
    PROVE  CInv'
<1>1. /\ task[t].st = "removing" /\ task[t].todo \in SUBSET Nodes /\ TaskAsked(moved, task[t])
      /\ UNCHANGED <<dst, group, moved, over, coming>>
  BY DEF VerifySource, TypeOK, TaskRecords, CInv, TasksAsked
<1>2. PICK n \in task[t].todo : Verify(t, n, <<>>, task[t].todo \ {n})
  BY DEF VerifySource
<1>3. n \in Nodes /\ Asked(moved, n) /\ task[t].todo \ {n} \in SUBSET task[t].todo
  BY <1>1 DEF TaskAsked
<1>4. PICK fs : fs = <<>>
  BY Zenon
<1>5. fs \in Seq(Frames) /\ FramesAsked(moved, fs) /\ CoveredBut(src, missed, Below(n), fs)
  BY <1>4 DEF FramesAsked, CoveredBut
<1>6. Verify(t, n, fs, task[t].todo \ {n})
  BY <1>2, <1>4
<1> QED
  BY <1>1, <1>3, <1>5, <1>6, VerifyCause

(* verifyAndRemove takes one thing of a directory after the other. *)
LEMMA VerifyKidCause ==
    ASSUME TypeOK, CInv, NEW t \in Tasks, VerifyKid(t)
    PROVE  CInv'
<1>1. /\ task[t].st = "removing" /\ task[t].todo \in SUBSET task[t].todo
      /\ task[t].frames \in Seq(Frames) /\ task[t].frames # <<>>
      /\ UNCHANGED <<dst, group, moved, over, coming>>
      /\ FramesAsked(moved, task[t].frames) /\ Covered(src, missed, task[t].frames)
  BY DEF VerifyKid, TypeOK, TaskRecords, CInv, StacksAsked, StacksCover
<1>2. TopFrame(t) = task[t].frames[1] /\ task[t].frames[1] \in Frames
      /\ 1 \in 1..Len(task[t].frames)
  BY <1>1 DEF TopFrame
<1>3. PICK k \in TopFrame(t).kids :
          Verify(t, k, <<[TopFrame(t) EXCEPT !.kids = @ \ {k}]>> \o Tail(task[t].frames),
                 task[t].todo)
  BY DEF VerifyKid
<1>4. k \in Nodes /\ Asked(moved, k) /\ Asked(moved, task[t].frames[1].node)
  BY <1>1, <1>2, <1>3 DEF FramesAsked, Frames
<1> DEFINE f == [TopFrame(t) EXCEPT !.kids = @ \ {k}]
           fs == <<f>> \o Tail(task[t].frames)
<1>5. /\ f \in Frames /\ f.node = task[t].frames[1].node /\ f.bad = task[t].frames[1].bad
      /\ f.kids = task[t].frames[1].kids \ {k}
  BY <1>2 DEF Frames
<1> HIDE DEF f
<1>6. Tail(task[t].frames) \in Seq(Frames) /\ fs \in Seq(Frames)
  BY <1>1, <1>5
<1>7. CoveredBut(src, missed, Below(k), fs)
  BY <1>1, <1>5, CoverKid
<1>8. FramesAsked(moved, fs)
  <2>1. FramesAsked(moved, Tail(task[t].frames))
    BY <1>1, TailAsked
  <2>2. Asked(moved, f.node) /\ \A m \in f.kids : Asked(moved, m)
    BY <1>1, <1>2, <1>4, <1>5 DEF FramesAsked
  <2> QED
    BY <1>5, <1>6, <2>1, <2>2, PushAsked
<1>9. Verify(t, k, fs, task[t].todo)
  BY <1>3 DEF f
<1> HIDE DEF fs
<1> QED
  BY <1>1, <1>4, <1>6, <1>7, <1>8, <1>9, VerifyCause

(* A directory in which nothing has failed has nothing left to verify.     *)
LEMMA RemoveDirCause ==
    ASSUME TypeOK, CInv, NEW t \in Tasks, RemoveDir(t)
    PROVE  CInv'
<1>1. /\ task[t].st = "removing" /\ task[t].todo \in SUBSET task[t].todo
      /\ task[t].frames \in Seq(Frames) /\ task[t].frames # <<>> /\ TopFrame(t).kids = {}
      /\ UNCHANGED <<dst, group, moved, over, coming, missed>>
      /\ FramesAsked(moved, task[t].frames) /\ Covered(src, missed, task[t].frames)
  BY DEF RemoveDir, TypeOK, TaskRecords, CInv, StacksAsked, StacksCover
<1>2. /\ TopFrame(t) = task[t].frames[1] /\ task[t].frames[1] \in Frames
      /\ 1 \in 1..Len(task[t].frames)
  BY <1>1 DEF TopFrame
<1> DEFINE m == task[t].frames[1].node
           fs == Tail(task[t].frames)
<1>3. m \in Nodes /\ Asked(moved, m) /\ fs \in Seq(Frames)
  BY <1>1, <1>2 DEF Frames, FramesAsked
<1>4. CoveredBut(src, missed, Below(m), fs) /\ FramesAsked(moved, fs)
  BY <1>1, CoverPopped, TailAsked
<1>5. task[t] \in TaskRecords
  BY DEF TypeOK
<1>6. CASE ~TopFrame(t).bad /\ src' = src \ Below(TopFrame(t).node)
           /\ task' = [task EXCEPT ![t].frames = Back(Tail(@), TRUE)]
  <2>1. src' = src \ Below(m) /\ src' \subseteq src
    BY <1>2, <1>6
  <2>2. \A n \in Files \cap src \cap Below(m) : n \in missed
    BY <1>1, <1>2, <1>6 DEF Covered
  <2>3. task' = [task EXCEPT ![t].frames = fs, ![t].todo = task[t].todo]
    BY <1>5, <1>6 DEF Back, TypeOK, TaskRecords
  <2> HIDE DEF m, fs
  <2>4. Rooted' /\ Target' /\ RemovedForCause'
    BY <1>1, <1>3, <2>1, <2>2, RemovalCause
  <2>5. Covered(src', missed, fs)
    BY <1>4, <2>1, CoverRemoved
  <2>6. TasksAsked' /\ StacksAsked' /\ StacksCover' /\ GroupsAsked'
    BY <1>1, <1>4, <2>1, <2>3, <2>5, GoesOn
  <2> QED
    BY <2>4, <2>6 DEF CInv
<1>7. CASE UNCHANGED src /\ task' = [task EXCEPT ![t].frames = Back(Tail(@), FALSE)]
  <2> DEFINE gs == Back(fs, FALSE)
  <2>1. Covered(src', missed, gs) /\ src' \subseteq src
    BY <1>3, <1>4, <1>7, CoverFailed
  <2>2. FramesAsked(moved, gs)
    BY <1>3, <1>4, BackAsked
  <2>3. task' = [task EXCEPT ![t].frames = gs, ![t].todo = task[t].todo]
    BY <1>5, <1>7 DEF TypeOK, TaskRecords
  <2> HIDE DEF gs
  <2>4. TasksAsked' /\ StacksAsked' /\ StacksCover' /\ GroupsAsked'
    BY <1>1, <2>1, <2>2, <2>3, GoesOn
  <2>5. Rooted' /\ Target' /\ RemovedForCause'
    BY <1>1, <1>7, StoresStay DEF CInv
  <2> QED
    BY <2>4, <2>5 DEF CInv
<1> QED
  BY <1>6, <1>7, Zenon DEF RemoveDir

-----------------------------------------------------------------------------
(* Before the first transfer nothing is gone. *)
LEMMA CauseInit == Init => CInv
<1> SUFFICES ASSUME Init PROVE CInv
  OBVIOUS
<1>1. PICK O \in SUBSET Nodes :
        /\ \A n \in O : Chain[n] \cap O = {n}
        /\ over = O
        /\ dst = [n \in Nodes |-> IF n \in O THEN "old"
                                  ELSE IF Below(n) \cap O # {} THEN "dir" ELSE "none"]
  BY DEF Init
<1>2. Target
  <2> SUFFICES ASSUME NEW n \in Nodes, dst[n] = "dir" PROVE n \in Dirs
    BY <1>1 DEF Target
  <2>1. n \notin O /\ Below(n) \cap O # {}
    BY <1>1
  <2>2. PICK m \in O : m \in Nodes /\ n \in Chain[m]
    BY <2>1 DEF Below
  <2> QED
    BY <2>1, <2>2, ChainDirs
<1>3. Rooted
  <2> SUFFICES ASSUME NEW n \in Nodes PROVE Parent[n] \in (Nodes \ Late) \cup {Top}
    BY DEF Init, Rooted
  <2> QED
    BY TreeAssumption DEF Nodes, Groups
<1>4. GroupsAsked
  BY DEF Init, GroupsAsked, NoGroup
<1>5. TasksAsked /\ StacksAsked /\ StacksCover
  <2>1. \A t \in Tasks : /\ task[t].st = "none" /\ task[t].kids = {} /\ task[t].todo = {}
                         /\ task[t].frames = <<>>
    BY DEF Init, NoTask, Fresh
  <2> QED
    BY <2>1, NoFrames DEF TasksAsked, TaskAsked, StacksAsked, StacksCover
<1>6. RemovedForCause
  BY DEF Init, RemovedForCause, Nodes
<1> QED
  BY <1>2, <1>3, <1>4, <1>5, <1>6 DEF CInv

(* A step that changes none of this loses nothing. *)
LEMMA SourceStays ==
    ASSUME CInv, UNCHANGED <<src, dst, group, task, moved, over, coming, missed>>
    PROVE  CInv'
<1>1. Rooted' /\ Target' /\ RemovedForCause'
  BY StoresStay DEF CInv
<1>2. GroupsAsked' /\ TasksAsked' /\ StacksAsked'
  BY DEF CInv, GroupsAsked, TasksAsked, StacksAsked, TaskAsked, FramesAsked, Asked
<1>3. StacksCover'
  BY DEF CInv, StacksCover, Covered, Below
<1> QED
  BY <1>1, <1>2, <1>3 DEF CInv

(* No step loses a file without a cause. *)
LEMMA CauseStep == TypeOK /\ CInv /\ [Next]_vars => CInv'
<1> SUFFICES ASSUME TypeOK, CInv, [Next]_vars PROVE CInv'
  OBVIOUS
<1>1. ASSUME NEW t \in Tasks, NEW n \in Nodes, NEW move \in BOOLEAN, Submit(t, n, move) PROVE CInv'
  BY <1>1, SubmitCause
<1>2. ASSUME NEW t \in Tasks, Retry(t) \/ Load(t) PROVE CInv'
  BY <1>2, RejoinCause DEF Retry, Load
<1>3. ASSUME NEW t \in Tasks, Listed(t) PROVE CInv'
  BY <1>3, SettleCause DEF Listed, Active
<1>4. ASSUME NEW t \in Tasks, Work(t) PROVE CInv'
  BY <1>2, <1>3, <1>4, RunCause, NextTaskCause, PutCause, FailsCause, VerifySourceCause,
     VerifyKidCause, RemoveDirCause, EndedCause DEF Work
<1>5. CASE Crash
  BY <1>5, CrashCause
<1>6. ASSUME NEW n \in Late, Arrive(n) PROVE CInv'
  BY <1>6, ArriveCause
<1>7. ASSUME NEW g \in Groups, Relist(g) PROVE CInv'
  BY <1>7, SourceStays DEF Relist
<1>8. CASE UNCHANGED vars
  BY <1>8, SourceStays DEF vars
<1> QED
  BY <1>1, <1>2, <1>4, <1>5, <1>6, <1>7, <1>8 DEF Next

(* A file leaves the source only when it was part of a move and the target *)
(* has its content, but for the two ways that are named, for every tree,   *)
(* every number of tasks, retries, faults and crashes (transfer.go,        *)
(* HookAndRemove and verifyAndRemove).                                     *)
THEOREM GoneForCause == Spec => []RemovedForCause
<1>1. IInv => TypeOK
  BY DEF IInv
<1>2. CInv => RemovedForCause
  BY DEF CInv
<1> QED
  BY CauseInit, CauseStep, InitInv, StepInv, <1>1, <1>2, PTL DEF Spec
=============================================================================
