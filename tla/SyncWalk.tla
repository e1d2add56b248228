------------------------------ MODULE SyncWalk ------------------------------
(***************************************************************************)
(* doSync in tree mode and fsWalkAndSync (drivers/aliyun_to_115/sync.go):  *)
(* the walk over the mounted tree, the breakpoint kept in data/work.db,    *)
(* and what is left of both after a crash, a signal or a failed listing,   *)
(* while files come and go on the source side.                             *)
(*                                                                         *)
(* The recursion of fsWalkAndSync is kept as the set todo of entries that  *)
(* the frames on the stack have listed and not yet handled.  A frame loops *)
(* over sorted names and a callee returns before its caller goes on, so    *)
(* the next entry handled is always the first of todo in walk order.       *)
(***************************************************************************)
EXTENDS TreePaths

CONSTANTS
    Listed,      \* paths whose provider is in providerWhiteList
    RunOnce,     \* the RunOnce option of the mount
    MaxFaults,   \* bound on crashes, signals and failed listings together
    MaxChanges   \* bound on creations and deletions on the source side

VARIABLES
    pc,          \* where the sync goroutine is
    at,          \* the directory being listed or the file being processed
    todo,        \* entries listed by the frames of the stack, not yet handled
    fullScan,    \* *fullScan
    passBp,      \* breakpointPath, read when the pass starts
    cancelled,   \* the ctx of the pass has been cancelled by a signal
    bp,          \* sync_state["breakpoint:root"] in work.db, << >> if no row
    present,     \* the tree as fs.List serves it
    faults, changes,
    \* history: the sweep the breakpoint belongs to
    open,        \* a full scan has started and its breakpoint is not cleared
    stable,      \* files to sync that have been present since the sweep opened
    done         \* files whose processSingleFile returned during the sweep

memory == <<pc, at, todo, fullScan, passBp, cancelled>>
history == <<open, stable, done>>
vars == <<memory, bp, present, faults, changes, history>>

None == << >>   \* getBreakpoint returns "" when there is no row

ASSUME WalkAssumption ==
    /\ Listed \subseteq Paths
    /\ RunOnce \in BOOLEAN
    /\ MaxFaults \in Nat
    /\ MaxChanges \in Nat

Running == {"list", "walk", "upload", "clear"}

(* The types of the variables. *)
TypeOK ==
    /\ pc \in {"down", "sleep"} \cup Running
    /\ at \in Paths
    /\ pc = "list" => at \in Dirs
    /\ pc = "upload" => at \in Files
    /\ todo \subseteq Paths \ {Root}
    /\ fullScan \in BOOLEAN
    /\ passBp \in Files \cup {None}
    /\ cancelled \in BOOLEAN
    /\ bp \in Files \cup {None}
    /\ present \subseteq Paths
    /\ Root \in present
    /\ faults \in 0..MaxFaults
    /\ changes \in 0..MaxChanges
    /\ open \in BOOLEAN
    /\ stable \subseteq Files
    /\ done \subseteq Files

(* A file the walk can reach: no entry on the way to it is filtered out. *)
Wanted(f) == \A n \in 1..Len(f) : SubSeq(f, 1, n) \in Listed

(* Every directory on the way to p exists. *)
Reachable(tree, p) == \A n \in 0..Len(p) : SubSeq(p, 1, n) \in tree

TreeClosed(tree) == \A p \in tree : Reachable(tree, p)

Init ==
    /\ pc = "sleep"
    /\ at = Root
    /\ todo = {}
    /\ fullScan = FALSE
    /\ passBp = None
    /\ cancelled = FALSE
    /\ bp = None
    /\ present \in {tree \in SUBSET Paths : Root \in tree /\ TreeClosed(tree)}
    /\ faults = 0
    /\ changes = 0
    /\ open = FALSE
    /\ stable = {}
    /\ done = {}
-----------------------------------------------------------------------------
(* doSync: read the breakpoint; without one the scan is full from the      *)
(* first entry on.  The root directory is entered next.                    *)
StartPass ==
    /\ pc = "sleep"
    /\ pc' = "list"
    /\ at' = Root
    /\ todo' = {}
    /\ passBp' = bp
    /\ fullScan' = (bp = None)
    /\ cancelled' = FALSE
    /\ IF bp = None
       THEN /\ open' = TRUE
            /\ stable' = {f \in present \cap Files : Wanted(f)}
            /\ done' = {}
       ELSE UNCHANGED history
    /\ UNCHANGED <<bp, present, faults, changes>>

(* The pass is over; with RunOnce doSync then sends SIGTERM to itself. *)
AfterPass == IF RunOnce THEN "down" ELSE "sleep"

(* Entering a directory: the ctx is looked at here and nowhere else. *)
ListDir ==
    /\ pc = "list"
    /\ ~cancelled
    /\ at \in present
    /\ todo' = todo \cup ChildrenIn(present, at)
    /\ pc' = "walk"
    /\ UNCHANGED <<at, fullScan, passBp, cancelled, bp, present, faults, changes, history>>

(* Mutant: a failed listing is logged and the walk goes on. *)
ListFailsSwallowed ==
    /\ pc = "list"
    /\ IF cancelled \/ at \notin present
       THEN UNCHANGED faults
       ELSE faults < MaxFaults /\ faults' = faults + 1
    /\ pc' = "walk"
    /\ UNCHANGED <<at, todo, fullScan, passBp, cancelled, bp, present, changes, history>>

(* The error goes up through every frame and the breakpoint stays.  A      *)
(* directory deleted since its parent was listed fails too.                *)
ListFails ==
    /\ pc = "list"
    /\ IF cancelled \/ at \notin present
       THEN UNCHANGED faults
       ELSE faults < MaxFaults /\ faults' = faults + 1
    /\ pc' = AfterPass
    /\ todo' = {}
    /\ UNCHANGED <<at, fullScan, passBp, cancelled, bp, present, changes, history>>

(* Mutant: the entries are not sorted. *)
IsNextUnsorted(e) == e \in todo

IsNext(e) == e \in todo /\ \A x \in todo \ {e} : LexLess(e, x)

(* The resume test on one entry: does the scan become full here?  Either   *)
(* the entry is the breakpoint, or it sorts after it as a string (and is   *)
(* no directory around it), which is taken to mean that the breakpoint     *)
(* has been deleted.                                                       *)
AroundBreakpoint(e) == e \in Dirs /\ Inside(e, passBp)

(* Mutant: resume only after the breakpoint, never at it. *)
ResumesPastOnly(e) == ~AroundBreakpoint(e) /\ StrLess(passBp, e)

Resumes(e) ==
    \/ e = passBp
    \/ ~AroundBreakpoint(e) /\ StrLess(passBp, e)

(* Mutant: the scan becomes full in the directory around the breakpoint. *)
ScanAtAround(e) == fullScan \/ Resumes(e) \/ AroundBreakpoint(e)

ScanAt(e) == fullScan \/ Resumes(e)

SkipEntry(e) ==
    /\ pc = "walk"
    /\ IsNext(e)
    /\ e \notin Listed \/ (~ScanAt(e) /\ ~AroundBreakpoint(e))
    /\ todo' = todo \ {e}
    /\ UNCHANGED <<pc, at, fullScan, passBp, cancelled, bp, present, faults, changes, history>>

EnterDir(e) ==
    /\ pc = "walk"
    /\ IsNext(e)
    /\ e \in Listed \cap Dirs
    /\ ScanAt(e) \/ AroundBreakpoint(e)
    /\ fullScan' = ScanAt(e)
    /\ todo' = todo \ {e}
    /\ at' = e
    /\ pc' = "list"
    /\ UNCHANGED <<passBp, cancelled, bp, present, faults, changes, history>>

(* The breakpoint is written before the file is processed. *)
BeginFile(e) ==
    /\ pc = "walk"
    /\ IsNext(e)
    /\ e \in Listed \cap Files
    /\ ScanAt(e)
    /\ fullScan' = TRUE
    /\ todo' = todo \ {e}
    /\ bp' = e
    /\ at' = e
    /\ pc' = "upload"
    /\ UNCHANGED <<passBp, cancelled, present, faults, changes, history>>

(* processSingleFile returns.  Success, skip and failure (a line in        *)
(* failed.txt) all let the walk go on.                                     *)
FinishFile ==
    /\ pc = "upload"
    /\ done' = done \cup {at}
    /\ pc' = "walk"
    /\ UNCHANGED <<at, todo, fullScan, passBp, cancelled, bp, present, faults, changes, open, stable>>

WalkReturns ==
    /\ pc = "walk"
    /\ todo = {}
    /\ pc' = "clear"
    /\ UNCHANGED <<at, todo, fullScan, passBp, cancelled, bp, present, faults, changes, history>>

(* Mutant: the breakpoint of a finished scan is kept. *)
ClearBreakpointKept ==
    /\ pc = "clear"
    /\ open' = FALSE
    /\ pc' = AfterPass
    /\ UNCHANGED <<at, todo, fullScan, passBp, cancelled, bp, present, faults, changes, stable, done>>

ClearBreakpoint ==
    /\ pc = "clear"
    /\ bp' = None
    /\ open' = FALSE
    /\ pc' = AfterPass
    /\ UNCHANGED <<at, todo, fullScan, passBp, cancelled, present, faults, changes, stable, done>>
-----------------------------------------------------------------------------
(* SIGINT or SIGTERM during a pass: NotifyContext cancels the ctx, the     *)
(* server shuts down and the process exits some time later.                *)
Signal ==
    /\ pc \in Running
    /\ ~cancelled
    /\ faults < MaxFaults
    /\ faults' = faults + 1
    /\ cancelled' = TRUE
    /\ UNCHANGED <<pc, at, todo, fullScan, passBp, bp, present, changes, history>>

Down ==
    /\ pc' = "down"
    /\ todo' = {}
    /\ UNCHANGED <<at, fullScan, passBp, cancelled, bp, present, changes, history>>

ExitAfterSignal ==
    /\ pc # "down"
    /\ cancelled
    /\ Down
    /\ UNCHANGED faults

Crash ==
    /\ pc # "down"
    /\ faults < MaxFaults
    /\ faults' = faults + 1
    /\ Down

(* The process is started again; Init of the driver starts doSyncLoop. *)
Restart ==
    /\ pc = "down"
    /\ pc' = "sleep"
    /\ cancelled' = FALSE
    /\ UNCHANGED <<at, todo, fullScan, passBp, bp, present, faults, changes, history>>

(* The source side: a file or directory appears, or is deleted with all it *)
(* contains.                                                               *)
Create(p) ==
    /\ p \notin present
    /\ changes < MaxChanges
    /\ changes' = changes + 1
    /\ SubSeq(p, 1, Len(p) - 1) \in present
    /\ present' = present \cup {p}
    /\ UNCHANGED <<memory, bp, faults, history>>

Delete(p) ==
    /\ p \in present \ {Root}
    /\ changes < MaxChanges
    /\ changes' = changes + 1
    /\ present' = {q \in present : q # p /\ ~Inside(p, q)}
    /\ stable' = stable \cap present'
    /\ UNCHANGED <<memory, bp, faults, open, done>>
-----------------------------------------------------------------------------
Walker ==
    \/ StartPass \/ ListDir \/ ListFails \/ WalkReturns \/ ClearBreakpoint \/ FinishFile
    \/ \E e \in todo : SkipEntry(e) \/ EnterDir(e) \/ BeginFile(e)

Outside ==
    \/ Signal \/ ExitAfterSignal \/ Crash \/ Restart
    \/ \E p \in Paths : Create(p) \/ Delete(p)

Next == Walker \/ Outside

Spec == Init /\ [][Next]_vars

(* The goroutine runs, a signalled process exits and a dead one is started *)
(* again; crashes, failed listings and changes on the source are bounded   *)
(* and owe nothing.                                                        *)
Fairness ==
    /\ WF_vars(Walker)
    /\ WF_vars(ExitAfterSignal)
    /\ WF_vars(Restart)

FairSpec == Spec /\ Fairness
-----------------------------------------------------------------------------
(* A file before the persisted breakpoint, in walk order, has been         *)
(* attempted during this sweep if it was there all along: resuming at the  *)
(* breakpoint loses nothing (setBreakpoint before processSingleFile).      *)
BreakpointNeverAhead ==
    \A f \in stable : bp # None /\ LexLess(f, bp) => f \in done

(* When a pass returns without error and its breakpoint is about to be     *)
(* cleared, every file that was there all along has been attempted, by     *)
(* this process or an earlier one.                                         *)
SweepComplete == pc = "clear" => stable \subseteq done

(* The walk only restarts the file of the breakpoint: a file already       *)
(* attempted in this sweep is not processed again after a restart.         *)
RedoOnlyBreakpoint ==
    [][\A f \in done : (pc = "walk" /\ pc' = "upload" /\ at' = f) => f = bp]_vars

(* The breakpoint moves forward in walk order until it is cleared, across  *)
(* crashes, failed listings and changes of the tree.                       *)
BreakpointMovesForward ==
    [][bp' # bp /\ bp # None /\ bp' # None => LexLess(bp, bp')]_vars

Promise == INSTANCE Sweep WITH owed <- stable \ done, settled <- done

(* The walk with its breakpoint, its crashes and its changing tree does    *)
(* what Sweep promises (doSync, fsWalkAndSync).                            *)
SweepPromise == Promise!Spec

(* Every file that stays is attempted, however the passes are cut up: a    *)
(* breakpoint left by one pass is finally cleared by a later one.          *)
EveryFileAttempted ==
    \A f \in Files : []<>(f \in present /\ Wanted(f) => f \in done)

(* "since the list is sorted, a path greater than the breakpoint means the *)
(* breakpoint has been deleted; a smaller one has not been reached yet, go *)
(* on skipping" (sync.go:571-580): what the resume test skips lies before  *)
(* the breakpoint in the order of the walk.                                *)
SkipsOnlyBefore ==
    [][\A e \in todo \cap Listed :
         pc = "walk" /\ pc' = "walk" /\ e \notin todo' => LexLess(e, passBp)]_vars
-----------------------------------------------------------------------------
(* Why the walk keeps its promise: the inductive invariant.                *)

(* A file the frames on the stack will still come to. *)
Pending(f) ==
    \/ pc = "upload" /\ f = at
    \/ pc = "list" /\ IsPrefix(at, f)
    \/ \E e \in todo : IsPrefix(e, f)

StableThere == \A f \in stable : f \in present /\ Wanted(f)

Covered == pc \in {"list", "walk", "upload"} => \A f \in stable : f \in done \/ Pending(f)

(* Until the scan is full the breakpoint is the one the pass started with; *)
(* while a file is processed the breakpoint is that file.                  *)
ResumePoint ==
    /\ pc \in {"list", "walk"} /\ ~fullScan => bp = passBp /\ bp # None
    /\ pc = "upload" => fullScan /\ bp = at

SweepOpen ==
    /\ bp # None => open
    /\ pc \in Running => open
    /\ open /\ bp = None => done = {}

DoneBehind == bp # None => \A f \in done : f = bp \/ LexLess(f, bp)

TodoAhead ==
    fullScan /\ bp # None /\ pc \in {"list", "walk", "upload"} =>
        /\ \A x \in todo : LexLess(bp, x)
        /\ pc = "list" => LexLess(bp, at)

(* All of it together: what every reachable state of the walker satisfies  *)
(* when OrderAgrees.                                                       *)
IInv ==
    /\ TypeOK
    /\ TreeClosed(present)
    /\ StableThere
    /\ BreakpointNeverAhead
    /\ SweepComplete
    /\ Covered
    /\ ResumePoint
    /\ SweepOpen
    /\ DoneBehind
    /\ TodoAhead
=============================================================================
