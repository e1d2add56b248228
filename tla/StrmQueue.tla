------------------------------ MODULE StrmQueue ------------------------------
(***************************************************************************)
(* doSync in strm mode (drivers/aliyun_to_115/sync.go): the lines of       *)
(* strm.txt become rows of strm_tasks in work.db, and the loop takes the   *)
(* first row, works on it and deletes it, whatever became of it.  The row  *)
(* of a file is one call of processSingleFile or of a sibling, which       *)
(* succeeds or fails.  The row of a directory is a walk (fsWalkAndSync,    *)
(* see SyncWalk) that keeps a breakpoint of its own under the text of the  *)
(* line; here its tree is a row of entries.                                *)
(***************************************************************************)
EXTENDS Integers, Sequences

CONSTANTS
    Lines,      \* the tasks strm.txt can name
    Text,       \* its task lines in order, blank lines and comments left out
    Folders,    \* the lines that name a directory
    NEntries,   \* the entries of such a directory, in the order of the walk
    RunOnce,    \* the RunOnce option
    MaxFaults   \* bound on crashes, signals and failed writes

ASSUME StrmAssumption ==
    /\ Text \in Seq(Lines)
    /\ Folders \subseteq Lines
    /\ NEntries \in Nat \ {0}
    /\ RunOnce \in BOOLEAN
    /\ MaxFaults \in Nat

VARIABLES
    pc,          \* "sleep", "load", "pick", "work", "walk", "visit", "log", "delete", "down"
    line,        \* the row in hand
    rows,        \* strm_tasks, by id
    tx,          \* the open transaction: its table, lines inserted, lines missed
    at,          \* the entry the walk of a directory has come to
    mark,        \* sync_state: per line the entry of its breakpoint, or 0
    cancelled,   \* the ctx of the pass is cancelled
    failedTxt,   \* lines appended to failed.txt since the last load
    faults,
    \* history
    batch,       \* the lines of the last load
    synced,      \* lines worked on with success since the last load
    tried,       \* lines worked on under a ctx that was not cancelled
    unlogged,    \* failures that could not be written to failed.txt
    uninserted,  \* lines whose INSERT failed in the last load
    leftover,    \* lines that had a breakpoint already at the last load
    seen,        \* per line the entries processed since the last load
    works        \* how often each line has been worked on since the last load

history == <<batch, synced, tried, unlogged, uninserted, leftover, seen, works>>
vars == <<pc, line, rows, tx, at, mark, cancelled, failedTxt, faults, history>>

Elems(s) == {s[i] : i \in DOMAIN s}
NoTx == [table |-> << >>, at |-> 0, missed |-> {}]
InHand == pc \in {"work", "walk", "visit", "log", "delete"}

(* The types of the variables; no line is in strm_tasks twice.             *)
Unique(s) == \A i, j \in DOMAIN s : s[i] = s[j] => i = j

TypeOK ==
    /\ pc \in {"sleep", "load", "pick", "work", "walk", "visit", "log", "delete", "down"}
    /\ line \in Lines
    /\ rows \in Seq(Lines) /\ Unique(rows)   \* line TEXT NOT NULL UNIQUE
    /\ tx \in [table : Seq(Lines), at : 0..Len(Text), missed : SUBSET Lines]
    /\ at \in 1..(NEntries + 1)
    /\ mark \in [Lines -> 0..NEntries]
    /\ cancelled \in BOOLEAN
    /\ failedTxt \subseteq Lines
    /\ faults \in 0..MaxFaults
    /\ batch \subseteq Lines /\ synced \subseteq Lines /\ tried \subseteq Lines
    /\ unlogged \subseteq Lines /\ uninserted \subseteq Lines /\ leftover \subseteq Lines
    /\ seen \in [Lines -> SUBSET (1..NEntries)]
    /\ works \in [Lines -> Nat]

Init ==
    /\ pc = "sleep"
    /\ line \in Lines
    /\ rows = << >> /\ tx = NoTx
    /\ at = 1 /\ mark = [l \in Lines |-> 0]
    /\ cancelled = FALSE
    /\ failedTxt = {}
    /\ faults = 0
    /\ batch = {} /\ synced = {} /\ tried = {} /\ unlogged = {} /\ uninserted = {}
    /\ leftover = {} /\ seen = [l \in Lines |-> {}] /\ works = [l \in Lines |-> 0]

Fault == faults < MaxFaults /\ faults' = faults + 1
-----------------------------------------------------------------------------
(* SELECT COUNT: an empty table is filled from strm.txt first.  The error  *)
(* of a SELECT that fails is dropped and its count is 0.                   *)
StartPass ==
    /\ pc = "sleep"
    /\ IF rows = << >>
       THEN pc' = "load" /\ UNCHANGED faults
       ELSE \/ pc' = "pick" /\ UNCHANGED faults
            \/ pc' = "load" /\ Fault
    /\ tx' = [table |-> rows, at |-> 0, missed |-> {}]
    /\ cancelled' = FALSE
    /\ UNCHANGED <<line, rows, at, mark, failedTxt, history>>

(* A line that is in the table already is refused by UNIQUE and the error  *)
(* is dropped.                                                             *)
Insert(table, l) == IF l \in Elems(table) THEN table ELSE Append(table, l)

(* The lines are inserted in the order of the file, in one transaction.    *)
InsertLine ==
    /\ pc = "load"
    /\ tx.at < Len(Text)
    /\ tx' = [tx EXCEPT !.table = Insert(@, Text[tx.at + 1]), !.at = @ + 1]
    /\ UNCHANGED <<pc, line, rows, at, mark, cancelled, failedTxt, faults, history>>

(* An INSERT fails, its error is dropped, and the next line follows.       *)
InsertFails ==
    /\ pc = "load"
    /\ tx.at < Len(Text)
    /\ Fault
    /\ tx' = [tx EXCEPT !.missed = @ \cup {Text[tx.at + 1]}, !.at = @ + 1]
    /\ UNCHANGED <<pc, line, rows, at, mark, cancelled, failedTxt, history>>

Commit ==
    /\ pc = "load"
    /\ tx.at = Len(Text)
    /\ rows' = tx.table
    /\ pc' = "pick"
    /\ tx' = NoTx
    /\ batch' = Elems(Text)
    /\ uninserted' = tx.missed
    /\ leftover' = {l \in Lines : mark[l] # 0}
    /\ failedTxt' = {} /\ synced' = {} /\ tried' = {} /\ unlogged' = {}
    /\ seen' = [l \in Lines |-> {}] /\ works' = [l \in Lines |-> 0]
    /\ UNCHANGED <<line, at, mark, cancelled, faults>>

(* The Commit fails and the pass goes on, or strm.txt cannot be read and   *)
(* doSync returns, RunOnce or not.                                         *)
LoadFails ==
    /\ pc = "load"
    /\ Fault
    /\ pc' \in {"pick", "sleep"}
    /\ tx' = NoTx
    /\ UNCHANGED <<line, rows, at, mark, cancelled, failedTxt, history>>

(* Mutant: the row is deleted before the work is done. *)
PickAndDelete ==
    /\ pc = "pick"
    /\ rows # << >>
    /\ line' = Head(rows)
    /\ rows' = Tail(rows)
    /\ pc' = "work"
    /\ UNCHANGED <<tx, at, mark, cancelled, failedTxt, faults, history>>

(* SELECT ... ORDER BY id ASC LIMIT 1: the oldest row. *)
Pick ==
    /\ pc = "pick"
    /\ rows # << >>
    /\ line' = Head(rows)
    /\ pc' = "work"
    /\ UNCHANGED <<rows, tx, at, mark, cancelled, failedTxt, faults, history>>

(* No row is left, or the SELECT fails: with RunOnce the process           *)
(* terminates itself.                                                      *)
PassEnds ==
    /\ pc = "pick"
    /\ IF rows = << >> THEN UNCHANGED faults ELSE Fault
    /\ pc' = IF RunOnce THEN "down" ELSE "sleep"
    /\ UNCHANGED <<line, rows, tx, at, mark, cancelled, failedTxt, history>>

(* works is counted up to one more than any line may reach. *)
Attempted ==
    /\ works' = [works EXCEPT ![line] = IF @ < MaxFaults + 2 THEN @ + 1 ELSE @]
    /\ tried' = IF cancelled THEN tried ELSE tried \cup {line}

(* A file is synchronised. *)
Succeed ==
    /\ pc = "work"
    /\ line \notin Folders
    /\ Attempted
    /\ synced' = synced \cup {line}
    /\ pc' = "delete"
    /\ UNCHANGED <<line, rows, tx, at, mark, cancelled, failedTxt, faults, batch, unlogged,
                   uninserted, leftover, seen>>

(* A file is not, or a directory cannot be resolved and is taken for one.  *)
Fail ==
    /\ pc = "work"
    /\ Attempted
    /\ pc' = "log"
    /\ UNCHANGED <<line, rows, tx, at, mark, cancelled, failedTxt, faults, batch, synced, unlogged,
                   uninserted, leftover, seen>>

(* Mutant: the walk goes on behind the entry of the breakpoint. *)
ResumesBehind(m) == IF m = 0 THEN 1 ELSE m + 1

(* The walk takes up at the entry of the breakpoint. *)
Resumes(m) == IF m = 0 THEN 1 ELSE m

(* The walk of a directory: it begins at the breakpoint of its line; one   *)
(* that cannot be read counts as none.                                     *)
BeginWalk ==
    /\ pc = "work"
    /\ line \in Folders
    /\ Attempted
    /\ \/ at' = Resumes(mark[line]) /\ UNCHANGED faults
       \/ at' = 1 /\ Fault
    /\ pc' = "walk"
    /\ UNCHANGED <<line, rows, tx, mark, cancelled, failedTxt, batch, synced, unlogged, uninserted,
                   leftover, seen>>

(* The breakpoint is set before the entry is processed; a write that fails *)
(* is only printed.                                                        *)
SetBreakpoint ==
    /\ pc = "walk"
    /\ at <= NEntries
    /\ \/ mark' = [mark EXCEPT ![line] = at] /\ UNCHANGED faults
       \/ UNCHANGED mark /\ Fault
    /\ pc' = "visit"
    /\ UNCHANGED <<line, rows, tx, at, cancelled, failedTxt, history>>

(* Whatever becomes of the entry, the walk goes on. *)
Visit ==
    /\ pc = "visit"
    /\ seen' = [seen EXCEPT ![line] = @ \cup {at}]
    /\ at' = at + 1
    /\ pc' = "walk"
    /\ UNCHANGED <<line, rows, tx, mark, cancelled, failedTxt, faults, batch, synced, tried, unlogged,
                   uninserted, leftover, works>>

(* A listing fails and the walk with it; its breakpoint stays. *)
WalkFails ==
    /\ pc = "walk"
    /\ pc' = "log"
    /\ UNCHANGED <<line, rows, tx, at, mark, cancelled, failedTxt, faults, history>>

(* The walk is through: the breakpoint is cleared, or fails to be.         *)
WalkEnds ==
    /\ pc = "walk"
    /\ at > NEntries
    /\ \/ mark' = [mark EXCEPT ![line] = 0] /\ UNCHANGED faults
       \/ UNCHANGED mark /\ Fault
    /\ synced' = synced \cup {line}
    /\ pc' = "delete"
    /\ UNCHANGED <<line, rows, tx, at, cancelled, failedTxt, batch, tried, unlogged, uninserted,
                   leftover, seen, works>>

LogFailure ==
    /\ pc = "log"
    /\ failedTxt' = failedTxt \cup {line}
    /\ pc' = "delete"
    /\ UNCHANGED <<line, rows, tx, at, mark, cancelled, faults, history>>

(* failed.txt cannot be opened: the error is dropped and the row goes. *)
LogFails ==
    /\ pc = "log"
    /\ Fault
    /\ unlogged' = unlogged \cup {line}
    /\ pc' = "delete"
    /\ UNCHANGED <<line, rows, tx, at, mark, cancelled, failedTxt, batch, synced, tried, uninserted,
                   leftover, seen, works>>

(* The table without the row of a line. *)
Without(s, l) ==
    IF l \notin Elems(s) THEN s
    ELSE LET i == CHOOSE k \in DOMAIN s : s[k] = l
         IN  [k \in 1..(Len(s) - 1) |-> IF k < i THEN s[k] ELSE s[k + 1]]

(* Mutant: only the row of a task that succeeded is deleted. *)
DeleteIfSynced ==
    /\ pc = "delete"
    /\ rows' = IF line \in synced THEN Without(rows, line) ELSE rows
    /\ pc' = "pick"
    /\ UNCHANGED <<line, tx, at, mark, cancelled, failedTxt, faults, history>>

(* DELETE ... WHERE id = ? *)
DeleteRow ==
    /\ pc = "delete"
    /\ rows' = Without(rows, line)
    /\ pc' = "pick"
    /\ UNCHANGED <<line, tx, at, mark, cancelled, failedTxt, faults, history>>

(* The error of the DELETE is dropped; the row is picked again. *)
DeleteFails ==
    /\ pc = "delete"
    /\ Fault
    /\ pc' = "pick"
    /\ UNCHANGED <<line, rows, tx, at, mark, cancelled, failedTxt, history>>
-----------------------------------------------------------------------------
(* SIGINT or SIGTERM: the ctx is cancelled, and no step of the loop looks  *)
(* at it; the process exits some time later.                               *)
Signal ==
    /\ pc \notin {"sleep", "down"}
    /\ ~cancelled
    /\ Fault
    /\ cancelled' = TRUE
    /\ UNCHANGED <<pc, line, rows, tx, at, mark, failedTxt, history>>

(* A transaction that is open is rolled back. *)
GoDown ==
    /\ pc # "down"
    /\ pc' = "down"
    /\ tx' = NoTx
    /\ UNCHANGED <<line, rows, at, mark, cancelled, failedTxt, history>>

Exit  == cancelled /\ GoDown /\ UNCHANGED faults
Crash == Fault /\ GoDown

Restart ==
    /\ pc = "down"
    /\ pc' = "sleep"
    /\ cancelled' = FALSE
    /\ UNCHANGED <<line, rows, tx, at, mark, failedTxt, faults, history>>

Loop ==
    \/ StartPass \/ InsertLine \/ InsertFails \/ Commit \/ LoadFails \/ Pick \/ PassEnds
    \/ Succeed \/ Fail \/ BeginWalk \/ SetBreakpoint \/ Visit \/ WalkFails \/ WalkEnds
    \/ LogFailure \/ LogFails \/ DeleteRow \/ DeleteFails

Next == Loop \/ Signal \/ Exit \/ Crash \/ Restart

Spec == Init /\ [][Next]_vars

(* The loop runs and its calls return, a signalled process exits, a dead   *)
(* one is started again.                                                   *)
FairSpec == Spec /\ WF_vars(Loop) /\ WF_vars(Exit) /\ WF_vars(Restart)
-----------------------------------------------------------------------------
(* A line of strm.txt is in the table until it has been synced or its      *)
(* failure is in failed.txt (the write to which may fail, as its INSERT    *)
(* may), across crashes and signals at any point.                          *)
NoTaskLost == batch \subseteq Elems(rows) \cup synced \cup failedTxt \cup unlogged \cup uninserted

(* A line is worked on once after a load of strm.txt, and once more for    *)
(* each crash or failed DELETE: the loop itself repeats nothing.           *)
RepeatsArePaid == \A l \in Lines : works[l] <= 1 + faults

(* A directory whose row counts as synced has had every entry processed    *)
(* since the load, over however many crashes and failed writes of the      *)
(* breakpoint (sync.go:316-330) -- unless its breakpoint was already there *)
(* at the load: a row that fails is deleted and its breakpoint stays, so   *)
(* the next load of the same line walks only the rest.                     *)
FolderWalkedWhole ==
    \A l \in Folders : l \in synced => seen[l] = 1..NEntries \/ l \in leftover

(* Every row finally leaves the table, as long as the faults are bounded:  *)
(* a task that always fails does not hold up the ones behind it.           *)
RowsDrain == \A l \in Lines : l \in Elems(rows) ~> l \notin Elems(rows)

(* "strm tasks are kept in strm_tasks of data/work.db, so that after a     *)
(* crash and a restart the work goes on where it stopped" (README.md:54):  *)
(* a line that has left the table has been tried, under a ctx that was not *)
(* cancelled.                                                              *)
OnlyTriedLeave == batch \subseteq Elems(rows) \cup tried
=============================================================================
