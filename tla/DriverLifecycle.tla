--------------------------- MODULE DriverLifecycle ---------------------------
(***************************************************************************)
(* The life of one AliyunTo115 mount: CreateStorage, EnableStorage,        *)
(* DisableStorage, UpdateStorage and DeleteStorageById (internal/op) call  *)
(* Init and Drop of the driver (drivers/aliyun_to_115/driver.go), Init     *)
(* starts doSyncLoop, and a "sync" request starts doSync by hand.  Nothing *)
(* ever stops a loop, so a mount that is changed while a pass is running   *)
(* leaves the old loop beside the new one.  The names of the specification *)
(* begin with Lifecycle, so that a module can extend others beside it.     *)
(***************************************************************************)
EXTENDS Integers, FiniteSets

CONSTANTS
    Objects,    \* driver objects (*AliyunTo115) the process can make
    Threads,    \* goroutines running doSyncLoop or doSync: bounds both
    NoObject    \* nil

ASSUME LifecycleAssumption == NoObject \notin Objects

VARIABLES
    row,        \* the storage in the database: its Disabled flag
    mounted,    \* the object in storagesMap, or NoObject
    fresh,      \* the objects the process has not made yet
    running,    \* per object: syncRunning
    thread      \* per goroutine: where it is, for which object, if it loops

lifecycleVars == <<row, mounted, fresh, running, thread>>

Unused == [pc |-> "unused", obj |-> NoObject, loops |-> FALSE]

(* The types of the variables; a goroutine in doSync has an object. *)
LifecycleTypeOK ==
    /\ row \in {"none", "enabled", "disabled"}
    /\ mounted \in Objects \cup {NoObject}
    /\ fresh \subseteq Objects
    /\ running \in [Objects -> BOOLEAN]
    /\ thread \in [Threads ->
                    [pc : {"enter", "sync", "sleep"}, obj : Objects, loops : BOOLEAN]
                        \cup {Unused}]

LifecycleInit ==
    /\ row = "none"
    /\ mounted = NoObject
    /\ fresh = Objects
    /\ running = [o \in Objects |-> FALSE]
    /\ thread = [t \in Threads |-> Unused]
-----------------------------------------------------------------------------
(* The go statement: a goroutine that is about to enter doSync of o. *)
Go(o, loops) ==
    \E t \in Threads :
        /\ thread[t] = Unused
        /\ thread' = [thread EXCEPT ![t] = [pc |-> "enter", obj |-> o, loops |-> loops]]

(* initStorage calls Init, which starts the loop as its last step; an      *)
(* object whose Init fails before that is put in storagesMap all the same. *)
InitStorage(o) ==
    /\ mounted' = o
    /\ Go(o, TRUE) \/ UNCHANGED thread
    /\ UNCHANGED running

(* LoadStorage: a new object.  The object that was in the map, if any, is  *)
(* overwritten and not dropped.                                            *)
LoadStorage ==
    /\ row' = "enabled"
    /\ \E o \in fresh : InitStorage(o) /\ fresh' = fresh \ {o}

CreateStorage == row = "none" /\ LoadStorage

EnableStorage == row = "disabled" /\ LoadStorage

(* LoadStorage of the rows that are not disabled, when the process starts. *)
StartUp == row = "enabled" /\ mounted = NoObject /\ LoadStorage

(* Drop, which stops nothing, then the object leaves the map. *)
DisableStorage ==
    /\ row = "enabled"
    /\ mounted # NoObject
    /\ row' = "disabled"
    /\ mounted' = NoObject
    /\ UNCHANGED <<fresh, running, thread>>

(* With Disabled set in the request only the row changes; otherwise Drop   *)
(* and Init on the object that is mounted.  Without one: an error, after   *)
(* the row has been written.                                               *)
UpdateStorage ==
    /\ row # "none"
    /\ \/ row' = "disabled" /\ UNCHANGED <<mounted, running, thread>>
       \/ /\ row' = "enabled"
          /\ IF mounted = NoObject
             THEN UNCHANGED <<mounted, running, thread>>
             ELSE InitStorage(mounted)
    /\ UNCHANGED fresh

(* Of a disabled row only the row goes. *)
DeleteStorage ==
    /\ row = "disabled" \/ (row = "enabled" /\ mounted # NoObject)
    /\ row' = "none"
    /\ mounted' = IF row = "disabled" THEN mounted ELSE NoObject
    /\ UNCHANGED <<fresh, running, thread>>

(* Other("sync") of the mounted object. *)
SyncRequest ==
    /\ mounted # NoObject
    /\ Go(mounted, FALSE)
    /\ UNCHANGED <<row, mounted, fresh, running>>

(* Where doSync returns to: the sleep of doSyncLoop, or nowhere. *)
AfterSync(t) == IF thread[t].loops THEN [thread[t] EXCEPT !.pc = "sleep"] ELSE Unused

(* Mutant: the flag is not looked at. *)
EnterSyncUnchecked(t) ==
    /\ thread[t].pc = "enter"
    /\ running' = [running EXCEPT ![thread[t].obj] = TRUE]
    /\ thread' = [thread EXCEPT ![t].pc = "sync"]
    /\ UNCHANGED <<row, mounted, fresh>>

(* doSync looks at syncRunning and sets it under syncLoopMu. *)
EnterSync(t) ==
    /\ thread[t].pc = "enter"
    /\ IF running[thread[t].obj]
       THEN /\ thread' = [thread EXCEPT ![t] = AfterSync(t)]
            /\ UNCHANGED running
       ELSE /\ thread' = [thread EXCEPT ![t].pc = "sync"]
            /\ running' = [running EXCEPT ![thread[t].obj] = TRUE]
    /\ UNCHANGED <<row, mounted, fresh>>

(* Mutant: a pass that returns early leaves the flag set. *)
LeaveSyncFlagKept(t) ==
    /\ thread[t].pc = "sync"
    /\ running' \in {running, [running EXCEPT ![thread[t].obj] = FALSE]}
    /\ thread' = [thread EXCEPT ![t] = AfterSync(t)]
    /\ UNCHANGED <<row, mounted, fresh>>

(* The deferred reset of syncRunning, whatever doSync returned from. *)
LeaveSync(t) ==
    /\ thread[t].pc = "sync"
    /\ running' = [running EXCEPT ![thread[t].obj] = FALSE]
    /\ thread' = [thread EXCEPT ![t] = AfterSync(t)]
    /\ UNCHANGED <<row, mounted, fresh>>

(* doSyncLoop after the interval. *)
WakeUp(t) ==
    /\ thread[t].pc = "sleep"
    /\ thread' = [thread EXCEPT ![t].pc = "enter"]
    /\ UNCHANGED <<row, mounted, fresh, running>>

(* The process ends, by SIGTERM or at once: only the database is left. *)
ProcessEnds ==
    /\ mounted' = NoObject
    /\ fresh' = Objects
    /\ running' = [o \in Objects |-> FALSE]
    /\ thread' = [t \in Threads |-> Unused]
    /\ UNCHANGED row

Run(t) == EnterSync(t) \/ LeaveSync(t) \/ WakeUp(t)

LifecycleNext ==
    \/ CreateStorage \/ EnableStorage \/ StartUp
    \/ DisableStorage \/ UpdateStorage \/ DeleteStorage
    \/ SyncRequest \/ ProcessEnds
    \/ \E t \in Threads : Run(t)

LifecycleSpec == LifecycleInit /\ [][LifecycleNext]_lifecycleVars

(* Every goroutine runs on, and passes come to an end. *)
LifecycleFairSpec == LifecycleSpec /\ \A t \in Threads : WF_lifecycleVars(Run(t))
-----------------------------------------------------------------------------
Syncing == {t \in Threads : thread[t].pc = "sync"}

(* No two goroutines are in doSync for one driver object, however many     *)
(* loops UpdateStorage has left on it and whoever asks for a pass by hand; *)
(* and the flag is set exactly while one of them is in (doSync, syncLoopMu *)
(* and syncRunning).                                                       *)
OnePassPerObject ==
    /\ \A t, u \in Syncing : thread[t].obj = thread[u].obj => t = u
    /\ \A o \in Objects : running[o] <=> \E t \in Syncing : thread[t].obj = o

(* An object with a loop is synced again and again for as long as the      *)
(* process lives: a refused entry, a pass that returned early or a pass    *)
(* asked for by hand never shuts it out (the deferred reset in doSync).    *)
KeepsSyncing ==
    \A t \in Threads :
        thread[t].loops ~> \/ \E u \in Syncing : thread[u].obj = thread[t].obj
                           \/ thread[t] = Unused

(* "concurrency: only one file is worked on at a time"                     *)
(* (docs/aliyun_115_sync_design.md:12): there are never two passes.        *)
OneAtATime == Cardinality(Syncing) <= 1
=============================================================================
