------------------------------ MODULE FileSync ------------------------------
(***************************************************************************)
(* processSingleFile and its two siblings for http:// and file:// tasks    *)
(* (drivers/aliyun_to_115/sync.go), the streamers they make, and           *)
(* Pan115.Put under them (drivers/115/driver.go, util.go): one source      *)
(* file, the sync cache, three attempts to get it to 115 by its SHA1 or    *)
(* with its bytes, the removal of the copy, and what a failure, a source   *)
(* that answers with other bytes, or a crash at each point leaves on 115.  *)
(***************************************************************************)
EXTENDS Integers, FiniteSets

CONSTANTS
    Kinds,             \* kinds of tasks: "tree", "http", "file"
    DeleteAfterSync,   \* the DeleteAfterSync option
    Tries,             \* 3 attempts
    MaxFaults          \* bound on failed calls, wrong answers and crashes

ASSUME FileSyncAssumption ==
    /\ Kinds \subseteq {"tree", "http", "file"}
    /\ DeleteAfterSync \in BOOLEAN
    /\ Tries \in Nat \ {0}
    /\ MaxFaults \in Nat

VARIABLES
    kind,      \* which of the three functions handles the file
    size,      \* "small": one request; "big": multipart; "huge": above 100 MB
    pc,        \* the next thing the function does
    attempt,   \* number of the attempt, from 1
    result,    \* the copy Put returned, or 0 for nil
    known,     \* the source has told the SHA1 (sha1Str)
    moved,     \* the read position of the streamer has left the start
    astray,    \* the URL of the streamer is not one of the file
    hash,      \* fullHash in Put: of the "whole" file or of a "part" of it
    copies,    \* the copies of the file on 115
    made,      \* copies made so far, the number of the last one
    broken,    \* copies that are not the whole file
    indexed,   \* 115 knows the SHA1 of the whole file
    cached,    \* the key of the file is in aliyun_sync_cache
    faults,
    refused,   \* history: the last Put was refused without an error
    skipped,   \* history: the key has been saved after such a Put
    misled     \* history: the source has answered with bytes that are not asked for

stream == <<known, moved, astray, hash>>
store == <<copies, made, broken, indexed>>
history == <<refused, skipped, misled>>
vars == <<kind, size, pc, attempt, result, stream, store, cached, faults, history>>
task == <<kind, size>>

Phases == {"idle", "source", "cache", "open", "dir", "attempt", "put", "init", "sign", "body",
           "lookup", "remove", "save"}

(* The types of the variables. *)
TypeOK ==
    /\ kind \in Kinds
    /\ size \in {"small", "big", "huge"}
    /\ pc \in Phases
    /\ attempt \in 1..Tries
    /\ result \in Nat
    /\ known \in BOOLEAN
    /\ moved \in BOOLEAN
    /\ astray \in BOOLEAN
    /\ hash \in {"whole", "part"}
    /\ made \in Nat
    /\ copies \subseteq 1..made
    /\ broken \subseteq copies
    /\ indexed \in BOOLEAN
    /\ cached \in BOOLEAN
    /\ faults \in 0..MaxFaults
    /\ refused \in BOOLEAN
    /\ skipped \in BOOLEAN
    /\ misled \in BOOLEAN

Init ==
    /\ kind \in Kinds
    /\ size \in {"small", "big", "huge"}
    /\ pc = "idle"
    /\ attempt = 1
    /\ result = 0
    /\ known = TRUE
    /\ moved = FALSE
    /\ astray = FALSE
    /\ hash = "part"
    /\ copies = {}
    /\ made = 0
    /\ broken = {}
    /\ indexed \in BOOLEAN   \* someone else may have uploaded it before
    /\ cached = FALSE
    /\ faults = 0
    /\ refused = FALSE
    /\ skipped = FALSE
    /\ misled = FALSE

Fault == faults < MaxFaults /\ faults' = faults + 1

(* The function returns to the walk or to the strm loop. *)
Ends == pc' = "idle"

Goes(from, to) ==
    /\ pc = from
    /\ pc' = to
    /\ UNCHANGED <<task, attempt, result, stream, store, cached, faults, history>>
-----------------------------------------------------------------------------
(* The walk, or a row of strm_tasks, comes to this file (again).  The SHA1 *)
(* of a tree file is asked of its driver, which need not know it.          *)
Begin ==
    /\ pc = "idle"
    /\ pc' = "source"
    /\ attempt' = 1
    /\ result' = 0
    /\ known' \in (IF kind = "tree" THEN BOOLEAN ELSE {TRUE})
    /\ moved' = FALSE
    /\ UNCHANGED <<task, astray, hash, store, cached, faults, history>>

(* Mutant: the limit of 100 MB is applied to tree files too. *)
HasSourceLimited == Goes("source", IF size = "huge" THEN "idle" ELSE "cache")

(* The source is found, or downloaded to memory, or hashed; an http file   *)
(* of more than 100 MB is skipped and no key is saved.                     *)
HasSource == Goes("source", IF kind = "http" /\ size = "huge" THEN "idle" ELSE "cache")

(* An http file is in memory, the link or the local file is to be opened. *)
ToSend == IF kind = "http" THEN "dir" ELSE "open"

CheckCache == Goes("cache", IF cached THEN "idle" ELSE ToSend)

(* isSyncedCache says no to every error of its query: a file whose key is  *)
(* in the cache is sent again.                                             *)
CacheUnreadable ==
    /\ pc = "cache"
    /\ cached
    /\ Fault
    /\ pc' = ToSend
    /\ UNCHANGED <<task, attempt, result, stream, store, cached, history>>

(* The link of a tree file is there; a local file is opened again. *)
Opened == Goes("open", "dir")

DirReady == Goes("dir", "attempt")

(* Anything before the first attempt fails: the function returns the error. *)
EarlyFailure ==
    /\ pc \in {"source", "open", "dir"}
    /\ Fault
    /\ Ends
    /\ UNCHANGED <<task, attempt, result, stream, store, cached, history>>
-----------------------------------------------------------------------------
(* The end of an attempt without a result.  After the last one an error is *)
(* returned; without an error the function goes on as after an upload.     *)
NextAttempt(failed) ==
    IF attempt < Tries
    THEN attempt' = attempt + 1 /\ pc' = "attempt"
    ELSE attempt' = attempt /\ pc' = (IF failed THEN "idle" ELSE "save")

(* Mutant: the streamer of a tree file is made once, before the loop. *)
StartAttemptSameStream ==
    /\ pc = "attempt"
    /\ pc' = "put"
    /\ astray' = FALSE
    /\ refused' = FALSE
    /\ UNCHANGED <<task, attempt, result, known, moved, hash, store, cached, faults, skipped, misled>>

(* A tree file gets a new link and a new streamer for each attempt; the    *)
(* other two keep the streamer made before the loop.                       *)
StartAttempt ==
    /\ pc = "attempt"
    /\ pc' = "put"
    /\ moved' = (moved /\ kind # "tree")
    /\ astray' = FALSE
    /\ refused' = FALSE
    /\ UNCHANGED <<task, attempt, result, known, hash, store, cached, faults, skipped, misled>>

(* The share driver has no link and answers with the URL of a picture and  *)
(* without an error.                                                       *)
LinkAstray ==
    /\ pc = "attempt"
    /\ kind = "tree"
    /\ Fault
    /\ pc' = "put"
    /\ moved' = FALSE
    /\ astray' = TRUE
    /\ refused' = FALSE
    /\ misled' = TRUE
    /\ UNCHANGED <<task, attempt, result, known, hash, store, cached, skipped>>

LinkFails ==
    /\ pc = "attempt"
    /\ kind = "tree"
    /\ Fault
    /\ NextAttempt(TRUE)
    /\ UNCHANGED <<task, result, stream, store, cached, history>>

(* Put: everything up to the answer of rapidUpload may fail. *)
PutFails ==
    /\ pc \in {"put", "init", "sign"}
    /\ Fault
    /\ NextAttempt(TRUE)
    /\ UNCHANGED <<task, result, stream, store, cached, history>>

(* UploadAvailable says no and Put returns neither an object nor an error. *)
PutRefused ==
    /\ pc = "put"
    /\ Fault
    /\ NextAttempt(FALSE)
    /\ refused' = TRUE
    /\ UNCHANGED <<task, result, stream, store, cached, skipped, misled>>

(* The hash of the streamer, or one made now.  The CacheFullAndWriter of a *)
(* URL returns while its goroutine still writes to the hash.               *)
HashFull ==
    /\ pc = "put"
    /\ pc' = "init"
    /\ hash' \in (IF known THEN {"whole"} ELSE IF astray THEN {"part"} ELSE {"whole", "part"})
    /\ UNCHANGED <<task, attempt, result, known, moved, astray, store, cached, faults, history>>

(* 115 knows the hash it is sent. *)
Matches == indexed /\ hash = "whole"

(* rapidUpload: before it agrees 115 may ask for the hash of a range, as   *)
(* often as it likes. *)
AskSign == Matches /\ Goes("init", "sign")

(* The range is read from the URL, whatever it answers with. *)
SignWrong ==
    /\ pc = "sign"
    /\ astray
    /\ NextAttempt(TRUE)
    /\ UNCHANGED <<task, result, stream, store, cached, faults, history>>

MakeCopy(whole) ==
    /\ made' = made + 1
    /\ copies' = copies \cup {made + 1}
    /\ broken' = IF whole THEN broken ELSE broken \cup {made + 1}

(* The copy is made without the bytes. *)
Rapid ==
    /\ Matches
    /\ pc = "init" \/ (pc = "sign" /\ ~astray)
    /\ MakeCopy(TRUE)
    /\ pc' = "lookup"
    /\ UNCHANGED <<task, attempt, result, stream, indexed, cached, faults, history>>

NotRapid == ~Matches /\ Goes("init", "body")

(* UploadByOSS reads the streamer from where it stands; UploadByMultipart  *)
(* reads by offset.                                                        *)
Moves == moved' = (moved \/ size = "small") /\ UNCHANGED <<known, astray, hash>>
Whole == ~astray /\ (size = "small" => ~moved)

BodyFails ==
    /\ pc = "body"
    /\ Fault
    /\ Moves
    /\ NextAttempt(TRUE)
    /\ UNCHANGED <<task, result, store, cached, history>>

BodyStored ==
    /\ pc = "body"
    /\ MakeCopy(Whole)
    /\ indexed' = (indexed \/ Whole)
    /\ Moves
    /\ pc' = "lookup"
    /\ UNCHANGED <<task, attempt, result, cached, faults, history>>

(* The source answers a range with less of it or with the whole file, or   *)
(* the plain request with an error page: none is an error for Read and     *)
(* ReadAt, and what came is stored.                                        *)
BodyMisled ==
    /\ pc = "body"
    /\ kind = "tree"
    /\ Fault
    /\ MakeCopy(FALSE)
    /\ Moves
    /\ pc' = "lookup"
    /\ misled' = TRUE
    /\ UNCHANGED <<task, attempt, result, indexed, cached, refused, skipped>>

(* getNewFile, getNewFileByPickCode: the copy is there, its object is not. *)
LookupFails ==
    /\ pc = "lookup"
    /\ Fault
    /\ NextAttempt(TRUE)
    /\ UNCHANGED <<task, result, stream, store, cached, history>>

(* Mutant: the loop does not break after an upload. *)
LookedUpNoBreak ==
    /\ pc = "lookup"
    /\ result' = made
    /\ IF attempt < Tries
       THEN attempt' = attempt + 1 /\ pc' = "attempt"
       ELSE attempt' = attempt /\ pc' = (IF DeleteAfterSync THEN "remove" ELSE "save")
    /\ UNCHANGED <<task, stream, store, cached, faults, history>>

LookedUp ==
    /\ pc = "lookup"
    /\ result' = made
    /\ pc' = IF DeleteAfterSync THEN "remove" ELSE "save"
    /\ UNCHANGED <<task, attempt, stream, store, cached, faults, history>>
-----------------------------------------------------------------------------
Remove ==
    /\ pc = "remove"
    /\ copies' = copies \ {result}
    /\ broken' = broken \ {result}
    /\ pc' = "save"
    /\ UNCHANGED <<task, attempt, result, stream, made, indexed, cached, faults, history>>

(* The error of removeFrom115 is dropped. *)
RemoveFails ==
    /\ pc = "remove"
    /\ Fault
    /\ pc' = "save"
    /\ UNCHANGED <<task, attempt, result, stream, store, cached, history>>

Save ==
    /\ pc = "save"
    /\ cached' = TRUE
    /\ skipped' = (skipped \/ refused)
    /\ Ends
    /\ UNCHANGED <<task, attempt, result, stream, store, faults, refused, misled>>

(* A failed INSERT is printed and the file counts as synced. *)
SaveFails ==
    /\ pc = "save"
    /\ Fault
    /\ Ends
    /\ UNCHANGED <<task, attempt, result, stream, store, cached, history>>

(* The process dies, or a panic is recovered and returned as an error, as  *)
(* the one of Put when rapidUpload has found uploads refused and returned  *)
(* nil; the file is begun again later.                                     *)
Crash ==
    /\ pc # "idle"
    /\ Fault
    /\ Ends
    /\ UNCHANGED <<task, attempt, result, stream, store, cached, history>>

Step ==
    \/ Begin \/ HasSource \/ CheckCache \/ CacheUnreadable \/ Opened \/ DirReady
    \/ EarlyFailure
    \/ StartAttempt \/ LinkFails \/ LinkAstray \/ PutFails \/ PutRefused
    \/ HashFull \/ AskSign \/ SignWrong \/ Rapid \/ NotRapid
    \/ BodyFails \/ BodyStored \/ BodyMisled \/ LookupFails \/ LookedUp
    \/ Remove \/ RemoveFails \/ Save \/ SaveFails

Next == Step \/ Crash

Spec == Init /\ [][Next]_vars

(* Passes are repeated and calls return; how many of them fail is bounded. *)
FairSpec == Spec /\ WF_vars(Step)
-----------------------------------------------------------------------------
(* One copy may be there because the code is dealing with it, or, without  *)
(* DeleteAfterSync, because it is the synced file; once a cached file is   *)
(* sent again the error of the query has to pay for the copy there is.     *)
Kept ==
    IF \/ pc \in {"lookup", "remove"}
       \/ ~DeleteAfterSync /\ (pc = "save" \/ (cached /\ pc \in {"idle", "source", "cache"}))
    THEN 1 ELSE 0

(* Each further copy on 115 has been paid for by a fault of its own (a     *)
(* lookup, a removal or a save that failed, a cache that was not read, a   *)
(* crash): the loop of attempts and the passes over the tree make no       *)
(* duplicates by themselves.                                               *)
CopiesAccounted == Cardinality(copies) <= faults + Kept

(* A key of the tree mode is in the cache only if 115 has the whole file,  *)
(* or if it has been saved after a Put refused without an error, which     *)
(* processSingleFile takes for an upload, or if the source has answered    *)
(* with bytes of something else: no other failure lets a file be skipped   *)
(* for ever that has not been sent.                                        *)
CachedIsIndexed == kind = "tree" /\ cached => indexed \/ skipped \/ misled

(* A hash taken before the content was there, a question of 115 about a    *)
(* range, a body that fails half way and the next attempt after it never   *)
(* damage the copy of a tree file: only a source that answers with other   *)
(* bytes does.  Of the other kinds no first attempt does.                  *)
BrokenHasCause ==
    broken # {} => IF kind = "tree" THEN misled ELSE faults > 0

(* However the faults fall, the file is finally in the cache and stays     *)
(* there, a tree file of any size, an http or a local file of up to 100 MB *)
(* (README.md:72-73).                                                      *)
FinallyCached == <>[](cached \/ (kind # "tree" /\ size = "huge"))

(* A single http or local file is limited to 100 MB (README.md:72-73):     *)
(* no larger one is synchronised.  The code limits http files only.        *)
LimitKept == kind # "tree" /\ size = "huge" => ~cached /\ copies = {}

(* "upload (three attempts)" (sync.go:771): each attempt that sends the    *)
(* file sends it from its first byte.                                      *)
EachAttemptSendsAll == pc = "body" => ~moved \/ size # "small"
=============================================================================
