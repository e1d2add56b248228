----------------------------- MODULE ShareLinks -----------------------------
(***************************************************************************)
(* The aliyundrive_share2open driver                                       *)
(* (drivers/aliyundrive_share2open/driver.go): a file of a share is copied *)
(* to the user's drive, the download URL of the copy is fetched, and the   *)
(* copy is removed again.  Four maps without a lock remember copies, URLs, *)
(* hashes and links; calls of the sync and of the web server share them,   *)
(* and two cron jobs clear them under running calls.                       *)
(***************************************************************************)
EXTENDS Integers, FiniteSets

CONSTANTS
    Files,       \* files of the share whose calls are followed step by step
    Rest,        \* its other files: only that one of them has a link matters here
    Calls,       \* callers of Link, GetHash and Other at the same time
    Copies,      \* ids of copies; one that is gone from everywhere is used again
    Tries,       \* 3 requests for a download URL
    Autoremove,  \* the Autoremove option
    MaxFaults,   \* bound on failed requests, odd answers and crashes
    MaxOthers    \* bound on calls of Other

ASSUME ShareAssumption ==
    /\ IsFiniteSet(Calls)
    /\ Copies \subseteq Nat \ {0}
    /\ Tries \in Nat \ {0}
    /\ Autoremove \in BOOLEAN
    /\ {MaxFaults, MaxOthers} \subseteq Nat

VARIABLES
    drive,    \* the copies in TempTransferFolderID
    memo,     \* the maps: CopyFiles, the keys of DownloadUrl_dict and of FileID_Link
    call,     \* the callers
    faults, others,
    paid,     \* history: copies that may be left, for a fault or a call of Other
    gaveUp    \* history: files whose URL was refused Tries times, the copy being there

vars == <<drive, memo, call, faults, others, paid, gaveUp>>

(* Hash_dict is filled and cleared together with DownloadUrl_dict. *)
Forgotten == [CopyFiles |-> [f \in {} |-> 0], DownloadUrl_dict |-> {}, FileID_Link |-> {}]

Idle == [pc |-> "idle"]

Phases == {"copy", "answer", "lookup", "url", "remove", "save", "preview"}

Busy(p) == call[p].pc # "idle"

Maps == UNION {[D -> Copies] : D \in SUBSET Files}

CallRecords ==
    [pc : Phases, file : Files, other : BOOLEAN, copy : Copies \cup {0},
     again : BOOLEAN, count : 1..Tries, ok : BOOLEAN]

(* The types of the variables; a call that has no copy yet has id 0. *)
TypeOK ==
    /\ drive \subseteq Copies
    /\ memo \in [CopyFiles : Maps, DownloadUrl_dict : SUBSET Copies,
                 FileID_Link : SUBSET (Files \cup Rest)]
    /\ call \in [Calls -> {Idle} \cup CallRecords]
    /\ faults \in 0..MaxFaults
    /\ others \in 0..MaxOthers
    /\ paid \in Nat
    /\ gaveUp \subseteq Files

Init ==
    /\ drive = {}
    /\ memo = Forgotten        \* ensureInit, by the first List
    /\ call = [p \in Calls |-> Idle]
    /\ faults = 0
    /\ others = 0
    /\ paid = 0
    /\ gaveUp = {}

Holds(p) == IF Busy(p) THEN call[p].copy ELSE 0

Remembered == {memo.CopyFiles[f] : f \in DOMAIN memo.CopyFiles}

(* The ids a call can still meet. *)
InUse == drive \cup Remembered \cup {Holds(p) : p \in Calls}

Remember(f, c) == [g \in DOMAIN memo.CopyFiles \cup {f} |->
                      IF g = f THEN c ELSE memo.CopyFiles[g]]

Fault == faults < MaxFaults /\ faults' = faults + 1

Becomes(p, c) == call' = [call EXCEPT ![p] = c]
Ends(p) == Becomes(p, Idle)
-----------------------------------------------------------------------------
(* Link, GetHash (which calls Link) and Other begin.  A link that is known *)
(* ends Link at once; a copy that is known spares making one.              *)
Begin(p, f, other) ==
    LET c == [pc |-> "copy", file |-> f, other |-> other, copy |-> 0,
              again |-> FALSE, count |-> 1, ok |-> FALSE]
        known == f \in DOMAIN memo.CopyFiles
    IN  /\ ~Busy(p)
        /\ IF other THEN others < MaxOthers /\ others' = others + 1 /\ paid' = paid + 1
                    ELSE UNCHANGED <<others, paid>>
        /\ IF ~other /\ f \in memo.FileID_Link THEN UNCHANGED call
           ELSE Becomes(p, IF ~known THEN c
                           ELSE [c EXCEPT !.pc = IF other THEN "preview" ELSE "lookup",
                                          !.copy = memo.CopyFiles[f]])
        /\ UNCHANGED <<drive, memo, faults, gaveUp>>

(* Copy2Myali: the service makes the copy, under an id of its own. *)
MakeCopy(p) ==
    /\ call[p].pc = "copy"
    /\ \E c \in Copies \ InUse :
          /\ \A d \in Copies \ InUse : c <= d
          /\ drive' = drive \cup {c}
          /\ memo' = [memo EXCEPT !.DownloadUrl_dict = @ \cap InUse]
          /\ Becomes(p, [call[p] EXCEPT !.pc = "answer", !.copy = c])
    /\ UNCHANGED <<faults, others, paid, gaveUp>>

(* Its answer arrives and the copy is remembered. *)
CopyMade(p) ==
    /\ call[p].pc = "answer"
    /\ memo' = [memo EXCEPT !.CopyFiles = Remember(call[p].file, call[p].copy)]
    /\ Becomes(p, [call[p] EXCEPT !.pc = IF call[p].other THEN "preview" ELSE "lookup"])
    /\ UNCHANGED <<drive, faults, others, paid, gaveUp>>

(* 1 if the service has made the copy and only the answer is missing. *)
Made(p) == IF call[p].pc = "answer" THEN 1 ELSE 0

(* The request fails, or its answer is lost: Link returns a placeholder    *)
(* and no error.                                                           *)
CopyFails(p) ==
    /\ call[p].pc \in {"copy", "answer"}
    /\ Fault
    /\ paid' = paid + Made(p)
    /\ Ends(p)
    /\ UNCHANGED <<drive, memo, others, gaveUp>>

(* The answer has no id where it should have one: the request is made once *)
(* more.                                                                   *)
NoId(p) ==
    /\ call[p].pc \in {"copy", "answer"}
    /\ Fault
    /\ paid' = paid + Made(p)
    /\ IF call[p].again THEN Ends(p)
       ELSE Becomes(p, [call[p] EXCEPT !.pc = "copy", !.copy = 0, !.again = TRUE])
    /\ UNCHANGED <<drive, memo, others, gaveUp>>

(* The id is found elsewhere in the first answer: it is remembered, and    *)
(* the call is told that there is none.                                    *)
IdElsewhere(p) ==
    /\ call[p].pc = "answer" /\ ~call[p].again
    /\ Fault
    /\ paid' = paid + 1
    /\ memo' = [memo EXCEPT !.CopyFiles = Remember(call[p].file, call[p].copy)]
    /\ Ends(p)
    /\ UNCHANGED <<drive, others, gaveUp>>
-----------------------------------------------------------------------------
(* GetmyLink: a URL that is known is taken. *)
Lookup(p) ==
    /\ call[p].pc = "lookup"
    /\ Becomes(p, IF call[p].copy \in memo.DownloadUrl_dict
                  THEN [call[p] EXCEPT !.pc = "remove", !.ok = TRUE]
                  ELSE [call[p] EXCEPT !.pc = "url"])
    /\ UNCHANGED <<drive, memo, faults, others, paid, gaveUp>>

GetUrl(p) ==
    /\ call[p].pc = "url"
    /\ call[p].copy \in drive
    /\ memo' = [memo EXCEPT !.DownloadUrl_dict = @ \cup {call[p].copy}]
    /\ Becomes(p, [call[p] EXCEPT !.pc = "remove", !.ok = TRUE])
    /\ UNCHANGED <<drive, faults, others, paid, gaveUp>>

(* Mutant: the requests that fail are not counted. *)
NextTryUncounted(c) == c

NextTry(c) == IF c.count < Tries THEN [c EXCEPT !.count = @ + 1] ELSE [c EXCEPT !.pc = "remove"]

(* The request fails; it must when the copy has been removed meanwhile. *)
UrlFails(p) ==
    /\ call[p].pc = "url"
    /\ IF call[p].copy \in drive THEN Fault ELSE UNCHANGED faults
    /\ Becomes(p, NextTry(call[p]))
    /\ gaveUp' = IF call[p].count = Tries /\ call[p].copy \in drive
                 THEN gaveUp \cup {call[p].file} ELSE gaveUp
    /\ UNCHANGED <<drive, memo, others, paid>>

(* Mutant: Link removes the copy that is remembered for its file. *)
RemovedRemembered(p) ==
    IF call[p].file \in DOMAIN memo.CopyFiles THEN memo.CopyFiles[call[p].file] ELSE call[p].copy

Removed(p) == call[p].copy

(* Remove, whose error is dropped, with a URL and without one. *)
RemoveCopy(p) ==
    /\ call[p].pc = "remove"
    /\ \/ drive' = drive \ {Removed(p)} /\ UNCHANGED <<faults, paid>>
       \/ Fault /\ paid' = paid + 1 /\ UNCHANGED drive
    /\ Becomes(p, [call[p] EXCEPT !.pc = "save"])
    /\ UNCHANGED <<memo, others, gaveUp>>

(* Only a link that was found is remembered; without one Link returns the  *)
(* placeholder and no error.                                               *)
Save(p) ==
    /\ call[p].pc = "save"
    /\ memo' = IF call[p].ok
               THEN [memo EXCEPT !.FileID_Link = @ \cup {call[p].file}] ELSE memo
    /\ Ends(p)
    /\ UNCHANGED <<drive, faults, others, paid, gaveUp>>

(* Other asks for a preview of the copy, which stays. *)
Preview(p) ==
    /\ call[p].pc = "preview"
    /\ Ends(p)
    /\ UNCHANGED <<drive, memo, faults, others, paid, gaveUp>>
-----------------------------------------------------------------------------
(* Mutant: the job forgets the map of the copies. *)
ClearedButCopies == [Forgotten EXCEPT !.CopyFiles = memo.CopyFiles]

Cleared == Forgotten

(* A link of another file becomes known. *)
LinkElsewhere ==
    /\ \E f \in Rest : memo' = [memo EXCEPT !.FileID_Link = @ \cup {f}]
    /\ UNCHANGED <<drive, call, faults, others, paid, gaveUp>>

(* cron2, every 13 minutes: unless there is no link. *)
Cron2 ==
    /\ memo.FileID_Link # {}
    /\ memo' = Cleared
    /\ UNCHANGED <<drive, call, faults, others, paid, gaveUp>>

(* cron3, once a day. *)
Cron3 ==
    /\ Autoremove
    /\ memo' = [memo EXCEPT !.CopyFiles = Forgotten.CopyFiles]
    /\ UNCHANGED <<drive, call, faults, others, paid, gaveUp>>

(* The process dies: from outside, or because two goroutines wrote one of  *)
(* the maps at the same time.                                              *)
Crash ==
    /\ Fault
    /\ paid' = paid + Cardinality({p \in Calls : Holds(p) # 0})
    /\ memo' = Forgotten
    /\ call' = [p \in Calls |-> Idle]
    /\ UNCHANGED <<drive, others, gaveUp>>

Advance(p) ==
    \/ MakeCopy(p) \/ CopyMade(p) \/ CopyFails(p) \/ NoId(p) \/ IdElsewhere(p)
    \/ Lookup(p) \/ GetUrl(p) \/ UrlFails(p) \/ RemoveCopy(p) \/ Save(p) \/ Preview(p)

Asks(p) == \E f \in Files, other \in BOOLEAN : Begin(p, f, other)

Next == (\E p \in Calls : Asks(p) \/ Advance(p)) \/ LinkElsewhere \/ Cron2 \/ Cron3 \/ Crash

Spec == Init /\ [][Next]_vars

(* Every call is a goroutine of its own that waits only for requests. *)
FairSpec == Spec /\ \A p \in Calls : WF_vars(Advance(p))

(* Moreover every file is asked for again and again and cron2 ticks. *)
AskingSpec ==
    FairSpec /\ WF_vars(Cron2) /\ \A f \in Files : \A p \in Calls : WF_vars(Begin(p, f, FALSE))
-----------------------------------------------------------------------------
(* Copies that no call works on and no map remembers: nothing will ever    *)
(* remove them. *)
Strays == drive \ (Remembered \cup {Holds(p) : p \in Calls})

(* However calls share copies, overwrite one another's entries and lose    *)
(* them to the cron jobs, each copy that stays on the user's drive for     *)
(* ever is paid for by a fault or by a call of Other: Link cleans up after *)
(* itself. *)
StraysPaid == Cardinality(Strays) <= paid

(* A copy that is remembered but gone, without a link, makes every later   *)
(* Link of the file fail.  Only a URL that the service refused Tries times *)
(* leads there: neither overlapping calls nor the cron jobs do.            *)
QuietLinksWork ==
    (\A p \in Calls : ~Busy(p)) =>
        \A f \in DOMAIN memo.CopyFiles \ gaveUp :
            \/ f \in memo.FileID_Link
            \/ memo.CopyFiles[f] \in drive \cup memo.DownloadUrl_dict

(* Every call returns, also one whose copy another call has removed.       *)
CallsReturn == \A p \in Calls : Busy(p) ~> ~Busy(p)

(* "each attempt fetches the link of the source anew" (sync.go:989): a     *)
(* file that is asked for again and again gets a link again and again.     *)
LinkRecovers == \A f \in Files : []<>(f \in memo.FileID_Link)
=============================================================================
