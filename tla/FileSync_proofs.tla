--------------------------- MODULE FileSync_proofs ---------------------------
(***************************************************************************)
(* Proofs about FileSync: the copies on 115 are accounted for, and a key   *)
(* in the cache stands for a file that 115 has.                            *)
(***************************************************************************)
EXTENDS FileSync, FiniteSetTheorems, TLAPS

(* What an attempt that fails does to the phase and the counter. *)
LEMMA NextAttemptEffect ==
    ASSUME attempt \in 1..Tries
    PROVE  /\ NextAttempt(TRUE) => attempt' \in 1..Tries /\ pc' \in {"attempt", "idle"}
           /\ NextAttempt(FALSE) => attempt' \in 1..Tries /\ pc' \in {"attempt", "save"}
BY FileSyncAssumption DEF NextAttempt

(* TypeOK in two parts, for the truth values and for the rest. *)
Flags ==
    /\ known \in BOOLEAN
    /\ moved \in BOOLEAN
    /\ astray \in BOOLEAN
    /\ indexed \in BOOLEAN
    /\ cached \in BOOLEAN
    /\ refused \in BOOLEAN
    /\ skipped \in BOOLEAN
    /\ misled \in BOOLEAN

Others ==
    /\ kind \in Kinds
    /\ size \in {"small", "big", "huge"}
    /\ pc \in Phases
    /\ attempt \in 1..Tries
    /\ result \in Nat
    /\ hash \in {"whole", "part"}
    /\ made \in Nat
    /\ copies \subseteq 1..made
    /\ broken \subseteq copies
    /\ faults \in 0..MaxFaults

(* The type invariant, split so that each half is small enough for the prover. *)
LEMMA TypeParts == TypeOK <=> Flags /\ Others
BY DEF TypeOK, Flags, Others

(* Each step keeps the types of the booleans. *)
LEMMA FlagsStep == Flags /\ [Next]_vars => Flags'
<1> SUFFICES ASSUME Flags, [Next]_vars PROVE Flags'
  OBVIOUS
<1> USE DEF Flags, task, stream, store, history, Goes
<1>1. CASE Begin \/ HasSource \/ CheckCache \/ Opened \/ DirReady \/ EarlyFailure \/ NotRapid
  BY <1>1, Zenon DEF Begin, HasSource, CheckCache, Opened, DirReady, EarlyFailure, NotRapid
<1>2. CASE StartAttempt \/ LinkFails \/ LinkAstray \/ PutFails \/ LookupFails \/ PutRefused \/ LookedUp
  BY <1>2, Zenon DEF StartAttempt, LinkFails, LinkAstray, PutFails, LookupFails, PutRefused, LookedUp
<1>3. CASE HashFull \/ AskSign \/ SignWrong \/ Rapid
  BY <1>3, Zenon DEF HashFull, AskSign, SignWrong, Rapid
<1>4. CASE BodyFails \/ BodyStored \/ BodyMisled
  BY <1>4, Zenon DEF BodyFails, BodyStored, BodyMisled, Moves, Whole
<1>5. CASE Remove \/ RemoveFails \/ Save \/ SaveFails \/ Crash
  BY <1>5, Zenon DEF Remove, RemoveFails, Save, SaveFails, Crash
<1>7. CASE CacheUnreadable
  BY <1>7, Zenon DEF CacheUnreadable
<1>6. CASE UNCHANGED vars
  BY <1>6, Zenon DEF vars
<1> QED
  BY <1>1, <1>2, <1>3, <1>4, <1>5, <1>6, <1>7 DEF Next, Step

(* Each step keeps the types of the other variables. *)
LEMMA OthersStep == Others /\ [Next]_vars => Others'
<1> SUFFICES ASSUME Others, [Next]_vars PROVE Others'
  OBVIOUS
<1> USE FileSyncAssumption DEF Others, task, stream, store, history, Phases, Fault, Ends, Goes
<1>1. CASE Begin \/ StartAttempt \/ HashFull
  <2>1. /\ UNCHANGED <<kind, size, made, copies, broken, faults>>
        /\ attempt' \in {1, attempt} /\ result' \in {0, result}
    BY <1>1, Zenon DEF Begin, StartAttempt, HashFull
  <2>2. pc' \in {"source", "put", "init"} /\ hash' \in {hash, "whole", "part"}
    BY <1>1 DEF Begin, StartAttempt, HashFull
  <2> QED
    BY <2>1, <2>2
<1>2. CASE HasSource \/ CheckCache \/ Opened \/ DirReady \/ AskSign \/ NotRapid
  BY <1>2 DEF HasSource, CheckCache, ToSend, Opened, DirReady, AskSign, NotRapid
<1>3. CASE EarlyFailure \/ CacheUnreadable \/ LinkAstray \/ RemoveFails \/ SaveFails \/ Crash
  <2>1. UNCHANGED <<kind, size, attempt, result, hash, made, copies, broken>>
    BY <1>3, Zenon DEF EarlyFailure, CacheUnreadable, LinkAstray, RemoveFails, SaveFails, Crash
  <2>2. pc' \in {"idle", "open", "dir", "put", "save"} /\ faults < MaxFaults /\ faults' = faults + 1
    BY <1>3 DEF EarlyFailure, CacheUnreadable, ToSend, LinkAstray, RemoveFails, SaveFails, Crash
  <2> QED
    BY <2>1, <2>2
<1>4. CASE LinkFails \/ PutFails \/ LookupFails \/ PutRefused \/ SignWrong \/ BodyFails
  <2>1. attempt' \in 1..Tries /\ pc' \in Phases
    BY <1>4, NextAttemptEffect
       DEF LinkFails, PutFails, LookupFails, PutRefused, SignWrong, BodyFails
  <2>2. faults' = faults \/ (faults < MaxFaults /\ faults' = faults + 1)
    BY <1>4 DEF LinkFails, PutFails, LookupFails, PutRefused, SignWrong, BodyFails
  <2>3. UNCHANGED <<kind, size, result, hash, made, copies, broken>>
    BY <1>4, Zenon DEF LinkFails, PutFails, LookupFails, PutRefused, SignWrong, BodyFails, Moves
  <2> QED
    BY <2>1, <2>2, <2>3
<1>5. CASE Rapid \/ BodyStored \/ BodyMisled
  <2>1. UNCHANGED <<kind, size, attempt, result, hash>> /\ pc' = "lookup"
    BY <1>5, Zenon DEF Rapid, BodyStored, BodyMisled, Moves
  <2>2. \E w \in BOOLEAN : MakeCopy(w)
    BY <1>5 DEF Rapid, BodyStored, BodyMisled, Whole
  <2>3. faults' = faults \/ (faults < MaxFaults /\ faults' = faults + 1)
    BY <1>5 DEF Rapid, BodyStored, BodyMisled
  <2>4. made' \in Nat /\ copies' \subseteq 1..made' /\ broken' \subseteq copies'
    BY <2>2 DEF MakeCopy
  <2> QED
    BY <2>1, <2>3, <2>4
<1>6. CASE LookedUp \/ Remove \/ Save
  BY <1>6 DEF LookedUp, Remove, Save
<1>7. CASE UNCHANGED vars
  BY <1>7 DEF vars
<1> QED
  BY <1>1, <1>2, <1>3, <1>4, <1>5, <1>6, <1>7 DEF Next, Step

(* Each step keeps the type invariant. *)
LEMMA TypeStep == TypeOK /\ [Next]_vars => TypeOK'
<1>1. TypeOK' <=> Flags' /\ Others'
  BY DEF TypeOK, Flags, Others
<1> QED
  BY <1>1, TypeParts, FlagsStep, OthersStep

(* The type invariant holds before the first step. *)
LEMMA TypeInit == Init => TypeOK
<1> SUFFICES ASSUME Init PROVE TypeOK
  OBVIOUS
<1>1. Flags
  BY Zenon DEF Init, Flags
<1>2. Others
  BY FileSyncAssumption DEF Init, Others, Phases
<1> QED
  BY <1>1, <1>2, TypeParts

(* FileSync keeps its types: the attempts stay within their number and the *)
(* copies on 115 are among those made, for all values of the constants.    *)
THEOREM TypeCorrect == Spec => []TypeOK
BY TypeInit, TypeStep, PTL DEF Spec
-----------------------------------------------------------------------------
(* The copy at hand exists: the one just made while its object is looked   *)
(* up, the one to remove before it is removed.                             *)
CopyAtHand ==
    /\ pc = "lookup" => made \in copies
    /\ pc = "remove" => result \in copies /\ DeleteAfterSync

AccountInv == TypeOK /\ CopyAtHand /\ CopiesAccounted

(* There are finitely many copies at 115, so they can be counted. *)
LEMMA CopiesFinite == TypeOK => IsFiniteSet(copies) /\ Cardinality(copies) \in Nat
<1> SUFFICES ASSUME TypeOK PROVE IsFiniteSet(copies) /\ Cardinality(copies) \in Nat
  OBVIOUS
<1>1. IsFiniteSet(1..made)
  BY FS_Interval DEF TypeOK
<1>2. IsFiniteSet(copies)
  BY <1>1, FS_Subset DEF TypeOK
<1> QED
  BY <1>2, FS_CardinalityType

(* The arithmetic of a step that makes no copy: what was paid for stays paid for. *)
LEMMA Enough ==
    ASSUME NEW c \in Nat, NEW f \in Nat, NEW g \in Nat, NEW k \in {0, 1}, NEW l \in {0, 1}
    PROVE  /\ c <= f + k /\ f + k <= g + l => c <= g + l
           /\ g = f + 1 \/ (g = f /\ k = 0) => f + k <= g + l
OBVIOUS

(* A step that makes no copy: enough that the faults and the copy kept     *)
(* still pay for those there were.                                         *)
LEMMA SameCopies ==
    ASSUME AccountInv, copies' = copies, faults' \in Nat, faults + Kept <= faults' + Kept'
    PROVE  CopiesAccounted'
<1>1. Cardinality(copies) \in Nat /\ faults \in Nat
  BY CopiesFinite DEF AccountInv, TypeOK
<1>2. Kept \in {0, 1} /\ Kept' \in {0, 1}
  BY DEF Kept
<1>3. Cardinality(copies) <= faults + Kept
  BY DEF AccountInv, CopiesAccounted
<1>4. Cardinality(copies') = Cardinality(copies)
  BY Zenon
<1>5. Cardinality(copies') <= faults' + Kept'
  BY <1>1, <1>2, <1>3, <1>4, Enough
<1> QED
  BY <1>5 DEF CopiesAccounted

(* A new copy is the one kept, or paid by nothing else yet. *)
LEMMA OneMoreCopy ==
    ASSUME AccountInv, NEW w \in BOOLEAN, MakeCopy(w), Kept = 0, Kept' = 1,
           faults' \in {faults, faults + 1}
    PROVE  CopiesAccounted'
<1>1. IsFiniteSet(copies) /\ Cardinality(copies) \in Nat
  BY CopiesFinite DEF AccountInv
<1>2. made + 1 \notin copies
  BY DEF AccountInv, TypeOK
<1>3. Cardinality(copies') = Cardinality(copies) + 1
  BY <1>1, <1>2, FS_AddElement DEF MakeCopy
<1> QED
  BY <1>1, <1>3 DEF AccountInv, TypeOK, CopiesAccounted

(* Removing the copy after it has been synchronised keeps the account. *)
LEMMA OneCopyLess ==
    ASSUME AccountInv, Remove, Kept' \in {0, 1}
    PROVE  CopiesAccounted'
<1>1. IsFiniteSet(copies) /\ Cardinality(copies) \in Nat
  BY CopiesFinite DEF AccountInv
<1>2. result \in copies /\ Kept = 1
  BY DEF AccountInv, CopyAtHand, Remove, Kept
<1>3. Cardinality(copies') = Cardinality(copies) - 1
  BY <1>1, <1>2, FS_RemoveElement DEF Remove
<1>4. faults' = faults /\ faults \in Nat
  BY DEF Remove, AccountInv, TypeOK
<1> QED
  BY <1>1, <1>2, <1>3, <1>4 DEF AccountInv, CopiesAccounted

(* Each step keeps the account of copies and faults. *)
LEMMA AccountStep == AccountInv /\ [Next]_vars => AccountInv'
<1> SUFFICES ASSUME AccountInv, [Next]_vars PROVE AccountInv'
  OBVIOUS
<1>t. TypeOK /\ TypeOK'
  BY TypeStep DEF AccountInv
<1>f. faults \in Nat /\ faults' \in Nat
  BY <1>t DEF TypeOK
<1>k. Kept \in {0, 1} /\ Kept' \in {0, 1}
  BY DEF Kept
<1> USE FileSyncAssumption DEF task, stream, store, history, Fault, Ends, Goes
<1>1. CASE Begin \/ HasSource \/ CheckCache \/ Opened \/ DirReady
  <2>u. UNCHANGED <<copies, made, result, cached, faults>> \/ (pc = "idle" /\ UNCHANGED <<copies, made, cached, faults>>)
    BY <1>1, Zenon DEF Begin, HasSource, CheckCache, Opened, DirReady
  <2>p. /\ pc \notin {"lookup", "remove", "save"}
        /\ pc' \notin {"lookup", "remove", "save"}
        /\ \/ pc \in {"idle", "source", "cache"} /\ pc' \in {"idle", "source", "cache"}
           \/ pc \in {"open", "dir"} /\ pc' \in {"dir", "attempt"}
           \/ ~cached
    BY <1>1 DEF Begin, HasSource, CheckCache, ToSend, Opened, DirReady
  <2>1. CopyAtHand'
    BY <2>u, <2>p DEF AccountInv, CopyAtHand
  <2>2. copies' = copies /\ faults' = faults /\ Kept' = Kept
    BY <2>u, <2>p DEF Kept
  <2> QED
    BY <2>1, <2>2, <1>t, <1>f, <1>k, SameCopies DEF AccountInv
<1>2. CASE StartAttempt \/ HashFull \/ AskSign \/ NotRapid
  <2>1. CopyAtHand'
    BY <1>2 DEF AccountInv, CopyAtHand, StartAttempt, HashFull, AskSign, NotRapid
  <2>2. copies' = copies /\ faults' = faults /\ Kept' = Kept
    BY <1>2 DEF Kept, StartAttempt, HashFull, AskSign, NotRapid
  <2> QED
    BY <2>1, <2>2, <1>t, <1>f, <1>k, SameCopies DEF AccountInv
<1>3. CASE EarlyFailure \/ CacheUnreadable \/ LinkAstray \/ Crash \/ SaveFails \/ RemoveFails
  <2>1. CopyAtHand'
    BY <1>3 DEF AccountInv, CopyAtHand, EarlyFailure, CacheUnreadable, ToSend, LinkAstray, Crash,
                SaveFails, RemoveFails
  <2>2. copies' = copies /\ faults' = faults + 1
    BY <1>3 DEF EarlyFailure, CacheUnreadable, LinkAstray, Crash, SaveFails, RemoveFails
  <2>3. faults + Kept <= faults' + Kept'
    BY <2>2, <1>f, <1>k, Enough
  <2> QED
    BY <2>1, <2>2, <2>3, <1>t, <1>f, SameCopies DEF AccountInv
<1>4. CASE LinkFails \/ PutFails \/ PutRefused \/ SignWrong \/ BodyFails \/ LookupFails
  <2>1. pc' \in {"attempt", "idle", "save"}
    <3>1. attempt \in 1..Tries /\ (NextAttempt(TRUE) \/ NextAttempt(FALSE))
      BY <1>4, <1>t, Zenon DEF LinkFails, PutFails, PutRefused, SignWrong, BodyFails, LookupFails, TypeOK
    <3> QED
      BY <3>1, NextAttemptEffect
  <2>2. copies' = copies
    BY <1>4 DEF LinkFails, PutFails, PutRefused, SignWrong, BodyFails, LookupFails, Moves
  <2>4. CopyAtHand'
    BY <2>1 DEF CopyAtHand
  <2>5. faults' = faults + 1 \/ (faults' = faults /\ Kept = 0)
    BY <1>4 DEF Kept, LinkFails, PutFails, PutRefused, SignWrong, BodyFails, LookupFails
  <2>6. faults + Kept <= faults' + Kept'
    BY <2>5, <1>f, <1>k, Enough
  <2> QED
    BY <2>2, <2>4, <2>6, <1>t, <1>f, SameCopies DEF AccountInv
<1>5. CASE Rapid \/ BodyStored \/ BodyMisled
  <2>1. pc' = "lookup" /\ pc \in {"init", "sign", "body"}
    BY <1>5 DEF Rapid, BodyStored, BodyMisled
  <2>m. PICK w \in BOOLEAN : MakeCopy(w)
    BY <1>5 DEF Rapid, BodyStored, BodyMisled, Whole
  <2>f. faults' \in {faults, faults + 1}
    BY <1>5 DEF Rapid, BodyStored, BodyMisled
  <2>3. CopyAtHand'
    BY <2>1, <2>m DEF CopyAtHand, MakeCopy
  <2>4. Kept = 0 /\ Kept' = 1
    BY <2>1 DEF Kept
  <2> QED
    BY <2>m, <2>f, <2>3, <2>4, <1>t, OneMoreCopy DEF AccountInv
<1>6. CASE LookedUp
  <2>1. CopyAtHand'
    BY <1>6 DEF AccountInv, CopyAtHand, LookedUp
  <2>2. copies' = copies /\ faults' = faults /\ Kept' = Kept
    BY <1>6 DEF Kept, LookedUp
  <2> QED
    BY <2>1, <2>2, <1>t, <1>f, <1>k, SameCopies DEF AccountInv
<1>7. CASE Remove
  <2>1. CopyAtHand'
    BY <1>7 DEF AccountInv, CopyAtHand, Remove
  <2> QED
    BY <2>1, <1>7, <1>t, <1>k, OneCopyLess DEF AccountInv
<1>8. CASE Save
  <2>1. CopyAtHand'
    BY <1>8 DEF AccountInv, CopyAtHand, Save
  <2>2. copies' = copies /\ faults' = faults /\ Kept' = Kept
    BY <1>8 DEF Kept, Save
  <2> QED
    BY <2>1, <2>2, <1>t, <1>f, <1>k, SameCopies DEF AccountInv
<1>9. CASE UNCHANGED vars
  <2>1. CopyAtHand'
    BY <1>9 DEF AccountInv, CopyAtHand, vars
  <2>2. copies' = copies /\ faults' = faults /\ Kept' = Kept
    BY <1>9 DEF Kept, vars
  <2> QED
    BY <2>1, <2>2, <1>t, <1>f, <1>k, SameCopies DEF AccountInv
<1> QED
  BY <1>1, <1>2, <1>3, <1>4, <1>5, <1>6, <1>7, <1>8, <1>9 DEF Next, Step

(* For every number of attempts and faults, every kind of task and either  *)
(* setting of DeleteAfterSync, each copy left on 115 beyond the one at     *)
(* hand has a fault of its own (CopiesAccounted).                          *)
THEOREM NoUnpaidDuplicate == Spec => []CopiesAccounted
<1>1. Init => AccountInv
  <2> SUFFICES ASSUME Init PROVE AccountInv
    OBVIOUS
  <2>1. TypeOK /\ CopyAtHand
    BY TypeInit, Zenon DEF Init, CopyAtHand
  <2>2. Cardinality(copies) = 0
    BY FS_EmptySet DEF Init
  <2>3. Kept \in {0, 1} /\ faults = 0
    BY DEF Kept, Init
  <2> QED
    BY <2>1, <2>2, <2>3 DEF AccountInv, CopiesAccounted
<1>2. AccountInv => CopiesAccounted
  BY DEF AccountInv
<1> QED
  BY <1>1, <1>2, AccountStep, PTL DEF Spec
-----------------------------------------------------------------------------
(* In the tree mode the streamer an attempt reads is at its start, it is   *)
(* one of the file unless the source has misled; whoever is past the       *)
(* upload has left 115 knowing the file, or has been refused or misled;    *)
(* and so has the key in the cache.                                        *)
Reading == {"put", "init", "sign", "body"}

IndexInv ==
    kind = "tree" =>
        /\ pc \in Reading => ~moved /\ (astray => misled)
        /\ pc \in {"lookup", "remove"} => indexed \/ misled
        /\ pc = "save" => indexed \/ refused \/ misled
        /\ cached => indexed \/ skipped \/ misled

(* No step changes the task. *)
LEMMA SameTask == [Next]_vars => UNCHANGED task
BY Zenon DEF Next, Step, vars, task, Goes, Begin, HasSource, CheckCache, CacheUnreadable, Opened, DirReady, EarlyFailure,
     StartAttempt, LinkFails, LinkAstray, PutFails, PutRefused, HashFull, AskSign, SignWrong,
     Rapid, NotRapid, BodyFails, BodyStored, BodyMisled,
     LookupFails, LookedUp, Remove, RemoveFails, Save, SaveFails, Crash

(* Each step keeps that an uploaded tree file is one that 115 has indexed. *)
LEMMA IndexStep == TypeOK /\ IndexInv /\ [Next]_vars => IndexInv'
<1> SUFFICES ASSUME TypeOK, IndexInv, [Next]_vars, kind' = "tree"
             PROVE  /\ pc' \in Reading => ~moved' /\ (astray' => misled')
                    /\ pc' \in {"lookup", "remove"} => indexed' \/ misled'
                    /\ pc' = "save" => indexed' \/ refused' \/ misled'
                    /\ cached' => indexed' \/ skipped' \/ misled'
  BY DEF IndexInv
<1>k. kind = "tree"
  BY SameTask DEF task
<1> USE DEF task, stream, store, history, Fault, Ends, Goes, Reading
<1>i. /\ pc \in Reading => ~moved /\ (astray => misled)
      /\ pc \in {"lookup", "remove"} => indexed \/ misled
      /\ pc = "save" => indexed \/ refused \/ misled
      /\ cached => indexed \/ skipped \/ misled
  BY <1>k DEF IndexInv
<1>1. CASE Begin \/ HasSource \/ CheckCache \/ CacheUnreadable \/ Opened \/ DirReady
  <2>1. UNCHANGED <<indexed, cached, refused, skipped, misled>>
    BY <1>1, Zenon DEF Begin, HasSource, CheckCache, CacheUnreadable, Opened, DirReady
  <2>2. pc' \in {"source", "idle", "cache", "dir", "open", "attempt"}
    BY <1>1 DEF Begin, HasSource, CheckCache, CacheUnreadable, ToSend, Opened, DirReady
  <2> QED
    BY <1>i, <2>1, <2>2
<1>2. CASE NotRapid \/ AskSign \/ HashFull
  BY <1>2, <1>i DEF NotRapid, AskSign, HashFull
<1>3. CASE StartAttempt \/ LinkAstray
  <2>1. pc' = "put" /\ ~moved' /\ (astray' => misled')
    BY <1>3, <1>k, Zenon DEF StartAttempt, LinkAstray
  <2>2. UNCHANGED <<indexed, cached, skipped>> /\ misled' \in {misled, TRUE}
    BY <1>3 DEF StartAttempt, LinkAstray
  <2> QED
    BY <1>i, <2>1, <2>2
<1>4. CASE EarlyFailure \/ Crash \/ SaveFails \/ RemoveFails \/ Remove
  BY <1>4, <1>i DEF EarlyFailure, Crash, SaveFails, RemoveFails, Remove
<1>0. CASE Save
  <2>1. UNCHANGED <<indexed, misled>> /\ pc' = "idle" /\ (skipped' <=> skipped \/ refused) /\ pc = "save"
    BY <1>0, Zenon DEF Save
  <2> QED
    BY <1>i, <2>1
<1>5. CASE LinkFails \/ PutFails \/ SignWrong \/ BodyFails \/ LookupFails
  <2>1. NextAttempt(TRUE) /\ attempt \in 1..Tries
    BY <1>5, Zenon DEF LinkFails, PutFails, SignWrong, BodyFails, LookupFails, TypeOK
  <2>2. pc' \in {"attempt", "idle"}
    BY <2>1, NextAttemptEffect, Zenon
  <2>3. UNCHANGED <<indexed, cached, refused, skipped, misled>>
    BY <1>5 DEF LinkFails, PutFails, SignWrong, BodyFails, LookupFails
  <2> QED
    BY <1>i, <2>2, <2>3
<1>6. CASE PutRefused
  <2>1. NextAttempt(FALSE) /\ attempt \in 1..Tries /\ refused'
    BY <1>6, Zenon DEF PutRefused, TypeOK
  <2>2. pc' \in {"attempt", "save"}
    BY <2>1, NextAttemptEffect, Zenon
  <2>3. UNCHANGED <<indexed, cached, skipped, misled>>
    BY <1>6, Zenon DEF PutRefused
  <2> QED
    BY <1>i, <2>1, <2>2, <2>3
<1>7. CASE Rapid \/ BodyStored \/ BodyMisled
  <2>1. pc' = "lookup" /\ (indexed' \/ misled')
    BY <1>7, <1>i DEF Rapid, Matches, BodyStored, BodyMisled, Whole
  <2> QED
    BY <2>1
<1>8. CASE LookedUp
  BY <1>8, <1>i DEF LookedUp
<1>9. CASE UNCHANGED vars
  BY <1>9, <1>i DEF vars
<1> QED
  BY <1>0, <1>1, <1>2, <1>3, <1>4, <1>5, <1>6, <1>7, <1>8, <1>9 DEF Next, Step

(* Nothing has been uploaded before the first step. *)
LEMMA IndexInit == Init => IndexInv
BY Zenon DEF Init, IndexInv, Reading

(* A key of the tree mode is in the cache only when 115 has the whole      *)
(* file, had refused it without an error when the key was saved, or was    *)
(* given something else by the source (CachedIsIndexed), for every number  *)
(* of attempts and faults, a cache that cannot be read among them.         *)
THEOREM NothingSkippedUnsent == Spec => []CachedIsIndexed
<1>1. IndexInv => CachedIsIndexed
  BY DEF IndexInv, CachedIsIndexed
<1> QED
  BY <1>1, IndexInit, TypeInit, TypeStep, IndexStep, PTL DEF Spec
-----------------------------------------------------------------------------
(* Of the other kinds the streamer has moved before an attempt only if an  *)
(* earlier one failed, and it is always one of the file.                   *)
StreamInv ==
    kind # "tree" =>
        /\ pc \in Reading \cup {"attempt"} /\ moved => faults > 0
        /\ ~astray
        /\ pc \in {"open", "dir", "source", "cache"} => ~moved

BrokenInv == StreamInv /\ BrokenHasCause

(* Each step keeps that only a misleading source leaves a damaged copy. *)
LEMMA BrokenStep == TypeOK /\ IndexInv /\ BrokenInv /\ [Next]_vars => BrokenInv'
<1> SUFFICES ASSUME TypeOK, IndexInv, BrokenInv, [Next]_vars PROVE BrokenInv'
  OBVIOUS
<1>k. kind' = kind /\ size' = size
  BY SameTask DEF task
<1>f. faults \in Nat
  BY DEF TypeOK
<1> USE DEF BrokenInv, StreamInv, BrokenHasCause, task, stream, store, history, Ends, Goes, Reading
<1>1. CASE Begin \/ HasSource \/ CheckCache \/ Opened \/ DirReady
  <2>1. UNCHANGED <<broken, misled, faults, astray>>
    BY <1>1, Zenon DEF Begin, HasSource, CheckCache, Opened, DirReady
  <2>2. \/ pc' = "source" /\ ~moved'
        \/ pc \in {"source", "cache", "open", "dir"} /\ moved' = moved
    BY <1>1, Zenon DEF Begin, HasSource, CheckCache, Opened, DirReady
  <2>3. kind # "tree" => ~moved'
    BY <2>2, Zenon
  <2>4. StreamInv'
    BY <2>1, <2>3, <1>k
  <2>5. BrokenHasCause'
    BY <2>1, <1>k
  <2> QED
    BY <2>4, <2>5
<1>2. CASE HashFull \/ AskSign \/ NotRapid \/ StartAttempt
  <2>0. /\ UNCHANGED <<broken, misled, faults>>
        /\ moved' = moved \/ moved' = (moved /\ kind # "tree")
        /\ astray' = astray \/ astray' = FALSE
    BY <1>2, Zenon DEF HashFull, AskSign, NotRapid, StartAttempt
  <2>m. moved' => moved
    BY <2>0, Zenon
  <2>a. astray' => astray
    BY <2>0, Zenon
  <2>1. UNCHANGED <<broken, misled, faults>>
    BY <2>0
  <2>2. pc \in Reading \cup {"attempt"} /\ pc' \in Reading
    BY <1>2 DEF HashFull, AskSign, NotRapid, StartAttempt
  <2>3. StreamInv'
    BY <2>1, <2>2, <2>m, <2>a, <1>k
  <2>4. BrokenHasCause'
    BY <2>1, <1>k
  <2> QED
    BY <2>3, <2>4
<1>3. CASE EarlyFailure \/ CacheUnreadable \/ Crash \/ SaveFails \/ RemoveFails \/ LinkAstray
  BY <1>3, <1>k, <1>f DEF EarlyFailure, CacheUnreadable, ToSend, Crash, SaveFails, RemoveFails, LinkAstray, Fault
<1>4. CASE LinkFails \/ PutFails \/ PutRefused \/ LookupFails \/ BodyFails
  <2>1. faults' = faults + 1 /\ broken' = broken /\ misled' = misled /\ astray' = astray
    BY <1>4 DEF LinkFails, PutFails, PutRefused, LookupFails, BodyFails, Fault, Moves
  <2>2. pc' \in {"attempt", "idle", "save"}
    <3>1. attempt \in 1..Tries /\ (NextAttempt(TRUE) \/ NextAttempt(FALSE))
      BY <1>4, Zenon DEF LinkFails, PutFails, PutRefused, LookupFails, BodyFails, TypeOK
    <3> QED
      BY <3>1, NextAttemptEffect
  <2> QED
    BY <2>1, <2>2, <1>k, <1>f
<1>5. CASE SignWrong
  <2>1. kind = "tree"
    BY <1>5 DEF SignWrong
  <2> QED
    BY <2>1, <1>5, <1>k DEF SignWrong
<1>6. CASE Rapid
  BY <1>6, <1>k DEF Rapid, MakeCopy
<1>7. CASE BodyStored
  <2>1. pc' = "lookup" /\ astray' = astray /\ misled' = misled /\ faults' = faults
    BY <1>7 DEF BodyStored, Moves
  <2>2. Whole \/ (IF kind = "tree" THEN misled ELSE faults > 0)
    BY <1>7 DEF BodyStored, Whole, IndexInv
  <2>3. Whole => broken' = broken
    BY <1>7 DEF BodyStored, MakeCopy
  <2> QED
    BY <2>1, <2>2, <2>3, <1>k
<1>8. CASE BodyMisled
  BY <1>8, <1>k DEF BodyMisled, Moves
<1>9. CASE LookedUp \/ Remove \/ Save
  BY <1>9, <1>k DEF LookedUp, Remove, Save
<1>10. CASE UNCHANGED vars
  BY <1>10, <1>k DEF vars
<1> QED
  BY <1>1, <1>2, <1>3, <1>4, <1>5, <1>6, <1>7, <1>8, <1>9, <1>10 DEF Next, Step

(* Hashes taken too early, questions about ranges and attempts that stop   *)
(* half way damage no copy (BrokenHasCause), for every number of attempts  *)
(* and faults.                                                             *)
THEOREM OnlySourcesDamage == Spec => []BrokenHasCause
<1>1. Init => BrokenInv
  BY Zenon DEF Init, BrokenInv, StreamInv, BrokenHasCause, Reading
<1>2. BrokenInv => BrokenHasCause
  BY DEF BrokenInv
<1> QED
  BY <1>1, <1>2, IndexInit, TypeInit, TypeStep, IndexStep, BrokenStep, PTL DEF Spec
=============================================================================
