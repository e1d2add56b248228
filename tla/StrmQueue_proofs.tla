-------------------------- MODULE StrmQueue_proofs --------------------------
(***************************************************************************)
(* Proofs about the strm queue, and about the directory cache that answers *)
(* the listings of its folders and of everything else.  StrmQueue loses no *)
(* line, repeats no work unpaid and walks every directory whole, for every *)
(* strm.txt and every number of faults.  DirCache shows what the storage   *)
(* holds but for named causes, for every tree and any number of callers.   *)
(***************************************************************************)
EXTENDS StrmQueue, DirCache, FiniteSetTheorems, SequenceTheorems, TLAPS

(* While the row is in hand it is in the table; one that waits for its      *)
(* DELETE has its outcome recorded.                                         *)
RowInHand ==
    /\ InHand => line \in Elems(rows)
    /\ pc = "delete" => line \in synced \cup failedTxt \cup unlogged
    /\ pc \in {"walk", "visit"} => line \in Folders
    /\ pc = "visit" => at \in 1..NEntries

(* The transaction has every line it has come to, or has missed it.         *)
TxInv ==
    /\ Unique(tx.table)
    /\ pc = "load" => Elems(rows) \subseteq Elems(tx.table)
    /\ pc = "load" => \A i \in 1..tx.at : Text[i] \in Elems(tx.table) \cup tx.missed

(* Each piece of work beyond the first is paid for by a fault; a signal     *)
(* has paid for the exit it announces.                                      *)
Credit == IF cancelled /\ pc # "down" THEN 1 ELSE 0
Worked(l) == l \notin Elems(rows) \/ (l = line /\ pc \in {"walk", "visit", "log", "delete"})
PaidInv ==
    \A l \in Lines : works[l] <= faults - Credit + (IF Worked(l) THEN 1 ELSE 0)
CreditPaid == cancelled /\ pc # "down" => faults >= 1

(* What lies before the breakpoint, or before the place of the walk in      *)
(* hand, has been processed since the load.                                 *)
WalkInv ==
    \A l \in Folders \ leftover :
        /\ \A i \in 1..(mark[l] - 1) : i \in seen[l]
        /\ pc \in {"walk", "visit"} /\ line = l => \A i \in 1..(at - 1) : i \in seen[l]
        /\ l \in synced => \A i \in 1..NEntries : i \in seen[l]

IInv == TypeOK /\ RowInHand /\ TxInv /\ PaidInv /\ CreditPaid /\ NoTaskLost /\ WalkInv
-----------------------------------------------------------------------------
(* A line appended to a table it is not in (Insert). *)
LEMMA InsertAdds ==
    ASSUME NEW s \in Seq(Lines), Unique(s), NEW l \in Lines
    PROVE  /\ Insert(s, l) \in Seq(Lines)
           /\ Unique(Insert(s, l))
           /\ Elems(Insert(s, l)) = Elems(s) \cup {l}
<1>1. CASE l \in Elems(s)
  BY <1>1 DEF Insert
<1>2. CASE l \notin Elems(s)
  <2> DEFINE t == Append(s, l)
  <2>1. /\ t \in Seq(Lines) /\ Len(t) = Len(s) + 1 /\ t[Len(s) + 1] = l
        /\ \A i \in 1..Len(s) : t[i] = s[i]
    OBVIOUS
  <2>2. DOMAIN t = 1..(Len(s) + 1) /\ DOMAIN s = 1..Len(s) /\ Len(s) \in Nat
    BY <2>1
  <2>3. Unique(t)
    BY <1>2, <2>1, <2>2 DEF Unique, Elems
  <2>4. Elems(t) = Elems(s) \cup {l}
    BY <2>1, <2>2 DEF Elems
  <2> QED
    BY <1>2, <2>1, <2>3, <2>4 DEF Insert
<1> QED
  BY <1>1, <1>2

(* Only the row of the line leaves the table (Without). *)
LEMMA WithoutRemoves ==
    ASSUME NEW s \in Seq(Lines), Unique(s), NEW l \in Lines
    PROVE  /\ Without(s, l) \in Seq(Lines)
           /\ Unique(Without(s, l))
           /\ Elems(Without(s, l)) = Elems(s) \ {l}
<1>1. CASE l \notin Elems(s)
  BY <1>1 DEF Without
<1>2. CASE l \in Elems(s)
  <2> DEFINE i == CHOOSE k \in DOMAIN s : s[k] = l
             n == Len(s)
             t == [k \in 1..(n - 1) |-> IF k < i THEN s[k] ELSE s[k + 1]]
  <2>1. i \in 1..n /\ s[i] = l /\ n \in Nat /\ DOMAIN s = 1..n
    BY <1>2 DEF Elems
  <2>2. Without(s, l) = t
    BY <1>2 DEF Without
  <2> HIDE DEF i
  <2>3. /\ DOMAIN t = 1..(n - 1) /\ n - 1 \in Nat
        /\ \A k \in 1..(n - 1) : t[k] = IF k < i THEN s[k] ELSE s[k + 1]
    BY <2>1
  <2>4. \A k \in 1..n : s[k] \in Lines
    BY <2>1
  <2>5. \A k \in 1..(n - 1) : t[k] \in Lines
    BY <2>1, <2>3, <2>4
  <2>6. t \in Seq(Lines)
    BY <2>3, <2>5
  <2>7. \A j, k \in 1..n : s[j] = s[k] => j = k
    BY <2>1 DEF Unique
  <2>8. Unique(t)
    BY <2>1, <2>3, <2>7 DEF Unique
  <2>9. Elems(t) = Elems(s) \ {l}
    <3>1. ASSUME NEW x \in Elems(t) PROVE x \in Elems(s) /\ x # l
      BY <2>1, <2>3, <2>7 DEF Elems
    <3>2. ASSUME NEW x \in Elems(s), x # l PROVE x \in Elems(t)
      <4>1. PICK k \in 1..n : s[k] = x
        BY <2>1 DEF Elems
      <4>2. CASE k < i
        BY <2>1, <2>3, <4>1, <4>2 DEF Elems
      <4>3. CASE k > i
        <5>1. k - 1 \in 1..(n - 1) /\ ~(k - 1 < i) /\ (k - 1) + 1 = k
          BY <2>1, <4>1, <4>3
        <5>2. t[k - 1] = x
          BY <2>3, <4>1, <5>1
        <5> QED
          BY <2>3, <5>1, <5>2 DEF Elems
      <4> QED
        BY <2>1, <3>2, <4>1, <4>2, <4>3
    <3> QED
      BY <3>1, <3>2
  <2> QED
    BY <2>2, <2>6, <2>8, <2>9
<1> QED
  BY <1>1, <1>2

TxType == [table : Seq(Lines), at : 0..Len(Text), missed : SUBSET Lines]

(* The fields of the transaction, and how one is made. *)
LEMMA TxFields ==
    ASSUME TypeOK
    PROVE  /\ tx \in TxType
           /\ tx.table \in Seq(Lines) /\ tx.at \in Nat /\ tx.at <= Len(Text) /\ tx.missed \subseteq Lines
<1>1. tx \in TxType
  BY Zenon DEF TypeOK, TxType
<1>2. Len(Text) \in Nat
  BY StrmAssumption
<1> QED
  BY <1>1, <1>2 DEF TxType

(* A transaction that has inserted some lines is a transaction. *)
LEMMA TxMade ==
    ASSUME NEW s \in Seq(Lines), NEW n \in Nat, n <= Len(Text), NEW m \in SUBSET Lines
    PROVE  [table |-> s, at |-> n, missed |-> m] \in TxType
<1>1. n \in 0..Len(Text)
  BY StrmAssumption
<1> QED
  BY <1>1 DEF TxType

(* So are no transaction and one that has just been opened. *)
LEMMA TxEmpty ==
    /\ NoTx \in TxType
    /\ \A s \in Seq(Lines) : [table |-> s, at |-> 0, missed |-> {}] \in TxType
<1>1. << >> \in Seq(Lines) /\ 0 \in Nat /\ 0 <= Len(Text) /\ {} \in SUBSET Lines
  BY StrmAssumption
<1>2. NoTx \in TxType
  BY <1>1, TxMade DEF NoTx
<1> QED
  BY <1>1, <1>2, TxMade

(* The line the transaction inserts next. *)
LEMMA TxNext ==
    ASSUME TypeOK, tx.at < Len(Text)
    PROVE  Text[tx.at + 1] \in Lines /\ tx.at + 1 \in Nat /\ tx.at + 1 <= Len(Text)
<1>1. tx.at \in Nat /\ Len(Text) \in Nat /\ Text \in Seq(Lines)
  BY TxFields, StrmAssumption
<1>2. tx.at + 1 \in 1..Len(Text)
  BY <1>1
<1> QED
  BY <1>1, <1>2

(* A step costs at most one fault, within the bound. *)
LEMMA FaultsType ==
    TypeOK /\ (Fault \/ UNCHANGED faults) => faults' \in 0..MaxFaults
BY StrmAssumption DEF TypeOK, Fault

(* The types, one action at a time. *)
LEMMA TypeKeeps == TypeOK /\ RowInHand /\ TxInv /\ [Next]_vars => TypeOK'
<1> SUFFICES ASSUME TypeOK, RowInHand, TxInv, [Next]_vars PROVE TypeOK'
  OBVIOUS
<1> USE FaultsType DEF TypeOK, TxType, history
<1>1. CASE StartPass
  <2>1. tx' \in TxType
    BY <1>1, TxEmpty DEF StartPass
  <2> QED
    BY <1>1, <2>1 DEF StartPass
<1>2. CASE InsertLine
  <2>1. /\ Insert(tx.table, Text[tx.at + 1]) \in Seq(Lines)
        /\ tx.at + 1 \in Nat /\ tx.at + 1 <= Len(Text) /\ tx.missed \in SUBSET Lines
    BY <1>2, InsertAdds, TxFields, TxNext DEF InsertLine, TxInv
  <2>2. tx' = [table |-> Insert(tx.table, Text[tx.at + 1]), at |-> tx.at + 1, missed |-> tx.missed]
    BY <1>2, TxFields DEF InsertLine
  <2>3. tx' \in TxType
    BY <2>1, <2>2, TxMade
  <2> QED
    BY <1>2, <2>3 DEF InsertLine
<1>3. CASE InsertFails
  <2>1. /\ tx.table \in Seq(Lines) /\ tx.missed \cup {Text[tx.at + 1]} \in SUBSET Lines
        /\ tx.at + 1 \in Nat /\ tx.at + 1 <= Len(Text)
    BY <1>3, TxFields, TxNext DEF InsertFails
  <2>2. tx' = [table |-> tx.table, at |-> tx.at + 1, missed |-> tx.missed \cup {Text[tx.at + 1]}]
    BY <1>3, TxFields DEF InsertFails
  <2>3. tx' \in TxType
    BY <2>1, <2>2, TxMade
  <2> QED
    BY <1>3, <2>3 DEF InsertFails
<1>4. CASE Commit
  <2>1. Elems(Text) \subseteq Lines
    BY StrmAssumption DEF Elems
  <2>2. tx' \in TxType /\ tx.table \in Seq(Lines) /\ tx.missed \subseteq Lines
    BY <1>4, TxEmpty, TxFields DEF Commit
  <2> QED
    BY <1>4, <2>1, <2>2 DEF Commit, TxInv
<1>5. CASE LoadFails
  <2>1. tx' \in TxType
    BY <1>5, TxEmpty DEF LoadFails
  <2> QED
    BY <1>5, <2>1 DEF LoadFails
<1>6. CASE Pick
  <2>1. rows \in Seq(Lines) /\ rows # << >>
    BY <1>6 DEF Pick
  <2>2. Head(rows) \in Lines
    BY <2>1
  <2> QED
    BY <1>6, <2>2 DEF Pick
<1>7. CASE PassEnds
  BY <1>7 DEF PassEnds
<1>8. CASE Succeed
  BY <1>8, SMTT(30) DEF Succeed, Attempted
<1>9. CASE Fail
  BY <1>9, SMTT(30) DEF Fail, Attempted
<1>10. CASE BeginWalk
  <2>1. at' \in 1..(NEntries + 1)
    BY <1>10, StrmAssumption DEF BeginWalk, Resumes
  <2>2. faults' \in 0..MaxFaults
    BY <1>10 DEF BeginWalk
  <2>3. works' \in [Lines -> Nat] /\ tried' \subseteq Lines
    BY <1>10, SMTT(30) DEF BeginWalk, Attempted
  <2> QED
    BY <1>10, <2>1, <2>2, <2>3 DEF BeginWalk
<1>11. CASE SetBreakpoint
  <2>1. faults' \in 0..MaxFaults
    BY <1>11 DEF SetBreakpoint
  <2>0. at \in 0..NEntries
    BY <1>11, StrmAssumption DEF SetBreakpoint
  <2>2. mark' \in [Lines -> 0..NEntries]
    <3>1. mark' = [mark EXCEPT ![line] = at] \/ mark' = mark
      BY <1>11 DEF SetBreakpoint
    <3> QED
      BY <2>0, <3>1
  <2> QED
    BY <1>11, <2>1, <2>2 DEF SetBreakpoint
<1>12. CASE Visit
  <2>1. at \in 1..NEntries /\ at' \in 1..(NEntries + 1)
    BY <1>12, StrmAssumption DEF Visit, RowInHand
  <2>2. seen' \in [Lines -> SUBSET (1..NEntries)]
    BY <1>12, <2>1 DEF Visit
  <2> QED
    BY <1>12, <2>1, <2>2 DEF Visit
<1>13. CASE WalkFails
  BY <1>13 DEF WalkFails
<1>14. CASE WalkEnds
  <2>1. faults' \in 0..MaxFaults
    BY <1>14 DEF WalkEnds
  <2>0. 0 \in 0..NEntries
    BY StrmAssumption
  <2>2. mark' \in [Lines -> 0..NEntries]
    <3>1. mark' = [mark EXCEPT ![line] = 0] \/ mark' = mark
      BY <1>14 DEF WalkEnds
    <3> QED
      BY <2>0, <3>1
  <2> QED
    BY <1>14, <2>1, <2>2 DEF WalkEnds
<1>15. CASE LogFailure
  BY <1>15 DEF LogFailure
<1>16. CASE LogFails
  BY <1>16 DEF LogFails
<1>17. CASE DeleteRow
  BY <1>17, WithoutRemoves DEF DeleteRow
<1>18. CASE DeleteFails
  BY <1>18 DEF DeleteFails
<1>19. CASE Signal
  BY <1>19 DEF Signal
<1>20. CASE Exit
  <2>1. tx' \in TxType
    BY <1>20, TxEmpty DEF Exit, GoDown
  <2> QED
    BY <1>20, <2>1 DEF Exit, GoDown
<1>21. CASE Crash
  <2>1. tx' \in TxType
    BY <1>21, TxEmpty DEF Crash, GoDown
  <2> QED
    BY <1>21, <2>1 DEF Crash, GoDown
<1>22. CASE Restart
  BY <1>22 DEF Restart
<1>23. CASE UNCHANGED vars
  BY <1>23 DEF vars
<1> QED
  BY <1>1, <1>2, <1>3, <1>4, <1>5, <1>6, <1>7, <1>8, <1>9, <1>10, <1>11, <1>12, <1>13, <1>14,
     <1>15, <1>16, <1>17, <1>18, <1>19, <1>20, <1>21, <1>22, <1>23 DEF Next, Loop

(* A row in hand stays in the table until its DELETE. *)
LEMMA RowKeeps == TypeOK /\ RowInHand /\ [Next]_vars => RowInHand'
<1> SUFFICES ASSUME TypeOK, RowInHand, [Next]_vars PROVE RowInHand'
  OBVIOUS
<1> USE DEF RowInHand, InHand, history
<1>1. CASE StartPass
  BY <1>1 DEF StartPass
<1>2. CASE InsertLine
  BY <1>2 DEF InsertLine
<1>3. CASE InsertFails
  BY <1>3 DEF InsertFails
<1>4. CASE Commit
  BY <1>4 DEF Commit
<1>5. CASE LoadFails
  BY <1>5 DEF LoadFails
<1>6. CASE Pick
  <2>1. rows \in Seq(Lines) /\ rows # << >>
    BY <1>6 DEF Pick, TypeOK
  <2>2. Head(rows) = rows[1] /\ 1 \in DOMAIN rows
    BY <2>1
  <2>3. Head(rows) \in Elems(rows)
    BY <2>2 DEF Elems
  <2> QED
    BY <1>6, <2>3 DEF Pick
<1>7. CASE PassEnds
  BY <1>7 DEF PassEnds
<1>8. CASE Succeed
  BY <1>8 DEF Succeed
<1>9. CASE Fail
  BY <1>9 DEF Fail
<1>10. CASE BeginWalk
  BY <1>10 DEF BeginWalk
<1>11. CASE SetBreakpoint
  <2>1. at \in 1..NEntries
    BY <1>11, StrmAssumption DEF SetBreakpoint, TypeOK
  <2>2. pc' = "visit" /\ line' = line /\ rows' = rows /\ at' = at
    BY <1>11 DEF SetBreakpoint
  <2> QED
    BY <1>11, <2>1, <2>2 DEF SetBreakpoint
<1>12. CASE Visit
  BY <1>12 DEF Visit
<1>13. CASE WalkFails
  BY <1>13 DEF WalkFails
<1>14. CASE WalkEnds
  BY <1>14 DEF WalkEnds
<1>15. CASE LogFailure
  BY <1>15 DEF LogFailure
<1>16. CASE LogFails
  BY <1>16 DEF LogFails
<1>17. CASE DeleteRow
  BY <1>17 DEF DeleteRow
<1>18. CASE DeleteFails
  BY <1>18 DEF DeleteFails
<1>19. CASE Signal
  BY <1>19 DEF Signal
<1>20. CASE Exit
  BY <1>20 DEF Exit, GoDown
<1>21. CASE Crash
  BY <1>21 DEF Crash, GoDown
<1>22. CASE Restart
  BY <1>22 DEF Restart
<1>23. CASE UNCHANGED vars
  BY <1>23 DEF vars
<1> QED
  BY <1>1, <1>2, <1>3, <1>4, <1>5, <1>6, <1>7, <1>8, <1>9, <1>10, <1>11, <1>12, <1>13, <1>14,
     <1>15, <1>16, <1>17, <1>18, <1>19, <1>20, <1>21, <1>22, <1>23 DEF Next, Loop

(* The open transaction accounts for each line it has come to. *)
LEMMA TxKeeps == TypeOK /\ TxInv /\ [Next]_vars => TxInv'
<1> SUFFICES ASSUME TypeOK, TxInv, [Next]_vars PROVE TxInv'
  OBVIOUS
<1> USE DEF TxInv, history
<1>1. CASE StartPass
  <2>1. tx' = [table |-> rows, at |-> 0, missed |-> {}] /\ rows' = rows /\ Unique(rows)
    BY <1>1 DEF StartPass, TypeOK
  <2> QED
    BY <2>1
<1>2. CASE InsertLine
  <2> DEFINE l == Text[tx.at + 1]
  <2>1. /\ tx.table \in Seq(Lines) /\ l \in Lines /\ tx.at \in Nat
        /\ pc = "load" /\ rows' = rows
    BY <1>2, TxFields, TxNext DEF InsertLine
  <2>2. /\ Unique(Insert(tx.table, l))
        /\ Elems(Insert(tx.table, l)) = Elems(tx.table) \cup {l}
    BY <2>1, InsertAdds
  <2>3. tx' = [table |-> Insert(tx.table, l), at |-> tx.at + 1, missed |-> tx.missed]
    BY <1>2, TxFields DEF InsertLine, TxType
  <2>4. tx'.table = Insert(tx.table, l) /\ tx'.at = tx.at + 1 /\ tx'.missed = tx.missed
    BY <2>3
  <2>5. ASSUME NEW i \in 1..(tx.at + 1) PROVE Text[i] \in Elems(tx'.table) \cup tx'.missed
    <3>1. CASE i \in 1..tx.at
      BY <2>1, <2>2, <2>4, <3>1
    <3>2. CASE i = tx.at + 1
      BY <2>2, <2>4, <3>2
    <3> QED
      BY <2>1, <3>1, <3>2
  <2> HIDE DEF l
  <2> QED
    BY <2>1, <2>2, <2>4, <2>5
<1>3. CASE InsertFails
  <2> DEFINE l == Text[tx.at + 1]
  <2>1. /\ tx.table \in Seq(Lines) /\ l \in Lines /\ tx.at \in Nat
        /\ pc = "load" /\ rows' = rows
    BY <1>3, TxFields, TxNext DEF InsertFails
  <2>3. tx' = [table |-> tx.table, at |-> tx.at + 1, missed |-> tx.missed \cup {l}]
    BY <1>3, TxFields DEF InsertFails, TxType
  <2>4. tx'.table = tx.table /\ tx'.at = tx.at + 1 /\ tx'.missed = tx.missed \cup {l}
    BY <2>3
  <2>5. ASSUME NEW i \in 1..(tx.at + 1) PROVE Text[i] \in Elems(tx'.table) \cup tx'.missed
    <3>1. CASE i \in 1..tx.at
      BY <2>1, <2>4, <3>1
    <3>2. CASE i = tx.at + 1
      BY <2>4, <3>2
    <3> QED
      BY <2>1, <3>1, <3>2
  <2> HIDE DEF l
  <2> QED
    BY <2>1, <2>4, <2>5
<1>4. CASE Commit
  BY <1>4 DEF Commit, NoTx, Unique
<1>5. CASE LoadFails
  BY <1>5 DEF LoadFails, NoTx, Unique
<1>6. CASE Pick
  BY <1>6 DEF Pick, NoTx, Unique
<1>7. CASE PassEnds
  BY <1>7 DEF PassEnds, NoTx, Unique
<1>8. CASE Succeed
  BY <1>8 DEF Succeed, NoTx, Unique
<1>9. CASE Fail
  BY <1>9 DEF Fail, NoTx, Unique
<1>10. CASE BeginWalk
  BY <1>10 DEF BeginWalk, NoTx, Unique
<1>11. CASE SetBreakpoint
  BY <1>11 DEF SetBreakpoint, NoTx, Unique
<1>12. CASE Visit
  BY <1>12 DEF Visit, NoTx, Unique
<1>13. CASE WalkFails
  BY <1>13 DEF WalkFails, NoTx, Unique
<1>14. CASE WalkEnds
  BY <1>14 DEF WalkEnds, NoTx, Unique
<1>15. CASE LogFailure
  BY <1>15 DEF LogFailure, NoTx, Unique
<1>16. CASE LogFails
  BY <1>16 DEF LogFails, NoTx, Unique
<1>17. CASE DeleteRow
  BY <1>17 DEF DeleteRow, NoTx, Unique
<1>18. CASE DeleteFails
  BY <1>18 DEF DeleteFails, NoTx, Unique
<1>19. CASE Signal
  BY <1>19 DEF Signal, NoTx, Unique
<1>20. CASE Exit
  BY <1>20 DEF Exit, GoDown, NoTx, Unique
<1>21. CASE Crash
  BY <1>21 DEF Crash, GoDown, NoTx, Unique
<1>22. CASE Restart
  BY <1>22 DEF Restart, NoTx, Unique
<1>23. CASE UNCHANGED vars
  BY <1>23 DEF vars, NoTx, Unique
<1> QED
  BY <1>1, <1>2, <1>3, <1>4, <1>5, <1>6, <1>7, <1>8, <1>9, <1>10, <1>11, <1>12, <1>13, <1>14,
     <1>15, <1>16, <1>17, <1>18, <1>19, <1>20, <1>21, <1>22, <1>23 DEF Next, Loop

(* Work is paid for, one action at a time. *)
LEMMA PaidKeeps ==
    TypeOK /\ RowInHand /\ PaidInv /\ CreditPaid /\ [Next]_vars => PaidInv' /\ CreditPaid'
<1> SUFFICES ASSUME TypeOK, RowInHand, PaidInv, CreditPaid, [Next]_vars, NEW l \in Lines
             PROVE  /\ works'[l] <= faults' - Credit' + (IF Worked(l)' THEN 1 ELSE 0)
                    /\ CreditPaid'
  BY Zenon DEF PaidInv, TypeOK
<1>0. /\ works[l] \in Nat /\ faults \in Nat
      /\ works[l] <= faults - Credit + (IF Worked(l) THEN 1 ELSE 0)
  BY DEF TypeOK, PaidInv
<1> USE <1>0
<1>1. CASE StartPass
  BY <1>1 DEF StartPass, Fault, Credit, Worked, CreditPaid, history
<1>2. CASE InsertLine
  BY <1>2 DEF InsertLine, Fault, Credit, Worked, CreditPaid, history
<1>3. CASE InsertFails
  BY <1>3 DEF InsertFails, Fault, Credit, Worked, CreditPaid, history
<1>4. CASE Commit
  <2>1. works'[l] = 0 /\ faults' = faults /\ cancelled' = cancelled /\ pc = "load" /\ pc' = "pick"
    BY <1>4 DEF Commit
  <2> QED
    BY <2>1 DEF Credit, CreditPaid
<1>5. CASE LoadFails
  BY <1>5 DEF LoadFails, Fault, Credit, Worked, CreditPaid, history
<1>6. CASE Pick
  BY <1>6 DEF Pick, Fault, Credit, Worked, CreditPaid, history
<1>7. CASE PassEnds
  BY <1>7 DEF PassEnds, Fault, Credit, Worked, CreditPaid, history
<1>8. CASE Succeed
  <2>1. line \in Elems(rows) /\ ~Worked(line)
    BY <1>8 DEF Succeed, RowInHand, InHand, Worked
  <2>2. works'[l] <= works[l] + (IF l = line THEN 1 ELSE 0)
    BY <1>8, SMTT(30) DEF Succeed, Attempted, TypeOK
  <2>3. works'[l] \in Nat
    BY <1>8, SMTT(30) DEF Succeed, Attempted, TypeOK
  <2> QED
    BY <1>8, <2>1, <2>2, <2>3 DEF Succeed, Fault, Credit, Worked, CreditPaid, history
<1>9. CASE Fail
  <2>1. line \in Elems(rows) /\ ~Worked(line)
    BY <1>9 DEF Fail, RowInHand, InHand, Worked
  <2>2. works'[l] <= works[l] + (IF l = line THEN 1 ELSE 0)
    BY <1>9 DEF Fail, Attempted, TypeOK
  <2>3. works'[l] \in Nat
    BY <1>9 DEF Fail, Attempted, TypeOK
  <2> QED
    BY <1>9, <2>1, <2>2, <2>3 DEF Fail, Fault, Credit, Worked, CreditPaid, history
<1>10. CASE BeginWalk
  <2>1. line \in Elems(rows) /\ ~Worked(line)
    BY <1>10 DEF BeginWalk, RowInHand, InHand, Worked
  <2>2. works'[l] <= works[l] + (IF l = line THEN 1 ELSE 0)
    BY <1>10 DEF BeginWalk, Attempted, TypeOK
  <2>3. works'[l] \in Nat
    BY <1>10 DEF BeginWalk, Attempted, TypeOK
  <2> QED
    BY <1>10, <2>1, <2>2, <2>3 DEF BeginWalk, Fault, Credit, Worked, CreditPaid, history
<1>11. CASE SetBreakpoint
  BY <1>11 DEF SetBreakpoint, Fault, Credit, Worked, CreditPaid, history
<1>12. CASE Visit
  BY <1>12 DEF Visit, Fault, Credit, Worked, CreditPaid, history
<1>13. CASE WalkFails
  BY <1>13 DEF WalkFails, Fault, Credit, Worked, CreditPaid, history
<1>14. CASE WalkEnds
  BY <1>14 DEF WalkEnds, Fault, Credit, Worked, CreditPaid, history
<1>15. CASE LogFailure
  BY <1>15 DEF LogFailure, Fault, Credit, Worked, CreditPaid, history
<1>16. CASE LogFails
  BY <1>16 DEF LogFails, Fault, Credit, Worked, CreditPaid, history
<1>17. CASE DeleteRow
  <2>1. Elems(rows') = Elems(rows) \ {line}
    BY <1>17, WithoutRemoves DEF DeleteRow, TypeOK
  <2> QED
    BY <1>17, <2>1 DEF DeleteRow, Credit, Worked, CreditPaid, history
<1>18. CASE DeleteFails
  BY <1>18 DEF DeleteFails, Fault, Credit, Worked, CreditPaid, history
<1>19. CASE Signal
  BY <1>19 DEF Signal, Fault, Credit, Worked, CreditPaid, history
<1>20. CASE Exit
  BY <1>20 DEF Exit, GoDown, Fault, Credit, Worked, CreditPaid, history
<1>21. CASE Crash
  BY <1>21 DEF Crash, GoDown, Fault, Credit, Worked, CreditPaid, history
<1>22. CASE Restart
  BY <1>22 DEF Restart, Fault, Credit, Worked, CreditPaid, history
<1>23. CASE UNCHANGED vars
  BY <1>23 DEF vars, Fault, Credit, Worked, CreditPaid, history
<1> QED
  BY <1>1, <1>2, <1>3, <1>4, <1>5, <1>6, <1>7, <1>8, <1>9, <1>10, <1>11, <1>12, <1>13, <1>14,
     <1>15, <1>16, <1>17, <1>18, <1>19, <1>20, <1>21, <1>22, <1>23 DEF Next, Loop

(* No line is lost, one action at a time. *)
LEMMA LinesKeep == TypeOK /\ RowInHand /\ TxInv /\ NoTaskLost /\ [Next]_vars => NoTaskLost'
<1> SUFFICES ASSUME TypeOK, RowInHand, TxInv, NoTaskLost, [Next]_vars PROVE NoTaskLost'
  OBVIOUS
<1> USE DEF NoTaskLost, history
<1>1. CASE StartPass
  BY <1>1 DEF StartPass
<1>2. CASE InsertLine
  BY <1>2 DEF InsertLine
<1>3. CASE InsertFails
  BY <1>3 DEF InsertFails
<1>4. CASE Commit
  <2>1. batch' = Elems(Text) /\ rows' = tx.table /\ uninserted' = tx.missed /\ pc = "load" /\ tx.at = Len(Text)
    BY <1>4 DEF Commit
  <2>2. ASSUME NEW l \in Elems(Text) PROVE l \in Elems(tx.table) \cup tx.missed
    <3>1. PICK i \in 1..Len(Text) : Text[i] = l
      BY StrmAssumption DEF Elems
    <3> QED
      BY <2>1, <3>1 DEF TxInv
  <2> QED
    BY <2>1, <2>2
<1>5. CASE LoadFails
  BY <1>5 DEF LoadFails
<1>6. CASE Pick
  BY <1>6 DEF Pick
<1>7. CASE PassEnds
  BY <1>7 DEF PassEnds
<1>8. CASE Succeed
  BY <1>8 DEF Succeed
<1>9. CASE Fail
  BY <1>9 DEF Fail
<1>10. CASE BeginWalk
  BY <1>10 DEF BeginWalk
<1>11. CASE SetBreakpoint
  BY <1>11 DEF SetBreakpoint
<1>12. CASE Visit
  BY <1>12 DEF Visit
<1>13. CASE WalkFails
  BY <1>13 DEF WalkFails
<1>14. CASE WalkEnds
  BY <1>14 DEF WalkEnds
<1>15. CASE LogFailure
  BY <1>15 DEF LogFailure
<1>16. CASE LogFails
  BY <1>16 DEF LogFails
<1>17. CASE DeleteRow
  <2>1. Elems(rows') = Elems(rows) \ {line}
    BY <1>17, WithoutRemoves DEF DeleteRow, TypeOK
  <2>2. line \in synced \cup failedTxt \cup unlogged
    BY <1>17 DEF DeleteRow, RowInHand
  <2> QED
    BY <1>17, <2>1, <2>2 DEF DeleteRow
<1>18. CASE DeleteFails
  BY <1>18 DEF DeleteFails
<1>19. CASE Signal
  BY <1>19 DEF Signal
<1>20. CASE Exit
  BY <1>20 DEF Exit, GoDown
<1>21. CASE Crash
  BY <1>21 DEF Crash, GoDown
<1>22. CASE Restart
  BY <1>22 DEF Restart
<1>23. CASE UNCHANGED vars
  BY <1>23 DEF vars
<1> QED
  BY <1>1, <1>2, <1>3, <1>4, <1>5, <1>6, <1>7, <1>8, <1>9, <1>10, <1>11, <1>12, <1>13, <1>14,
     <1>15, <1>16, <1>17, <1>18, <1>19, <1>20, <1>21, <1>22, <1>23 DEF Next, Loop

(* What lies behind the breakpoint has been seen, one action at a time. *)
LEMMA WalkKeeps == TypeOK /\ RowInHand /\ WalkInv /\ [Next]_vars => WalkInv'
<1> SUFFICES ASSUME TypeOK, RowInHand, WalkInv, [Next]_vars, NEW l \in Folders, l \notin leftover'
             PROVE  /\ \A i \in 1..(mark'[l] - 1) : i \in seen'[l]
                    /\ pc' \in {"walk", "visit"} /\ line' = l => \A i \in 1..(at' - 1) : i \in seen'[l]
                    /\ l \in synced' => \A i \in 1..NEntries : i \in seen'[l]
  BY DEF WalkInv
<1>0. /\ l \in Lines /\ line \in Lines
      /\ mark[l] \in Nat /\ mark[l] <= NEntries /\ NEntries \in Nat /\ at \in Nat
      /\ mark \in [Lines -> 0..NEntries]
  BY StrmAssumption DEF TypeOK
<1>00. l \notin leftover =>
        /\ \A i \in 1..(mark[l] - 1) : i \in seen[l]
        /\ pc \in {"walk", "visit"} /\ line = l => \A i \in 1..(at - 1) : i \in seen[l]
        /\ l \in synced => \A i \in 1..NEntries : i \in seen[l]
  BY DEF WalkInv
<1> USE <1>0, <1>00
<1>1. CASE StartPass
  BY <1>1 DEF StartPass, history
<1>2. CASE InsertLine
  BY <1>2 DEF InsertLine, history
<1>3. CASE InsertFails
  BY <1>3 DEF InsertFails, history
<1>4. CASE Commit
  <2>1. mark' = mark /\ pc' = "pick" /\ synced' = {}
    BY <1>4 DEF Commit
  <2>2. leftover' = {k \in Lines : mark[k] # 0}
    BY <1>4 DEF Commit
  <2>3. mark[l] = 0
    BY <2>1, <2>2 DEF TypeOK
  <2> QED
    BY <2>1, <2>3
<1>5. CASE LoadFails
  BY <1>5 DEF LoadFails, history
<1>6. CASE Pick
  BY <1>6 DEF Pick, history
<1>7. CASE PassEnds
  BY <1>7 DEF PassEnds, history
<1>8. CASE Succeed
  <2>1. /\ pc' = "delete" /\ line \notin Folders /\ synced' = synced \cup {line}
        /\ mark' = mark /\ seen' = seen /\ leftover' = leftover
    BY <1>8 DEF Succeed
  <2> QED
    BY <2>1
<1>9. CASE Fail
  BY <1>9 DEF Fail, history
<1>10. CASE BeginWalk
  <2>1. /\ pc' = "walk" /\ line' = line /\ mark' = mark /\ seen' = seen /\ synced' = synced
        /\ leftover' = leftover
    BY <1>10 DEF BeginWalk
  <2>2. line = l => at' = 1 \/ (at' = mark[l] /\ mark[l] # 0)
    BY <1>10 DEF BeginWalk, Resumes
  <2> QED
    BY <2>1, <2>2
<1>11. CASE SetBreakpoint
  <2>1. /\ pc = "walk" /\ pc' = "visit" /\ line' = line /\ seen' = seen /\ synced' = synced
        /\ leftover' = leftover /\ at' = at
    BY <1>11 DEF SetBreakpoint, history
  <2>2. mark' = mark \/ mark' = [mark EXCEPT ![line] = at]
    BY <1>11 DEF SetBreakpoint
  <2>3. mark'[l] = mark[l] \/ (line = l /\ mark'[l] = at)
    BY <2>2 DEF TypeOK
  <2> QED
    BY <2>1, <2>3
<1>12. CASE Visit
  <2>1. /\ pc = "visit" /\ pc' = "walk" /\ line' = line /\ mark' = mark /\ synced' = synced
        /\ leftover' = leftover /\ at' = at + 1
    BY <1>12 DEF Visit
  <2>2. seen' = [seen EXCEPT ![line] = seen[line] \cup {at}]
    BY <1>12 DEF Visit
  <2>3. seen[l] \subseteq seen'[l] /\ (line = l => at \in seen'[l])
    BY <2>2 DEF TypeOK
  <2> QED
    BY <2>1, <2>3
<1>13. CASE WalkFails
  BY <1>13 DEF WalkFails, history
<1>14. CASE WalkEnds
  <2>1. /\ pc = "walk" /\ pc' = "delete" /\ line' = line /\ seen' = seen /\ synced' = synced \cup {line}
        /\ leftover' = leftover /\ at > NEntries
    BY <1>14 DEF WalkEnds
  <2>2. mark' = mark \/ mark' = [mark EXCEPT ![line] = 0]
    BY <1>14 DEF WalkEnds
  <2>3. mark'[l] = mark[l] \/ mark'[l] = 0
    BY <2>2 DEF TypeOK
  <2>4. line = l => \A i \in 1..NEntries : i \in seen[l]
    BY <2>1, StrmAssumption
  <2> QED
    BY <2>1, <2>3, <2>4
<1>15. CASE LogFailure
  BY <1>15 DEF LogFailure, history
<1>16. CASE LogFails
  BY <1>16 DEF LogFails, history
<1>17. CASE DeleteRow
  BY <1>17 DEF DeleteRow, history
<1>18. CASE DeleteFails
  BY <1>18 DEF DeleteFails, history
<1>19. CASE Signal
  BY <1>19 DEF Signal, history
<1>20. CASE Exit
  BY <1>20 DEF Exit, GoDown, history
<1>21. CASE Crash
  BY <1>21 DEF Crash, GoDown, history
<1>22. CASE Restart
  BY <1>22 DEF Restart, history
<1>23. CASE UNCHANGED vars
  BY <1>23 DEF vars, history
<1> QED
  BY <1>1, <1>2, <1>3, <1>4, <1>5, <1>6, <1>7, <1>8, <1>9, <1>10, <1>11, <1>12, <1>13, <1>14,
     <1>15, <1>16, <1>17, <1>18, <1>19, <1>20, <1>21, <1>22, <1>23 DEF Next, Loop

(* The invariant holds before the first step. *)
LEMMA InitInv == Init => IInv
<1> SUFFICES ASSUME Init PROVE IInv
  OBVIOUS
<1>1. Elems(rows) = {} /\ Unique(rows) /\ rows \in Seq(Lines)
  BY DEF Init, Elems, Unique
<1>2. TypeOK
  <2>1. tx \in TxType
    BY TxEmpty DEF Init
  <2>2. mark \in [Lines -> 0..NEntries] /\ at \in 1..(NEntries + 1) /\ faults \in 0..MaxFaults
    BY StrmAssumption DEF Init
  <2>3. seen \in [Lines -> SUBSET (1..NEntries)] /\ works \in [Lines -> Nat]
    BY StrmAssumption DEF Init
  <2> QED
    BY <1>1, <2>1, <2>2, <2>3, StrmAssumption, Zenon DEF Init, TypeOK, TxType
<1>3. RowInHand /\ CreditPaid /\ NoTaskLost
  BY DEF Init, RowInHand, InHand, CreditPaid, NoTaskLost
<1>4. TxInv
  BY DEF Init, TxInv, NoTx, Unique
<1>5. PaidInv
  <2>1. faults = 0 /\ cancelled = FALSE /\ \A l \in Lines : works[l] = 0 /\ l \notin Elems(rows)
    BY <1>1, Zenon DEF Init
  <2>2. \A l \in Lines : Worked(l)
    BY <2>1, Zenon DEF Worked
  <2>3. Credit = 0
    BY <2>1 DEF Credit
  <2>4. ASSUME NEW l \in Lines
        PROVE  works[l] <= faults - Credit + (IF Worked(l) THEN 1 ELSE 0)
    <3>1. works[l] = 0 /\ Worked(l)
      BY <2>1, <2>2
    <3> QED
      BY <2>1, <2>3, <3>1
  <2> QED
    BY <2>4 DEF PaidInv
<1>6. WalkInv
  <2>1. /\ \A l \in Folders : mark[l] = 0
        /\ synced = {} /\ pc = "sleep"
    BY StrmAssumption, Zenon DEF Init
  <2> QED
    BY <2>1 DEF WalkInv
<1> QED
  BY <1>2, <1>3, <1>4, <1>5, <1>6 DEF IInv

(* Each step keeps the invariant. *)
LEMMA Inductive == IInv /\ [Next]_vars => IInv'
BY TypeKeeps, RowKeeps, TxKeeps, PaidKeeps, LinesKeep, WalkKeeps DEF IInv

(* The invariant of the loop: the row in hand, the open transaction, the    *)
(* price of each repetition and the places behind the breakpoints           *)
(* (doSync, sync.go:202-360).                                               *)
THEOREM Invariance == Spec => []IInv
<1>1. Init => IInv
  BY InitInv
<1>2. IInv /\ [Next]_vars => IInv'
  BY Inductive
<1> QED
  BY <1>1, <1>2, PTL DEF Spec

(* strm_tasks holds no line twice and every variable has its type: the      *)
(* UNIQUE constraint and the dropped errors of INSERT (sync.go:230-246).    *)
THEOREM TypeCorrect == Spec => []TypeOK
<1>1. IInv => TypeOK
  BY DEF IInv
<1> QED
  BY <1>1, Invariance, PTL

(* No line of strm.txt is lost, whatever the file, the number of lines and  *)
(* the number of crashes, signals and failed writes (sync.go:295-352).      *)
THEOREM NothingLost == Spec => []NoTaskLost
<1>1. IInv => NoTaskLost
  BY DEF IInv
<1> QED
  BY <1>1, Invariance, PTL

(* A line is worked on again only after a crash, a signal or a failed       *)
(* DELETE, each of which pays for one repetition (sync.go:345).             *)
THEOREM RepetitionsPaid == Spec => []RepeatsArePaid
<1>1. IInv => RepeatsArePaid
  <2> SUFFICES ASSUME IInv, NEW l \in Lines PROVE works[l] <= 1 + faults
    BY DEF RepeatsArePaid
  <2>1. works[l] \in Nat /\ faults \in Nat
    BY DEF IInv, TypeOK
  <2> QED
    BY <2>1 DEF IInv, PaidInv, Credit
<1> QED
  BY <1>1, Invariance, PTL

(* A directory that counts as synced had every entry processed, whatever    *)
(* its size and whichever breakpoints could not be written                  *)
(* (sync.go:316-330).                                                       *)
THEOREM FoldersWhole == Spec => []FolderWalkedWhole
<1>1. IInv => FolderWalkedWhole
  <2> SUFFICES ASSUME IInv, NEW l \in Folders, l \in synced, l \notin leftover
               PROVE  seen[l] = 1..NEntries
    BY DEF FolderWalkedWhole
  <2>1. \A i \in 1..NEntries : i \in seen[l]
    BY DEF IInv, WalkInv
  <2>2. seen[l] \subseteq 1..NEntries
    BY StrmAssumption DEF IInv, TypeOK
  <2> QED
    BY <2>1, <2>2
<1> QED
  BY <1>1, Invariance, PTL
-----------------------------------------------------------------------------
(* The directory cache.                                                     *)

(* The root is there, and so are the directories of whatever the storage    *)
(* holds. *)
StoreIsTree ==
    /\ <<>> \in store
    /\ \A p \in store : \A n \in 0 .. Len(p) : SubSeq(p, 1, n) \in store

(* The operations that take the object away from its path. *)
Removing == {"remove", "move", "rename"}

(* What Begin has seen to. *)
CallsFit ==
    \A c \in Calls :
        /\ call[c].pc # "idle" => Sensible(call[c])
        /\ call[c].pc = "update2" => call[c].op = "move"

(* The listings are in doubt that a call is about to update after it was    *)
(* led astray. *)
LostInDoubt ==
    \A c \in Calls : \A d \in Dirs :
        Updating(c) /\ call[c].lost /\ d \in Touched(call[c]) /\ cached[d].in => d \in doubted

(* A listing has an entry for each of the objects S, and one only. *)
Shows(objs, S) ==
    /\ \A i, j \in DOMAIN objs : objs[i].name = objs[j].name => i = j
    /\ {objs[i].name : i \in DOMAIN objs} = {Name(p) : p \in S}

(* An answer that no change has overtaken is still right. *)
AnswersFresh ==
    \A d \in Dirs :
        flight[d].on /\ flight[d].ok /\ d \notin crossed =>
            d \in store /\ Shows(flight[d].objs, Children(d))

(* The objects a directory may hold. *)
Kids(d) == {p \in Paths \ {<<>>} : Parent(p) = d}

(* The listings an operation is about to drop, what it is about to take     *)
(* from the listing of d, and to give to it.                                *)
Leaving(d, k) == k.op \in Removing /\ k.pc = "update" /\ d \in Below(k.path)
Takes(d, k) == {p \in {k.path} : k.op \in Removing /\ k.pc = "update" /\ Parent(p) = d}
Gives(d, k) == {p \in {k.new} : k.op # "remove" /\ Parent(p) = d}

(* What the listing of d shows, and what the operation has still to tell    *)
(* it, make up what the directory holds.                                    *)
Awaits(d, k, objs, held) ==
    \E T \in SUBSET Kids(d) :
        /\ Shows(objs, T) /\ Takes(d, k) \subseteq T
        /\ k.op = "put" \/ Gives(d, k) \cap T = {}
        /\ held = (T \ Takes(d, k)) \cup Gives(d, k)

Fits(d) ==
    cached[d].in /\ d \notin doubted =>
        /\ Pending(d) = {} => d \in store /\ Shows(cached[d].objs, Children(d))
        /\ \A c \in Calls : Pending(d) = {c} =>
                \/ Leaving(d, call[c])
                \/ d \in store /\ Awaits(d, call[c], cached[d].objs, Children(d))

ListingsFit == \A d \in Dirs : Fits(d)

(* The inductive invariant of the directory cache. *)
CacheInv ==
    CacheTypeOK /\ StoreIsTree /\ CallsFit /\ LostInDoubt /\ AnswersFresh /\ ListingsFit
-----------------------------------------------------------------------------
(* A path is a sequence of names. *)
LEMMA PathIsSeq ==
    ASSUME NEW p \in Paths
    PROVE  p \in Seq(Names) /\ Len(p) \in Nat
<1>1. p \in Seq(Names)
  BY CacheAssumption
<1> QED
  BY <1>1

(* The front of a path. *)
LEMMA FrontFacts ==
    ASSUME NEW p \in Paths, NEW n \in 0 .. Len(p)
    PROVE  /\ SubSeq(p, 1, n) \in Seq(Names)
           /\ Len(SubSeq(p, 1, n)) = n
           /\ \A i \in 1 .. n : SubSeq(p, 1, n)[i] = p[i]
           /\ SubSeq(p, 1, n) \in Paths
<1>1. p \in Seq(Names) /\ Len(p) \in Nat
  BY PathIsSeq
<1>2. n \in Int /\ 1 \in Int
  BY <1>1
<1>3. \A i \in 1 .. n : p[i] \in Names
  BY <1>1
<1>4. /\ SubSeq(p, 1, n) \in Seq(Names)
      /\ Len(SubSeq(p, 1, n)) = IF 1 <= n THEN n - 1 + 1 ELSE 0
      /\ \A i \in 1 .. n - 1 + 1 : SubSeq(p, 1, n)[i] = p[1 + i - 1]
  BY <1>2, <1>3, SubSeqProperties
<1>5. Len(SubSeq(p, 1, n)) = n /\ \A i \in 1 .. n : SubSeq(p, 1, n)[i] = p[i]
  BY <1>1, <1>4
<1>6. SubSeq(p, 1, n) \in Paths
  <2>1. CASE n = Len(p)
    BY <1>1, <2>1, SubSeqFull
  <2>2. CASE n # Len(p)
    <3>1. n \in 0 .. Len(p) - 1
      BY <1>1, <2>2
    <3> QED
      BY <3>1, CacheAssumption
  <2> QED
    BY <2>1, <2>2
<1> QED
  BY <1>4, <1>5, <1>6

(* Paths with the same names are the same. *)
LEMMA SamePath ==
    ASSUME NEW p \in Seq(Names), NEW q \in Seq(Names), Len(p) = Len(q),
           \A i \in 1 .. Len(p) : p[i] = q[i]
    PROVE  p = q
  OBVIOUS

(* Below, name by name. *)
LEMMA BelowIff ==
    ASSUME NEW p \in Paths, NEW k \in Paths
    PROVE  p \in Below(k) <=> Len(k) <= Len(p) /\ \A i \in 1 .. Len(k) : p[i] = k[i]
<1>1. p \in Seq(Names) /\ Len(p) \in Nat /\ k \in Seq(Names) /\ Len(k) \in Nat
  BY PathIsSeq
<1>2. CASE ~(Len(k) <= Len(p))
  BY <1>1, <1>2 DEF Below
<1>3. CASE Len(k) <= Len(p)
  <2>1. Len(k) \in 0 .. Len(p)
    BY <1>1, <1>3
  <2> DEFINE s == SubSeq(p, 1, Len(k))
  <2>2. s \in Seq(Names) /\ Len(s) = Len(k) /\ \A i \in 1 .. Len(k) : s[i] = p[i]
    BY <2>1, FrontFacts
  <2> HIDE DEF s
  <2>3. s = k <=> \A i \in 1 .. Len(k) : p[i] = k[i]
    <3>1. ASSUME \A i \in 1 .. Len(k) : p[i] = k[i] PROVE s = k
      BY <1>1, <2>2, <3>1, SamePath
    <3> QED
      BY <2>2, <3>1
  <2>4. p \in Below(k) <=> s = k
    BY <1>1, <1>3 DEF Below, s
  <2> QED
    BY <1>3, <2>3, <2>4
<1> QED
  BY <1>2, <1>3

(* The parent of a path. *)
LEMMA ParentFacts ==
    ASSUME NEW p \in Paths, p # <<>>
    PROVE  /\ Len(p) >= 1 /\ Len(p) \in Nat
           /\ Parent(p) \in Dirs /\ Parent(p) \in Paths
           /\ Len(Parent(p)) = Len(p) - 1
           /\ \A i \in 1 .. Len(p) - 1 : Parent(p)[i] = p[i]
           /\ Name(p) = p[Len(p)]
<1>1. p \in Seq(Names) /\ Len(p) \in Nat
  BY PathIsSeq
<1>2. Len(p) >= 1
  BY <1>1
<1>3. Len(p) - 1 \in 0 .. Len(p) /\ Len(p) - 1 \in 0 .. Len(p) - 1
  BY <1>1, <1>2
<1>4. Parent(p) \in Dirs
  BY <1>3, CacheAssumption DEF Parent
<1>5. /\ Len(Parent(p)) = Len(p) - 1
      /\ \A i \in 1 .. Len(p) - 1 : Parent(p)[i] = p[i]
  BY <1>3, FrontFacts DEF Parent
<1> QED
  BY <1>1, <1>2, <1>4, <1>5, CacheAssumption DEF Name

(* A path is its parent and its name. *)
LEMMA ParentAndName ==
    ASSUME NEW p \in Paths, NEW q \in Paths, p # <<>>, q # <<>>,
           Parent(p) = Parent(q), Name(p) = Name(q)
    PROVE  p = q
<1>1. p \in Seq(Names) /\ Len(p) \in Nat /\ q \in Seq(Names) /\ Len(q) \in Nat
  BY PathIsSeq
<1>2. /\ Len(p) >= 1 /\ Len(Parent(p)) = Len(p) - 1 /\ Name(p) = p[Len(p)]
      /\ \A i \in 1 .. Len(p) - 1 : Parent(p)[i] = p[i]
  BY ParentFacts
<1>3. /\ Len(q) >= 1 /\ Len(Parent(q)) = Len(q) - 1 /\ Name(q) = q[Len(q)]
      /\ \A i \in 1 .. Len(q) - 1 : Parent(q)[i] = q[i]
  BY ParentFacts
<1>4. Len(p) = Len(q)
  BY <1>1, <1>2, <1>3
<1>5. \A i \in 1 .. Len(p) : p[i] = q[i]
  <2> TAKE i \in 1 .. Len(p)
  <2>1. CASE i = Len(p)
    BY <1>2, <1>3, <1>4, <2>1
  <2>2. CASE i # Len(p)
    <3>1. i \in 1 .. Len(p) - 1
      BY <1>1, <2>2
    <3>2. p[i] = Parent(p)[i]
      BY <1>2, <3>1
    <3>3. q[i] = Parent(q)[i]
      BY <1>3, <1>4, <3>1
    <3> QED
      BY <3>2, <3>3
  <2> QED
    BY <2>1, <2>2
<1> QED
  BY <1>1, <1>4, <1>5, SamePath

(* Below a path lies it and whatever has its parent there. *)
LEMMA BelowByParent ==
    ASSUME NEW p \in Paths, p # <<>>, NEW k \in Paths
    PROVE  /\ k \in Below(k)
           /\ Parent(p) \in Below(k) => p \in Below(k)
           /\ p \in Below(k) /\ p # k => Parent(p) \in Below(k)
           /\ Parent(p) \notin Below(p)
           /\ k # <<>> => <<>> \notin Below(k)
<1>1. p \in Seq(Names) /\ Len(p) \in Nat /\ k \in Seq(Names) /\ Len(k) \in Nat
  BY PathIsSeq
<1>2. /\ Len(p) >= 1 /\ Len(Parent(p)) = Len(p) - 1 /\ Parent(p) \in Paths
      /\ \A i \in 1 .. Len(p) - 1 : Parent(p)[i] = p[i]
  BY ParentFacts
<1>3. k \in Below(k)
  BY <1>1, BelowIff
<1>4. ASSUME Parent(p) \in Below(k) PROVE p \in Below(k)
  <2>1. Len(k) <= Len(p) - 1 /\ \A i \in 1 .. Len(k) : Parent(p)[i] = k[i]
    BY <1>2, <1>4, BelowIff
  <2>2. Len(k) <= Len(p) /\ \A i \in 1 .. Len(k) : p[i] = k[i]
    BY <1>1, <1>2, <2>1
  <2> QED
    BY <2>2, BelowIff
<1>5. ASSUME p \in Below(k), p # k PROVE Parent(p) \in Below(k)
  <2>1. Len(k) <= Len(p) /\ \A i \in 1 .. Len(k) : p[i] = k[i]
    BY <1>5, BelowIff
  <2>2. Len(k) # Len(p)
    BY <1>1, <1>5, <2>1, SamePath
  <2>3. Len(k) <= Len(Parent(p)) /\ \A i \in 1 .. Len(k) : Parent(p)[i] = k[i]
    BY <1>1, <1>2, <2>1, <2>2
  <2> QED
    BY <1>2, <2>3, BelowIff
<1>6. Parent(p) \notin Below(p)
  BY <1>1, <1>2, BelowIff
<1>7. k # <<>> => <<>> \notin Below(k)
  <2>1. k # <<>> => Len(k) >= 1
    BY <1>1
  <2> QED
    BY <1>1, <2>1 DEF Below
<1> QED
  BY <1>3, <1>4, <1>5, <1>6, <1>7

(* Below a path below. *)
LEMMA BelowBelow ==
    ASSUME NEW p \in Paths, NEW q \in Paths, NEW k \in Paths, p \in Below(q), q \in Below(k)
    PROVE  p \in Below(k)
<1>1. p \in Seq(Names) /\ Len(p) \in Nat /\ k \in Seq(Names) /\ Len(k) \in Nat
        /\ q \in Seq(Names) /\ Len(q) \in Nat
  BY PathIsSeq
<1>2. Len(q) <= Len(p) /\ \A i \in 1 .. Len(q) : p[i] = q[i]
  BY BelowIff
<1>3. Len(k) <= Len(q) /\ \A i \in 1 .. Len(k) : q[i] = k[i]
  BY BelowIff
<1>4. Len(k) <= Len(p) /\ \A i \in 1 .. Len(k) : p[i] = k[i]
  BY <1>1, <1>2, <1>3
<1> QED
  BY <1>4, BelowIff

(* Nothing lies below a file. *)
LEMMA BelowDirs ==
    ASSUME NEW p \in Paths, NEW k \in Paths, p \in Below(k), p # k \/ p \in Dirs
    PROVE  k \in Dirs
<1>1. CASE p = k
  BY <1>1
<1>2. CASE p # k
  <2>1. p \in Seq(Names) /\ Len(p) \in Nat /\ k \in Seq(Names) /\ Len(k) \in Nat
    BY PathIsSeq
  <2>2. Len(k) <= Len(p) /\ SubSeq(p, 1, Len(k)) = k
    BY DEF Below
  <2>3. Len(k) # Len(p)
    BY <1>2, <2>1, <2>2, SubSeqFull
  <2>4. Len(k) \in 0 .. Len(p) - 1
    BY <2>1, <2>2, <2>3
  <2> QED
    BY <2>2, <2>4, CacheAssumption
<1> QED
  BY <1>1, <1>2

(* What the storage holds below a path, it holds with the path. *)
LEMMA StoreBelow ==
    ASSUME NEW p \in Paths, NEW k \in Paths, p \in Below(k), p \in store, StoreIsTree
    PROVE  k \in store
<1>1. Len(p) \in Nat /\ Len(k) \in Nat
  BY PathIsSeq
<1>2. Len(k) <= Len(p) /\ SubSeq(p, 1, Len(k)) = k
  BY DEF Below
<1>3. Len(k) \in 0 .. Len(p)
  BY <1>1, <1>2
<1>4. \A n \in 0 .. Len(p) : SubSeq(p, 1, n) \in store
  BY DEF StoreIsTree
<1>5. SubSeq(p, 1, Len(k)) \in store
  BY <1>3, <1>4
<1> QED
  BY <1>2, <1>5
-----------------------------------------------------------------------------
(* An entry has the name of its object. *)
LEMMA EntryFacts ==
    ASSUME NEW p \in Paths, p # <<>>, NEW t \in BOOLEAN
    PROVE  Entry(p, t) \in Entries /\ Entry(p, t).name = Name(p) /\ Entry(p, t).temp = t
  BY DEF Entry, Entries

(* In one directory the name tells the object. *)
LEMMA NameTells ==
    ASSUME NEW d, NEW p \in Kids(d), NEW q \in Kids(d), Name(p) = Name(q)
    PROVE  p = q
  BY ParentAndName DEF Kids

(* There is a first entry of a name if there is any. *)
LEMMA FirstFacts ==
    ASSUME NEW objs \in Seq(Entries), NEW n, Named(objs, n) # {}
    PROVE  First(objs, n) \in 1 .. Len(objs) /\ objs[First(objs, n)].name = n
<1> DEFINE I == Named(objs, n)
<1>1. I \subseteq 1 .. Len(objs) /\ I \subseteq Nat /\ I # {}
  BY DEF Named
<1> HIDE DEF I
<1>2. \E i \in I : \A j \in I : i <= j
  <2>1. \E i \in I : \A j \in I : ~(<<j, i>> \in OpToRel(<, Nat))
    BY <1>1, WFMin, NatLessThanWellFounded
  <2>2. PICK i \in I : \A j \in I : ~(<<j, i>> \in OpToRel(<, Nat))
    BY <2>1
  <2>3. ASSUME NEW j \in I PROVE i <= j
    <3>1. i \in Nat /\ j \in Nat
      BY <1>1
    <3>2. ~(j < i)
      BY <2>2, <3>1 DEF OpToRel
    <3> QED
      BY <3>1, <3>2
  <2> QED
    BY <2>3
<1>3. First(objs, n) \in I
  <2>1. (CHOOSE i \in I : \A j \in I : i <= j) \in I
    BY <1>2
  <2> QED
    BY <2>1 DEF First, I
<1> QED
  BY <1>1, <1>3 DEF Named, I

(* A listing shows an object just when it has its name. *)
LEMMA ShowsNamed ==
    ASSUME NEW objs \in Seq(Entries), NEW d, NEW S, S \subseteq Kids(d), Shows(objs, S),
           NEW p \in Kids(d)
    PROVE  Named(objs, Name(p)) # {} <=> p \in S
<1>1. ASSUME Named(objs, Name(p)) # {} PROVE p \in S
  <2>1. PICK i \in DOMAIN objs : objs[i].name = Name(p)
    BY <1>1 DEF Named
  <2>2. PICK q \in S : Name(q) = Name(p)
    BY <2>1 DEF Shows
  <2>3. q = p
    BY <2>2, NameTells
  <2> QED
    BY <2>3
<1>2. ASSUME p \in S PROVE Named(objs, Name(p)) # {}
  <2>1. Name(p) \in {objs[i].name : i \in DOMAIN objs}
    BY <1>2 DEF Shows
  <2> QED
    BY <2>1 DEF Named
<1> QED
  BY <1>1, <1>2

(* A listing is as long as there are objects in it. *)
LEMMA ShowsCount ==
    ASSUME NEW objs \in Seq(Entries), NEW d, NEW S, S \subseteq Kids(d), Shows(objs, S)
    PROVE  Len(objs) = Cardinality(S)
<1> DEFINE n == Len(objs)
           f == [i \in 1 .. n |-> CHOOSE p \in S : Name(p) = objs[i].name]
<1>1. n \in Nat /\ DOMAIN objs = 1 .. n
  OBVIOUS
<1>2. \A i \in 1 .. n : \E p \in S : Name(p) = objs[i].name
  BY <1>1 DEF Shows
<1>3. \A i \in 1 .. n : f[i] \in S /\ Name(f[i]) = objs[i].name
  BY <1>2
<1>4. f \in [1 .. n -> S]
  BY <1>3
<1> HIDE DEF f, n
<1>5. f \in Injection(1 .. n, S)
  <2>1. \A i, j \in 1 .. n : f[i] = f[j] => i = j
    BY <1>1, <1>3 DEF Shows
  <2> QED
    BY <1>4, <2>1 DEF Injection, IsInjective
<1>6. f \in Surjection(1 .. n, S)
  <2>1. ASSUME NEW p \in S PROVE \E i \in 1 .. n : f[i] = p
    <3>1. PICK i \in 1 .. n : objs[i].name = Name(p)
      BY <1>1 DEF Shows
    <3>2. f[i] \in Kids(d) /\ p \in Kids(d) /\ Name(f[i]) = Name(p)
      BY <1>3, <3>1
    <3>3. f[i] = p
      BY <3>2, NameTells
    <3> QED
      BY <3>3
  <2> QED
    BY <1>4, <2>1 DEF Surjection
<1>7. ExistsBijection(1 .. n, S)
  BY <1>5, <1>6 DEF ExistsBijection, Bijection
<1>8. IsFiniteSet(1 .. n) /\ Cardinality(1 .. n) = n
  BY <1>1, FS_Interval
<1>9. Cardinality(S) = Cardinality(1 .. n)
  BY <1>7, <1>8, FS_Bijection
<1> QED
  BY <1>8, <1>9 DEF n

(* What the driver lists is what the directory holds. *)
LEMMA ListingShows ==
    ASSUME NEW d, store \subseteq Paths
    PROVE  /\ Listing(d) \in Seq(Entries) /\ \A i \in DOMAIN Listing(d) : ~Listing(d)[i].temp
           /\ Children(d) \subseteq Kids(d) /\ Shows(Listing(d), Children(d))
<1> DEFINE K == Children(d)
           n == Cardinality(K)
           E == {Entry(p, FALSE) : p \in K}
           Whole(s) == \A p \in K : \E i \in DOMAIN s : s[i] = Entry(p, FALSE)
<1>1. K \subseteq Kids(d) /\ K \subseteq Paths
  BY DEF Children, Kids
<1>2. IsFiniteSet(K) /\ n \in Nat
  BY <1>1, CacheAssumption, FS_Subset, FS_CardinalityType
<1>3. IsFiniteSet(1 .. n) /\ Cardinality(1 .. n) = n
  BY <1>2, FS_Interval
<1>4. \A p \in K : Entry(p, FALSE) \in Entries /\ Entry(p, FALSE).name = Name(p) /\ ~Entry(p, FALSE).temp
  BY <1>1, EntryFacts DEF Kids
<1>5. \E s \in [1 .. n -> E] : Whole(s)
  <2>1. PICK g \in Bijection(1 .. n, K) : TRUE
    BY <1>2, <1>3, FS_SameCardinalityBij DEF ExistsBijection
  <2>2. g \in [1 .. n -> K] /\ \A p \in K : \E i \in 1 .. n : g[i] = p
    BY <2>1 DEF Bijection, Surjection, Injection
  <2> DEFINE s == [i \in 1 .. n |-> Entry(g[i], FALSE)]
  <2>3. s \in [1 .. n -> E]
    BY <2>2
  <2>4. Whole(s)
    BY <2>2
  <2> QED
    BY <2>3, <2>4
<1> DEFINE l == Listing(d)
<1>6. l \in [1 .. n -> E] /\ Whole(l)
  <2> DEFINE t == CHOOSE s \in [1 .. n -> E] : Whole(s)
  <2>1. t \in [1 .. n -> E] /\ Whole(t)
    <3> HIDE DEF Whole, E, n
    <3> QED
      BY <1>5
  <2>2. l = t
    BY DEF Listing
  <2> QED
    BY <2>1, <2>2
<1>7. E \subseteq Entries
  BY <1>4
<1>8. l \in Seq(Entries) /\ DOMAIN l = 1 .. n /\ \A i \in 1 .. n : ~l[i].temp
  <2>1. l \in [1 .. n -> Entries]
    BY <1>6, <1>7
  <2>2. \A i \in 1 .. n : ~l[i].temp
    BY <1>4, <1>6
  <2> HIDE DEF n, l
  <2> QED
    BY <1>2, <2>1, <2>2
<1> HIDE DEF l
<1> DEFINE h == [i \in 1 .. n |-> CHOOSE p \in K : Entry(p, FALSE) = l[i]]
<1>9. \A i \in 1 .. n : h[i] \in K /\ Entry(h[i], FALSE) = l[i] /\ Name(h[i]) = l[i].name
  <2>1. \A i \in 1 .. n : \E p \in K : Entry(p, FALSE) = l[i]
    BY <1>6
  <2> QED
    BY <1>4, <2>1
<1>10. h \in [1 .. n -> K]
  BY <1>9
<1> HIDE DEF h
<1>11. h \in Surjection(1 .. n, K)
  <2>1. ASSUME NEW p \in K PROVE \E i \in 1 .. n : h[i] = p
    <3>1. PICK i \in 1 .. n : l[i] = Entry(p, FALSE)
      BY <1>6, <1>8
    <3>2. Name(h[i]) = Name(p)
      BY <1>4, <1>9, <3>1
    <3>3. h[i] \in Kids(d) /\ p \in Kids(d)
      BY <1>1, <1>9
    <3>4. h[i] = p
      BY <3>2, <3>3, NameTells
    <3> QED
      BY <3>4
  <2> QED
    BY <1>10, <2>1 DEF Surjection
<1>12. h \in Injection(1 .. n, K)
  BY <1>3, <1>11, FS_SurjSameCardinalityImpliesInj
<1>13. \A i, j \in 1 .. n : l[i].name = l[j].name => i = j
  <2> TAKE i, j \in 1 .. n
  <2> HAVE l[i].name = l[j].name
  <2>1. h[i] \in Kids(d) /\ h[j] \in Kids(d) /\ Name(h[i]) = Name(h[j])
    BY <1>1, <1>9
  <2>2. h[i] = h[j]
    BY <2>1, NameTells
  <2> QED
    BY <1>12, <2>2 DEF Injection, IsInjective
<1>14. {l[i].name : i \in 1 .. n} = {Name(p) : p \in K}
  <2>1. ASSUME NEW i \in 1 .. n PROVE l[i].name \in {Name(p) : p \in K}
    BY <1>9
  <2>2. ASSUME NEW p \in K PROVE Name(p) \in {l[i].name : i \in 1 .. n}
    BY <1>4, <1>6, <1>8
  <2> QED
    BY <2>1, <2>2
<1>15. Shows(l, K)
  BY <1>8, <1>13, <1>14 DEF Shows
<1> QED
  BY <1>1, <1>8, <1>15 DEF l
-----------------------------------------------------------------------------
(* RemoveObject takes the object out. *)
LEMMA RemoveFacts ==
    ASSUME NEW objs \in Seq(Entries), NEW n
    PROVE  /\ RemoveObject(objs, n) \in Seq(Entries)
           /\ \A d, S : \A p \in S :
                 S \subseteq Kids(d) /\ Shows(objs, S) /\ n = Name(p) => Shows(RemoveObject(objs, n), S \ {p})
<1>1. CASE Named(objs, n) = {}
  <2>1. RemoveObject(objs, n) = objs
    BY <1>1 DEF RemoveObject
  <2>2. ASSUME NEW d, NEW S, NEW p \in S, S \subseteq Kids(d), Shows(objs, S), n = Name(p) PROVE FALSE
    BY <1>1, <2>2, ShowsNamed
  <2> QED
    BY <2>1, <2>2
<1>2. CASE Named(objs, n) # {}
  <2> DEFINE i == First(objs, n)
             r == RemoveObject(objs, n)
             a == SubSeq(objs, 1, i - 1)
             b == SubSeq(objs, i + 1, Len(objs))
  <2>1. i \in 1 .. Len(objs) /\ objs[i].name = n /\ Len(objs) \in Nat
    BY <1>2, FirstFacts
  <2>2. r = a \o b
    BY <1>2 DEF RemoveObject
  <2>3. a \in Seq(Entries) /\ Len(a) = i - 1 /\ \A j \in 1 .. i - 1 : a[j] = objs[j]
    <3>1. i - 1 \in Int /\ 1 \in Int /\ \A j \in 1 .. i - 1 : objs[j] \in Entries
      BY <2>1
    <3>2. /\ a \in Seq(Entries)
          /\ Len(a) = IF 1 <= i - 1 THEN i - 1 - 1 + 1 ELSE 0
          /\ \A j \in 1 .. i - 1 - 1 + 1 : a[j] = objs[1 + j - 1]
      BY <3>1, SubSeqProperties
    <3> HIDE DEF a, i
    <3> QED
      BY <2>1, <3>2
  <2>4. b \in Seq(Entries) /\ Len(b) = Len(objs) - i /\ \A j \in 1 .. Len(objs) - i : b[j] = objs[i + j]
    <3>1. i + 1 \in Int /\ Len(objs) \in Int /\ \A j \in i + 1 .. Len(objs) : objs[j] \in Entries
      BY <2>1
    <3>2. /\ b \in Seq(Entries)
          /\ Len(b) = IF i + 1 <= Len(objs) THEN Len(objs) - (i + 1) + 1 ELSE 0
          /\ \A j \in 1 .. Len(objs) - (i + 1) + 1 : b[j] = objs[i + 1 + j - 1]
      BY <3>1, SubSeqProperties
    <3> HIDE DEF b, i
    <3> QED
      BY <2>1, <3>2
  <2> HIDE DEF a, b, i, r
  <2>5. /\ r \in Seq(Entries) /\ Len(r) = Len(objs) - 1
        /\ \A j \in 1 .. Len(r) : r[j] = IF j < i THEN objs[j] ELSE objs[j + 1]
    <3>1. /\ r \in Seq(Entries) /\ Len(r) = Len(a) + Len(b)
          /\ \A j \in 1 .. Len(a) + Len(b) : r[j] = IF j <= Len(a) THEN a[j] ELSE b[j - Len(a)]
      BY <2>2, <2>3, <2>4, ConcatProperties
    <3>2. Len(r) = Len(objs) - 1
      BY <2>1, <2>3, <2>4, <3>1
    <3>3. ASSUME NEW j \in 1 .. Len(r) PROVE r[j] = IF j < i THEN objs[j] ELSE objs[j + 1]
      <4>1. CASE j < i
        <5>1. j \in 1 .. i - 1 /\ j <= Len(a)
          BY <2>1, <2>3, <3>2, <4>1
        <5> QED
          BY <2>3, <3>1, <4>1, <5>1
      <4>2. CASE ~(j < i)
        <5>1. j - Len(a) \in 1 .. Len(objs) - i /\ ~(j <= Len(a)) /\ i + (j - Len(a)) = j + 1
          BY <2>1, <2>3, <3>2, <4>2
        <5>2. r[j] = b[j - Len(a)]
          BY <3>1, <5>1
        <5>3. b[j - Len(a)] = objs[i + (j - Len(a))]
          BY <2>4, <5>1
        <5> QED
          BY <4>2, <5>1, <5>2, <5>3
      <4> QED
        BY <4>1, <4>2
    <3> QED
      BY <3>1, <3>2, <3>3
  <2>6. ASSUME NEW d, NEW S, NEW p \in S, S \subseteq Kids(d), Shows(objs, S), n = Name(p)
        PROVE  Shows(r, S \ {p})
    <3>1. \A j, k \in 1 .. Len(objs) : objs[j].name = objs[k].name => j = k
      BY <2>1, <2>6 DEF Shows
    <3>2. ASSUME NEW j \in 1 .. Len(r), NEW k \in 1 .. Len(r), r[j].name = r[k].name PROVE j = k
      <4> DEFINE J == IF j < i THEN j ELSE j + 1
                 K == IF k < i THEN k ELSE k + 1
      <4>1. J \in 1 .. Len(objs) /\ K \in 1 .. Len(objs) /\ r[j] = objs[J] /\ r[k] = objs[K]
        BY <2>1, <2>5
      <4>2. J = K
        BY <3>1, <3>2, <4>1
      <4> QED
        BY <2>1, <2>5, <4>2
    <3>3. ASSUME NEW j \in 1 .. Len(r) PROVE r[j].name \in {Name(q) : q \in S \ {p}}
      <4> DEFINE J == IF j < i THEN j ELSE j + 1
      <4>1. J \in 1 .. Len(objs) /\ J # i /\ r[j] = objs[J]
        BY <2>1, <2>5
      <4>2. objs[J].name # n
        BY <2>1, <3>1, <4>1
      <4>3. PICK q \in S : Name(q) = objs[J].name
        <5>1. objs[J].name \in {objs[k].name : k \in DOMAIN objs}
          BY <2>1, <4>1
        <5> QED
          BY <2>6, <5>1 DEF Shows
      <4> QED
        BY <2>6, <4>1, <4>2, <4>3
    <3>4. ASSUME NEW q \in S \ {p} PROVE Name(q) \in {r[j].name : j \in 1 .. Len(r)}
      <4>1. PICK J \in 1 .. Len(objs) : objs[J].name = Name(q)
        BY <2>1, <2>6 DEF Shows
      <4>2. Name(q) # n
        BY <2>6, NameTells
      <4>3. J # i
        BY <2>1, <4>1, <4>2
      <4>4. CASE J < i
        <5>1. J \in 1 .. Len(r) /\ r[J] = objs[J]
          BY <2>1, <2>5, <4>4
        <5> QED
          BY <4>1, <5>1
      <4>5. CASE ~(J < i)
        <5>1. J - 1 \in 1 .. Len(r) /\ ~(J - 1 < i) /\ (J - 1) + 1 = J
          BY <2>1, <2>5, <4>3, <4>5
        <5>2. r[J - 1] = objs[J]
          BY <2>5, <5>1
        <5> QED
          BY <4>1, <5>1, <5>2
      <4> QED
        BY <4>4, <4>5
    <3>5. DOMAIN r = 1 .. Len(r)
      BY <2>5
    <3> QED
      BY <3>2, <3>3, <3>4, <3>5 DEF Shows
  <2> QED
    BY <2>5, <2>6 DEF r
<1> QED
  BY <1>1, <1>2

(* An object that is not in the listing is appended. *)
LEMMA AppendFacts ==
    ASSUME NEW objs \in Seq(Entries), NEW q \in Paths, q # <<>>, NEW t \in BOOLEAN
    PROVE  /\ Append(objs, Entry(q, t)) \in Seq(Entries)
           /\ \A d, S : S \subseteq Kids(d) /\ q \in Kids(d) \ S /\ Shows(objs, S)
                 => Shows(Append(objs, Entry(q, t)), S \cup {q})
<1> DEFINE e == Entry(q, t)
           r == Append(objs, e)
<1>1. e \in Entries /\ e.name = Name(q)
  BY EntryFacts
<1> HIDE DEF e
<1>2. /\ r \in Seq(Entries) /\ Len(r) = Len(objs) + 1 /\ Len(objs) \in Nat
      /\ \A i \in 1 .. Len(objs) : r[i] = objs[i]
      /\ r[Len(objs) + 1] = e
  BY <1>1, AppendProperties
<1> HIDE DEF r
<1>3. ASSUME NEW d, NEW S, S \subseteq Kids(d), q \in Kids(d), q \notin S, Shows(objs, S)
      PROVE  Shows(r, S \cup {q})
  <2>1. Named(objs, Name(q)) = {}
    BY <1>3, ShowsNamed
  <2>2. \A i \in 1 .. Len(objs) : objs[i].name # Name(q)
    BY <2>1 DEF Named
  <2>3. \A i, j \in 1 .. Len(objs) : objs[i].name = objs[j].name => i = j
    BY <1>3 DEF Shows
  <2>4. DOMAIN r = 1 .. Len(objs) + 1
    BY <1>2
  <2>5. ASSUME NEW i \in DOMAIN r, NEW j \in DOMAIN r, r[i].name = r[j].name PROVE i = j
    <3>1. i \in 1 .. Len(objs) \/ i = Len(objs) + 1
      BY <1>2, <2>4
    <3>2. j \in 1 .. Len(objs) \/ j = Len(objs) + 1
      BY <1>2, <2>4
    <3> QED
      BY <1>1, <1>2, <2>2, <2>3, <2>5, <3>1, <3>2
  <2>6. ASSUME NEW i \in DOMAIN r PROVE r[i].name \in {Name(p) : p \in S \cup {q}}
    <3>1. i \in 1 .. Len(objs) \/ i = Len(objs) + 1
      BY <1>2, <2>4
    <3>2. CASE i \in 1 .. Len(objs)
      <4>1. objs[i].name \in {objs[k].name : k \in DOMAIN objs}
        BY <1>2, <3>2
      <4>2. objs[i].name \in {Name(p) : p \in S}
        BY <1>3, <4>1 DEF Shows
      <4> QED
        BY <1>2, <3>2, <4>2
    <3>3. CASE i = Len(objs) + 1
      BY <1>1, <1>2, <3>3
    <3> QED
      BY <3>1, <3>2, <3>3
  <2>7. ASSUME NEW p \in S \cup {q} PROVE Name(p) \in {r[i].name : i \in DOMAIN r}
    <3>1. CASE p = q
      <4>1. Len(objs) + 1 \in DOMAIN r
        BY <1>2, <2>4
      <4> QED
        BY <1>1, <1>2, <3>1, <4>1
    <3>2. CASE p \in S
      <4>1. PICK i \in 1 .. Len(objs) : objs[i].name = Name(p)
        BY <1>3, <3>2 DEF Shows
      <4>2. i \in DOMAIN r
        BY <1>2, <2>4
      <4> QED
        BY <1>2, <4>1, <4>2
    <3> QED
      BY <3>1, <3>2
  <2> QED
    BY <2>5, <2>6, <2>7 DEF Shows
<1> QED
  BY <1>2, <1>3 DEF r, e

(* UpdateObject puts the object q in the place of p, if the listing has p,  *)
(* and adds it otherwise.                                                   *)
LEMMA UpdateFacts ==
    ASSUME NEW objs \in Seq(Entries), NEW p \in Paths, p # <<>>,
           NEW q \in Paths, q # <<>>, NEW t \in BOOLEAN
    PROVE  LET r == UpdateObject(objs, Name(p), Entry(q, t))
           IN  /\ r \in Seq(Entries)
               /\ \A d, S : /\ S \subseteq Kids(d) /\ q \in Kids(d) /\ Shows(objs, S)
                            /\ \/ p \in S /\ q \notin S \ {p}
                               \/ q \notin S /\ Name(p) = Name(q)
                            => Shows(r, (IF p \in S THEN S \ {p} ELSE S) \cup {q})
<1> DEFINE e == Entry(q, t)
           n == Name(p)
           r == UpdateObject(objs, n, e)
<1>1. e \in Entries /\ e.name = Name(q)
  BY EntryFacts
<1>2. CASE Named(objs, n) = {}
  <2>1. r = Append(objs, e)
    BY <1>2 DEF UpdateObject
  <2>2. ASSUME NEW d, NEW S, S \subseteq Kids(d), q \in Kids(d), Shows(objs, S),
               \/ p \in S /\ q \notin S \ {p}
               \/ q \notin S /\ Name(p) = Name(q)
        PROVE  p \notin S /\ q \notin S
    BY <1>2, <2>2, ShowsNamed
  <2> QED
    BY <2>1, <2>2, AppendFacts
<1>3. CASE Named(objs, n) # {}
  <2> DEFINE i == First(objs, n)
  <2>1. i \in 1 .. Len(objs) /\ objs[i].name = n /\ Len(objs) \in Nat
    BY <1>3, FirstFacts
  <2>2. r = [objs EXCEPT ![i] = e]
    BY <1>3 DEF UpdateObject
  <2> HIDE DEF i, e, r
  <2>3. /\ r \in Seq(Entries) /\ DOMAIN r = 1 .. Len(objs) /\ DOMAIN objs = 1 .. Len(objs)
        /\ \A j \in 1 .. Len(objs) : r[j] = IF j = i THEN e ELSE objs[j]
    BY <1>1, <2>1, <2>2
  <2>4. ASSUME NEW d, NEW S, S \subseteq Kids(d), q \in Kids(d), Shows(objs, S),
               \/ p \in S /\ q \notin S \ {p}
               \/ q \notin S /\ Name(p) = Name(q)
        PROVE  Shows(r, (IF p \in S THEN S \ {p} ELSE S) \cup {q})
    <3>1. p \in S /\ q \notin S \ {p}
      <4>1. ASSUME q \notin S, Name(p) = Name(q) PROVE FALSE
        BY <1>3, <2>4, <4>1, ShowsNamed
      <4> QED
        BY <2>4, <4>1
    <3>2. \A j, k \in 1 .. Len(objs) : objs[j].name = objs[k].name => j = k
      BY <2>3, <2>4 DEF Shows
    <3>3. \A j \in 1 .. Len(objs) : j # i => objs[j].name # n
      BY <2>1, <3>2
    <3>4. \A j \in 1 .. Len(objs) : j # i => \E s \in S \ {p} : Name(s) = objs[j].name
      <4> TAKE j \in 1 .. Len(objs)
      <4> HAVE j # i
      <4>1. PICK s \in S : Name(s) = objs[j].name
        <5>1. objs[j].name \in {objs[h].name : h \in DOMAIN objs}
          BY <2>3
        <5>2. objs[j].name \in {Name(s) : s \in S}
          BY <2>4, <5>1 DEF Shows
        <5> QED
          BY <5>2
      <4> QED
        BY <3>3, <4>1
    <3>5. \A j \in 1 .. Len(objs) : j # i => objs[j].name # Name(q)
      <4> TAKE j \in 1 .. Len(objs)
      <4> HAVE j # i
      <4>1. PICK s \in S \ {p} : Name(s) = objs[j].name
        BY <3>4
      <4>2. s # q /\ s \in Kids(d)
        BY <2>4, <3>1
      <4> QED
        BY <2>4, <4>1, <4>2, NameTells
    <3>6. ASSUME NEW j \in DOMAIN r, NEW k \in DOMAIN r, r[j].name = r[k].name PROVE j = k
      BY <1>1, <2>3, <3>2, <3>5, <3>6
    <3>7. ASSUME NEW j \in DOMAIN r PROVE r[j].name \in {Name(s) : s \in (S \ {p}) \cup {q}}
      BY <1>1, <2>3, <3>4
    <3>8. ASSUME NEW s \in (S \ {p}) \cup {q} PROVE Name(s) \in {r[j].name : j \in DOMAIN r}
      <4>1. CASE s = q
        BY <1>1, <2>1, <2>3, <4>1
      <4>2. CASE s \in S \ {p}
        <5>1. PICK j \in 1 .. Len(objs) : objs[j].name = Name(s)
          BY <2>3, <2>4, <4>2 DEF Shows
        <5>2. Name(s) # n
          BY <2>4, <3>1, <4>2, NameTells
        <5>3. j # i
          BY <2>1, <5>1, <5>2
        <5> QED
          BY <2>3, <5>1, <5>3
      <4> QED
        BY <4>1, <4>2
    <3>9. Shows(r, (S \ {p}) \cup {q})
      BY <3>6, <3>7, <3>8 DEF Shows
    <3> QED
      BY <3>1, <3>9
  <2> QED
    BY <2>3, <2>4 DEF r, e
<1> QED
  BY <1>2, <1>3
-----------------------------------------------------------------------------
(* A cache as it may be. *)
CacheType(C) ==
    /\ C \in [Dirs -> [in : BOOLEAN, objs : Seq(Entries)]]
    /\ \A d \in Dirs : ~C[d].in => C[d] = Absent

(* A cache of which some listings may be gone. *)
Loses(C, D) == \A d \in Dirs : D[d] = C[d] \/ D[d] = Absent

(* An entry that is not there. *)
LEMMA AbsentType == Absent \in [in : BOOLEAN, objs : Seq(Entries)] /\ ~Absent.in
  BY DEF Absent

(* deleteDirectoryTree drops listings below its path, and no others. *)
LEMMA DeleteFacts ==
    ASSUME NEW C, CacheType(C), NEW k
    PROVE  /\ CacheType(DeleteTree(C, k)) /\ Loses(C, DeleteTree(C, k))
           /\ \A d \in Dirs : d \notin Below(k) => DeleteTree(C, k)[d] = C[d]
           /\ \A d \in Reached(C, k) : d \in Dirs /\ DeleteTree(C, k)[d] = Absent
<1>1. Reached(C, k) \subseteq Dirs \cap Below(k)
  BY DEF Reached
<1>2. \A d \in Dirs : DeleteTree(C, k)[d] = IF d \in Reached(C, k) THEN Absent ELSE C[d]
  BY DEF DeleteTree
<1>3. DeleteTree(C, k) \in [Dirs -> [in : BOOLEAN, objs : Seq(Entries)]]
  BY AbsentType DEF CacheType, DeleteTree
<1> QED
  BY <1>1, <1>2, <1>3 DEF CacheType, Loses

(* A directory is reached from itself. *)
LEMMA ReachesItself ==
    ASSUME NEW C, NEW d \in Dirs
    PROVE  d \in Reached(C, d)
<1>1. d \in Paths /\ Len(d) \in Nat
  BY CacheAssumption, PathIsSeq
<1>2. d \in Below(d)
  BY <1>1, BelowIff
<1>3. Len(d) .. Len(d) - 1 = {}
  BY <1>1
<1> QED
  BY <1>2, <1>3 DEF Reached

(* An answer replaces the listing of its directory, and may drop others. *)
LEMMA FilledFacts ==
    ASSUME NEW C, CacheType(C), NEW d \in Dirs, NEW objs \in Seq(Entries)
    PROVE  /\ CacheType(Filled(C, d, objs))
           /\ Filled(C, d, objs)[d] \in {Present(objs), Absent}
           /\ \A e \in Dirs : e # d => Filled(C, d, objs)[e] \in {C[e], Absent}
<1>1. CASE objs = <<>>
  <2>1. Filled(C, d, objs) = DeleteTree(C, d)
    BY <1>1 DEF Filled
  <2>2. DeleteTree(C, d)[d] = Absent
    BY DeleteFacts, ReachesItself
  <2> QED
    BY <2>1, <2>2, DeleteFacts DEF Loses
<1>2. CASE objs # <<>>
  <2>1. Filled(C, d, objs) = [C EXCEPT ![d] = Present(objs)]
    BY <1>2 DEF Filled
  <2>2. Present(objs) \in [in : BOOLEAN, objs : Seq(Entries)] /\ Present(objs).in
    BY DEF Present
  <2> QED
    BY <2>1, <2>2 DEF CacheType
<1> QED
  BY <1>1, <1>2

(* Forget takes the object from the listing of its parent, drops what is    *)
(* reached below it, and leaves the other listings or drops them.           *)
LEMMA ForgetFacts ==
    ASSUME NEW C, CacheType(C), NEW k, k.path \in Paths, k.path # <<>>
    PROVE  LET up == Parent(k.path)
               F  == Forget(C, k)
           IN  /\ CacheType(F) /\ up \in Dirs
               /\ C[up].in => F[up] = [in |-> TRUE, objs |-> RemoveObject(C[up].objs, Name(k.path))]
               /\ ~C[up].in => F = C
               /\ \A d \in Dirs : d # up => F[d] \in {C[d], Absent}
               /\ C[up].in /\ k.path \in Dirs => \A d \in Reached(C, k.path) : d \in Dirs /\ F[d] = Absent
<1> DEFINE up == Parent(k.path)
           F  == Forget(C, k)
           T  == IF k.path \in Dirs THEN DeleteTree(C, k.path) ELSE C
<1>1. up \in Dirs /\ up \notin Below(k.path)
  BY ParentFacts, BelowByParent
<1>2. CASE ~C[up].in
  BY <1>1, <1>2 DEF Forget
<1>3. CASE C[up].in
  <2>1. CacheType(T) /\ Loses(C, T) /\ T[up] = C[up]
    BY <1>1, DeleteFacts DEF Loses
  <2>2. k.path \in Dirs => \A d \in Reached(C, k.path) : d \in Dirs /\ T[d] = Absent
    BY DeleteFacts
  <2>3. F = [T EXCEPT ![up].objs = RemoveObject(@, Name(k.path))]
    BY <1>3 DEF Forget
  <2> HIDE DEF T
  <2>4. T[up] \in [in : BOOLEAN, objs : Seq(Entries)] /\ T[up].in
    BY <1>1, <1>3, <2>1 DEF CacheType
  <2>5. RemoveObject(T[up].objs, Name(k.path)) \in Seq(Entries)
    BY <2>4, RemoveFacts
  <2>6. F = [T EXCEPT ![up] = [in |-> TRUE, objs |-> RemoveObject(T[up].objs, Name(k.path))]]
    BY <2>3, <2>4
  <2> HIDE DEF F
  <2>7. /\ F \in [Dirs -> [in : BOOLEAN, objs : Seq(Entries)]]
        /\ F[up] = [in |-> TRUE, objs |-> RemoveObject(T[up].objs, Name(k.path))]
        /\ \A d \in Dirs : d # up => F[d] = T[d]
    BY <1>1, <2>1, <2>5, <2>6 DEF CacheType
  <2>8. CacheType(F)
    <3>1. ASSUME NEW d \in Dirs, ~F[d].in PROVE F[d] = Absent
      <4>1. d # up
        BY <2>7, <3>1
      <4>2. F[d] = T[d] /\ ~T[d].in
        BY <2>7, <3>1, <4>1
      <4> QED
        BY <2>1, <4>2 DEF CacheType
    <3> QED
      BY <2>7, <3>1 DEF CacheType
  <2>9. \A d \in Dirs : d # up => F[d] \in {C[d], Absent}
    BY <2>1, <2>7 DEF Loses
  <2>10. k.path \in Dirs => \A d \in Reached(C, k.path) : d \in Dirs /\ F[d] = Absent
    <3>1. Reached(C, k.path) \subseteq Below(k.path)
      BY DEF Reached
    <3> QED
      BY <1>1, <2>2, <2>7, <3>1
  <2> QED
    BY <1>1, <1>3, <2>1, <2>7, <2>8, <2>9, <2>10 DEF F
<1> QED
  BY <1>2, <1>3

(* Remember enters the object in the listing of its parent; for a rename it *)
(* drops what is reached below the old path.                                *)
LEMMA RememberFacts ==
    ASSUME NEW C, CacheType(C), NEW k, NEW t \in BOOLEAN,
           k.path \in Paths, k.path # <<>>, k.new \in Paths, k.new # <<>>,
           k.op = "rename" => Parent(k.new) = Parent(k.path)
    PROVE  LET up == Parent(k.new)
               F  == Remember(C, k, t)
               e  == Entry(k.new, t)
           IN  /\ CacheType(F) /\ up \in Dirs
               /\ C[up].in => F[up] = [in |-> TRUE,
                                       objs |-> IF k.op = "makedir" THEN Append(C[up].objs, e)
                                                ELSE UpdateObject(C[up].objs, Name(k.path), e)]
               /\ ~C[up].in => F = C
               /\ \A d \in Dirs : d # up => F[d] \in {C[d], Absent}
               /\ C[up].in /\ k.path \in Dirs /\ k.op = "rename"
                    => \A d \in Reached(C, k.path) : d \in Dirs /\ F[d] = Absent
<1> DEFINE up == Parent(k.new)
           F  == Remember(C, k, t)
           e  == Entry(k.new, t)
           T  == IF k.op = "rename" /\ k.path \in Dirs THEN DeleteTree(C, k.path) ELSE C
           O  == IF k.op = "makedir" THEN Append(C[up].objs, e)
                 ELSE UpdateObject(C[up].objs, Name(k.path), e)
<1>1. up \in Dirs /\ (k.op = "rename" => up \notin Below(k.path))
  BY ParentFacts, BelowByParent
<1>2. CASE ~C[up].in
  BY <1>1, <1>2 DEF Remember
<1>3. CASE C[up].in
  <2>1. CacheType(T) /\ Loses(C, T) /\ T[up] = C[up]
    BY <1>1, DeleteFacts DEF Loses
  <2>2. k.path \in Dirs /\ k.op = "rename" => \A d \in Reached(C, k.path) : d \in Dirs /\ T[d] = Absent
    BY DeleteFacts
  <2>3. C[up] \in [in : BOOLEAN, objs : Seq(Entries)]
    BY <1>1 DEF CacheType
  <2>4. O \in Seq(Entries)
    BY <2>3, AppendFacts, UpdateFacts
  <2>5. F = [T EXCEPT ![up] = [in |-> TRUE, objs |-> O]]
    <3>1. CASE k.op = "makedir"
      <4>1. T = C
        BY <3>1
      <4>2. F = [C EXCEPT ![up].objs = Append(@, e)]
        BY <1>3, <3>1 DEF Remember
      <4> QED
        BY <1>3, <2>3, <3>1, <4>1, <4>2
    <3>2. CASE k.op # "makedir"
      <4>1. F = [T EXCEPT ![up].objs = UpdateObject(@, Name(k.path), e)]
        BY <1>3, <3>2 DEF Remember
      <4> HIDE DEF T
      <4>2. T[up].in = TRUE
        BY <1>3, <2>1, <2>3
      <4>3. T[up] \in [in : BOOLEAN, objs : Seq(Entries)]
        BY <2>1, <2>3
      <4> QED
        BY <2>1, <3>2, <4>1, <4>2, <4>3
    <3> QED
      BY <3>1, <3>2
  <2> HIDE DEF T, F, O
  <2>6. /\ F \in [Dirs -> [in : BOOLEAN, objs : Seq(Entries)]]
        /\ F[up] = [in |-> TRUE, objs |-> O]
        /\ \A d \in Dirs : d # up => F[d] = T[d]
    BY <1>1, <2>1, <2>4, <2>5 DEF CacheType
  <2>7. CacheType(F)
    <3>1. ASSUME NEW d \in Dirs, ~F[d].in PROVE F[d] = Absent
      <4>1. d # up
        BY <2>6, <3>1
      <4>2. F[d] = T[d] /\ ~T[d].in
        BY <2>6, <3>1, <4>1
      <4> QED
        BY <2>1, <4>2 DEF CacheType
    <3> QED
      BY <2>6, <3>1 DEF CacheType
  <2>8. \A d \in Dirs : d # up => F[d] \in {C[d], Absent}
    BY <2>1, <2>6 DEF Loses
  <2>9. k.path \in Dirs /\ k.op = "rename" => \A d \in Reached(C, k.path) : d \in Dirs /\ F[d] = Absent
    <3>1. Reached(C, k.path) \subseteq Below(k.path)
      BY DEF Reached
    <3> QED
      BY <1>1, <2>2, <2>6, <3>1
  <2> QED
    BY <1>1, <1>3, <2>6, <2>7, <2>8, <2>9 DEF F, O
<1> QED
  BY <1>2, <1>3
-----------------------------------------------------------------------------
(* A path lies below each of its fronts, which are the fronts of its parent. *)
LEMMA FrontBelow ==
    ASSUME NEW p \in Paths, NEW n \in 0 .. Len(p)
    PROVE  /\ p \in Below(SubSeq(p, 1, n))
           /\ n # Len(p) => /\ p # <<>> /\ n \in 0 .. Len(Parent(p))
                            /\ SubSeq(p, 1, n) = SubSeq(Parent(p), 1, n)
           /\ n = Len(p) => SubSeq(p, 1, n) = p
<1>1. p \in Seq(Names) /\ Len(p) \in Nat
  BY PathIsSeq
<1> DEFINE s == SubSeq(p, 1, n)
<1>2. s \in Seq(Names) /\ Len(s) = n /\ s \in Paths /\ \A i \in 1 .. n : s[i] = p[i]
  BY FrontFacts
<1>3. n = Len(p) => s = p
  BY <1>1, SubSeqFull
<1> HIDE DEF s
<1>4. p \in Below(s)
  BY <1>1, <1>2, BelowIff
<1>5. ASSUME n # Len(p)
      PROVE  p # <<>> /\ n \in 0 .. Len(Parent(p)) /\ s = SubSeq(Parent(p), 1, n)
  <2>1. p # <<>>
    BY <1>1, <1>5
  <2>2. /\ Parent(p) \in Paths /\ Len(Parent(p)) = Len(p) - 1
        /\ \A i \in 1 .. Len(p) - 1 : Parent(p)[i] = p[i]
    BY <2>1, ParentFacts
  <2>3. n \in 0 .. Len(Parent(p))
    BY <1>1, <1>5, <2>2
  <2> DEFINE t == SubSeq(Parent(p), 1, n)
  <2>4. t \in Seq(Names) /\ Len(t) = n /\ \A i \in 1 .. n : t[i] = Parent(p)[i]
    BY <2>2, <2>3, FrontFacts
  <2> HIDE DEF t
  <2>5. \A i \in 1 .. n : s[i] = t[i]
    <3> TAKE i \in 1 .. n
    <3>1. i \in 1 .. Len(p) - 1
      BY <1>1, <2>2, <2>3
    <3>2. t[i] = Parent(p)[i] /\ s[i] = p[i]
      BY <1>2, <2>4
    <3> QED
      BY <2>2, <3>1, <3>2
  <2>6. s = t
    BY <1>2, <2>4, <2>5, SamePath
  <2> QED
    BY <2>1, <2>3, <2>6 DEF t
<1> QED
  BY <1>3, <1>4, <1>5 DEF s

(* The back of a sequence. *)
LEMMA BackFacts ==
    ASSUME NEW p \in Seq(Names), NEW a \in Nat, a <= Len(p)
    PROVE  /\ SubSeq(p, a + 1, Len(p)) \in Seq(Names)
           /\ Len(SubSeq(p, a + 1, Len(p))) = Len(p) - a
           /\ \A i \in 1 .. Len(p) - a : SubSeq(p, a + 1, Len(p))[i] = p[a + i]
<1> DEFINE b == SubSeq(p, a + 1, Len(p))
<1>1. a + 1 \in Int /\ Len(p) \in Int /\ \A i \in a + 1 .. Len(p) : p[i] \in Names
  OBVIOUS
<1>2. /\ b \in Seq(Names)
      /\ Len(b) = IF a + 1 <= Len(p) THEN Len(p) - (a + 1) + 1 ELSE 0
      /\ \A i \in 1 .. Len(p) - (a + 1) + 1 : b[i] = p[a + 1 + i - 1]
  BY <1>1, SubSeqProperties
<1> HIDE DEF b
<1>3. Len(b) = Len(p) - a
  BY <1>1, <1>2
<1>4. ASSUME NEW i \in 1 .. Len(p) - a PROVE b[i] = p[a + i]
  <2>1. i \in 1 .. Len(p) - (a + 1) + 1 /\ a + 1 + i - 1 = a + i
    BY <1>1
  <2> QED
    BY <1>2, <2>1
<1> QED
  BY <1>2, <1>3, <1>4 DEF b

(* Where an object of the tree at k.path appears below k.new. *)
LEMMA MovedFacts ==
    ASSUME NEW k, k.path \in Paths, k.new \in Paths, NEW p \in Paths, p \in Below(k.path)
    PROVE  /\ Moved(k, p) \in Seq(Names)
           /\ Len(Moved(k, p)) = Len(k.new) + (Len(p) - Len(k.path))
           /\ Len(k.path) <= Len(p)
           /\ \A i \in 1 .. Len(Moved(k, p)) :
                 Moved(k, p)[i] = IF i <= Len(k.new) THEN k.new[i] ELSE p[i - Len(k.new) + Len(k.path)]
           /\ Moved(k, k.path) = k.new
<1>1. /\ p \in Seq(Names) /\ Len(p) \in Nat /\ k.path \in Seq(Names) /\ Len(k.path) \in Nat
      /\ k.new \in Seq(Names) /\ Len(k.new) \in Nat
  BY PathIsSeq
<1>2. Len(k.path) <= Len(p)
  BY DEF Below
<1> DEFINE b == SubSeq(p, Len(k.path) + 1, Len(p))
           m == Moved(k, p)
<1>3. b \in Seq(Names) /\ Len(b) = Len(p) - Len(k.path) /\ \A i \in 1 .. Len(b) : b[i] = p[Len(k.path) + i]
  <2>1. \A a \in Nat : a <= Len(p) =>
           /\ SubSeq(p, a + 1, Len(p)) \in Seq(Names)
           /\ Len(SubSeq(p, a + 1, Len(p))) = Len(p) - a
           /\ \A i \in 1 .. Len(p) - a : SubSeq(p, a + 1, Len(p))[i] = p[a + i]
    BY <1>1, BackFacts
  <2>2. /\ b \in Seq(Names) /\ Len(b) = Len(p) - Len(k.path)
        /\ \A i \in 1 .. Len(p) - Len(k.path) : b[i] = p[Len(k.path) + i]
    BY <1>1, <1>2, <2>1
  <2> QED
    BY <2>2
<1>4. m = k.new \o b
  BY DEF Moved
<1> HIDE DEF b, m
<1>5. /\ m \in Seq(Names) /\ Len(m) = Len(k.new) + Len(b)
      /\ \A i \in 1 .. Len(k.new) + Len(b) : m[i] = IF i <= Len(k.new) THEN k.new[i] ELSE b[i - Len(k.new)]
  BY <1>1, <1>3, <1>4, ConcatProperties
<1>6. ASSUME NEW i \in 1 .. Len(m)
      PROVE  m[i] = IF i <= Len(k.new) THEN k.new[i] ELSE p[i - Len(k.new) + Len(k.path)]
  <2>1. CASE i <= Len(k.new)
    BY <1>5, <2>1
  <2>2. CASE ~(i <= Len(k.new))
    <3>1. i - Len(k.new) \in 1 .. Len(b) /\ Len(k.path) + (i - Len(k.new)) = i - Len(k.new) + Len(k.path)
      <4>1. i \in Nat /\ i <= Len(k.new) + Len(b) /\ Len(b) \in Nat
        <5>1. Len(b) \in Nat
          BY <1>3
        <5>2. Len(m) = Len(k.new) + Len(b)
          BY <1>5
        <5>3. Len(k.new) + Len(b) \in Nat
          BY <1>1, <5>1
        <5> QED
          BY <5>1, <5>2, <5>3
      <4>2. Len(k.new) \in Nat /\ Len(k.path) \in Nat
        BY <1>1
      <4> QED
        BY <2>2, <4>1, <4>2
    <3> QED
      BY <1>3, <1>5, <2>2, <3>1
  <2> QED
    BY <2>1, <2>2
<1>7. Moved(k, k.path) = k.new
  <2>1. SubSeq(k.path, Len(k.path) + 1, Len(k.path)) = <<>>
    BY <1>1, SubSeqEmpty
  <2> QED
    BY <1>1, <2>1, ConcatEmptySeq DEF Moved
<1> QED
  BY <1>2, <1>3, <1>5, <1>6, <1>7 DEF m

(* It appears below k.new. *)
LEMMA MovedBelow ==
    ASSUME NEW k, k.path \in Paths, k.new \in Paths, NEW p \in Paths, p \in Below(k.path),
           Moved(k, p) \in Paths
    PROVE  Moved(k, p) \in Below(k.new)
<1> DEFINE m == Moved(k, p)
<1>1. Len(p) \in Nat /\ Len(k.path) \in Nat /\ Len(k.new) \in Nat
  BY PathIsSeq
<1>2. /\ Len(m) = Len(k.new) + (Len(p) - Len(k.path)) /\ Len(k.path) <= Len(p)
      /\ \A i \in 1 .. Len(m) : m[i] = IF i <= Len(k.new) THEN k.new[i] ELSE p[i - Len(k.new) + Len(k.path)]
  BY MovedFacts
<1> HIDE DEF m
<1>3. Len(k.new) <= Len(m)
  BY <1>1, <1>2
<1>4. ASSUME NEW i \in 1 .. Len(k.new) PROVE m[i] = k.new[i]
  <2>1. i \in 1 .. Len(m) /\ i <= Len(k.new)
    BY <1>1, <1>2, <1>3
  <2> QED
    BY <1>2, <2>1
<1> QED
  BY <1>3, <1>4, BelowIff DEF m

(* The two places of an operation that copies or moves a tree are apart. *)
LEMMA PlacesApart ==
    ASSUME NEW k, k.path \in Paths, k.new \in Paths, Sensible(k), Accepts(k), StoreIsTree,
           k.op \in {"move", "rename", "copy"}
    PROVE  /\ k.path \in store /\ k.new \notin store /\ k.new # k.path
           /\ k.path \notin Below(k.new) /\ k.new \notin Below(k.path)
<1>1. k.path \in store /\ k.new \notin store
  BY DEF Accepts
<1>2. k.new # k.path
  BY <1>1
<1>3. k.path \notin Below(k.new)
  BY <1>1, StoreBelow
<1>4. k.new \notin Below(k.path)
  BY <1>2 DEF Sensible
<1> QED
  BY <1>1, <1>2, <1>3, <1>4

(* What an operation does to the storage keeps it a tree. *)
LEMMA ChangedIsTree ==
    ASSUME NEW k, k.path \in Paths, k.new \in Paths, Sensible(k), Accepts(k), StoreIsTree,
           store \subseteq Paths
    PROVE  /\ Changed(k) \subseteq Paths /\ <<>> \in Changed(k)
           /\ \A p \in Changed(k) : \A n \in 0 .. Len(p) : SubSeq(p, 1, n) \in Changed(k)
<1> DEFINE Kept  == IF k.op \in Removing THEN store \ Tree(k) ELSE store
           Added == CASE k.op = "remove" -> {}
                      [] k.op \in {"makedir", "put"} -> {k.new}
                      [] OTHER -> {Moved(k, p) : p \in Tree(k)}
<1>1. Changed(k) = Kept \cup Added
  BY DEF Changed, Removing
<1>2. k.op \in Operations
  BY DEF Sensible
<1>3. ASSUME NEW p \in Kept, NEW n \in 0 .. Len(p) PROVE SubSeq(p, 1, n) \in Kept
  <2> DEFINE s == SubSeq(p, 1, n)
  <2>1. p \in store /\ p \in Paths /\ s \in store
    BY <1>3 DEF StoreIsTree
  <2>2. p \in Below(s) /\ s \in Paths
    BY <2>1, FrontBelow
  <2> HIDE DEF s
  <2>3. s \in Below(k.path) => p \in Below(k.path)
    BY <2>1, <2>2, BelowBelow
  <2> QED
    BY <2>1, <2>3 DEF Tree, s
<1>4. Kept \subseteq Paths /\ <<>> \in Kept
  <2>1. k.path # <<>>
    BY DEF Sensible
  <2>2. <<>> \notin Below(k.path)
    BY <2>1, BelowByParent
  <2> QED
    BY <2>2 DEF StoreIsTree, Tree
<1>5. k.op # "remove" => Parent(k.new) \in Kept /\ k.new # <<>>
  <2>1. k.op # "remove" => Parent(k.new) \in store
    BY DEF Accepts
  <2>2. k.new # <<>>
    BY DEF Sensible
  <2>3. Parent(k.new) \in Below(k.path) => k.new \in Below(k.path)
    BY <2>2, BelowByParent
  <2>4. k.op \in {"move", "rename"} => k.new \notin Below(k.path)
    BY PlacesApart
  <2>5. k.op \in Removing /\ k.op # "remove" => k.op \in {"move", "rename"}
    BY DEF Removing
  <2> QED
    BY <2>1, <2>2, <2>3, <2>4, <2>5 DEF Tree
<1>6. k.op # "remove" => \A n \in 0 .. Len(k.new) : n # Len(k.new) => SubSeq(k.new, 1, n) \in Kept
  <2> SUFFICES ASSUME k.op # "remove", NEW n \in 0 .. Len(k.new), n # Len(k.new)
               PROVE  SubSeq(k.new, 1, n) \in Kept
    OBVIOUS
  <2>1. n \in 0 .. Len(Parent(k.new)) /\ SubSeq(k.new, 1, n) = SubSeq(Parent(k.new), 1, n)
    BY FrontBelow
  <2>2. SubSeq(Parent(k.new), 1, n) \in Kept
    BY <1>3, <1>5, <2>1
  <2> QED
    BY <2>1, <2>2
<1>7. CASE k.op = "remove"
  BY <1>1, <1>3, <1>4, <1>7
<1>8. CASE k.op \in {"makedir", "put"}
  <2>1. Added = {k.new}
    BY <1>8
  <2>2. \A n \in 0 .. Len(k.new) : SubSeq(k.new, 1, n) \in Kept \cup {k.new}
    BY <1>6, <1>8, FrontBelow
  <2> QED
    BY <1>1, <1>3, <1>4, <2>1, <2>2
<1>9. CASE k.op \in {"move", "rename", "copy"}
  <2>1. Added = {Moved(k, p) : p \in Tree(k)}
    BY <1>9
  <2>2. \A p \in Tree(k) : Moved(k, p) \in Paths
    BY <1>9 DEF Accepts
  <2>3. ASSUME NEW t \in Tree(k), NEW n \in 0 .. Len(Moved(k, t))
        PROVE  SubSeq(Moved(k, t), 1, n) \in Kept \cup Added
    <3> DEFINE m == Moved(k, t)
               s == SubSeq(m, 1, n)
    <3>1. t \in Paths /\ t \in Below(k.path) /\ t \in store /\ m \in Paths
      BY <2>2 DEF Tree
    <3>2. /\ Len(t) \in Nat /\ Len(k.path) \in Nat /\ Len(k.new) \in Nat
          /\ t \in Seq(Names) /\ k.path \in Seq(Names) /\ k.new \in Seq(Names)
      BY <3>1, PathIsSeq
    <3>3. /\ Len(m) = Len(k.new) + (Len(t) - Len(k.path)) /\ Len(k.path) <= Len(t)
          /\ \A i \in 1 .. Len(m) : m[i] = IF i <= Len(k.new) THEN k.new[i] ELSE t[i - Len(k.new) + Len(k.path)]
      BY <3>1, MovedFacts
    <3>4. s \in Seq(Names) /\ Len(s) = n /\ \A i \in 1 .. n : s[i] = m[i]
      BY <3>1, FrontFacts
    <3> HIDE DEF m, s
    <3>5. CASE n < Len(k.new)
      <4> DEFINE f == SubSeq(k.new, 1, n)
      <4>1. n \in 0 .. Len(k.new) /\ n # Len(k.new)
        BY <2>3, <3>2, <3>5
      <4>2. f \in Kept /\ f \in Seq(Names) /\ Len(f) = n /\ \A i \in 1 .. n : f[i] = k.new[i]
        BY <1>6, <1>9, <4>1, FrontFacts
      <4> HIDE DEF f
      <4>3. ASSUME NEW i \in 1 .. n PROVE s[i] = f[i]
        <5>1. i \in 1 .. Len(m) /\ i <= Len(k.new)
          BY <3>2, <3>3, <3>5, <4>1
        <5> QED
          BY <3>3, <3>4, <4>2, <5>1
      <4>4. s = f
        BY <3>4, <4>2, <4>3, SamePath
      <4> QED
        BY <4>2, <4>4 DEF s, m
    <3>6. CASE ~(n < Len(k.new))
      <4> DEFINE j == n - Len(k.new) + Len(k.path)
                 f == SubSeq(t, 1, j)
                 g == Moved(k, f)
      <4>1. n \in 0 .. Len(m)
        BY DEF m
      <4>2. j \in 0 .. Len(t) /\ Len(k.path) <= j /\ j \in Nat
        BY <3>2, <3>3, <3>6, <4>1
      <4>3. f \in Paths /\ Len(f) = j /\ \A i \in 1 .. j : f[i] = t[i]
        BY <3>1, <4>2, FrontFacts
      <4>4. f \in store
        BY <3>1, <4>2 DEF StoreIsTree
      <4> HIDE DEF f
      <4>5. f \in Below(k.path)
        <5>1. \A i \in 1 .. Len(k.path) : t[i] = k.path[i]
          BY <3>1, BelowIff
        <5>2. \A i \in 1 .. Len(k.path) : f[i] = k.path[i]
          BY <3>2, <4>2, <4>3, <5>1, SMTT(30)
        <5> QED
          BY <4>2, <4>3, <5>2, BelowIff
      <4>6. /\ g \in Seq(Names) /\ Len(g) = Len(k.new) + (j - Len(k.path))
            /\ \A i \in 1 .. Len(g) : g[i] = IF i <= Len(k.new) THEN k.new[i] ELSE f[i - Len(k.new) + Len(k.path)]
        <5>1. \A q \in Paths : q \in Below(k.path) =>
                 /\ Moved(k, q) \in Seq(Names)
                 /\ Len(Moved(k, q)) = Len(k.new) + (Len(q) - Len(k.path))
                 /\ \A i \in 1 .. Len(Moved(k, q)) :
                       Moved(k, q)[i] = IF i <= Len(k.new) THEN k.new[i] ELSE q[i - Len(k.new) + Len(k.path)]
          BY MovedFacts
        <5> QED
          BY <4>3, <4>5, <5>1
      <4> HIDE DEF g
      <4>7. Len(g) = n
        BY <3>2, <4>1, <4>6
      <4>8. ASSUME NEW i \in 1 .. n PROVE s[i] = g[i]
        <5>1. i \in 1 .. Len(m)
          BY <3>2, <3>3, <4>1
        <5>2. CASE i <= Len(k.new)
          BY <3>3, <3>4, <4>6, <4>7, <5>1, <5>2
        <5>3. CASE ~(i <= Len(k.new))
          <6>1. i - Len(k.new) + Len(k.path) \in 1 .. j
            BY <3>2, <4>1, <5>3, SMTT(30)
          <6> QED
            BY <3>3, <3>4, <4>3, <4>6, <4>7, <5>1, <5>3, <6>1
        <5> QED
          BY <5>2, <5>3
      <4>9. s = g
        BY <3>4, <4>6, <4>7, <4>8, SamePath
      <4>10. f \in Tree(k)
        BY <4>4, <4>5 DEF Tree
      <4> QED
        BY <2>1, <4>9, <4>10 DEF s, m, g
    <3> QED
      BY <3>5, <3>6
  <2> HIDE DEF Kept, Added
  <2>4. ASSUME NEW p \in Kept \cup Added PROVE p \in Paths /\ \A n \in 0 .. Len(p) : SubSeq(p, 1, n) \in Kept \cup Added
    BY <1>3, <1>4, <2>1, <2>2, <2>3
  <2> QED
    BY <1>1, <1>4, <2>4
<1> QED
  BY <1>2, <1>7, <1>8, <1>9 DEF Operations

(* An operation takes its object from one directory and gives it to         *)
(* another; the rest of what it changes lies below its two paths.           *)
LEMMA ChangedThere ==
    ASSUME NEW k, k.path \in Paths, k.new \in Paths, Sensible(k), Accepts(k), StoreIsTree,
           store \subseteq Paths,
           NEW d \in Dirs, d \notin Below(k.new), k.op \in Removing => d \notin Below(k.path)
    PROVE  /\ d \in Changed(k) <=> d \in store
           /\ {p \in Changed(k) : p # <<>> /\ Parent(p) = d} =
                 (Children(d) \ {p \in {k.path} : k.op \in Removing /\ Parent(p) = d})
                    \cup {p \in {k.new} : k.op # "remove" /\ Parent(p) = d}
<1> DEFINE Kept  == IF k.op \in Removing THEN store \ Tree(k) ELSE store
           Added == CASE k.op = "remove" -> {}
                      [] k.op \in {"makedir", "put"} -> {k.new}
                      [] OTHER -> {Moved(k, p) : p \in Tree(k)}
           Taken == {p \in {k.path} : k.op \in Removing /\ Parent(p) = d}
           Given == {p \in {k.new} : k.op # "remove" /\ Parent(p) = d}
<1>1. Changed(k) = Kept \cup Added
  BY DEF Changed, Removing
<1>2. k.op \in Operations /\ k.new # <<>> /\ k.path # <<>> /\ (k.op = "remove" => k.new = k.path)
  BY DEF Sensible
<1>3. Added \subseteq Below(k.new) /\ (k.op # "remove" => k.new \in Added)
  <2>1. k.new \in Below(k.new)
    BY <1>2, BelowByParent
  <2>2. CASE k.op \in {"remove", "makedir", "put"}
    BY <2>1, <2>2
  <2>3. CASE k.op \in {"move", "rename", "copy"}
    <3>1. Added = {Moved(k, p) : p \in Tree(k)}
      BY <2>3
    <3>2. \A p \in Tree(k) : p \in Paths /\ p \in Below(k.path) /\ Moved(k, p) \in Paths
      BY <2>3 DEF Accepts, Tree
    <3>3. \A p \in Tree(k) : Moved(k, p) \in Below(k.new)
      BY <3>2, MovedBelow
    <3>4. k.path \in Tree(k)
      <4>1. k.path \in store /\ k.path \in Below(k.path)
        BY <1>2, <2>3, BelowByParent, PlacesApart
      <4> QED
        BY <4>1 DEF Tree
    <3>5. Moved(k, k.path) = k.new
      BY <3>2, <3>4, MovedFacts
    <3> QED
      BY <3>1, <3>3, <3>4, <3>5
  <2> QED
    BY <1>2, <2>2, <2>3 DEF Operations
<1>4. d \in Changed(k) <=> d \in store
  BY <1>1, <1>3 DEF Tree
<1>5. ASSUME NEW p \in Kept, p # <<>>, Parent(p) = d PROVE p \in Children(d) \ Taken
  <2>1. p \in Children(d)
    BY <1>5 DEF Children
  <2>2. k.path \in Below(k.path)
    BY <1>2, BelowByParent
  <2>3. p \notin Taken
    BY <1>5, <2>2 DEF Tree
  <2> QED
    BY <2>1, <2>3
<1>6. ASSUME NEW p \in Added, p # <<>>, Parent(p) = d PROVE p \in Given
  <2>1. p \in Below(k.new) /\ p \in Paths
    BY <1>3, <1>6 DEF Below
  <2>2. p = k.new
    BY <1>6, <2>1, BelowByParent
  <2>3. k.op # "remove"
    BY <1>6
  <2> QED
    BY <1>6, <2>2, <2>3
<1>7. ASSUME NEW p \in Children(d), p \notin Taken PROVE p \in Kept
  <2>1. p \in store /\ p \in Paths /\ p # <<>> /\ Parent(p) = d
    BY <1>7 DEF Children
  <2>2. k.op \in Removing => p \notin Below(k.path)
    BY <1>7, <2>1, BelowByParent
  <2> QED
    BY <2>1, <2>2 DEF Tree
<1>8. ASSUME NEW p \in Given PROVE p \in Added /\ p # <<>> /\ Parent(p) = d
  BY <1>2, <1>3, <1>8
<1>9. Children(d) \subseteq {p \in Paths : p # <<>> /\ Parent(p) = d}
  BY DEF Children
<1> HIDE DEF Kept, Added, Taken, Given
<1>10. {p \in Kept \cup Added : p # <<>> /\ Parent(p) = d} = (Children(d) \ Taken) \cup Given
  <2>1. ASSUME NEW p \in (Children(d) \ Taken) \cup Given
        PROVE  p \in Kept \cup Added /\ p # <<>> /\ Parent(p) = d
    BY <1>7, <1>8, <1>9
  <2> QED
    BY <1>5, <1>6, <2>1
<1> QED
  BY <1>1, <1>4, <1>10 DEF Taken, Given
-----------------------------------------------------------------------------
(* What a caller performs. *)
CallType == [op : Operations \cup {"none"}, path : Paths, new : Paths,
             pc : {"idle", "find", "wait", "target", "driver", "update", "update2"},
             lost : BOOLEAN]

(* A caller that performs nothing. *)
LEMMA IdleType == Idle \in CallType /\ Idle.pc = "idle" /\ Idle.op = "none"
<1>1. <<>> \in Paths
  BY CacheAssumption
<1> QED
  BY <1>1 DEF Idle, CallType, Operations

(* What the types say of the cache and of a call under way. *)
LEMMA CallFacts ==
    ASSUME CacheTypeOK, CallsFit, NEW c \in Calls, call[c].pc # "idle"
    PROVE  /\ CacheType(cached) /\ store \subseteq Paths
           /\ call[c] \in CallType /\ Sensible(call[c])
           /\ call[c].path \in Paths /\ call[c].path # <<>>
           /\ call[c].new \in Paths /\ call[c].new # <<>>
           /\ Parent(call[c].path) \in Dirs /\ Parent(call[c].new) \in Dirs
<1>1. CacheType(cached) /\ store \subseteq Paths /\ call[c] \in CallType
  BY DEF CacheTypeOK, CacheType, CallType
<1>2. Sensible(call[c])
  BY DEF CallsFit
<1>3. call[c].path # <<>> /\ call[c].new # <<>>
  BY <1>2 DEF Sensible
<1>4. call[c].path \in Paths /\ call[c].new \in Paths
  BY <1>1 DEF CallType
<1> QED
  BY <1>1, <1>2, <1>3, <1>4, ParentFacts

(* The place of a call in its operation does not matter to what Begin saw.  *)
LEMMA SensibleSame ==
    ASSUME NEW k, NEW l, Sensible(k), l.op = k.op, l.path = k.path, l.new = k.new
    PROVE  Sensible(l)
  BY DEF Sensible

(* Calls that stay, end or go on fit as before. *)
GoesOn(k, l) ==
    /\ k.pc # "idle" /\ l.op = k.op /\ l.path = k.path /\ l.new = k.new
    /\ l.pc = "update2" => k.op = "move"

(* A lookup ends the call or sends it on to the driver. *)
LEMMA AfterFacts ==
    ASSUME NEW k \in CallType, NEW found \in BOOLEAN, NEW lost \in BOOLEAN, k.pc # "idle"
    PROVE  LET l == After(k, found, lost)
           IN  /\ l \in CallType /\ (l.pc = "idle" <=> l = Idle)
               /\ l.pc \in {"idle", "target", "driver"}
               /\ l = Idle \/ GoesOn(k, l)
               /\ k.op # "makedir" /\ found => l.pc # "idle"
<1> DEFINE m == [k EXCEPT !.pc = IF k.op \in Giving THEN "target" ELSE "driver", !.lost = lost]
<1>1. /\ m \in CallType /\ m.pc \in {"target", "driver"} /\ m # Idle
      /\ m.op = k.op /\ m.path = k.path /\ m.new = k.new
  BY IdleType DEF CallType
<1>2. After(k, found, lost) = IF found = (k.op = "makedir") THEN Idle ELSE m
  BY DEF After
<1> HIDE DEF m
<1>3. After(k, found, lost) \in {Idle, m} /\ (k.op # "makedir" /\ found => After(k, found, lost) = m)
  BY <1>2
<1> QED
  BY <1>1, <1>3, IdleType DEF GoesOn

(* Such steps of the callers keep what Begin has seen to. *)
LEMMA CallsKept ==
    ASSUME CacheTypeOK, CallsFit,
           \A c \in Calls : call'[c] = call[c] \/ call'[c] = Idle \/ GoesOn(call[c], call'[c])
    PROVE  CallsFit'
<1> SUFFICES ASSUME NEW c \in Calls
             PROVE  /\ call'[c].pc # "idle" => Sensible(call'[c])
                    /\ call'[c].pc = "update2" => call'[c].op = "move"
  BY DEF CallsFit
<1>1. /\ call[c].pc # "idle" => Sensible(call[c])
      /\ call[c].pc = "update2" => call[c].op = "move"
  BY DEF CallsFit
<1>2. CASE call'[c] = call[c]
  BY <1>1, <1>2
<1>3. CASE call'[c] = Idle
  BY <1>3, IdleType
<1>4. CASE GoesOn(call[c], call'[c])
  <2>2. /\ call'[c].op = call[c].op /\ call'[c].path = call[c].path /\ call'[c].new = call[c].new
        /\ call'[c].pc = "update2" => call[c].op = "move"
    BY <1>4 DEF GoesOn
  <2>3. Sensible(call[c])
    BY <1>1, <1>4 DEF GoesOn
  <2>4. Sensible(call'[c])
    BY <2>2, <2>3, SensibleSame
  <2> QED
    BY <2>2, <2>4
<1> QED
  BY <1>2, <1>3, <1>4

(* A listing that is the same, in doubt or gone fits if its directory and   *)
(* the operations at work on it are the same.                               *)
LEMMA StillFits ==
    ASSUME NEW d \in Dirs, Fits(d),
           Children(d)' = Children(d), d \in store => d \in store',
           Pending(d)' = Pending(d), \A c \in Pending(d) : call'[c] = call[c],
           cached'[d].in /\ d \notin doubted' => cached'[d] = cached[d] /\ d \notin doubted
    PROVE  Fits(d)'
<1> SUFFICES ASSUME cached'[d].in, d \notin doubted'
             PROVE  /\ Pending(d)' = {} => d \in store' /\ Shows(cached'[d].objs, Children(d)')
                    /\ \A c \in Calls : Pending(d)' = {c} =>
                            \/ Leaving(d, call'[c])
                            \/ d \in store' /\ Awaits(d, call'[c], cached'[d].objs, Children(d)')
  BY DEF Fits
<1>1. cached'[d] = cached[d] /\ cached[d].in /\ d \notin doubted
  OBVIOUS
<1> QED
  BY <1>1 DEF Fits

(* So do all listings when nothing changes but calls that have not changed  *)
(* the storage.                                                             *)
LEMMA ListingsKept ==
    ASSUME CacheTypeOK, ListingsFit, store' = store,
           \A c \in Calls : call'[c] = call[c] \/ (~Updating(c) /\ call'[c].pc \notin {"update", "update2"}),
           \A d \in Dirs : cached'[d].in /\ d \notin doubted' => cached'[d] = cached[d] /\ d \notin doubted
    PROVE  ListingsFit'
<1> SUFFICES ASSUME NEW d \in Dirs PROVE Fits(d)'
  BY DEF ListingsFit
<1>1. Fits(d)
  BY DEF ListingsFit
<1>2. Children(d)' = Children(d)
  BY DEF Children
<1>3. Pending(d)' = Pending(d) /\ \A c \in Pending(d) : call'[c] = call[c]
  BY DEF Pending, Updating, Touched
<1> QED
  BY <1>1, <1>2, <1>3, StillFits

(* Listings stay in doubt while a call that was led astray is to update     *)
(* them.                                                                    *)
LEMMA LostKept ==
    ASSUME LostInDoubt,
           \A c \in Calls : Updating(c)' /\ call'[c].lost =>
                Updating(c) /\ call[c].lost /\ Touched(call'[c]) = Touched(call[c]),
           \A d \in Dirs : cached'[d].in /\ d \notin doubted' /\ Pending(d) # {} =>
                cached[d].in /\ d \notin doubted
    PROVE  LostInDoubt'
<1> SUFFICES ASSUME NEW c \in Calls, NEW d \in Dirs, Updating(c)', call'[c].lost,
                    d \in Touched(call'[c]), cached'[d].in, d \notin doubted'
             PROVE  FALSE
  BY DEF LostInDoubt, Touched
<1>1. Updating(c) /\ call[c].lost /\ d \in Touched(call[c])
  OBVIOUS
<1>2. c \in Pending(d)
  BY <1>1 DEF Pending
<1>3. cached[d].in /\ d \notin doubted
  BY <1>2
<1> QED
  BY <1>1, <1>3 DEF LostInDoubt

(* A directory that is found in a listing that is not stale is there.       *)
LEMMA FoundIsThere ==
    ASSUME CacheTypeOK, StoreIsTree, ListingsFit, NEW d \in Dirs, Finds(d), ~Astray(d)
    PROVE  d \in store
<1>1. CASE d = <<>>
  BY <1>1 DEF StoreIsTree
<1>2. CASE d # <<>>
  <2> DEFINE up == Parent(d)
  <2>1. d \in Paths /\ up \in Dirs
    BY <1>2, CacheAssumption, ParentFacts
  <2>2. CASE ~cached[up].in
    BY <1>2, <2>2 DEF Finds
  <2>3. CASE cached[up].in
    <3>1. Named(cached[up].objs, Name(d)) # {}
      BY <1>2, <2>3 DEF Finds
    <3>2. up \notin doubted /\ Pending(up) = {}
      BY <1>2, <2>3 DEF Astray, Stale
    <3>3. Shows(cached[up].objs, Children(up))
      BY <2>1, <2>3, <3>2 DEF ListingsFit, Fits
    <3>4. cached[up].objs \in Seq(Entries) /\ Children(up) \subseteq Kids(up) /\ d \in Kids(up)
      BY <1>2, <2>1 DEF CacheTypeOK, Children, Kids
    <3>5. d \in Children(up)
      BY <3>1, <3>3, <3>4, ShowsNamed
    <3> QED
      BY <3>5 DEF Children
  <2> QED
    BY <2>2, <2>3
<1> QED
  BY <1>1, <1>2

(* The storage is a tree as long as it is the same. *)
LEMMA TreeKept ==
    ASSUME StoreIsTree, store' = store
    PROVE  StoreIsTree'
  BY DEF StoreIsTree

(* Answers under way are right as long as nothing overtakes them. *)
LEMMA AnswersKept ==
    ASSUME AnswersFresh, store' = store, flight' = flight, crossed' = crossed
    PROVE  AnswersFresh'
<1>1. \A d : Children(d)' = Children(d)
  BY DEF Children
<1> QED
  BY <1>1 DEF AnswersFresh
-----------------------------------------------------------------------------
(* The invariant holds at first: nothing is cached. *)
LEMMA CacheInitInv == CacheInit => CacheInv
<1> SUFFICES ASSUME CacheInit PROVE CacheInv
  OBVIOUS
<1>1. CacheTypeOK
  <2>1. store \subseteq Paths
    BY CacheAssumption DEF CacheInit
  <2>2. cached \in [Dirs -> [in : BOOLEAN, objs : Seq(Entries)]] /\ \A d \in Dirs : cached[d] = Absent
    BY AbsentType DEF CacheInit
  <2>3. NoFlight \in [on : BOOLEAN, ok : BOOLEAN, objs : Seq(Entries)] /\ NoFlight.objs = <<>> /\ ~NoFlight.on
    BY DEF NoFlight
  <2>4. /\ flight \in [Dirs -> [on : BOOLEAN, ok : BOOLEAN, objs : Seq(Entries)]]
        /\ \A d \in Dirs : flight[d] = NoFlight
    BY <2>3 DEF CacheInit
  <2>5. call \in [Calls -> CallType] /\ \A c \in Calls : call[c] = Idle
    BY IdleType DEF CacheInit
  <2>6. begun \in 0 .. MaxBegun /\ crossed = {} /\ doubted = {}
    BY CacheAssumption DEF CacheInit
  <2>7. \A d \in Dirs : \A i \in DOMAIN flight[d].objs : ~flight[d].objs[i].temp
    BY <2>3, <2>4
  <2> QED
    BY <2>1, <2>2, <2>4, <2>5, <2>6, <2>7, IdleType DEF CacheTypeOK, CallType
<1>2. StoreIsTree
  <2> SUFFICES ASSUME NEW p \in Stored, NEW n \in 0 .. Len(p) PROVE SubSeq(p, 1, n) \in Stored
    BY CacheAssumption DEF StoreIsTree, CacheInit
  <2>1. p \in Paths /\ Len(p) \in Nat
    BY CacheAssumption, PathIsSeq
  <2>2. CASE n = Len(p)
    BY <2>1, <2>2, FrontBelow
  <2>3. CASE n # Len(p)
    <3>1. n \in 0 .. Len(p) - 1
      BY <2>1, <2>3
    <3> QED
      BY <3>1, CacheAssumption
  <2> QED
    BY <2>2, <2>3
<1>3. CallsFit
  BY IdleType DEF CacheInit, CallsFit
<1>4. AnswersFresh
  BY DEF CacheInit, AnswersFresh, NoFlight
<1>5. ListingsFit
  BY AbsentType DEF CacheInit, ListingsFit, Fits
<1>6. LostInDoubt
  BY IdleType DEF CacheInit, LostInDoubt, Updating
<1> QED
  BY <1>1, <1>2, <1>3, <1>4, <1>5, <1>6 DEF CacheInv
-----------------------------------------------------------------------------
(* Steps that leave the storage alone. *)
LEMMA BeginInv ==
    ASSUME CacheInv, NEW c \in Calls, NEW op \in Operations, NEW p \in Paths, NEW q \in Paths,
           Begin(c, op, p, q)
    PROVE  CacheInv'
<1> DEFINE k == [op |-> op, path |-> p, new |-> q, lost |-> FALSE,
                 pc |-> IF op = "put" THEN "target" ELSE "find"]
<1>1. /\ call' = [call EXCEPT ![c] = k] /\ call[c].pc = "idle" /\ Sensible(k)
      /\ store' = store /\ cached' = cached /\ flight' = flight /\ crossed' = crossed /\ doubted' = doubted
      /\ begun' \in 0 .. MaxBegun
  BY CacheAssumption DEF Begin, CacheInv, CacheTypeOK
<1>2. k \in CallType /\ k.pc \in {"find", "target"} /\ k # Idle
  BY DEF CallType, Idle, Operations
<1> HIDE DEF k
<1>4. call' \in [Calls -> CallType] /\ \A e \in Calls : call'[e] = IF e = c THEN k ELSE call[e]
  BY <1>1, <1>2 DEF CacheInv, CacheTypeOK, CallType
<1>5. CacheTypeOK'
  BY <1>1, <1>2, <1>4 DEF CacheInv, CacheTypeOK, CallType, Cached
<1>6. CallsFit'
  BY <1>1, <1>2, <1>4 DEF CacheInv, CallsFit
<1>7. ListingsFit'
  BY <1>1, <1>2, <1>4, ListingsKept DEF CacheInv, Updating
<1>8. LostInDoubt'
  BY <1>1, <1>2, <1>4, LostKept DEF CacheInv, Updating
<1> QED
  BY <1>1, <1>5, <1>6, <1>7, <1>8, TreeKept, AnswersKept DEF CacheInv

(* A call that comes to another place of its operation, short of the        *)
(* driver, and nothing else.                                                *)
LEMMA OnlyCallInv ==
    ASSUME CacheInv, NEW c \in Calls, ~Updating(c), NEW l \in CallType,
           l.pc = "idle" <=> l = Idle, l.pc \in {"idle", "target", "driver"},
           l = Idle \/ GoesOn(call[c], l), call' = [call EXCEPT ![c] = l],
           UNCHANGED <<store, cached, flight, begun, crossed, doubted>>
    PROVE  CacheInv'
<1>1. call' \in [Calls -> CallType] /\ \A e \in Calls : call'[e] = IF e = c THEN l ELSE call[e]
  BY DEF CacheInv, CacheTypeOK, CallType
<1>2. CacheTypeOK'
  BY <1>1 DEF CacheInv, CacheTypeOK, CallType, Cached
<1>3. \A e \in Calls : call'[e] = call[e] \/ call'[e] = Idle \/ GoesOn(call[e], call'[e])
  BY <1>1
<1>4. CallsFit'
  BY <1>3, CallsKept DEF CacheInv
<1>5. ListingsFit'
  BY <1>1, ListingsKept DEF CacheInv
<1>6. LostInDoubt'
  BY <1>1, LostKept DEF CacheInv, Updating
<1> QED
  BY <1>2, <1>4, <1>5, <1>6, TreeKept, AnswersKept DEF CacheInv

(* A lookup in a cached listing. *)
LEMMA LookUpInv ==
    ASSUME CacheInv, NEW c \in Calls, LookUp(c)
    PROVE  CacheInv'
<1> DEFINE k == call[c]
<1>1. /\ \E found, lost \in BOOLEAN : call' = [call EXCEPT ![c] = After(k, found, lost)]
      /\ k.pc = "find" /\ UNCHANGED <<store, cached, flight, begun, crossed, doubted>>
  BY DEF LookUp, Stale, CacheInv, CacheTypeOK
<1>2. k \in CallType
  BY DEF CacheInv, CacheTypeOK, CallType
<1>3. PICK found, lost \in BOOLEAN : call' = [call EXCEPT ![c] = After(k, found, lost)]
  BY <1>1
<1> QED
  BY <1>1, <1>2, <1>3, AfterFacts, OnlyCallInv DEF Updating

(* The lookup of the directory that is to receive something. *)
LEMMA FindTargetInv ==
    ASSUME CacheInv, NEW c \in Calls, FindTarget(c)
    PROVE  CacheInv'
<1> DEFINE k == call[c]
           l == [k EXCEPT !.pc = "driver", !.lost = @ \/ Astray(Parent(k.new))]
<1>1. /\ k.pc = "target" /\ call' = [call EXCEPT ![c] = l]
      /\ UNCHANGED <<store, cached, flight, begun, crossed, doubted>>
  BY DEF FindTarget
<1>2. k \in CallType
  BY DEF CacheInv, CacheTypeOK, CallType
<1>3. /\ l \in CallType /\ l.pc = "driver" /\ l # Idle
      /\ l.op = k.op /\ l.path = k.path /\ l.new = k.new
  BY <1>2, IdleType DEF CallType
<1>4. GoesOn(k, l)
  BY <1>1, <1>3 DEF GoesOn
<1> QED
  BY <1>1, <1>3, <1>4, OnlyCallInv DEF Updating

(* A directory is not found, or the driver refuses. *)
LEMMA DriverFailsInv ==
    ASSUME CacheInv, NEW c \in Calls, DriverFails(c)
    PROVE  CacheInv'
<1>1. /\ call' = [call EXCEPT ![c] = Idle] /\ call[c].pc \in {"target", "driver"}
      /\ UNCHANGED <<store, cached, flight, begun, crossed, doubted>>
  BY DEF DriverFails
<1> QED
  BY <1>1, IdleType, OnlyCallInv DEF Updating

(* The driver is asked: the answer is right when it is given, unless the    *)
(* directory was found in a stale listing. *)
LEMMA AskInv ==
    ASSUME CacheInv, NEW d \in Dirs, ~flight[d].on, NEW ok \in BOOLEAN, Ask(d, ok), store' = store
    PROVE  /\ flight' \in [Dirs -> [on : BOOLEAN, ok : BOOLEAN, objs : Seq(Entries)]]
           /\ flight'[d].on /\ \A e \in Dirs : e # d => flight'[e] = flight[e]
           /\ \A i \in DOMAIN flight'[d].objs : ~flight'[d].objs[i].temp
           /\ crossed' \subseteq crossed \cup {d}
           /\ AnswersFresh'
<1> DEFINE f == [on |-> TRUE, ok |-> ok, objs |-> IF ok THEN Listing(d) ELSE <<>>]
<1>1. /\ flight' = [flight EXCEPT ![d] = f] /\ (ok => Finds(d))
      /\ crossed' = IF Astray(d) THEN crossed \cup {d} ELSE crossed
  BY DEF Ask
<1>2. /\ Listing(d) \in Seq(Entries) /\ \A i \in DOMAIN Listing(d) : ~Listing(d)[i].temp
      /\ Shows(Listing(d), Children(d))
  BY ListingShows DEF CacheInv, CacheTypeOK
<1>3. /\ f \in [on : BOOLEAN, ok : BOOLEAN, objs : Seq(Entries)] /\ f.on /\ f.ok = ok
      /\ \A i \in DOMAIN f.objs : ~f.objs[i].temp
      /\ ok => f.objs = Listing(d)
  BY <1>2
<1> HIDE DEF f
<1>4. /\ flight' \in [Dirs -> [on : BOOLEAN, ok : BOOLEAN, objs : Seq(Entries)]]
      /\ \A e \in Dirs : flight'[e] = IF e = d THEN f ELSE flight[e]
  BY <1>1, <1>3 DEF CacheInv, CacheTypeOK
<1>5. \A e : Children(e)' = Children(e)
  BY DEF Children
<1>6. ok /\ d \notin crossed' => d \in store
  BY <1>1, FoundIsThere DEF CacheInv
<1>7. crossed \subseteq crossed' /\ crossed' \subseteq crossed \cup {d}
  BY <1>1
<1>8. AnswersFresh'
  <2> SUFFICES ASSUME NEW e \in Dirs, flight'[e].on, flight'[e].ok, e \notin crossed'
               PROVE  e \in store' /\ Shows(flight'[e].objs, Children(e)')
    BY DEF AnswersFresh
  <2>1. CASE e = d
    BY <1>2, <1>3, <1>4, <1>5, <1>6, <2>1
  <2>2. CASE e # d
    BY <1>4, <1>5, <1>7, <2>2 DEF CacheInv, AnswersFresh
  <2> QED
    BY <2>1, <2>2
<1> QED
  BY <1>3, <1>4, <1>7, <1>8

(* A listing begins. *)
LEMMA ListBeginInv ==
    ASSUME CacheInv, NEW d \in Dirs, ListBegin(d)
    PROVE  CacheInv'
<1>1. PICK ok \in BOOLEAN : Ask(d, ok)
  BY DEF ListBegin
<1>2. /\ ~flight[d].on
      /\ store' = store /\ cached' = cached /\ call' = call /\ doubted' = doubted
      /\ begun' = begun
  BY DEF ListBegin
<1>3. /\ flight' \in [Dirs -> [on : BOOLEAN, ok : BOOLEAN, objs : Seq(Entries)]]
      /\ flight'[d].on /\ \A e \in Dirs : e # d => flight'[e] = flight[e]
      /\ \A i \in DOMAIN flight'[d].objs : ~flight'[d].objs[i].temp
      /\ crossed' \subseteq crossed \cup {d}
      /\ AnswersFresh'
  BY <1>1, <1>2, AskInv
<1>4. CacheTypeOK'
  <2>1. ASSUME NEW e \in Dirs
        PROVE  /\ ~cached'[e].in => cached'[e] = Absent
               /\ ~flight'[e].on => flight'[e] = NoFlight
               /\ \A i \in DOMAIN flight'[e].objs : ~flight'[e].objs[i].temp
    <3>1. CASE e = d
      BY <1>2, <1>3, <3>1 DEF CacheInv, CacheTypeOK
    <3>2. CASE e # d
      <4>1. flight'[e] = flight[e]
        BY <1>3, <3>2
      <4> QED
        BY <1>2, <4>1 DEF CacheInv, CacheTypeOK
    <3> QED
      BY <3>1, <3>2
  <2>2. \A e \in Dirs : flight[e].on => flight'[e].on
    BY <1>3
  <2>3. \A e \in Calls : call[e].pc = "wait" => flight'[Parent(call[e].path)].on
    <3> TAKE e \in Calls
    <3> HAVE call[e].pc = "wait"
    <3>1. Parent(call[e].path) \in Dirs
      BY CallFacts DEF CacheInv
    <3> QED
      BY <2>2, <3>1 DEF CacheInv, CacheTypeOK
  <2>4. crossed' \subseteq {e \in Dirs : flight'[e].on}
    BY <1>3, <2>2 DEF CacheInv, CacheTypeOK
  <2> QED
    BY <1>2, <1>3, <2>1, <2>3, <2>4 DEF CacheInv, CacheTypeOK, CallType, Cached
<1>5. CallsFit'
  BY <1>2, CallsKept DEF CacheInv
<1>6. ListingsFit'
  BY <1>2, ListingsKept DEF CacheInv
<1>7. LostInDoubt'
  BY <1>2, LostKept DEF CacheInv, Updating
<1> QED
  BY <1>2, <1>3, <1>4, <1>5, <1>6, <1>7, TreeKept DEF CacheInv

(* A lookup that lists, or joins a listing. *)
LEMMA LookUpByListInv ==
    ASSUME CacheInv, NEW c \in Calls, LookUpByList(c)
    PROVE  CacheInv'
<1> DEFINE k == call[c]
           l == [k EXCEPT !.pc = "wait"]
           d == Parent(k.path)
<1>1. /\ call' = [call EXCEPT ![c].pc = "wait"] /\ k.pc = "find"
      /\ \/ flight[d].on /\ flight' = flight /\ crossed' = crossed
         \/ ~flight[d].on /\ \E ok \in BOOLEAN : Ask(d, ok)
      /\ store' = store /\ cached' = cached /\ doubted' = doubted
      /\ begun' = begun
  BY DEF LookUpByList
<1>2. k \in CallType /\ d \in Dirs
  BY <1>1, CallFacts DEF CacheInv
<1>3. l \in CallType /\ l.pc = "wait" /\ l.op = k.op /\ l.path = k.path /\ l.new = k.new /\ l # Idle
  BY <1>2, IdleType DEF CallType
<1>4. call' \in [Calls -> CallType] /\ \A e \in Calls : call'[e] = IF e = c THEN l ELSE call[e]
  BY <1>1, <1>3 DEF CacheInv, CacheTypeOK, CallType
<1>5. /\ flight' \in [Dirs -> [on : BOOLEAN, ok : BOOLEAN, objs : Seq(Entries)]]
      /\ flight'[d].on /\ \A e \in Dirs : e # d => flight'[e] = flight[e]
      /\ \A i \in DOMAIN flight'[d].objs : ~flight'[d].objs[i].temp
      /\ crossed' \subseteq crossed \cup {d}
      /\ AnswersFresh'
  <2>1. CASE flight[d].on /\ flight' = flight /\ crossed' = crossed
    <3>1. AnswersFresh'
      BY <1>1, <2>1, AnswersKept DEF CacheInv
    <3> QED
      BY <1>2, <2>1, <3>1 DEF CacheInv, CacheTypeOK
  <2>2. CASE ~flight[d].on /\ \E ok \in BOOLEAN : Ask(d, ok)
    BY <1>1, <1>2, <2>2, AskInv
  <2> QED
    BY <1>1, <2>1, <2>2
<1> HIDE DEF l
<1>6. CacheTypeOK'
  <2>1. ASSUME NEW e \in Dirs
        PROVE  /\ ~cached'[e].in => cached'[e] = Absent
               /\ ~flight'[e].on => flight'[e] = NoFlight
               /\ \A i \in DOMAIN flight'[e].objs : ~flight'[e].objs[i].temp
    <3>1. CASE e = d
      BY <1>1, <1>5, <3>1 DEF CacheInv, CacheTypeOK
    <3>2. CASE e # d
      <4>1. flight'[e] = flight[e]
        BY <1>5, <3>2
      <4> QED
        BY <1>1, <4>1 DEF CacheInv, CacheTypeOK
    <3> QED
      BY <3>1, <3>2
  <2>2. \A e \in Dirs : flight[e].on => flight'[e].on
    BY <1>5
  <2>3. ASSUME NEW e \in Calls
        PROVE  /\ call'[e].pc = "idle" <=> call'[e] = Idle
               /\ call'[e].pc = "wait" => flight'[Parent(call'[e].path)].on
    <3>1. CASE e = c
      BY <1>3, <1>4, <1>5, <3>1
    <3>2. CASE e # c
      <4>1. call'[e] = call[e]
        BY <1>4, <3>2
      <4>2. call[e].pc # "idle" => Parent(call[e].path) \in Dirs
        BY CallFacts DEF CacheInv
      <4> QED
        BY <2>2, <4>1, <4>2 DEF CacheInv, CacheTypeOK
    <3> QED
      BY <3>1, <3>2
  <2>4. crossed' \subseteq {e \in Dirs : flight'[e].on}
    BY <1>5, <2>2, <1>2 DEF CacheInv, CacheTypeOK
  <2> QED
    BY <1>1, <1>4, <1>5, <2>1, <2>3, <2>4 DEF CacheInv, CacheTypeOK, CallType, Cached
<1>7. \A e \in Calls : call'[e] = call[e] \/ call'[e] = Idle \/ GoesOn(call[e], call'[e])
  BY <1>1, <1>3, <1>4 DEF GoesOn
<1>8. CallsFit'
  BY <1>7, CallsKept DEF CacheInv
<1>9. ListingsFit'
  BY <1>1, <1>3, <1>4, ListingsKept DEF CacheInv, Updating
<1>10. LostInDoubt'
  BY <1>1, <1>3, <1>4, LostKept DEF CacheInv, Updating
<1> QED
  BY <1>1, <1>5, <1>6, <1>8, <1>9, <1>10, TreeKept DEF CacheInv

(* An entry expires. *)
LEMMA ExpireInv ==
    ASSUME CacheInv, NEW d \in Dirs, Expire(d)
    PROVE  CacheInv'
<1>1. /\ cached' = [cached EXCEPT ![d] = Absent] /\ doubted' = doubted \ {d}
      /\ store' = store /\ flight' = flight /\ call' = call /\ crossed' = crossed /\ begun' = begun
  BY DEF Expire
<1>2. /\ cached' \in [Dirs -> [in : BOOLEAN, objs : Seq(Entries)]]
      /\ \A e \in Dirs : cached'[e] = IF e = d THEN Absent ELSE cached[e]
  BY <1>1, AbsentType DEF CacheInv, CacheTypeOK
<1>3. doubted' \subseteq Cached(cached')
  BY <1>1, <1>2 DEF CacheInv, CacheTypeOK, Cached
<1>4. CacheTypeOK'
  BY <1>1, <1>2, <1>3 DEF CacheInv, CacheTypeOK
<1>5. CallsFit'
  BY <1>1, CallsKept DEF CacheInv
<1>6. ListingsFit'
  BY <1>1, <1>2, AbsentType, ListingsKept DEF CacheInv
<1>7. LostInDoubt'
  BY <1>1, <1>2, AbsentType, LostKept DEF CacheInv, Updating
<1> QED
  BY <1>1, <1>4, <1>5, <1>6, <1>7, TreeKept, AnswersKept DEF CacheInv

(* Nothing happens. *)
LEMMA CacheStutterInv == ASSUME CacheInv, UNCHANGED cacheVars PROVE CacheInv'
<1>1. /\ store' = store /\ cached' = cached /\ flight' = flight /\ call' = call
      /\ begun' = begun /\ crossed' = crossed /\ doubted' = doubted
  BY DEF cacheVars
<1>2. CacheTypeOK'
  BY <1>1 DEF CacheInv, CacheTypeOK, Cached
<1>3. CallsFit'
  BY <1>1, CallsKept DEF CacheInv
<1>4. ListingsFit'
  BY <1>1, ListingsKept DEF CacheInv
<1>5. LostInDoubt'
  BY <1>1, LostKept DEF CacheInv, Updating
<1> QED
  BY <1>1, <1>2, <1>3, <1>4, <1>5, TreeKept, AnswersKept DEF CacheInv
-----------------------------------------------------------------------------
(* The end of a listing: the cache takes an answer that is right, or puts   *)
(* it in doubt.                                                             *)
LEMMA ListEndInv ==
    ASSUME CacheInv, NEW d \in Dirs, ListEnd(d)
    PROVE  CacheInv'
<1> DEFINE f == flight[d]
<1>0. PICK objs \in Answers(d) :
        /\ cached' = IF f.ok THEN Filled(cached, d, objs) ELSE cached
        /\ call' = [c \in Calls |->
            IF c \in Woken(d)
            THEN After(call[c], Named(objs, Name(call[c].path)) # {}, d \in crossed) ELSE call[c]]
  BY DEF ListEnd
<1> DEFINE A(c) == After(call[c], Named(objs, Name(call[c].path)) # {}, d \in crossed)
<1>1. /\ f.on /\ flight' = [flight EXCEPT ![d] = NoFlight]
      /\ cached' = IF f.ok THEN Filled(cached, d, objs) ELSE cached
      /\ call' = [c \in Calls |-> IF c \in Woken(d) THEN A(c) ELSE call[c]]
      /\ crossed' = crossed \ {d}
      /\ doubted' = Cached(cached') \cap
                        (IF ~f.ok THEN doubted
                         ELSE IF d \in crossed \/ Pending(d) # {} THEN doubted \cup {d}
                         ELSE doubted \ {d})
      /\ store' = store /\ begun' = begun
  BY <1>0 DEF ListEnd
<1>2. f \in [on : BOOLEAN, ok : BOOLEAN, objs : Seq(Entries)] /\ CacheType(cached)
  BY DEF CacheInv, CacheTypeOK, CacheType
<1>16. objs \in Seq(Entries) /\ (d \notin crossed => objs = f.objs)
  BY <1>2, ListingShows DEF Answers, CacheInv, CacheTypeOK
<1>3. /\ NoFlight \in [on : BOOLEAN, ok : BOOLEAN, objs : Seq(Entries)] /\ ~NoFlight.on
      /\ NoFlight.objs = <<>>
  BY DEF NoFlight
<1>4. /\ flight' \in [Dirs -> [on : BOOLEAN, ok : BOOLEAN, objs : Seq(Entries)]]
      /\ \A e \in Dirs : flight'[e] = IF e = d THEN NoFlight ELSE flight[e]
  BY <1>1, <1>3 DEF CacheInv, CacheTypeOK
<1>5. /\ CacheType(cached')
      /\ \A e \in Dirs : e # d \/ ~f.ok => cached'[e] \in {cached[e], Absent}
      /\ f.ok => cached'[d] \in {Present(objs), Absent}
  <2>1. CASE f.ok
    <3>1. cached' = Filled(cached, d, objs)
      BY <1>1, <2>1
    <3> QED
      BY <1>2, <1>16, <2>1, <3>1, FilledFacts
  <2>2. CASE ~f.ok
    BY <1>1, <1>2, <2>2
  <2> QED
    BY <2>1, <2>2
<1>6. ASSUME NEW c \in Woken(d)
      PROVE  /\ c \in Calls /\ call[c].pc = "wait" /\ call[c] \in CallType
             /\ A(c) \in CallType /\ (A(c).pc = "idle" <=> A(c) = Idle)
             /\ A(c).pc \in {"idle", "target", "driver"}
             /\ A(c) = Idle \/ GoesOn(call[c], A(c))
  <2>1. call[c] \in CallType /\ c \in Calls
    BY DEF CacheInv, CacheTypeOK, CallType, Woken
  <2>2. PICK found \in BOOLEAN, lost \in BOOLEAN : A(c) = After(call[c], found, lost)
    <3>1. (Named(objs, Name(call[c].path)) # {}) \in BOOLEAN /\ (d \in crossed) \in BOOLEAN
      OBVIOUS
    <3> QED
      BY <3>1, Zenon
  <2> QED
    BY <2>1, <2>2, AfterFacts DEF Woken
<1>7. \A c \in Calls : call'[c] = IF c \in Woken(d) THEN A(c) ELSE call[c]
  BY <1>1
<1> HIDE DEF A
<1>8. ASSUME NEW c \in Calls
      PROVE  /\ call'[c] \in CallType /\ (call'[c].pc = "idle" <=> call'[c] = Idle)
             /\ call'[c].pc = "wait" => flight'[Parent(call'[c].path)].on
             /\ call'[c] = call[c] \/ call'[c] = Idle \/ GoesOn(call[c], call'[c])
             /\ call'[c] = call[c] \/ (~Updating(c) /\ call'[c].pc \notin {"update", "update2"})
  <2>1. CASE c \in Woken(d)
    <3>1. call'[c] = A(c)
      BY <1>7, <2>1
    <3> QED
      BY <1>6, <2>1, <3>1 DEF Updating
  <2>2. CASE c \notin Woken(d)
    <3>1. call'[c] = call[c]
      BY <1>7, <2>2
    <3>2. call[c] \in CallType /\ (call[c].pc = "idle" <=> call[c] = Idle)
      BY DEF CacheInv, CacheTypeOK, CallType
    <3>3. ASSUME call[c].pc = "wait" PROVE flight'[Parent(call[c].path)].on
      <4>1. Parent(call[c].path) \in Dirs /\ Parent(call[c].path) # d
        BY <2>2, <3>3, CallFacts DEF CacheInv, Woken
      <4>2. flight[Parent(call[c].path)].on
        BY <3>3 DEF CacheInv, CacheTypeOK
      <4> QED
        BY <1>4, <4>1, <4>2
    <3> QED
      BY <3>1, <3>2, <3>3
  <2> QED
    BY <2>1, <2>2
<1>9. call' \in [Calls -> CallType]
  <2>1. call' = [c \in Calls |-> call'[c]]
    BY <1>1
  <2> QED
    BY <1>8, <2>1
<1>10. CacheTypeOK'
  <2>1. \A e \in Dirs : /\ ~flight'[e].on => flight'[e] = NoFlight
                        /\ \A i \in DOMAIN flight'[e].objs : ~flight'[e].objs[i].temp
    BY <1>3, <1>4 DEF CacheInv, CacheTypeOK
  <2>2. crossed' \subseteq {e \in Dirs : flight'[e].on}
    BY <1>1, <1>4 DEF CacheInv, CacheTypeOK
  <2>3. doubted' \subseteq Cached(cached')
    BY <1>1
  <2> QED
    BY <1>1, <1>4, <1>5, <1>8, <1>9, <2>1, <2>2, <2>3, SMTT(30) DEF CacheInv, CacheTypeOK, CallType, Cached, CacheType
<1>11. CallsFit'
  BY <1>8, CallsKept DEF CacheInv
<1>12. \A e : Children(e)' = Children(e)
  BY <1>1 DEF Children
<1>13. AnswersFresh'
  BY <1>1, <1>3, <1>4, <1>12 DEF CacheInv, AnswersFresh
<1>14. ListingsFit'
  <2> SUFFICES ASSUME NEW e \in Dirs PROVE Fits(e)'
    BY DEF ListingsFit
  <2>1. Pending(e)' = Pending(e) /\ \A c \in Pending(e) : call'[c] = call[c]
    BY <1>8 DEF Pending, Updating, Touched
  <2>2. CASE e # d \/ ~f.ok
    <3>1. cached'[e].in => cached'[e] = cached[e]
      BY <1>5, <2>2, AbsentType
    <3>2. cached'[e].in /\ e \notin doubted' => e \notin doubted
      BY <1>1, <2>2 DEF Cached
    <3>3. Fits(e)
      BY DEF CacheInv, ListingsFit
    <3> QED
      BY <1>1, <1>12, <2>1, <3>1, <3>2, <3>3, StillFits
  <2>3. CASE e = d /\ f.ok
    <3> SUFFICES ASSUME cached'[d].in, d \notin doubted'
                 PROVE  /\ Pending(d)' = {} => d \in store' /\ Shows(cached'[d].objs, Children(d)')
                        /\ \A c \in Calls : Pending(d)' = {c} => FALSE
      BY <2>3 DEF Fits
    <3>1. cached'[d] = Present(objs)
      BY <1>5, <2>3, AbsentType
    <3>2. d \notin crossed /\ Pending(d) = {}
      BY <1>1, <2>3 DEF Cached
    <3>3. d \in store /\ Shows(f.objs, Children(d))
      BY <1>1, <2>3, <3>2 DEF CacheInv, AnswersFresh
    <3>4. cached'[d].objs = f.objs
      BY <1>16, <3>1, <3>2 DEF Present
    <3>5. Pending(d)' = {}
      BY <2>1, <2>3, <3>2
    <3> QED
      BY <1>1, <1>12, <3>3, <3>4, <3>5
  <2> QED
    BY <2>2, <2>3
<1>15. LostInDoubt'
  <2>1. ASSUME NEW e \in Dirs, cached'[e].in, e \notin doubted', Pending(e) # {}
        PROVE  cached[e].in /\ e \notin doubted
    <3>1. e # d \/ ~f.ok
      BY <1>1, <2>1 DEF Cached
    <3>2. cached[e].in
      BY <1>5, <2>1, <3>1, AbsentType
    <3> QED
      BY <1>1, <2>1, <3>1, <3>2 DEF Cached
  <2>2. ASSUME NEW c \in Calls, Updating(c)', call'[c].lost
        PROVE  Updating(c) /\ call[c].lost /\ Touched(call'[c]) = Touched(call[c])
    BY <1>8, <2>2 DEF Updating
  <2> QED
    BY <2>1, <2>2, LostKept DEF CacheInv
<1> QED
  BY <1>1, <1>10, <1>11, <1>13, <1>14, <1>15, TreeKept DEF CacheInv

(* When one call makes a step, and no other begins or ends its update, the  *)
(* others count as before.                                                  *)
LEMMA OneCall ==
    ASSUME NEW c \in Calls,
           \A e \in Calls : e # c => call'[e] = call[e] \/ ~(Updating(e) \/ Updating(e)')
    PROVE  \A d : /\ Pending(d)' \ {c} = Pending(d) \ {c}
                  /\ c \in Pending(d)' <=> call'[c].pc \in {"update", "update2"} /\ d \in Touched(call'[c])
                  /\ c \in Pending(d) <=> call[c].pc \in {"update", "update2"} /\ d \in Touched(call[c])
  BY DEF Pending, Updating

(* What an operation does not touch. *)
LEMMA UntouchedFacts ==
    ASSUME NEW k, NEW d \in Dirs, d \notin Touched(k)
    PROVE  d # Parent(k.path) /\ d # Parent(k.new) /\ d \notin Below(k.path) /\ d \notin Below(k.new)
  BY DEF Touched

(* The driver changes the storage: what it touches awaits the update, and   *)
(* is in doubt when the objects were not at their paths.                    *)
LEMMA DriverInv ==
    ASSUME CacheInv, NEW c \in Calls, Driver(c)
    PROVE  CacheInv'
<1> DEFINE k == call[c]
<1>0. PICK p \in Paths, q \in Paths :
        LET j == [k EXCEPT !.path = p, !.new = q]
        IN  /\ MayActAs(k, j)
            /\ Accepts(j) \/ k.lost
            /\ store' = IF Accepts(j) THEN Changed(j) ELSE store
            /\ call' = [b \in Calls |->
                IF b = c THEN [k EXCEPT !.pc = "update", !.lost = (j # k \/ ~Accepts(j))]
                ELSE IF Held(call[b]) \cap Displaced(j) # {} THEN [call[b] EXCEPT !.lost = TRUE]
                ELSE call[b]]
            /\ crossed' = crossed \cup {d \in Touched(j) : flight[d].on}
            /\ doubted' = IF j # k \/ ~Accepts(j)
                          THEN doubted \cup (Cached(cached) \cap (Touched(j) \cup Touched(k)))
                          ELSE doubted
  BY DEF Driver
<1> DEFINE j == [k EXCEPT !.path = p, !.new = q]
           astray == j # k \/ ~Accepts(j)
           l == [k EXCEPT !.pc = "update", !.lost = astray]
<1>18. /\ MayActAs(k, j)
       /\ Accepts(j) \/ k.lost
       /\ store' = IF Accepts(j) THEN Changed(j) ELSE store
       /\ call' = [e \in Calls |->
            IF e = c THEN l
            ELSE IF Held(call[e]) \cap Displaced(j) # {} THEN [call[e] EXCEPT !.lost = TRUE]
            ELSE call[e]]
       /\ crossed' = crossed \cup {d \in Touched(j) : flight[d].on}
       /\ doubted' = IF astray THEN doubted \cup (Cached(cached) \cap (Touched(j) \cup Touched(k)))
                     ELSE doubted
  BY <1>0
<1>1. k.pc = "driver" /\ cached' = cached /\ flight' = flight /\ begun' = begun
  BY DEF Driver
<1>2. /\ CacheType(cached) /\ store \subseteq Paths /\ k \in CallType /\ Sensible(k)
      /\ k.path \in Paths /\ k.path # <<>> /\ k.new \in Paths /\ k.new # <<>>
      /\ StoreIsTree
  BY <1>1, CallFacts DEF CacheInv
<1>3. Sensible(j) /\ j.path \in Paths /\ j.new \in Paths
  <2>1. j.path = p /\ j.new = q
    BY <1>2 DEF CallType
  <2>2. Sensible(j)
    BY <1>18, <1>2 DEF MayActAs
  <2> QED
    BY <2>1, <2>2
<1>4. /\ l \in CallType /\ l.pc = "update" /\ l.op = k.op /\ l.path = k.path /\ l.new = k.new
      /\ l # Idle /\ l.lost = astray
  BY <1>2, IdleType DEF CallType
<1> HIDE DEF l, j
<1>5. call'[c] = l /\ Touched(l) = Touched(k)
  BY <1>18, <1>4 DEF Touched
<1>6. ASSUME NEW e \in Calls, e # c
      PROVE  \/ call'[e] = call[e]
             \/ /\ call'[e] \in CallType /\ GoesOn(call[e], call'[e]) /\ call'[e] # Idle
                /\ call[e].pc \in {"target", "driver"} /\ call'[e].pc = call[e].pc
  <2>1. CASE Held(call[e]) \cap Displaced(j) # {}
    <3> DEFINE m == [call[e] EXCEPT !.lost = TRUE]
    <3>1. call'[e] = m
      BY <1>18, <1>6, <2>1
    <3>2. call[e].pc \in {"target", "driver"}
      BY <2>1 DEF Held
    <3>3. call[e] \in CallType
      BY DEF CacheInv, CacheTypeOK, CallType
    <3>4. /\ m \in CallType /\ m.pc = call[e].pc /\ m.op = call[e].op
          /\ m.path = call[e].path /\ m.new = call[e].new
      BY <3>3 DEF CallType
    <3> QED
      BY <3>1, <3>2, <3>4, IdleType DEF GoesOn
  <2>2. CASE Held(call[e]) \cap Displaced(j) = {}
    BY <1>18, <1>6, <2>2
  <2> QED
    BY <2>1, <2>2
<1>7. call' \in [Calls -> CallType]
  <2>1. \A e \in Calls : call'[e] \in CallType
    <3> TAKE e \in Calls
    <3>1. call[e] \in CallType
      BY DEF CacheInv, CacheTypeOK, CallType
    <3> QED
      BY <1>4, <1>5, <1>6, <3>1
  <2> HIDE DEF astray, k
  <2>2. call' = [e \in Calls |-> call'[e]]
    BY <1>18
  <2> QED
    BY <2>1, <2>2
<1>8. /\ store' \subseteq Paths /\ StoreIsTree'
  <2>1. CASE Accepts(j)
    <3>1. /\ Changed(j) \subseteq Paths /\ <<>> \in Changed(j)
          /\ \A r \in Changed(j) : \A n \in 0 .. Len(r) : SubSeq(r, 1, n) \in Changed(j)
      BY <1>2, <1>3, <2>1, ChangedIsTree
    <3>2. store' = Changed(j)
      BY <1>18, <2>1
    <3> QED
      BY <3>1, <3>2 DEF StoreIsTree
  <2>2. CASE ~Accepts(j)
    BY <1>18, <1>2, <2>2, TreeKept
  <2> QED
    BY <2>1, <2>2
<1>9. \A e \in Calls : call'[e] = call[e] \/ call'[e] = Idle \/ GoesOn(call[e], call'[e])
  <2>1. GoesOn(k, l)
    BY <1>1, <1>4 DEF GoesOn
  <2> QED
    BY <1>5, <1>6, <2>1
<1>10. CallsFit'
  BY <1>9, CallsKept DEF CacheInv
<1>11. CacheTypeOK'
  <2>1. crossed' \subseteq {d \in Dirs : flight'[d].on}
    BY <1>18, <1>1 DEF CacheInv, CacheTypeOK, Touched
  <2>2. ASSUME NEW e \in Calls
        PROVE  /\ call'[e].pc = "idle" <=> call'[e] = Idle
               /\ call'[e].pc = "wait" => flight'[Parent(call'[e].path)].on
    <3>1. /\ call[e].pc = "idle" <=> call[e] = Idle
          /\ call[e].pc = "wait" => flight[Parent(call[e].path)].on
      BY DEF CacheInv, CacheTypeOK
    <3>2. CASE e = c
      BY <1>4, <1>5, <3>2
    <3>3. CASE e # c
      BY <1>1, <1>6, <3>1, <3>3
    <3> QED
      BY <3>2, <3>3
  <2>3. doubted' \subseteq Cached(cached')
    <3>1. doubted \subseteq Cached(cached) /\ Cached(cached') = Cached(cached)
      BY <1>1 DEF CacheInv, CacheTypeOK
    <3> QED
      BY <1>18, <3>1
  <2> QED
    BY <1>1, <1>7, <1>8, <2>1, <2>2, <2>3 DEF CacheInv, CacheTypeOK, CallType
<1>12. ASSUME NEW d \in Dirs, d \notin Touched(j)
       PROVE  (d \in store' <=> d \in store) /\ Children(d)' = Children(d)
  <2>1. CASE Accepts(j)
    <3>1. d # Parent(j.path) /\ d # Parent(j.new) /\ d \notin Below(j.path) /\ d \notin Below(j.new)
      BY <1>12, UntouchedFacts
    <3>2. /\ d \in Changed(j) <=> d \in store
          /\ {r \in Changed(j) : r # <<>> /\ Parent(r) = d} =
                 (Children(d) \ {r \in {j.path} : j.op \in Removing /\ Parent(r) = d})
                    \cup {r \in {j.new} : j.op # "remove" /\ Parent(r) = d}
      BY <1>2, <1>3, <2>1, <3>1, ChangedThere
    <3>3. store' = Changed(j) /\ Children(d)' = {r \in Changed(j) : r # <<>> /\ Parent(r) = d}
      BY <1>18, <2>1 DEF Children
    <3> QED
      BY <3>1, <3>2, <3>3
  <2>2. CASE ~Accepts(j)
    BY <1>18, <2>2 DEF Children
  <2> QED
    BY <2>1, <2>2
<1>13. AnswersFresh'
  <2> SUFFICES ASSUME NEW d \in Dirs, flight'[d].on, flight'[d].ok, d \notin crossed'
               PROVE  d \in store' /\ Shows(flight'[d].objs, Children(d)')
    BY DEF AnswersFresh
  <2>1. d \notin crossed /\ d \notin Touched(j)
    BY <1>18, <1>1
  <2>2. d \in store /\ Shows(flight[d].objs, Children(d))
    BY <1>1, <2>1 DEF CacheInv, AnswersFresh
  <2> QED
    BY <1>1, <1>12, <2>1, <2>2
<1>14. \A d : /\ Pending(d)' \ {c} = Pending(d) \ {c} /\ c \notin Pending(d)
              /\ c \in Pending(d)' <=> d \in Touched(k)
  <2>1. \A e \in Calls : e # c => call'[e] = call[e] \/ ~(Updating(e) \/ Updating(e)')
    BY <1>6 DEF Updating
  <2> QED
    BY <1>1, <1>4, <1>5, <2>1, OneCall
<1>15. ASSUME NEW d \in Dirs, NEW e \in Pending(d) PROVE e \in Calls /\ e # c /\ call'[e] = call[e]
  BY <1>6, <1>14 DEF Pending, Updating
<1>16. LostInDoubt'
  <2> SUFFICES ASSUME NEW e \in Calls, NEW d \in Dirs, Updating(e)', call'[e].lost,
                      d \in Touched(call'[e]), cached'[d].in
               PROVE  d \in doubted'
    BY DEF LostInDoubt, Touched
  <2>1. CASE e = c
    <3>1. astray /\ d \in Touched(k) /\ d \in Cached(cached)
      BY <1>1, <1>4, <1>5, <2>1 DEF Cached
    <3> QED
      BY <1>18, <3>1
  <2>2. CASE e # c
    <3>1. call'[e] = call[e]
      BY <1>6, <2>2 DEF Updating
    <3>2. Updating(e) /\ d \in doubted
      BY <1>1, <3>1 DEF CacheInv, LostInDoubt, Updating
    <3> QED
      BY <1>18, <3>2
  <2> QED
    BY <2>1, <2>2
<1>17. ListingsFit'
  <2> SUFFICES ASSUME NEW d \in Dirs PROVE Fits(d)'
    BY DEF ListingsFit
  <2>1. Fits(d)
    BY DEF CacheInv, ListingsFit
  <2>2. doubted \subseteq doubted'
    BY <1>18
  <2>3. CASE d \notin Touched(j) /\ d \notin Touched(k)
    <3>1. Pending(d)' = Pending(d) /\ \A e \in Pending(d) : call'[e] = call[e]
      BY <1>14, <1>15, <2>3
    <3> QED
      BY <1>1, <1>12, <2>1, <2>2, <2>3, <3>1, StillFits
  <2>4. CASE astray /\ (d \in Touched(j) \/ d \in Touched(k))
    <3>1. ~(cached'[d].in /\ d \notin doubted')
      BY <1>18, <1>1, <2>4 DEF Cached
    <3> QED
      BY <3>1 DEF Fits
  <2>5. CASE ~astray /\ d \in Touched(k)
    <3>1. Fits(d)'
      <4>1. j = k /\ Accepts(k) /\ store' = Changed(k)
        BY <1>18, <2>5
      <4>2. ASSUME d \notin Below(k.new), k.op \in Removing => d \notin Below(k.path)
            PROVE  /\ d \in store' <=> d \in store
                   /\ Children(d)' = (Children(d) \ Takes(d, l)) \cup Gives(d, l)
        <5>1. Children(d)' = {r \in Changed(k) : r # <<>> /\ Parent(r) = d}
          BY <4>1 DEF Children
        <5>2. /\ d \in Changed(k) <=> d \in store
              /\ {r \in Changed(k) : r # <<>> /\ Parent(r) = d} =
                 (Children(d) \ {r \in {k.path} : k.op \in Removing /\ Parent(r) = d})
                    \cup {r \in {k.new} : k.op # "remove" /\ Parent(r) = d}
          BY <1>2, <4>1, <4>2, ChangedThere
        <5>3. /\ Takes(d, l) = {r \in {k.path} : k.op \in Removing /\ Parent(r) = d}
              /\ Gives(d, l) = {r \in {k.new} : k.op # "remove" /\ Parent(r) = d}
          BY <1>4 DEF Takes, Gives
        <5> QED
          BY <4>1, <5>1, <5>2, <5>3
      <4> SUFFICES ASSUME cached'[d].in, d \notin doubted', NEW e \in Calls, Pending(d)' = {e}
                   PROVE  \/ Leaving(d, call'[e])
                          \/ d \in store' /\ Awaits(d, call'[e], cached'[d].objs, Children(d)')
        BY <1>14, <2>5 DEF Fits
      <4>3. e = c /\ Pending(d) = {}
        BY <1>14, <2>5
      <4>4. d \in store /\ Shows(cached[d].objs, Children(d))
        BY <1>1, <2>1, <2>2, <4>3 DEF Fits
      <4>5. call'[e] = l
        BY <1>5, <4>3
      <4>6. CASE k.op \in Removing /\ d \in Below(k.path)
        BY <1>4, <4>5, <4>6 DEF Leaving
      <4>7. CASE ~(k.op \in Removing /\ d \in Below(k.path))
        <5>1. d \in Paths
          BY CacheAssumption
        <5>2. d \notin Below(k.new)
          <6> SUFFICES ASSUME d \in Below(k.new) PROVE FALSE
            OBVIOUS
          <6>1. k.new \in store
            BY <1>2, <4>4, <5>1, StoreBelow
          <6>2. k.new \in Dirs
            BY <1>2, <5>1, BelowDirs
          <6>3. k.op \in {"remove", "put"}
            BY <4>1, <6>1 DEF Accepts
          <6>4. k.new = k.path /\ (k.op = "put" => k.path \notin Dirs)
            BY <1>2, <6>3 DEF Sensible
          <6> QED
            BY <4>7, <6>2, <6>3, <6>4 DEF Removing
        <5>3. d \in store' /\ Children(d)' = (Children(d) \ Takes(d, l)) \cup Gives(d, l)
          BY <4>2, <4>4, <4>7, <5>2
        <5>4. Children(d) \in SUBSET Kids(d)
          BY <1>2 DEF Children, Kids
        <5>5. Takes(d, l) \subseteq Children(d)
          <6>1. k.op \in Removing => k.path \in store
            BY <4>1 DEF Accepts, Removing
          <6> QED
            BY <1>2, <1>4, <6>1 DEF Takes, Children
        <5>6. l.op = "put" \/ Gives(d, l) \cap Children(d) = {}
          <6>1. k.op \notin {"put", "remove"} => k.new \notin store
            BY <4>1 DEF Accepts
          <6> QED
            BY <1>4, <6>1 DEF Gives, Children
        <5>7. Awaits(d, l, cached[d].objs, Children(d)')
          BY <4>4, <5>3, <5>4, <5>5, <5>6 DEF Awaits
        <5> QED
          BY <1>1, <4>5, <5>3, <5>7
      <4> QED
        BY <4>6, <4>7
    <3> QED
      BY <3>1
  <2> QED
    BY <2>3, <2>4, <2>5
<1> QED
  BY <1>8, <1>10, <1>11, <1>13, <1>16, <1>17 DEF CacheInv
-----------------------------------------------------------------------------
(* The update of a cache by the call that is done with the storage.  What   *)
(* it drops is gone; the rest is in doubt or right.                         *)
LEMMA UpdateTypes ==
    ASSUME CacheInv, NEW c \in Calls, NEW l \in CallType, l.pc = "idle" <=> l = Idle, l.pc # "wait",
           call' = [call EXCEPT ![c] = l], CacheType(cached'), Doubt(c),
           store' = store, flight' = flight, begun' = begun, crossed' = crossed
    PROVE  CacheTypeOK'
<1>1. call' \in [Calls -> CallType] /\ \A e \in Calls : call'[e] = IF e = c THEN l ELSE call[e]
  BY DEF CacheInv, CacheTypeOK, CallType
<1>2. doubted' \subseteq Cached(cached')
  BY DEF Doubt
<1> QED
  BY <1>1, <1>2 DEF CacheInv, CacheTypeOK, CallType, CacheType, Cached

(* A directory the call does not touch fits as before.                      *)
LEMMA UpdateElsewhere ==
    ASSUME CacheInv, NEW c \in Calls, NEW l, l = Idle \/ Touched(l) = Touched(call[c]),
           \A e \in Calls : call'[e] = IF e = c THEN l ELSE call[e],
           Doubt(c), store' = store,
           NEW d \in Dirs, d \notin Touched(call[c]), cached'[d] \in {cached[d], Absent}
    PROVE  Fits(d)'
<1>1. c \notin Pending(d) /\ c \notin Pending(d)'
  <2>1. Idle.pc = "idle"
    BY DEF Idle
  <2> QED
    BY <2>1, OneCall
<1>2. Pending(d)' = Pending(d)
  BY <1>1, OneCall
<1>3. \A e \in Pending(d) : call'[e] = call[e]
  BY <1>1 DEF Pending
<1>4. cached'[d].in /\ d \notin doubted' => cached'[d] = cached[d] /\ d \notin doubted
  BY AbsentType DEF Doubt, Cached
<1>5. Children(d)' = Children(d) /\ Fits(d)
  BY DEF Children, CacheInv, ListingsFit
<1> QED
  BY <1>2, <1>3, <1>4, <1>5, StillFits

(* A listing the call touches and that it leaves without a doubt was one    *)
(* that awaited this call alone.                                            *)
LEMMA UpdateThere ==
    ASSUME CacheInv, NEW c \in Calls, Doubt(c),
           NEW d \in Dirs, d \in Touched(call[c]), cached[d].in, cached'[d].in, d \notin doubted'
    PROVE  /\ Pending(d) = {c} /\ d \notin LeftBehind(cached, call[c])
           /\ \/ Leaving(d, call[c])
              \/ d \in store /\ Awaits(d, call[c], cached[d].objs, Children(d))
<1>1. Pending(d) = {c} /\ d \notin LeftBehind(cached, call[c]) /\ d \notin doubted
  BY DEF Doubt, Cached
<1> QED
  BY <1>1 DEF CacheInv, ListingsFit, Fits

(* What was in doubt stays in doubt for the calls that are still to update. *)
LEMMA UpdateInDoubt ==
    ASSUME CacheInv, NEW c \in Calls, NEW l, Updating(c), Doubt(c),
           l = Idle \/ (Touched(l) = Touched(call[c]) /\ l.lost = call[c].lost),
           \A e \in Calls : call'[e] = IF e = c THEN l ELSE call[e],
           \A d \in Dirs : cached'[d].in => cached[d].in
    PROVE  LostInDoubt'
<1>1. ASSUME NEW e \in Calls, Updating(e)', call'[e].lost
      PROVE  Updating(e) /\ call[e].lost /\ Touched(call'[e]) = Touched(call[e])
  <2>1. CASE e = c
    <3>1. call'[e] = l /\ l # Idle
      BY <1>1, <2>1, IdleType DEF Updating
    <3> QED
      BY <1>1, <2>1, <3>1
  <2>2. CASE e # c
    <3>1. call'[e] = call[e]
      BY <2>2
    <3> QED
      BY <1>1, <3>1 DEF Updating
  <2> QED
    BY <2>1, <2>2
<1>2. ASSUME NEW d \in Dirs, cached'[d].in, d \notin doubted' PROVE cached[d].in /\ d \notin doubted
  BY <1>2 DEF Doubt, Cached
<1> QED
  BY <1>1, <1>2, LostKept DEF CacheInv

(* The update of the directory the object was taken from. *)
LEMMA UpdateSourceInv ==
    ASSUME CacheInv, NEW c \in Calls, UpdateSource(c)
    PROVE  CacheInv'
<1> DEFINE k == call[c]
           l == IF k.op = "move" THEN [k EXCEPT !.pc = "update2"] ELSE Idle
           up == Parent(k.path)
<1>1. /\ k.pc = "update" /\ k.op \in {"remove", "move"} /\ cached' = Forget(cached, k)
      /\ call' = [call EXCEPT ![c] = l] /\ Doubt(c)
      /\ store' = store /\ flight' = flight /\ begun' = begun /\ crossed' = crossed
  BY DEF UpdateSource
<1>2. /\ CacheType(cached) /\ k \in CallType /\ Sensible(k)
      /\ k.path \in Paths /\ k.path # <<>> /\ k.new \in Paths /\ k.new # <<>>
      /\ up \in Dirs
  BY <1>1, CallFacts DEF CacheInv
<1>3. /\ CacheType(cached')
      /\ cached[up].in =>
            cached'[up] = [in |-> TRUE, objs |-> RemoveObject(cached[up].objs, Name(k.path))]
      /\ ~cached[up].in => cached' = cached
      /\ \A d \in Dirs : d # up => cached'[d] \in {cached[d], Absent}
      /\ cached[up].in /\ k.path \in Dirs => \A d \in Reached(cached, k.path) : cached'[d] = Absent
  BY <1>1, <1>2, ForgetFacts
<1>4. /\ l \in CallType /\ (l.pc = "idle" <=> l = Idle) /\ l.pc \in {"update2", "idle"}
      /\ k.op = "move" => /\ l.pc = "update2" /\ l.op = "move" /\ l.path = k.path
                          /\ l.new = k.new /\ l.lost = k.lost
      /\ k.op = "remove" => l = Idle
  BY <1>1, <1>2, IdleType DEF CallType
<1>5. \A e \in Calls : call'[e] = IF e = c THEN l ELSE call[e]
  BY <1>1 DEF CacheInv, CacheTypeOK
<1>6. \A e \in Calls : call'[e] = call[e] \/ call'[e] = Idle \/ GoesOn(call[e], call'[e])
  BY <1>1, <1>4, <1>5 DEF GoesOn
<1>7. CallsFit'
  BY <1>6, CallsKept DEF CacheInv
<1> HIDE DEF l
<1>8. CacheTypeOK'
  BY <1>1, <1>3, <1>4, UpdateTypes
<1>9. l = Idle \/ Touched(l) = Touched(k)
  BY <1>1, <1>4 DEF Touched
<1>10. ASSUME NEW d \in Dirs PROVE Fits(d)'
  <2>1. CASE d \notin Touched(k)
    <3>1. cached'[d] \in {cached[d], Absent}
      BY <1>3, <2>1, UntouchedFacts
    <3> QED
      BY <1>1, <1>5, <1>9, <2>1, <3>1, UpdateElsewhere
  <2>2. CASE d \in Touched(k)
    <3> SUFFICES ASSUME cached'[d].in, d \notin doubted'
                 PROVE  /\ Pending(d)' = {} => d \in store' /\ Shows(cached'[d].objs, Children(d)')
                        /\ \A e \in Calls : Pending(d)' = {e} =>
                                d \in store' /\ Awaits(d, call'[e], cached'[d].objs, Children(d)')
      BY DEF Fits
    <3>1. cached[d].in
      BY <1>3, AbsentType
    <3>2. /\ Pending(d) = {c} /\ d \notin LeftBehind(cached, k)
          /\ \/ Leaving(d, k)
             \/ d \in store /\ Awaits(d, k, cached[d].objs, Children(d))
      BY <1>1, <2>2, <3>1, UpdateThere
    <3>3. ~Leaving(d, k)
      <4> SUFFICES ASSUME Leaving(d, k) PROVE FALSE
        OBVIOUS
      <4>1. d \in Below(k.path) /\ d \in Paths
        BY CacheAssumption DEF Leaving
      <4>2. k.path \in Dirs
        BY <1>2, <4>1, BelowDirs
      <4>3. cached[up].in /\ d \in Reached(cached, k.path)
        BY <1>1, <3>1, <3>2, <4>1, <4>2 DEF LeftBehind, Cached
      <4> QED
        BY <1>3, <4>2, <4>3, AbsentType
    <3>4. PICK T \in SUBSET Kids(d) :
            /\ Shows(cached[d].objs, T) /\ Takes(d, k) \subseteq T
            /\ k.op = "put" \/ Gives(d, k) \cap T = {}
            /\ Children(d) = (T \ Takes(d, k)) \cup Gives(d, k)
      BY <3>2, <3>3 DEF Awaits
    <3> DEFINE T2 == T \ Takes(d, k)
    <3>5. Shows(cached'[d].objs, T2)
      <4>1. CASE d = up
        <5>1. cached[up].objs \in Seq(Entries) /\ k.path \in T /\ T2 = T \ {k.path}
          BY <1>1, <1>2, <3>4, <4>1 DEF CacheType, Takes, Removing
        <5>2. cached'[d].objs = RemoveObject(cached[d].objs, Name(k.path))
          BY <1>3, <3>1, <4>1
        <5>3. Shows(RemoveObject(cached[d].objs, Name(k.path)), T \ {k.path})
          BY <3>4, <4>1, <5>1, RemoveFacts
        <5> QED
          BY <5>1, <5>2, <5>3
      <4>2. CASE d # up
        <5>1. cached'[d] = cached[d]
          BY <1>3, <4>2, AbsentType
        <5>2. T2 = T
          BY <4>2 DEF Takes
        <5> QED
          BY <3>4, <5>1, <5>2
      <4> QED
        BY <4>1, <4>2
    <3>6. Children(d)' = T2 \cup Gives(d, k) /\ d \in store'
      BY <1>1, <3>2, <3>3, <3>4 DEF Children
    <3>7. CASE k.op = "remove"
      <4>1. Gives(d, k) = {}
        BY <3>7 DEF Gives
      <4>2. Pending(d)' = {}
        BY <1>4, <1>5, <3>2, <3>7, IdleType, OneCall
      <4> QED
        BY <3>5, <3>6, <4>1, <4>2
    <3>8. CASE k.op = "move"
      <4>1. Takes(d, l) = {} /\ Gives(d, l) = Gives(d, k)
        BY <1>4, <3>8 DEF Takes, Gives
      <4>2. Pending(d)' = {c}
        BY <1>4, <1>5, <1>9, <2>2, <3>2, <3>8, IdleType, OneCall
      <4>3. Awaits(d, l, cached'[d].objs, Children(d)')
        <5>1. T2 \in SUBSET Kids(d) /\ Gives(d, l) \cap T2 = {}
          BY <3>4, <3>8, <4>1
        <5> QED
          BY <3>5, <3>6, <4>1, <5>1 DEF Awaits
      <4> QED
        BY <1>5, <3>6, <4>2, <4>3
    <3> QED
      BY <1>1, <3>7, <3>8
  <2> QED
    BY <2>1, <2>2
<1>11. LostInDoubt'
  <2>1. l = Idle \/ (Touched(l) = Touched(k) /\ l.lost = k.lost)
    BY <1>1, <1>4, <1>9
  <2>2. \A d \in Dirs : cached'[d].in => cached[d].in
    BY <1>3, AbsentType
  <2> QED
    BY <1>1, <1>5, <2>1, <2>2, UpdateInDoubt DEF Updating
<1> QED
  BY <1>1, <1>7, <1>8, <1>10, <1>11, TreeKept, AnswersKept DEF CacheInv, ListingsFit

(* The update of the directory the object was given to. *)
LEMMA UpdateTargetInv ==
    ASSUME CacheInv, NEW c \in Calls, UpdateTarget(c)
    PROVE  CacheInv'
<1> DEFINE k == call[c]
           up == Parent(k.new)
<1>1. /\ k.pc \in {"update", "update2"} /\ (k.pc = "update" => k.op \notin {"remove", "move"})
      /\ call' = [call EXCEPT ![c] = Idle] /\ Doubt(c)
      /\ store' = store /\ flight' = flight /\ begun' = begun /\ crossed' = crossed
  BY DEF UpdateTarget
<1>2. PICK t \in BOOLEAN : cached' = Remember(cached, k, t)
  BY DEF UpdateTarget
<1>3. /\ CacheType(cached) /\ k \in CallType /\ Sensible(k)
      /\ k.path \in Paths /\ k.path # <<>> /\ k.new \in Paths /\ k.new # <<>>
      /\ up \in Dirs /\ (k.pc = "update2" => k.op = "move")
  BY <1>1, CallFacts DEF CacheInv, CallsFit
<1>4. /\ k.op = "rename" => up = Parent(k.path)
      /\ k.op # "remove" /\ k.op \in Operations
  BY <1>1, <1>3 DEF Sensible
<1>5. /\ CacheType(cached')
      /\ cached[up].in =>
            cached'[up] = [in |-> TRUE,
                           objs |-> IF k.op = "makedir" THEN Append(cached[up].objs, Entry(k.new, t))
                                    ELSE UpdateObject(cached[up].objs, Name(k.path), Entry(k.new, t))]
      /\ ~cached[up].in => cached' = cached
      /\ \A d \in Dirs : d # up => cached'[d] \in {cached[d], Absent}
      /\ cached[up].in /\ k.path \in Dirs /\ k.op = "rename"
            => \A d \in Reached(cached, k.path) : cached'[d] = Absent
  BY <1>2, <1>3, <1>4, RememberFacts
<1>6. \A e \in Calls : call'[e] = IF e = c THEN Idle ELSE call[e]
  BY <1>1 DEF CacheInv, CacheTypeOK
<1>7. CallsFit'
  BY <1>6, CallsKept DEF CacheInv
<1>8. CacheTypeOK'
  BY <1>1, <1>5, IdleType, UpdateTypes
<1>9. ASSUME NEW d \in Dirs PROVE Fits(d)'
  <2>1. CASE d \notin Touched(k)
    <3>1. cached'[d] \in {cached[d], Absent}
      BY <1>5, <2>1, UntouchedFacts
    <3> QED
      BY <1>1, <1>6, <2>1, <3>1, UpdateElsewhere
  <2>2. CASE d \in Touched(k)
    <3> SUFFICES ASSUME cached'[d].in, d \notin doubted'
                 PROVE  /\ d \in store' /\ Shows(cached'[d].objs, Children(d)')
                        /\ Pending(d)' = {}
      BY DEF Fits
    <3>1. cached[d].in
      BY <1>5, AbsentType
    <3>2. /\ Pending(d) = {c} /\ d \notin LeftBehind(cached, k)
          /\ \/ Leaving(d, k)
             \/ d \in store /\ Awaits(d, k, cached[d].objs, Children(d))
      BY <1>1, <2>2, <3>1, UpdateThere
    <3>3. ~Leaving(d, k)
      <4> SUFFICES ASSUME Leaving(d, k) PROVE FALSE
        OBVIOUS
      <4>1. d \in Below(k.path) /\ d \in Paths /\ k.op = "rename" /\ k.pc = "update"
        BY <1>1, CacheAssumption DEF Leaving, Removing
      <4>2. k.path \in Dirs
        BY <1>3, <4>1, BelowDirs
      <4>3. cached[up].in /\ d \in Reached(cached, k.path)
        BY <1>4, <3>1, <3>2, <4>1, <4>2 DEF LeftBehind, Cached
      <4> QED
        BY <1>5, <4>1, <4>2, <4>3, AbsentType
    <3>4. PICK T \in SUBSET Kids(d) :
            /\ Shows(cached[d].objs, T) /\ Takes(d, k) \subseteq T
            /\ k.op = "put" \/ Gives(d, k) \cap T = {}
            /\ Children(d) = (T \ Takes(d, k)) \cup Gives(d, k)
      BY <3>2, <3>3 DEF Awaits
    <3>5. Children(d)' = Children(d) /\ d \in store' /\ Pending(d)' = {}
      <4>1. Pending(d)' = {}
        BY <1>6, <3>2, IdleType, OneCall
      <4> QED
        BY <1>1, <3>2, <3>3, <4>1 DEF Children
    <3>6. k.op # "rename" => Takes(d, k) = {}
      BY <1>1, <1>3 DEF Takes, Removing
    <3>7. CASE d # up
      <4>1. cached'[d] = cached[d]
        BY <1>5, <3>7, AbsentType
      <4>2. Gives(d, k) = {} /\ Takes(d, k) = {}
        BY <1>4, <3>6, <3>7 DEF Gives, Takes
      <4> QED
        BY <3>4, <3>5, <4>1, <4>2
    <3>8. CASE d = up
      <4>1. Gives(d, k) = {k.new} /\ k.new \in Kids(d)
        BY <1>3, <1>4, <3>8 DEF Gives, Kids
      <4>2. cached[d].objs \in Seq(Entries)
        BY <1>3 DEF CacheType
      <4>3. CASE k.op = "makedir"
        <5>1. k.new \notin T /\ Children(d) = T \cup {k.new}
          BY <3>4, <3>6, <4>1, <4>3
        <5>2. Shows(Append(cached[d].objs, Entry(k.new, t)), T \cup {k.new})
          BY <1>3, <3>4, <4>1, <4>2, <5>1, AppendFacts
        <5>3. cached'[d].objs = Append(cached[d].objs, Entry(k.new, t))
          <6>1. cached'[up] = [in |-> TRUE, objs |-> Append(cached[up].objs, Entry(k.new, t))]
            BY <1>5, <3>1, <3>8, <4>3
          <6> QED
            BY <3>8, <6>1, SMTT(30)
        <5> QED
          BY <3>5, <5>1, <5>2, <5>3
      <4>4. CASE k.op # "makedir"
        <5> DEFINE T2 == (IF k.path \in T THEN T \ {k.path} ELSE T) \cup {k.new}
        <5>1. /\ \/ k.path \in T /\ k.new \notin T \ {k.path}
                 \/ k.new \notin T /\ Name(k.path) = Name(k.new)
              /\ Children(d) = T2
          <6>1. CASE k.op = "rename"
            <7>1. Takes(d, k) = {k.path}
              BY <1>1, <1>3, <1>4, <3>8, <6>1 DEF Takes, Removing
            <7> QED
              BY <3>4, <4>1, <6>1, <7>1
          <6>2. CASE k.op \in {"move", "copy"}
            <7>1. Parent(k.path) # d /\ Name(k.path) = Name(k.new)
              BY <1>3, <3>8, <6>2 DEF Sensible
            <7>2. k.path \notin T
              BY <3>4, <7>1 DEF Kids
            <7>3. Takes(d, k) = {} /\ k.new \notin T
              BY <3>4, <3>6, <4>1, <6>2
            <7> QED
              BY <3>4, <4>1, <7>1, <7>2, <7>3
          <6>3. CASE k.op = "put"
            <7>1. k.new = k.path
              BY <1>3, <6>3 DEF Sensible
            <7>2. Takes(d, k) = {}
              BY <3>6, <6>3
            <7> QED
              BY <3>4, <4>1, <7>1, <7>2
          <6> QED
            BY <1>4, <4>4, <6>1, <6>2, <6>3 DEF Operations
        <5>2. Shows(UpdateObject(cached[d].objs, Name(k.path), Entry(k.new, t)), T2)
          <6>1. \A S : /\ S \subseteq Kids(d) /\ k.new \in Kids(d) /\ Shows(cached[d].objs, S)
                       /\ \/ k.path \in S /\ k.new \notin S \ {k.path}
                          \/ k.new \notin S /\ Name(k.path) = Name(k.new)
                       => Shows(UpdateObject(cached[d].objs, Name(k.path), Entry(k.new, t)),
                                (IF k.path \in S THEN S \ {k.path} ELSE S) \cup {k.new})
            BY <1>3, <4>2, UpdateFacts, SMTT(30)
          <6> QED
            BY <3>4, <4>1, <5>1, <6>1
        <5>3. cached'[d].objs = UpdateObject(cached[d].objs, Name(k.path), Entry(k.new, t))
          BY <1>5, <3>1, <3>8, <4>4
        <5> QED
          BY <3>5, <5>1, <5>2, <5>3
      <4> QED
        BY <4>3, <4>4
    <3> QED
      BY <3>7, <3>8
  <2> QED
    BY <2>1, <2>2
<1>10. LostInDoubt'
  <2>1. \A d \in Dirs : cached'[d].in => cached[d].in
    BY <1>5, AbsentType
  <2> QED
    BY <1>1, <1>6, <2>1, UpdateInDoubt DEF Updating
<1> QED
  BY <1>1, <1>7, <1>8, <1>9, <1>10, TreeKept, AnswersKept DEF CacheInv, ListingsFit
-----------------------------------------------------------------------------
(* Each step of the cache and its callers keeps the invariant. *)
LEMMA CacheNextInv == CacheInv /\ [CacheNext]_cacheVars => CacheInv'
<1> SUFFICES ASSUME CacheInv, [CacheNext]_cacheVars PROVE CacheInv'
  OBVIOUS
<1>1. CASE \E c \in Calls, op \in Operations, p, q \in Paths : Begin(c, op, p, q)
  BY <1>1, BeginInv
<1>2. CASE \E c \in Calls : LookUp(c)
  BY <1>2, LookUpInv
<1>3. CASE \E c \in Calls : LookUpByList(c)
  BY <1>3, LookUpByListInv
<1>4. CASE \E c \in Calls : Driver(c)
  BY <1>4, DriverInv
<1>5. CASE \E c \in Calls : DriverFails(c)
  BY <1>5, DriverFailsInv
<1>6. CASE \E c \in Calls : UpdateSource(c)
  BY <1>6, UpdateSourceInv
<1>7. CASE \E c \in Calls : UpdateTarget(c)
  BY <1>7, UpdateTargetInv
<1>8. CASE \E d \in Dirs : ListBegin(d)
  BY <1>8, ListBeginInv
<1>9. CASE \E d \in Dirs : ListEnd(d)
  BY <1>9, ListEndInv
<1>10. CASE \E d \in Dirs : Expire(d)
  BY <1>10, ExpireInv
<1>11. CASE \E c \in Calls : FindTarget(c)
  BY <1>11, FindTargetInv
<1>12. CASE UNCHANGED cacheVars
  BY <1>12, CacheStutterInv
<1> QED
  BY <1>1, <1>2, <1>3, <1>4, <1>5, <1>6, <1>7, <1>8, <1>9, <1>10, <1>11, <1>12 DEF CacheNext

(* The inductive invariant of the directory cache holds. *)
THEOREM CacheInvariance == CacheSpec => []CacheInv
  BY CacheInitInv, CacheNextInv, PTL DEF CacheSpec

(* The variables of the directory cache keep their types. *)
THEOREM CacheTypes == CacheSpec => []CacheTypeOK
<1>1. CacheInv => CacheTypeOK
  BY DEF CacheInv
<1> QED
  BY <1>1, CacheInvariance, PTL

(* A cached listing that is not in doubt shows each object of its directory *)
(* once and nothing else, when no operation is between the storage and the  *)
(* cache.                                                                   *)
THEOREM ListingsExact == CacheSpec => []CacheExact
<1>1. CacheInv => CacheExact
  <2> SUFFICES ASSUME CacheInv, NEW d \in Dirs, cached[d].in, d \notin doubted, Pending(d) = {}
               PROVE  /\ d \in store
                      /\ Len(cached[d].objs) = Cardinality(Children(d))
                      /\ {cached[d].objs[i].name : i \in DOMAIN cached[d].objs} = {Name(p) : p \in Children(d)}
    BY DEF CacheExact
  <2>1. d \in store /\ Shows(cached[d].objs, Children(d))
    BY DEF CacheInv, ListingsFit, Fits
  <2>2. cached[d].objs \in Seq(Entries) /\ Children(d) \subseteq Kids(d)
    BY DEF CacheInv, CacheTypeOK, Children, Kids
  <2>3. Len(cached[d].objs) = Cardinality(Children(d))
    BY <2>1, <2>2, ShowsCount
  <2> QED
    BY <2>1, <2>3 DEF Shows
<1> QED
  BY <1>1, CacheInvariance, PTL

(* An operation whose object exists is told that it does not only by a      *)
(* failure, a race or a listing in doubt.                                   *)
LEMMA NotFoundStep ==
    ASSUME CacheInv, [CacheNext]_cacheVars, NEW c \in Calls, NotFound(c), call[c].path \in store
    PROVE  LET d == Parent(call[c].path)
           IN  \/ Pending(d) # {}
               \/ d \in doubted \cup crossed
               \/ flight[d].on /\ ~flight[d].ok
<1> DEFINE k == call[c]
           d == Parent(k.path)
<1>1. k.pc \in {"find", "wait"} /\ k.op # "makedir" /\ call'[c].pc = "idle"
  BY DEF NotFound
<1>2. /\ k \in CallType /\ d \in Dirs /\ k.path \in Paths /\ k.path # <<>>
  BY <1>1, CallFacts DEF CacheInv
<1>3. k.path \in Children(d) /\ k.path \in Kids(d) /\ Children(d) \subseteq Kids(d)
  BY <1>2 DEF Children, Kids, CacheInv, CacheTypeOK
<1>4. c \in DOMAIN call
  BY DEF CacheInv, CacheTypeOK
<1>5. \A lost \in BOOLEAN : After(k, TRUE, lost).pc # "idle"
  BY <1>1, <1>2, AfterFacts
<1>6. CASE LookUp(c)
  <2>1. cached[d].in /\ Named(cached[d].objs, Name(k.path)) = {}
    <3>1. /\ cached[d].in
          /\ \/ Named(cached[d].objs, Name(k.path)) = {}
             \/ call' = [call EXCEPT ![c] = After(k, TRUE, Stale(d))]
      BY <1>6 DEF LookUp
    <3>2. Stale(d) \in BOOLEAN
      BY <1>2 DEF Stale, CacheInv, CacheTypeOK
    <3> QED
      BY <1>1, <1>4, <1>5, <3>1, <3>2
  <2>2. cached[d].objs \in Seq(Entries)
    BY <1>2 DEF CacheInv, CacheTypeOK
  <2>3. ~Shows(cached[d].objs, Children(d))
    BY <1>3, <2>1, <2>2, ShowsNamed
  <2> QED
    BY <1>2, <2>1, <2>3 DEF CacheInv, ListingsFit, Fits
<1>7. ASSUME NEW e \in Dirs, ListEnd(e)
      PROVE  d \in crossed \/ (flight[d].on /\ ~flight[d].ok)
  <2>1. PICK objs \in Answers(e) :
          call' = [b \in Calls |->
            IF b \in Woken(e)
            THEN After(call[b], Named(objs, Name(call[b].path)) # {}, e \in crossed) ELSE call[b]]
    BY <1>7 DEF ListEnd
  <2>2. c \in Woken(e)
    BY <1>1, <2>1
  <2>3. e = d /\ flight[d].on
    BY <1>7, <2>2 DEF Woken, ListEnd
  <2>4. call'[c] = After(k, Named(objs, Name(k.path)) # {}, d \in crossed)
    BY <2>1, <2>2, <2>3
  <2>5. Named(objs, Name(k.path)) = {}
    <3> SUFFICES ASSUME Named(objs, Name(k.path)) # {} PROVE FALSE
      OBVIOUS
    <3>1. (Named(objs, Name(k.path)) # {}) = TRUE /\ (d \in crossed) \in BOOLEAN
      OBVIOUS
    <3>2. call'[c] = After(k, TRUE, d \in crossed)
      BY <2>4, <3>1, Zenon
    <3>3. After(k, TRUE, d \in crossed).pc # "idle"
      BY <1>5, <3>1, Zenon
    <3> QED
      BY <1>1, <3>2, <3>3
  <2>6. CASE d \notin crossed
    <3>1. objs = flight[d].objs
      BY <2>3, <2>6 DEF Answers
    <3>2. flight[d].objs \in Seq(Entries)
      BY <1>2 DEF CacheInv, CacheTypeOK
    <3>3. ~Shows(flight[d].objs, Children(d))
      BY <1>3, <2>5, <3>1, <3>2, ShowsNamed
    <3> QED
      BY <1>2, <2>3, <2>6, <3>3 DEF CacheInv, AnswersFresh
  <2> QED
    BY <2>6
<1>8. ASSUME call'[c] = k PROVE FALSE
  BY <1>1, <1>8
<1>9. ASSUME NEW e \in Calls, e # c, LookUp(e) \/ LookUpByList(e) \/ FindTarget(e) \/ DriverFails(e)
                                         \/ UpdateSource(e) \/ UpdateTarget(e)
      PROVE  FALSE
  <2>1. call'[c] = k
    BY <1>4, <1>9 DEF LookUp, LookUpByList, FindTarget, DriverFails, UpdateSource, UpdateTarget
  <2> QED
    BY <1>8, <2>1
<1>15. ASSUME NEW e \in Calls, e # c, Driver(e) PROVE FALSE
  <2>1. Held(k) = {}
    BY <1>1 DEF Held
  <2>2. call'[c] = k
    BY <1>15, <2>1 DEF Driver
  <2> QED
    BY <1>8, <2>2
<1>10. ~LookUpByList(c)
  BY <1>1, <1>2, <1>4 DEF LookUpByList, CallType
<1>11. ~FindTarget(c) /\ ~Driver(c) /\ ~DriverFails(c) /\ ~UpdateSource(c) /\ ~UpdateTarget(c)
  BY <1>1 DEF FindTarget, Driver, DriverFails, UpdateSource, UpdateTarget
<1>12. ASSUME NEW e \in Calls, NEW op \in Operations, NEW p \in Paths, NEW q \in Paths, Begin(e, op, p, q)
       PROVE  FALSE
  <2>1. e # c
    BY <1>1, <1>12 DEF Begin
  <2>2. call'[c] = k
    BY <1>4, <1>12, <2>1 DEF Begin
  <2> QED
    BY <1>8, <2>2
<1>13. ~(\E e \in Dirs : ListBegin(e)) /\ ~(\E e \in Dirs : Expire(e)) /\ ~(UNCHANGED cacheVars)
  BY <1>8 DEF ListBegin, Expire, cacheVars
<1>14. LookUp(c) \/ \E e \in Dirs : ListEnd(e)
  BY <1>9, <1>10, <1>11, <1>12, <1>13, <1>15 DEF CacheNext
<1> QED
  BY <1>6, <1>7, <1>14

(* Get says that an object is missing, although it is there, only for a     *)
(* cause.                                                                   *)
THEOREM MissingForCause == CacheSpec => NotFoundHasCause
<1>1. CacheInv /\ [CacheNext]_cacheVars =>
        [\A c \in Calls :
            LET d == Parent(call[c].path)
            IN  NotFound(c) /\ call[c].path \in store =>
                    \/ Pending(d) # {}
                    \/ d \in doubted \cup crossed
                    \/ flight[d].on /\ ~flight[d].ok]_cacheVars
  BY NotFoundStep
<1> QED
  BY <1>1, CacheInvariance, PTL DEF CacheSpec, NotFoundHasCause
=============================================================================
