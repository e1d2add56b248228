----------------------- MODULE MultipartUpload_proofs -----------------------
(***************************************************************************)
(* UploadByMultipart registers its parts in order, completes the upload    *)
(* only with all of them and keeps its memory bound, for every number of   *)
(* chunks, readers, slots, attempts and refreshes of the token; and what   *)
(* SplitFile makes of a file is what OSS accepts.                          *)
(***************************************************************************)
EXTENDS MultipartUpload, FiniteSetTheorems, TLAPS

-----------------------------------------------------------------------------
(* SplitFile: for every scale that meets SplitAssumption and every size,   *)
(* the chunks tile the file and are what OSS accepts.                      *)

(* Division of natural numbers, as the provers need it told. *)
LEMMA DivMod ==
    ASSUME NEW a \in Nat, NEW b \in Nat \ {0}
    PROVE  /\ a \div b \in Nat
           /\ a % b \in Nat /\ a % b < b
           /\ a = b * (a \div b) + (a % b)
OBVIOUS

(* The end of a part is the start of the next. *)
LEMMA Distribute ==
    ASSUME NEW i \in Int, NEW q \in Int
    PROVE  (i - 1) * q + q = i * q
OBVIOUS

(* Multiplication by a natural number keeps the order. *)
LEMMA MulMonotone ==
    ASSUME NEW a \in Nat, NEW b \in Nat, NEW c \in Nat, a <= b
    PROVE  a * c <= b * c
OBVIOUS

(* A product that is at most a bounds the quotient from below. *)
LEMMA DivLower ==
    ASSUME NEW a \in Nat, NEW b \in Nat \ {0}, NEW c \in Nat, c * b <= a
    PROVE  c <= a \div b
OBVIOUS

(* A product above a bounds the quotient from above. *)
LEMMA DivUpper ==
    ASSUME NEW a \in Nat, NEW b \in Nat \ {0}, NEW c \in Nat, a < c * b
    PROVE  a \div b < c
OBVIOUS

(* n equal parts, the last one with the remainder. *)
LEMMA PartNumTiles ==
    ASSUME NEW size \in Nat, NEW n \in Nat \ {0}, n <= size, n <= MaxParts
    PROVE  LET cs == SplitFileByPartNum(size, n)
           IN  /\ Tiles(cs, size)
               /\ Len(cs) = n /\ cs # Error
               /\ \A i \in 1..n : cs[i].size \in Nat /\ cs[i].size >= size \div n
               /\ \A i \in 1..(n - 1) : cs[i].size = size \div n
<1> DEFINE q == size \div n
           r == size % n
           cs == [i \in 1..n |-> Chunk(i, (i - 1) * q, IF i = n THEN q + r ELSE q)]
<1>1. SplitFileByPartNum(size, n) = cs
  <2>1. ~(n <= 0 \/ n > MaxParts \/ n > size)
    BY SplitAssumption DEF MaxParts
  <2> QED
    BY <2>1 DEF SplitFileByPartNum
<1>2. q \in Nat /\ r \in Nat /\ size = n * q + r
  BY DivMod
<1>3. q >= 1
  <2>1. 1 * n <= size
    OBVIOUS
  <2> QED
    BY <2>1, DivLower
<1> HIDE DEF q, r
<1>4. Len(cs) = n
  OBVIOUS
<1>5. \A i \in 1..n : /\ cs[i].number = i
                      /\ cs[i].offset = (i - 1) * q
                      /\ cs[i].size = IF i = n THEN q + r ELSE q
  BY DEF Chunk
<1>6. cs[1].offset = 0
  BY <1>2, <1>5
<1>7. \A i \in 1..n : cs[i].size \in Nat /\ cs[i].size > 0 /\ cs[i].size >= q
  BY <1>2, <1>3, <1>5
<1>8. ASSUME NEW i \in 1..(n - 1) PROVE cs[i + 1].offset = cs[i].offset + cs[i].size
  <2>1. cs[i].offset = (i - 1) * q /\ cs[i].size = q
    BY <1>5
  <2>2. cs[i + 1].offset = ((i + 1) - 1) * q
    BY <1>5
  <2>3. (i + 1) - 1 = i
    OBVIOUS
  <2> QED
    BY <1>2, <2>1, <2>2, <2>3, Distribute
<1>9. cs[n].offset + cs[n].size = size
  <2>1. cs[n].offset = (n - 1) * q /\ cs[n].size = q + r
    BY <1>5
  <2>2. (n - 1) * q + q = n * q
    BY <1>2, Distribute
  <2>3. (n - 1) * q \in Int /\ n * q \in Int
    BY <1>2
  <2> QED
    BY <1>2, <2>1, <2>2, <2>3
<1> HIDE DEF cs
<1>10. Tiles(cs, size)
  BY <1>4, <1>5, <1>6, <1>7, <1>8, <1>9 DEF Tiles
<1>11. \A i \in 1..(n - 1) : cs[i].size = q
  BY <1>5
<1>12. cs # Error
  BY <1>4 DEF Error
<1> QED
  BY <1>1, <1>4, <1>7, <1>10, <1>11, <1>12 DEF q, cs

(* Parts of c bytes, and one more for the rest.                            *)
LEMMA PartSizeTiles ==
    ASSUME NEW size \in Nat \ {0}, NEW c \in Nat \ {0}, size \div c < MaxParts
    PROVE  LET cs == SplitFileByPartSize(size, c)
           IN  /\ Tiles(cs, size)
               /\ Len(cs) \in Nat /\ Len(cs) <= size \div c + 1
               /\ \A i \in 1..(Len(cs) - 1) : cs[i].size = c
<1> DEFINE k == size \div c
           r == size % c
           n == IF r > 0 THEN k + 1 ELSE k
           cs == [i \in 1..n |-> Chunk(i, (i - 1) * c, IF i = k + 1 THEN r ELSE c)]
<1>1. MaxParts \in Nat
  BY SplitAssumption DEF MaxParts
<1>2. k \in Nat /\ r \in Nat /\ size = c * k + r
  BY DivMod
<1>3. SplitFileByPartSize(size, c) = cs
  <2>1. ~(c <= 0 \/ k >= MaxParts)
    BY <1>1, <1>2
  <2> QED
    BY <2>1 DEF SplitFileByPartSize
<1> HIDE DEF k, r
<1>4. n \in Nat /\ n > 0 /\ n <= k + 1
  <2>1. r = 0 => k # 0
    BY <1>2
  <2> QED
    BY <1>2, <2>1
<1>13. (r > 0 => n = k + 1) /\ (~(r > 0) => n = k)
  OBVIOUS
<1> HIDE DEF n
<1>5. Len(cs) = n
  BY <1>4
<1>6. \A i \in 1..n : /\ cs[i].number = i
                      /\ cs[i].offset = (i - 1) * c
                      /\ cs[i].size = IF i = k + 1 THEN r ELSE c
  BY DEF Chunk
<1> HIDE DEF cs
<1>7. ASSUME NEW i \in 1..n PROVE cs[i].size > 0
  <2>1. CASE i = k + 1
    <3>1. r > 0
      BY <1>2, <1>4, <1>13, <2>1
    <3> QED
      BY <1>6, <2>1, <3>1
  <2>2. CASE i # k + 1
    BY <1>6, <2>2
  <2> QED
    BY <2>1, <2>2
<1>8. ASSUME NEW i \in 1..(n - 1) PROVE cs[i].size = c
  <2>1. i \in 1..n /\ i # k + 1
    BY <1>2, <1>4
  <2> QED
    BY <1>6, <2>1
<1>9. ASSUME NEW i \in 1..(n - 1) PROVE cs[i + 1].offset = cs[i].offset + cs[i].size
  <2>1. cs[i].offset = (i - 1) * c /\ cs[i].size = c
    BY <1>4, <1>6, <1>8
  <2>2. cs[i + 1].offset = ((i + 1) - 1) * c
    BY <1>4, <1>6
  <2>3. (i + 1) - 1 = i /\ i \in Int
    BY <1>4
  <2> QED
    BY <2>1, <2>2, <2>3, Distribute
<1>10. cs[n].offset + cs[n].size = size
  <2>1. CASE r > 0
    <3>1. cs[n].offset = ((k + 1) - 1) * c /\ cs[n].size = r
      BY <1>2, <1>4, <1>13, <1>6, <2>1
    <3>2. ((k + 1) - 1) * c = c * k
      BY <1>2
    <3> QED
      BY <1>2, <3>1, <3>2
  <2>2. CASE ~(r > 0)
    <3>1. cs[n].offset = (k - 1) * c /\ cs[n].size = c /\ r = 0
      BY <1>2, <1>4, <1>13, <1>6, <2>2
    <3>2. (k - 1) * c + c = c * k
      BY <1>2
    <3> QED
      BY <1>2, <3>1, <3>2
  <2> QED
    BY <2>1, <2>2
<1>11. cs[1].offset = 0
  BY <1>4, <1>6
<1>12. Tiles(cs, size)
  BY <1>4, <1>5, <1>6, <1>7, <1>9, <1>10, <1>11 DEF Tiles
<1> QED
  BY <1>3, <1>4, <1>5, <1>8, <1>12 DEF cs, n, k, r

(* The step that decides the number of parts: the file has at least that   *)
(* many GB but one.                                                        *)
LEMMA GBStepFacts ==
    ASSUME NEW size \in Nat
    PROVE  LET i == GBStep(size)
           IN  /\ i \in 1..Steps
               /\ i > 1 => size >= (i - 1) * GB
<1> DEFINE P(i) == /\ i < Steps => size < i * GB
                   /\ \A j \in 1..(i - 1) : ~(size < j * GB)
           w == IF size \div GB < Steps THEN size \div GB + 1 ELSE Steps
<1>1. GB \in Nat \ {0} /\ Steps \in Nat /\ Steps > 1
  BY SplitAssumption
<1>2. size \div GB \in Nat /\ size % GB \in Nat /\ size % GB < GB
      /\ size = GB * (size \div GB) + (size % GB)
  BY <1>1, DivMod
<1>3. w \in 1..Steps
  BY <1>1, <1>2
<1>4. P(w)
  <2>1. w < Steps => size < w * GB
    BY <1>1, <1>2
  <2>2. ASSUME NEW j \in 1..(w - 1) PROVE ~(size < j * GB)
    <3>1. j <= size \div GB /\ j \in Nat
      BY <1>1, <1>2
    <3>2. j * GB <= (size \div GB) * GB
      BY <1>1, <1>2, <3>1, MulMonotone
    <3> QED
      BY <1>1, <1>2, <3>1, <3>2
  <2> QED
    BY <2>1, <2>2
<1>5. GBStep(size) \in 1..Steps /\ P(GBStep(size))
  <2> HIDE DEF w
  <2>1. \E i \in 1..Steps : P(i)
    BY <1>3, <1>4
  <2>2. GBStep(size) = CHOOSE i \in 1..Steps : P(i)
    BY DEF GBStep
  <2> HIDE DEF P
  <2> QED
    BY <2>1, <2>2
<1>6. ASSUME GBStep(size) > 1 PROVE size >= (GBStep(size) - 1) * GB
  <2>1. GBStep(size) - 1 \in 1..(GBStep(size) - 1)
    BY <1>1, <1>5, <1>6
  <2>2. ~(size < (GBStep(size) - 1) * GB)
    BY <1>5, <2>1
  <2> QED
    BY <1>1, <1>5, <2>2
<1> QED
  BY <1>5, <1>6

(* Above 1 GB the parts are never too small, whatever the step.            *)
LEMMA LargeFileParts ==
    ASSUME NEW i \in Nat, i > 1
    PROVE  /\ i * PartsPerGB <= (i - 1) * GB
           /\ MinPart * (i * PartsPerGB) <= (i - 1) * GB
<1> DEFINE u == PartsPerGB * MinPart
<1>1. PartsPerGB \in Nat /\ MinPart \in Nat /\ MinPart >= 1 /\ GB \in Nat
  BY SplitAssumption
<1>2. u \in Nat /\ 2 * u <= GB
  BY <1>1, SplitAssumption
<1>3. PartsPerGB <= u
  <2>1. 1 * PartsPerGB <= MinPart * PartsPerGB
    BY <1>1, MulMonotone
  <2> QED
    BY <1>1, <2>1
<1>4. MinPart * (i * PartsPerGB) = i * u
  BY <1>1
<1> HIDE DEF u
<1>5. (2 * u) * (i - 1) <= GB * (i - 1)
  <2>1. i - 1 \in Nat /\ 2 * u \in Nat
    BY <1>2
  <2> QED
    BY <1>1, <1>2, <2>1, MulMonotone
<1>6. i * u <= (2 * u) * (i - 1)
  <2>1. i <= 2 * (i - 1) /\ 2 * (i - 1) \in Nat
    OBVIOUS
  <2>2. i * u <= (2 * (i - 1)) * u
    BY <1>2, <2>1, MulMonotone
  <2> QED
    BY <1>2, <2>2
<1>7. i * PartsPerGB <= i * u
  <2>1. PartsPerGB * i <= u * i
    BY <1>1, <1>2, <1>3, MulMonotone
  <2> QED
    BY <1>1, <1>2, <2>1
<1>8. GB * (i - 1) = (i - 1) * GB
  BY <1>1
<1>9. /\ i * PartsPerGB \in Int /\ i * u \in Int /\ (2 * u) * (i - 1) \in Int
      /\ GB * (i - 1) \in Int
  BY <1>1, <1>2
<1> QED
  BY <1>4, <1>5, <1>6, <1>7, <1>8, <1>9

(* Every file that reaches UploadByMultipart is cut without error into     *)
(* chunks that tile it and that OSS accepts.                               *)
THEOREM SplitIsSound ==
    ASSUME NEW size \in Nat, size > MinMultipart
    PROVE  Len(Split(size)) \in Nat /\ Tiles(Split(size), size) /\ OssAccepts(Split(size))
<1> DEFINE i == GBStep(size)
           n == ChunkNum(size)
           cs == SplitFileByPartNum(size, n)
<1>1. PartsPerGB \in Nat \ {0} /\ MinPart \in Nat \ {0} /\ Steps \in Nat /\ GB \in Nat
      /\ MinMultipart \in Nat /\ PartsPerGB <= MinMultipart
  BY SplitAssumption
<1>2. i \in 1..Steps /\ (i > 1 => size >= (i - 1) * GB)
  BY GBStepFacts
<1>3. n = i * PartsPerGB
  BY DEF ChunkNum
<1> HIDE DEF i, n
<1>4. n \in Nat \ {0}
  <2>1. 1 * PartsPerGB <= i * PartsPerGB
    BY <1>1, <1>2, MulMonotone
  <2> QED
    BY <1>1, <1>2, <1>3, <2>1
<1>5. n <= MaxParts /\ PartsPerGB <= MaxParts /\ MaxParts \in Nat
  <2>1. i * PartsPerGB <= Steps * PartsPerGB
    BY <1>1, <1>2, MulMonotone
  <2>2. 1 * PartsPerGB <= i * PartsPerGB
    BY <1>1, <1>2, MulMonotone
  <2>3. Steps * PartsPerGB \in Nat /\ i * PartsPerGB \in Nat
    BY <1>1, <1>2
  <2> QED
    BY <1>1, <1>3, <2>1, <2>2, <2>3 DEF MaxParts
<1>6. n <= size
  <2>1. CASE i = 1
    BY <1>1, <1>3, <2>1
  <2>2. CASE i > 1
    <3>1. i * PartsPerGB <= (i - 1) * GB
      BY <1>2, <2>2, LargeFileParts
    <3>2. (i - 1) * GB \in Int
      BY <1>1, <1>2
    <3> QED
      BY <1>2, <1>3, <1>4, <2>2, <3>1, <3>2
  <2> QED
    BY <1>2, <2>1, <2>2
<1>7. /\ Tiles(cs, size)
      /\ Len(cs) = n /\ cs # Error
      /\ \A k \in 1..n : cs[k].size \in Nat /\ cs[k].size >= size \div n
      /\ \A k \in 1..(n - 1) : cs[k].size = size \div n
  BY <1>4, <1>5, <1>6, PartNumTiles
<1>8. size \div n \in Nat
  BY <1>4, DivMod
<1> HIDE DEF cs
<1>9. CASE ~(cs[1].size < MinPart)
  <2>1. Split(size) = cs
    BY <1>7, <1>9 DEF Split, cs, n
  <2>2. ASSUME NEW k \in 1..(n - 1) PROVE cs[k].size >= MinPart
    <3>1. 1 \in 1..(n - 1) /\ cs[1].size = size \div n /\ cs[k].size = size \div n
      BY <1>4, <1>7
    <3> QED
      BY <1>1, <1>8, <1>9, <3>1
  <2> QED
    BY <1>4, <1>5, <1>7, <2>1, <2>2 DEF OssAccepts
<1>10. CASE cs[1].size < MinPart
  <2>1. Split(size) = SplitFileByPartSize(size, MinPart)
    BY <1>7, <1>10 DEF Split, cs, n
  <2>2. size \div n < MinPart
    <3>1. cs[1].size >= size \div n /\ cs[1].size \in Int
      BY <1>4, <1>7
    <3> QED
      BY <1>1, <1>8, <1>10, <3>1
  <2>3. ~(MinPart * n <= size)
    BY <1>1, <1>4, <1>8, <2>2, DivLower
  <2>4. i = 1
    <3> SUFFICES ASSUME i > 1 PROVE FALSE
      BY <1>2
    <3>1. MinPart * (i * PartsPerGB) <= (i - 1) * GB
      BY <1>2, LargeFileParts
    <3>2. (i - 1) * GB \in Int /\ MinPart * n \in Int
      BY <1>1, <1>2, <1>4
    <3> QED
      BY <1>2, <1>3, <2>3, <3>1, <3>2
  <2>5. size < PartsPerGB * MinPart
    BY <1>1, <1>3, <2>3, <2>4
  <2>6. size \div MinPart < PartsPerGB
    BY <1>1, <2>5, DivUpper
  <2>7. size \div MinPart \in Nat /\ size \div MinPart < MaxParts
    BY <1>1, <1>5, <2>6, DivMod
  <2>8. /\ Tiles(Split(size), size)
        /\ Len(Split(size)) \in Nat /\ Len(Split(size)) <= size \div MinPart + 1
        /\ \A k \in 1..(Len(Split(size)) - 1) : Split(size)[k].size = MinPart
    <3>1. size \in Nat \ {0} /\ MinPart \in Nat \ {0}
      BY <1>1
    <3> QED
      BY <2>1, <2>7, <3>1, PartSizeTiles, ZenonT(30)
  <2> DEFINE ps == Split(size)
  <2> HIDE DEF ps
  <2>9. Len(ps) <= MaxParts
    BY <1>1, <1>5, <2>6, <2>7, <2>8 DEF ps
  <2>10. \A k \in 1..(Len(ps) - 1) : ps[k].size >= MinPart
    BY <1>1, <2>8 DEF ps
  <2> QED
    BY <2>8, <2>9, <2>10 DEF OssAccepts, ps
<1> QED
  BY <1>9, <1>10

(* SplitFile never fails for a size that TLC tries, nor for any other.     *)
THEOREM SplitCorrect == AlwaysTiled
<1> SUFFICES ASSUME NEW size \in (MinMultipart + 1)..MaxSize
             PROVE  Tiles(Split(size), size) /\ OssAccepts(Split(size))
  BY DEF AlwaysTiled
<1>1. size \in Nat /\ size > MinMultipart
  BY SplitAssumption
<1> QED
  BY <1>1, SplitIsSound

-----------------------------------------------------------------------------
(* The chunks whose part has been handed to the collector. *)
Done == Len(parts) + (IF inbox # 0 THEN 1 ELSE 0)

(* The chunks whose slot has been given back. *)
Released == Done - (IF writer.pc = "release" THEN 1 ELSE 0)

(* The first chunk the scheduler has not taken. *)
Front == sched.chunk + (IF sched.pc = "send" THEN 1 ELSE 0)

Active(r) == reader[r].pc \in {"try", "read"}

(* The chunks come one after the other through scheduler, writer and       *)
(* collector.                                                              *)
OrderInv ==
    /\ PartsInOrder
    /\ inbox \in {0, Len(parts) + 1}
    /\ writer.pc \in {"try", "put", "report"} => writer.chunk = Done + 1 /\ sched.chunk = Done + 2
    /\ writer.pc = "release" => writer.chunk = Done /\ sched.chunk = Done + 1
    /\ writer.pc = "idle" => sched.chunk = Done + 1
    /\ sched.chunk >= Done + 1

(* The WaitGroup counts the parts that are missing. *)
CountInv ==
    /\ wg = NChunks - Len(parts)
    /\ closer # "wait" => wg = 0
    /\ main \in {"complete", "ok"} => closer = "done"

(* Data is never lost between two goroutines. *)
DataInv ==
    /\ sched.pc = "send" => sched.data # NoData
    /\ writer.pc \in {"try", "put", "report"} => writer.data # NoData
    /\ writer.pc = "report" => stored[writer.chunk] # NoData
    /\ \A i \in 1..Done : stored[i] # NoData

(* Every chunk that is dispatched holds a slot until it is released.       *)
SlotInv ==
    /\ disp.pc = "send" => disp.chunk <= NChunks
    /\ tokens >= disp.chunk - 1 + (IF disp.pc = "send" THEN 1 ELSE 0) - Released

(* A chunk is in one place: with one reader, in its waiter, or behind the  *)
(* scheduler.                                                              *)
PlaceInv ==
    /\ Front <= disp.chunk
    /\ \A r \in Readers : Active(r) =>
        Front <= reader[r].chunk /\ reader[r].chunk < disp.chunk /\ waiter[reader[r].chunk] = NoData
    /\ \A q, r \in Readers : Active(q) /\ Active(r) /\ q # r => reader[q].chunk # reader[r].chunk
    /\ \A c \in Chunks : waiter[c] # NoData => Front <= c /\ c < disp.chunk

(* A goroutine sends its error and leaves, so errCh never fills up. *)
Gone == {r \in Readers : reader[r].pc = "exit"}
ErrInv == errs <= Cardinality(Gone) + (IF writer.pc = "exit" THEN 1 ELSE 0)

SignInv == ossToken = bucket /\ SignedTogether

IInv == TypeOK /\ OrderInv /\ CountInv /\ DataInv /\ SlotInv /\ PlaceInv /\ ErrInv /\ SignInv
-----------------------------------------------------------------------------
DispType   == [pc : {"token", "send", "exit"}, chunk : 1..(NChunks + 1)]
ReaderType == [pc : {"idle", "try", "read", "exit"}, chunk : 0..NChunks, tries : 0..MaxTries]
SchedType  == [pc : {"wait", "send", "exit"}, chunk : 1..(NChunks + 1), data : Data \cup {NoData}]
WriterType == [pc : {"idle", "try", "put", "report", "release", "exit"},
               chunk : 0..NChunks, data : Data \cup {NoData}, tries : 0..MaxTries,
               token : 0..MaxRefresh, bucket : 0..MaxRefresh]

(* The file is cut into at least one chunk.                                *)
LEMMA ChunksThere ==
    /\ NChunks \in Nat \ {0}
    /\ Tiles(Split(FileSize), FileSize) /\ OssAccepts(Split(FileSize))
<1>1. FileSize \in Nat /\ FileSize > MinMultipart
  BY MultipartAssumption
<1>2. /\ Len(Split(FileSize)) \in Nat
      /\ Tiles(Split(FileSize), FileSize) /\ OssAccepts(Split(FileSize))
  BY <1>1, SplitIsSound
<1> QED
  BY <1>2 DEF NChunks, Tiles

(* The types of the records, and of the fields the proofs compute with. *)
LEMMA Fields ==
    ASSUME TypeOK
    PROVE  /\ disp \in DispType /\ sched \in SchedType /\ writer \in WriterType
           /\ reader \in [Readers -> ReaderType]
           /\ disp.chunk \in 1..(NChunks + 1) /\ sched.chunk \in 1..(NChunks + 1)
           /\ writer.chunk \in 0..NChunks /\ writer.tries \in 0..MaxTries
           /\ \A r \in Readers : /\ reader[r] \in ReaderType /\ reader[r].chunk \in 0..NChunks
                                 /\ reader[r].tries \in 0..MaxTries
           /\ NChunks \in Nat /\ MaxTries \in Nat /\ MaxRefresh \in Nat /\ QueueMax \in Nat
           /\ Len(parts) \in Nat /\ parts \in Seq(Chunks)
           /\ Cardinality(Readers) \in Nat
           /\ waiter \in [Chunks -> Data \cup {NoData}] /\ stored \in [Chunks -> Data \cup {NoData}]
           /\ tokens \in Nat /\ tokens <= QueueMax /\ inbox \in 0..NChunks /\ Chunks = 1..NChunks
<1>1. disp \in DispType /\ sched \in SchedType /\ writer \in WriterType /\ reader \in [Readers -> ReaderType]
  BY Zenon DEF TypeOK, DispType, SchedType, WriterType, ReaderType
<1>2. disp.chunk \in 1..(NChunks + 1) /\ sched.chunk \in 1..(NChunks + 1)
  BY <1>1 DEF DispType, SchedType
<1>3. writer.chunk \in 0..NChunks /\ writer.tries \in 0..MaxTries
  BY <1>1 DEF WriterType
<1>4. \A r \in Readers : /\ reader[r] \in ReaderType /\ reader[r].chunk \in 0..NChunks
                         /\ reader[r].tries \in 0..MaxTries
  BY <1>1 DEF ReaderType
<1>5. NChunks \in Nat /\ MaxTries \in Nat /\ MaxRefresh \in Nat /\ QueueMax \in Nat
  BY MultipartAssumption, ChunksThere
<1>6. Len(parts) \in Nat /\ parts \in Seq(Chunks)
  BY DEF TypeOK
<1>7. Cardinality(Readers) \in Nat
  BY MultipartAssumption, ChunksThere, FS_CardinalityType
<1>8. waiter \in [Chunks -> Data \cup {NoData}] /\ stored \in [Chunks -> Data \cup {NoData}]
  BY Zenon DEF TypeOK
<1>9. tokens \in Nat /\ tokens <= QueueMax /\ inbox \in 0..NChunks /\ Chunks = 1..NChunks
  BY <1>5 DEF TypeOK, Chunks
<1> QED
  BY <1>1, <1>2, <1>3, <1>4, <1>5, <1>6, <1>7, <1>8, <1>9

(* TypeOK in terms of the named types. *)
TypeParts ==
    /\ main \in {"loop", "complete", "ok", "failed"} /\ ctxDone \in BOOLEAN
    /\ tokens \in 0..QueueMax /\ inbox \in 0..NChunks /\ wg \in 0..NChunks
    /\ disp \in DispType /\ sched \in SchedType /\ writer \in WriterType
    /\ reader \in [Readers -> ReaderType]
    /\ waiter \in [Chunks -> Data \cup {NoData}] /\ stored \in [Chunks -> Data \cup {NoData}]
    /\ parts \in Seq(Chunks)
    /\ closer \in {"wait", "quit", "done"}
    /\ errs \in 0..(Cardinality(Readers) + 1)
    /\ ossToken \in 0..MaxRefresh /\ bucket \in 0..MaxRefresh

(* The type invariant as the conjunction of its named parts, now and after a step. *)
LEMMA TypeFold ==
    /\ TypeOK <=> TypeParts
    /\ TypeOK' <=> TypeParts'
BY Zenon DEF TypeOK, TypeParts, DispType, SchedType, WriterType, ReaderType

(* The numbers alone. *)
LEMMA Numbers ==
    ASSUME TypeOK
    PROVE  /\ NChunks \in Int /\ disp.chunk \in Int /\ sched.chunk \in Int /\ writer.chunk \in Int
           /\ tokens \in Int /\ inbox \in Int /\ Len(parts) \in Int /\ Chunks = 1..NChunks
           /\ \A r \in Readers : reader[r].chunk \in Int
BY Fields, SMTT(30)

(* The credentials change together, one action at a time. *)
LEMMA SignKeeps == TypeOK /\ SignInv /\ [Next]_vars => SignInv'
<1> SUFFICES ASSUME TypeOK, SignInv, [Next]_vars PROVE SignInv'
  OBVIOUS
<1>1. CASE TakeSlot
  BY <1>1, Fields DEF TakeSlot, SignInv, SignedTogether
<1>2. ASSUME NEW r \in Readers, Dispatch(r) PROVE SignInv'
  BY <1>2, Fields DEF Dispatch, SignInv, SignedTogether
<1>3. CASE DispatcherExits
  BY <1>3, Fields DEF DispatcherExits, SignInv, SignedTogether
<1>4. ASSUME NEW r \in Readers, StartRead(r) PROVE SignInv'
  BY <1>4, Fields DEF StartRead, SignInv, SignedTogether
<1>5. ASSUME NEW r \in Readers, ReadChunk(r) PROVE SignInv'
  BY <1>5, Fields DEF ReadChunk, SignInv, SignedTogether
<1>6. ASSUME NEW r \in Readers, ReadFails(r) PROVE SignInv'
  BY <1>6, Fields DEF ReadFails, SignInv, SignedTogether
<1>7. ASSUME NEW r \in Readers, ReaderExits(r) PROVE SignInv'
  BY <1>7, Fields DEF ReaderExits, SignInv, SignedTogether
<1>8. ASSUME NEW c \in Chunks, Collect(c) PROVE SignInv'
  BY <1>8, Fields DEF Collect, SignInv, SignedTogether
<1>9. CASE PassOn
  BY <1>9, Fields DEF PassOn, SignInv, SignedTogether, WriterType
<1>10. CASE SchedulerExits
  BY <1>10, Fields DEF SchedulerExits, SignInv, SignedTogether
<1>11. CASE StartPart
  BY <1>11, Fields DEF StartPart, SignInv, SignedTogether, WriterType
<1>12. CASE PartUploaded
  BY <1>12, Fields DEF PartUploaded, SignInv, SignedTogether, WriterType
<1>13. CASE PartFails
  BY <1>13, Fields DEF PartFails, SignInv, SignedTogether, WriterType
<1>14. CASE Report
  BY <1>14, Fields DEF Report, SignInv, SignedTogether, WriterType
<1>15. CASE ReleaseSlot
  BY <1>15, Fields DEF ReleaseSlot, SignInv, SignedTogether, IdleWriter, WriterType
<1>16. CASE WriterExits
  BY <1>16, Fields DEF WriterExits, SignInv, SignedTogether, WriterType
<1>17. CASE AddPart
  BY <1>17, Fields DEF AddPart, SignInv, SignedTogether
<1>18. CASE AllPartsDone
  BY <1>18, Fields DEF AllPartsDone, SignInv, SignedTogether
<1>19. CASE RefreshToken
  BY <1>19, Fields DEF RefreshToken, SignInv, SignedTogether
<1>20. CASE Quit
  BY <1>20, Fields DEF Quit, SignInv, SignedTogether
<1>21. CASE RefreshFails
  BY <1>21, Fields DEF RefreshFails, Return, SignInv, SignedTogether, goroutines
<1>22. CASE ErrReceived
  BY <1>22, Fields DEF ErrReceived, Return, SignInv, SignedTogether, goroutines
<1>23. CASE TimeOut
  BY <1>23, Fields DEF TimeOut, Return, SignInv, SignedTogether, goroutines
<1>24. CASE Complete
  BY <1>24, Fields DEF Complete, Return, SignInv, SignedTogether, goroutines
<1>25. CASE ParentCancel
  BY <1>25, Fields DEF ParentCancel, SignInv, SignedTogether, goroutines
<1>26. CASE UNCHANGED vars
  BY <1>26, Fields DEF vars, SignInv, SignedTogether
<1> QED
  BY <1>1, <1>2, <1>3, <1>4, <1>5, <1>6, <1>7, <1>8, <1>9, <1>10, <1>11, <1>12, <1>13,
     <1>14, <1>15, <1>16, <1>17, <1>18, <1>19, <1>20, <1>21, <1>22, <1>23, <1>24, <1>25,
     <1>26 DEF Next, ReaderStep, Dispatcher, Scheduler, Writer, Collector, Main, Quiet

(* The order of the parts, one action at a time. *)
LEMMA OrderKeeps == TypeOK /\ OrderInv /\ [Next]_vars => OrderInv'
<1> SUFFICES ASSUME TypeOK, OrderInv, [Next]_vars PROVE OrderInv'
  OBVIOUS
<1>1. CASE TakeSlot
  BY <1>1, Fields DEF TakeSlot, OrderInv, PartsInOrder, Done, DispType
<1>2. ASSUME NEW r \in Readers, Dispatch(r) PROVE OrderInv'
  BY <1>2, Fields DEF Dispatch, OrderInv, PartsInOrder, Done, DispType, ReaderType
<1>3. CASE DispatcherExits
  BY <1>3, Fields DEF DispatcherExits, OrderInv, PartsInOrder, Done, DispType
<1>4. ASSUME NEW r \in Readers, StartRead(r) PROVE OrderInv'
  BY <1>4, Fields DEF StartRead, OrderInv, PartsInOrder, Done, ReaderType
<1>5. ASSUME NEW r \in Readers, ReadChunk(r) PROVE OrderInv'
  BY <1>5, Fields DEF ReadChunk, OrderInv, PartsInOrder, Done, ReaderType, IdleReader
<1>6. ASSUME NEW r \in Readers, ReadFails(r) PROVE OrderInv'
  BY <1>6, Fields DEF ReadFails, OrderInv, PartsInOrder, Done, ReaderType
<1>7. ASSUME NEW r \in Readers, ReaderExits(r) PROVE OrderInv'
  BY <1>7, Fields DEF ReaderExits, OrderInv, PartsInOrder, Done, ReaderType
<1>8. ASSUME NEW c \in Chunks, Collect(c) PROVE OrderInv'
  BY <1>8, Fields DEF Collect, OrderInv, PartsInOrder, Done, Arrived, SchedType
<1>9. CASE PassOn
  <2>1. writer.pc = "idle" /\ sched.pc = "send" /\ sched.chunk = Done + 1
    BY <1>9 DEF PassOn, OrderInv
  <2>2. /\ writer'.pc = "try" /\ writer'.chunk = sched.chunk /\ sched'.chunk = sched.chunk + 1
        /\ UNCHANGED <<parts, inbox>>
    BY <1>9, Fields DEF PassOn, WriterType
  <2>3. Done' = Done /\ Done \in Nat
    BY <2>2, Fields DEF Done
  <2> QED
    BY <2>1, <2>2, <2>3 DEF OrderInv, PartsInOrder
<1>10. CASE SchedulerExits
  BY <1>10, Fields DEF SchedulerExits, OrderInv, PartsInOrder, Done, SchedType
<1>11. CASE StartPart
  BY <1>11, Fields DEF StartPart, OrderInv, PartsInOrder, Done, WriterType
<1>12. CASE PartUploaded
  BY <1>12, Fields DEF PartUploaded, OrderInv, PartsInOrder, Done, WriterType
<1>13. CASE PartFails
  <2>1. /\ writer.pc = "put" /\ UNCHANGED <<parts, inbox, sched>>
        /\ writer'.chunk = writer.chunk /\ writer'.pc \in {"try", "exit"}
    BY <1>13, Fields DEF PartFails, WriterType
  <2>2. Done' = Done
    BY <2>1 DEF Done
  <2> QED
    BY <2>1, <2>2 DEF OrderInv, PartsInOrder
<1>14. CASE Report
  BY <1>14, Fields, SMTT(30) DEF Report, OrderInv, PartsInOrder, Done, WriterType
<1>15. CASE ReleaseSlot
  BY <1>15, Fields DEF ReleaseSlot, OrderInv, PartsInOrder, Done, WriterType, IdleWriter
<1>16. CASE WriterExits
  BY <1>16, Fields DEF WriterExits, OrderInv, PartsInOrder, Done, WriterType
<1>17. CASE AddPart
  <2>1. /\ parts' = Append(parts, inbox) /\ inbox # 0 /\ inbox' = 0
        /\ UNCHANGED <<writer, sched>>
    BY <1>17 DEF AddPart
  <2>2. inbox = Len(parts) + 1 /\ inbox \in Chunks
    BY <2>1, Fields DEF OrderInv
  <2>3. Len(parts') = Len(parts) + 1 /\ Done' = Done
    BY <2>1, <2>2, Fields DEF Done
  <2>4. parts' = [i \in 1..Len(parts') |-> i]
    BY <2>1, <2>2, <2>3, Fields DEF OrderInv, PartsInOrder
  <2> QED
    BY <2>1, <2>3, <2>4 DEF OrderInv, PartsInOrder
<1>18. CASE AllPartsDone
  BY <1>18, Fields DEF AllPartsDone, OrderInv, PartsInOrder, Done
<1>19. CASE RefreshToken
  BY <1>19, Fields DEF RefreshToken, OrderInv, PartsInOrder, Done
<1>20. CASE Quit
  BY <1>20, Fields DEF Quit, OrderInv, PartsInOrder, Done
<1>21. CASE RefreshFails
  BY <1>21, Fields DEF RefreshFails, Return, OrderInv, PartsInOrder, Done, goroutines
<1>22. CASE ErrReceived
  BY <1>22, Fields DEF ErrReceived, Return, OrderInv, PartsInOrder, Done, goroutines
<1>23. CASE TimeOut
  BY <1>23, Fields DEF TimeOut, Return, OrderInv, PartsInOrder, Done, goroutines
<1>24. CASE Complete
  BY <1>24, Fields DEF Complete, Return, OrderInv, PartsInOrder, Done, goroutines
<1>25. CASE ParentCancel
  BY <1>25, Fields DEF ParentCancel, OrderInv, PartsInOrder, Done, goroutines
<1>26. CASE UNCHANGED vars
  BY <1>26, Fields DEF vars, OrderInv, PartsInOrder, Done
<1> QED
  BY <1>1, <1>2, <1>3, <1>4, <1>5, <1>6, <1>7, <1>8, <1>9, <1>10, <1>11, <1>12, <1>13,
     <1>14, <1>15, <1>16, <1>17, <1>18, <1>19, <1>20, <1>21, <1>22, <1>23, <1>24, <1>25,
     <1>26 DEF Next, ReaderStep, Dispatcher, Scheduler, Writer, Collector, Main, Quiet

(* The count of the missing parts, one action at a time. *)
LEMMA CountKeeps == TypeOK /\ CountInv /\ OrderInv /\ [Next]_vars => CountInv'
<1> SUFFICES ASSUME TypeOK, CountInv, OrderInv, [Next]_vars PROVE CountInv'
  OBVIOUS
<1>1. CASE TakeSlot
  BY <1>1, Fields DEF TakeSlot, CountInv
<1>2. ASSUME NEW r \in Readers, Dispatch(r) PROVE CountInv'
  BY <1>2, Fields DEF Dispatch, CountInv
<1>3. CASE DispatcherExits
  BY <1>3, Fields DEF DispatcherExits, CountInv
<1>4. ASSUME NEW r \in Readers, StartRead(r) PROVE CountInv'
  BY <1>4, Fields DEF StartRead, CountInv
<1>5. ASSUME NEW r \in Readers, ReadChunk(r) PROVE CountInv'
  BY <1>5, Fields DEF ReadChunk, CountInv
<1>6. ASSUME NEW r \in Readers, ReadFails(r) PROVE CountInv'
  BY <1>6, Fields DEF ReadFails, CountInv
<1>7. ASSUME NEW r \in Readers, ReaderExits(r) PROVE CountInv'
  BY <1>7, Fields DEF ReaderExits, CountInv
<1>8. ASSUME NEW c \in Chunks, Collect(c) PROVE CountInv'
  BY <1>8, Fields DEF Collect, CountInv
<1>9. CASE PassOn
  BY <1>9, Fields DEF PassOn, CountInv
<1>10. CASE SchedulerExits
  BY <1>10, Fields DEF SchedulerExits, CountInv
<1>11. CASE StartPart
  BY <1>11, Fields DEF StartPart, CountInv
<1>12. CASE PartUploaded
  BY <1>12, Fields DEF PartUploaded, CountInv
<1>13. CASE PartFails
  BY <1>13, Fields DEF PartFails, CountInv
<1>14. CASE Report
  BY <1>14, Fields DEF Report, CountInv
<1>15. CASE ReleaseSlot
  BY <1>15, Fields DEF ReleaseSlot, CountInv, IdleWriter
<1>16. CASE WriterExits
  BY <1>16, Fields DEF WriterExits, CountInv
<1>17. CASE AddPart
  <2>1. parts' = Append(parts, inbox) /\ inbox # 0 /\ wg' = wg - 1 /\ closer' = closer /\ main' = main
    BY <1>17 DEF AddPart
  <2>2. inbox \in Chunks /\ inbox = Len(parts) + 1
    BY <2>1, Fields DEF OrderInv
  <2>3. Len(parts') = Len(parts) + 1 /\ wg # 0
    BY <2>1, <2>2, Fields DEF CountInv
  <2> QED
    BY <2>1, <2>3, Fields DEF CountInv
<1>18. CASE AllPartsDone
  BY <1>18, Fields DEF AllPartsDone, CountInv
<1>19. CASE RefreshToken
  BY <1>19, Fields DEF RefreshToken, CountInv
<1>20. CASE Quit
  BY <1>20, Fields DEF Quit, CountInv
<1>21. CASE RefreshFails
  BY <1>21, Fields DEF RefreshFails, Return, CountInv, goroutines
<1>22. CASE ErrReceived
  BY <1>22, Fields DEF ErrReceived, Return, CountInv, goroutines
<1>23. CASE TimeOut
  BY <1>23, Fields DEF TimeOut, Return, CountInv, goroutines
<1>24. CASE Complete
  BY <1>24, Fields DEF Complete, Return, CountInv, goroutines
<1>25. CASE ParentCancel
  BY <1>25, Fields DEF ParentCancel, CountInv, goroutines
<1>26. CASE UNCHANGED vars
  BY <1>26, Fields DEF vars, CountInv
<1> QED
  BY <1>1, <1>2, <1>3, <1>4, <1>5, <1>6, <1>7, <1>8, <1>9, <1>10, <1>11, <1>12, <1>13,
     <1>14, <1>15, <1>16, <1>17, <1>18, <1>19, <1>20, <1>21, <1>22, <1>23, <1>24, <1>25,
     <1>26 DEF Next, ReaderStep, Dispatcher, Scheduler, Writer, Collector, Main, Quiet

(* The data of every chunk is kept, one action at a time. *)
LEMMA DataKeeps == TypeOK /\ OrderInv /\ DataInv /\ [Next]_vars => DataInv'
<1> SUFFICES ASSUME TypeOK, OrderInv, DataInv, [Next]_vars PROVE DataInv'
  OBVIOUS
<1>1. CASE TakeSlot
  BY <1>1, Fields DEF TakeSlot, DataInv, Done, DispType
<1>2. ASSUME NEW r \in Readers, Dispatch(r) PROVE DataInv'
  BY <1>2, Fields DEF Dispatch, DataInv, Done, DispType, ReaderType
<1>3. CASE DispatcherExits
  BY <1>3, Fields DEF DispatcherExits, DataInv, Done, DispType
<1>4. ASSUME NEW r \in Readers, StartRead(r) PROVE DataInv'
  BY <1>4, Fields DEF StartRead, DataInv, Done, ReaderType
<1>5. ASSUME NEW r \in Readers, ReadChunk(r) PROVE DataInv'
  BY <1>5, Fields DEF ReadChunk, DataInv, Done, ReaderType, IdleReader
<1>6. ASSUME NEW r \in Readers, ReadFails(r) PROVE DataInv'
  BY <1>6, Fields DEF ReadFails, DataInv, Done, ReaderType
<1>7. ASSUME NEW r \in Readers, ReaderExits(r) PROVE DataInv'
  BY <1>7, Fields DEF ReaderExits, DataInv, Done, ReaderType
<1>8. ASSUME NEW c \in Chunks, Collect(c) PROVE DataInv'
  BY <1>8, Fields DEF Collect, DataInv, Done, Arrived, SchedType
<1>9. CASE PassOn
  BY <1>9, Fields DEF PassOn, DataInv, Done, SchedType, WriterType
<1>10. CASE SchedulerExits
  BY <1>10, Fields DEF SchedulerExits, DataInv, Done, SchedType
<1>11. CASE StartPart
  BY <1>11, Fields DEF StartPart, DataInv, Done, WriterType
<1>12. CASE PartUploaded
  <2>1. writer.chunk = Done + 1 /\ writer.chunk \in Chunks /\ writer.pc = "put" /\ writer.data # NoData
    BY <1>12, Fields, SMTT(30) DEF PartUploaded, OrderInv, DataInv, Done
  <2>2. /\ stored' = [stored EXCEPT ![writer.chunk] = writer.data]
        /\ UNCHANGED <<sched, parts, inbox>>
        /\ writer'.pc = "report" /\ writer'.chunk = writer.chunk /\ writer'.data = writer.data
    BY <1>12, Fields DEF PartUploaded, WriterType
  <2>3. Done' = Done
    BY <2>2 DEF Done
  <2>4. \A i \in 1..Done : stored'[i] # NoData
    <3> SUFFICES ASSUME NEW i \in 1..Done PROVE stored'[i] # NoData
      OBVIOUS
    <3>1. Done \in Nat
      BY Fields DEF Done
    <3>2. i \in Chunks /\ i # writer.chunk /\ stored[i] # NoData
      BY <2>1, <3>1, Fields DEF DataInv
    <3>3. stored'[i] = stored[i]
      BY <2>2, <3>2, Fields
    <3> QED
      BY <3>2, <3>3
  <2>5. writer'.pc = "report" => stored'[writer'.chunk] # NoData
    BY <2>1, <2>2, Fields
  <2> QED
    BY <2>1, <2>2, <2>3, <2>4, <2>5 DEF DataInv
<1>13. CASE PartFails
  <2>1. writer.chunk = Done + 1 /\ writer.chunk \in Chunks /\ writer.pc = "put" /\ writer.data # NoData
    BY <1>13, Fields, SMTT(30) DEF PartFails, OrderInv, DataInv, Done
  <2>2. /\ stored' = [stored EXCEPT ![writer.chunk] = writer.data] \/ stored' = stored
        /\ UNCHANGED <<sched, parts, inbox>>
        /\ writer'.pc \in {"try", "exit"} /\ (writer'.pc = "try" => writer'.data = writer.data)
    BY <1>13, Fields DEF PartFails, WriterType
  <2>3. Done' = Done
    BY <2>2 DEF Done
  <2>4. \A i \in 1..Done : stored'[i] # NoData
    <3> SUFFICES ASSUME NEW i \in 1..Done PROVE stored'[i] # NoData
      OBVIOUS
    <3>1. Done \in Nat
      BY Fields DEF Done
    <3>2. i \in Chunks /\ i # writer.chunk /\ stored[i] # NoData
      BY <2>1, <3>1, Fields DEF DataInv
    <3>3. stored'[i] = stored[i]
      BY <2>2, <3>2, Fields
    <3> QED
      BY <3>2, <3>3
  <2>5. writer'.pc = "report" => stored'[writer'.chunk] # NoData
    BY <2>1, <2>2, Fields
  <2> QED
    BY <2>1, <2>2, <2>3, <2>4, <2>5 DEF DataInv
<1>14. CASE Report
  <2>1. writer.chunk = Done + 1 /\ stored[writer.chunk] # NoData /\ writer.pc = "report"
    BY <1>14, Fields DEF Report, OrderInv, DataInv
  <2>2. /\ UNCHANGED <<sched, parts, stored>>
        /\ writer'.pc = "release" /\ inbox = 0 /\ inbox' = writer.chunk
    BY <1>14, Fields DEF Report, WriterType
  <2>3. Done' = Done + 1 /\ Done \in Nat
    BY <2>1, <2>2, Fields DEF Done
  <2>4. \A i \in 1..(Done + 1) : stored[i] # NoData
    <3> SUFFICES ASSUME NEW i \in 1..(Done + 1) PROVE stored[i] # NoData
      OBVIOUS
    <3>1. i \in 1..Done \/ i = writer.chunk
      BY <2>1, <2>3
    <3> QED
      BY <2>1, <3>1 DEF DataInv
  <2> QED
    BY <2>2, <2>3, <2>4 DEF DataInv
<1>15. CASE ReleaseSlot
  BY <1>15, Fields DEF ReleaseSlot, DataInv, Done, WriterType, IdleWriter
<1>16. CASE WriterExits
  BY <1>16, Fields DEF WriterExits, DataInv, Done, WriterType
<1>17. CASE AddPart
  BY <1>17, Fields, SMTT(30) DEF AddPart, DataInv, Done
<1>18. CASE AllPartsDone
  BY <1>18, Fields DEF AllPartsDone, DataInv, Done
<1>19. CASE RefreshToken
  BY <1>19, Fields DEF RefreshToken, DataInv, Done
<1>20. CASE Quit
  BY <1>20, Fields DEF Quit, DataInv, Done
<1>21. CASE RefreshFails
  BY <1>21, Fields DEF RefreshFails, Return, DataInv, Done, goroutines
<1>22. CASE ErrReceived
  BY <1>22, Fields DEF ErrReceived, Return, DataInv, Done, goroutines
<1>23. CASE TimeOut
  BY <1>23, Fields DEF TimeOut, Return, DataInv, Done, goroutines
<1>24. CASE Complete
  BY <1>24, Fields DEF Complete, Return, DataInv, Done, goroutines
<1>25. CASE ParentCancel
  BY <1>25, Fields DEF ParentCancel, DataInv, Done, goroutines
<1>26. CASE UNCHANGED vars
  BY <1>26, Fields DEF vars, DataInv, Done
<1> QED
  BY <1>1, <1>2, <1>3, <1>4, <1>5, <1>6, <1>7, <1>8, <1>9, <1>10, <1>11, <1>12, <1>13,
     <1>14, <1>15, <1>16, <1>17, <1>18, <1>19, <1>20, <1>21, <1>22, <1>23, <1>24, <1>25,
     <1>26 DEF Next, ReaderStep, Dispatcher, Scheduler, Writer, Collector, Main, Quiet

(* The slots, one action at a time. *)
LEMMA SlotKeeps == TypeOK /\ OrderInv /\ SlotInv /\ [Next]_vars => SlotInv'
<1> SUFFICES ASSUME TypeOK, OrderInv, SlotInv, [Next]_vars PROVE SlotInv'
  OBVIOUS
<1>1. CASE TakeSlot
  <2>1. /\ disp.pc = "token" /\ disp.chunk <= NChunks /\ tokens' = tokens + 1
        /\ disp'.pc = "send" /\ disp'.chunk = disp.chunk /\ UNCHANGED <<parts, inbox, writer>>
    BY <1>1, Fields DEF TakeSlot, DispType
  <2>2. Released' = Released /\ Released \in Int
    BY <2>1, Fields DEF Released, Done
  <2> QED
    BY <2>1, <2>2, Numbers DEF SlotInv
<1>2. ASSUME NEW r \in Readers, Dispatch(r) PROVE SlotInv'
  <2>1. /\ disp.pc = "send" /\ tokens' = tokens
        /\ disp'.pc = "token" /\ disp'.chunk = disp.chunk + 1 /\ UNCHANGED <<parts, inbox, writer>>
    BY <1>2, Fields DEF Dispatch, DispType
  <2>2. Released' = Released /\ Released \in Int
    BY <2>1, Fields DEF Released, Done
  <2> QED
    BY <2>1, <2>2, Numbers DEF SlotInv
<1>3. CASE DispatcherExits
  <2>1. /\ tokens' = tokens
        /\ disp'.pc = "exit" /\ disp'.chunk = disp.chunk /\ UNCHANGED <<parts, inbox, writer>>
    BY <1>3, Fields DEF DispatcherExits, DispType
  <2>2. Released' = Released /\ Released \in Int
    BY <2>1, Fields DEF Released, Done
  <2> QED
    BY <2>1, <2>2, Numbers DEF SlotInv
<1>4. ASSUME NEW r \in Readers, StartRead(r) PROVE SlotInv'
  BY <1>4, Fields DEF StartRead, SlotInv, Done, Released, ReaderType
<1>5. ASSUME NEW r \in Readers, ReadChunk(r) PROVE SlotInv'
  BY <1>5, Fields DEF ReadChunk, SlotInv, Done, Released, ReaderType, IdleReader
<1>6. ASSUME NEW r \in Readers, ReadFails(r) PROVE SlotInv'
  BY <1>6, Fields DEF ReadFails, SlotInv, Done, Released, ReaderType
<1>7. ASSUME NEW r \in Readers, ReaderExits(r) PROVE SlotInv'
  BY <1>7, Fields DEF ReaderExits, SlotInv, Done, Released, ReaderType
<1>8. ASSUME NEW c \in Chunks, Collect(c) PROVE SlotInv'
  BY <1>8, Fields DEF Collect, SlotInv, Done, Released, SchedType
<1>9. CASE PassOn
  BY <1>9, Fields DEF PassOn, SlotInv, Done, Released, SchedType, WriterType
<1>10. CASE SchedulerExits
  BY <1>10, Fields DEF SchedulerExits, SlotInv, Done, Released, SchedType
<1>11. CASE StartPart
  BY <1>11, Fields DEF StartPart, SlotInv, Done, Released, WriterType
<1>12. CASE PartUploaded
  BY <1>12, Fields DEF PartUploaded, SlotInv, Done, Released, WriterType
<1>13. CASE PartFails
  BY <1>13, Fields DEF PartFails, SlotInv, Done, Released, WriterType
<1>14. CASE Report
  <2>1. /\ UNCHANGED <<tokens, disp, parts>>
        /\ writer.pc = "report" /\ writer'.pc = "release" /\ inbox = 0 /\ inbox' = writer.chunk
        /\ writer.chunk # 0
    BY <1>14, Fields DEF Report, WriterType, OrderInv, Done
  <2>2. Released' = Released /\ Released \in Int
    BY <2>1, Fields DEF Released, Done
  <2> QED
    BY <2>1, <2>2, Numbers DEF SlotInv
<1>15. CASE ReleaseSlot
  <2>1. /\ UNCHANGED <<disp, parts, inbox>> /\ tokens' = tokens - 1
        /\ writer.pc = "release" /\ writer'.pc = "idle"
    BY <1>15, Fields DEF ReleaseSlot, IdleWriter
  <2>2. Released' = Released + 1 /\ Released \in Int
    BY <2>1, Fields DEF Released, Done
  <2> QED
    BY <2>1, <2>2, Numbers DEF SlotInv
<1>16. CASE WriterExits
  BY <1>16, Fields DEF WriterExits, SlotInv, Done, Released, WriterType
<1>17. CASE AddPart
  BY <1>17, Fields DEF AddPart, SlotInv, Done, Released
<1>18. CASE AllPartsDone
  BY <1>18, Fields DEF AllPartsDone, SlotInv, Done, Released
<1>19. CASE RefreshToken
  BY <1>19, Fields DEF RefreshToken, SlotInv, Done, Released
<1>20. CASE Quit
  BY <1>20, Fields DEF Quit, SlotInv, Done, Released
<1>21. CASE RefreshFails
  BY <1>21, Fields DEF RefreshFails, Return, SlotInv, Done, Released, goroutines
<1>22. CASE ErrReceived
  BY <1>22, Fields DEF ErrReceived, Return, SlotInv, Done, Released, goroutines
<1>23. CASE TimeOut
  BY <1>23, Fields DEF TimeOut, Return, SlotInv, Done, Released, goroutines
<1>24. CASE Complete
  BY <1>24, Fields DEF Complete, Return, SlotInv, Done, Released, goroutines
<1>25. CASE ParentCancel
  BY <1>25, Fields DEF ParentCancel, SlotInv, Done, Released, goroutines
<1>26. CASE UNCHANGED vars
  BY <1>26, Fields DEF vars, SlotInv, Done, Released
<1> QED
  BY <1>1, <1>2, <1>3, <1>4, <1>5, <1>6, <1>7, <1>8, <1>9, <1>10, <1>11, <1>12, <1>13,
     <1>14, <1>15, <1>16, <1>17, <1>18, <1>19, <1>20, <1>21, <1>22, <1>23, <1>24, <1>25,
     <1>26 DEF Next, ReaderStep, Dispatcher, Scheduler, Writer, Collector, Main, Quiet

(* The places of the chunks, one action at a time. *)
LEMMA PlaceKeeps == TypeOK /\ SlotInv /\ PlaceInv /\ [Next]_vars => PlaceInv'
<1> SUFFICES ASSUME TypeOK, SlotInv, PlaceInv, [Next]_vars PROVE PlaceInv'
  OBVIOUS
<1>1. CASE TakeSlot
  BY <1>1, Fields DEF TakeSlot, PlaceInv, Front, Active, DispType
<1>2. ASSUME NEW r \in Readers, Dispatch(r) PROVE PlaceInv'
  <2>1. /\ UNCHANGED <<waiter, sched>> /\ disp.pc = "send" /\ disp'.chunk = disp.chunk + 1
        /\ \A q \in Readers : reader'[q] = reader[q] \/ (q = r /\ reader'[q].chunk = disp.chunk)
        /\ reader[r].pc = "idle"
    BY <1>2, Fields DEF Dispatch
  <2>2. Front' = Front
    BY <2>1 DEF Front
  <2>3. disp.chunk \in Chunks /\ waiter[disp.chunk] = NoData
    BY <2>1, Fields DEF SlotInv, PlaceInv
  <2>4. \A q \in Readers : \/ Active(q)' = Active(q) /\ reader'[q].chunk = reader[q].chunk
                           \/ q = r /\ reader'[q].chunk = disp.chunk
    BY <1>2, Fields DEF Dispatch, Active
  <2>5. \A q \in Readers : Active(q)' =>
          Front <= reader'[q].chunk /\ reader'[q].chunk < disp'.chunk /\ waiter'[reader'[q].chunk] = NoData
    BY <2>1, <2>3, <2>4, Numbers DEF PlaceInv
  <2>6. \A p, q \in Readers : Active(p)' /\ Active(q)' /\ p # q => reader'[p].chunk # reader'[q].chunk
    <3>1. \A q \in Readers : q # r /\ Active(q)' => Active(q) /\ reader'[q].chunk = reader[q].chunk
      BY <2>4
    <3>2. \A q \in Readers : Active(q) => reader[q].chunk < disp.chunk
      BY DEF PlaceInv
    <3>3. reader'[r].chunk = disp.chunk
      BY <1>2, Fields DEF Dispatch
    <3> QED
      BY <3>1, <3>2, <3>3, Numbers DEF PlaceInv
  <2>7. Front \in Int /\ Front' <= disp'.chunk
    BY <2>1, <2>2, Numbers DEF PlaceInv, Front
  <2>8. \A c \in Chunks : waiter'[c] # NoData => Front <= c /\ c < disp'.chunk
    BY <2>1, Numbers DEF PlaceInv
  <2> QED
    BY <2>2, <2>5, <2>6, <2>7, <2>8 DEF PlaceInv
<1>3. CASE DispatcherExits
  BY <1>3, Fields DEF DispatcherExits, PlaceInv, Front, Active, DispType
<1>4. ASSUME NEW r \in Readers, StartRead(r) PROVE PlaceInv'
  <2>1. /\ UNCHANGED <<disp, waiter, sched>>
        /\ \A q \in Readers : reader'[q] = reader[q] \/ (q = r /\ reader'[q].pc = "read" /\ reader'[q].chunk = reader[q].chunk)
    BY <1>4, Fields DEF StartRead, ReaderType
  <2>2. Front' = Front
    BY <2>1 DEF Front
  <2>3. \A q \in Readers : Active(q)' => Active(q) /\ reader'[q].chunk = reader[q].chunk
    BY <1>4, <2>1, Fields DEF Active, StartRead
  <2> QED
    BY <2>1, <2>2, <2>3 DEF PlaceInv
<1>5. ASSUME NEW r \in Readers, ReadChunk(r) PROVE PlaceInv'
  <2>1. /\ UNCHANGED <<disp, sched>> /\ Active(r)
        /\ \A q \in Readers : reader'[q] = IF q = r THEN IdleReader ELSE reader[q]
        /\ \A c \in Chunks : c # reader[r].chunk => waiter'[c] = waiter[c]
    BY <1>5, Fields DEF ReadChunk, Active
  <2>2. Front' = Front
    BY <2>1 DEF Front
  <2>3. \A q \in Readers : Active(q)' => q # r /\ Active(q) /\ reader'[q] = reader[q]
    BY <2>1 DEF Active, IdleReader
  <2>4. /\ \A q \in Readers : Active(q) => reader[q].chunk \in Chunks
        /\ Front <= reader[r].chunk /\ reader[r].chunk < disp.chunk
    <3>1. /\ Front <= reader[r].chunk /\ reader[r].chunk < disp.chunk
          /\ \A q \in Readers : Active(q) => Front <= reader[q].chunk /\ reader[q].chunk < disp.chunk
      BY <2>1 DEF PlaceInv
    <3>2. Front \in Nat /\ Front >= 1 /\ disp.chunk <= NChunks + 1
      BY Fields, SMTT(30) DEF Front
    <3> QED
      BY <3>1, <3>2, Numbers
  <2>5. \A q \in Readers : Active(q)' => waiter'[reader'[q].chunk] = NoData
    BY <2>1, <2>3, <2>4 DEF PlaceInv
  <2>6. \A c \in Chunks : waiter'[c] # NoData => Front <= c /\ c < disp.chunk
    BY <2>1, <2>4 DEF PlaceInv
  <2> QED
    BY <2>1, <2>2, <2>3, <2>5, <2>6 DEF PlaceInv
<1>6. ASSUME NEW r \in Readers, ReadFails(r) PROVE PlaceInv'
  <2>0. \/ reader' = [reader EXCEPT ![r].pc = "try", ![r].tries = @ - 1]
        \/ reader' = [reader EXCEPT ![r].pc = "exit"]
    BY <1>6 DEF ReadFails
  <2>1. UNCHANGED <<disp, waiter, sched>> /\ reader[r].pc = "read"
    BY <1>6 DEF ReadFails
  <2>2. Front' = Front
    BY <2>1 DEF Front
  <2>3. \A q \in Readers : Active(q)' => Active(q) /\ reader'[q].chunk = reader[q].chunk
    <3> SUFFICES ASSUME NEW q \in Readers, Active(q)'
                 PROVE  Active(q) /\ reader'[q].chunk = reader[q].chunk
      OBVIOUS
    <3>1. reader \in [Readers -> ReaderType]
      BY Fields
    <3>2. reader'[q].chunk = reader[q].chunk /\ (q # r => reader'[q] = reader[q])
      BY <2>0, <3>1 DEF ReaderType
    <3> QED
      BY <2>1, <3>2 DEF Active
  <2> QED
    BY <2>1, <2>2, <2>3 DEF PlaceInv
<1>7. ASSUME NEW r \in Readers, ReaderExits(r) PROVE PlaceInv'
  <2>1. /\ UNCHANGED <<disp, waiter, sched>>
        /\ \A q \in Readers : reader'[q] = reader[q] \/ (q = r /\ reader'[q].pc = "exit")
    BY <1>7, Fields DEF ReaderExits, ReaderType
  <2>2. Front' = Front
    BY <2>1 DEF Front
  <2>3. \A q \in Readers : Active(q)' => Active(q) /\ reader'[q].chunk = reader[q].chunk
    BY <1>7, <2>1, Fields DEF Active, ReaderExits
  <2> QED
    BY <2>1, <2>2, <2>3 DEF PlaceInv
<1>8. ASSUME NEW c \in Chunks, Collect(c) PROVE PlaceInv'
  <2>1. /\ UNCHANGED <<disp, reader>> /\ sched.pc = "wait" /\ c = sched.chunk
        /\ sched'.pc = "send" /\ sched'.chunk = c
        /\ waiter[c] # NoData /\ waiter'[c] = NoData
        /\ \A d \in Chunks : d # c => waiter'[d] = waiter[d]
    BY <1>8, Fields DEF Collect, Arrived, SchedType
  <2>2. Front = c /\ Front' = c + 1 /\ c < disp.chunk
    BY <2>1, Fields DEF Front, PlaceInv
  <2>3. \A q \in Readers : Active(q) => reader[q].chunk # c /\ reader[q].chunk \in Chunks
    BY <2>1, <2>2, Fields, SMTT(30) DEF PlaceInv
  <2>4. \A q \in Readers : Active(q)' = Active(q)
    BY <2>1 DEF Active
  <2>5. \A q \in Readers : Active(q) =>
          c + 1 <= reader[q].chunk /\ reader[q].chunk < disp.chunk /\ waiter'[reader[q].chunk] = NoData
    BY <2>1, <2>2, <2>3, Numbers DEF PlaceInv
  <2>6. \A d \in Chunks : waiter'[d] # NoData => c + 1 <= d /\ d < disp.chunk
    BY <2>1, <2>2, Numbers DEF PlaceInv
  <2>7. Front' <= disp'.chunk
    BY <2>1, <2>2, Fields, SMTT(30)
  <2>8. \A q \in Readers : Active(q)' =>
          Front' <= reader'[q].chunk /\ reader'[q].chunk < disp'.chunk /\ waiter'[reader'[q].chunk] = NoData
    BY <2>1, <2>2, <2>4, <2>5
  <2>9. \A p, q \in Readers : Active(p)' /\ Active(q)' /\ p # q => reader'[p].chunk # reader'[q].chunk
    BY <2>1, <2>4 DEF PlaceInv
  <2>10. \A d \in Chunks : waiter'[d] # NoData => Front' <= d /\ d < disp'.chunk
    BY <2>1, <2>2, <2>6
  <2> QED
    BY <2>7, <2>8, <2>9, <2>10 DEF PlaceInv
<1>9. CASE PassOn
  BY <1>9, Fields, SMTT(30) DEF PassOn, PlaceInv, Front, Active, SchedType, WriterType
<1>10. CASE SchedulerExits
  <2>1. UNCHANGED <<disp, reader, waiter>> /\ sched'.chunk = sched.chunk /\ sched'.pc = "exit"
    BY <1>10, Fields DEF SchedulerExits, SchedType
  <2>2. Front' <= Front /\ Front \in Nat /\ Front' \in Nat
    BY <2>1, Fields, SMTT(30) DEF Front
  <2>3. \A q \in Readers : Active(q)' = Active(q) /\ reader[q].chunk \in Nat
    BY <2>1, Fields DEF Active
  <2> QED
    BY <2>1, <2>2, <2>3, Numbers DEF PlaceInv
<1>11. CASE StartPart
  BY <1>11, Fields DEF StartPart, PlaceInv, Front, Active, WriterType
<1>12. CASE PartUploaded
  BY <1>12, Fields DEF PartUploaded, PlaceInv, Front, Active, WriterType
<1>13. CASE PartFails
  BY <1>13, Fields DEF PartFails, PlaceInv, Front, Active, WriterType
<1>14. CASE Report
  BY <1>14, Fields DEF Report, PlaceInv, Front, Active, WriterType
<1>15. CASE ReleaseSlot
  BY <1>15, Fields DEF ReleaseSlot, PlaceInv, Front, Active, WriterType, IdleWriter
<1>16. CASE WriterExits
  BY <1>16, Fields DEF WriterExits, PlaceInv, Front, Active, WriterType
<1>17. CASE AddPart
  BY <1>17, Fields DEF AddPart, PlaceInv, Front, Active
<1>18. CASE AllPartsDone
  BY <1>18, Fields DEF AllPartsDone, PlaceInv, Front, Active
<1>19. CASE RefreshToken
  BY <1>19, Fields DEF RefreshToken, PlaceInv, Front, Active
<1>20. CASE Quit
  BY <1>20, Fields DEF Quit, PlaceInv, Front, Active
<1>21. CASE RefreshFails
  BY <1>21, Fields DEF RefreshFails, Return, PlaceInv, Front, Active, goroutines
<1>22. CASE ErrReceived
  BY <1>22, Fields DEF ErrReceived, Return, PlaceInv, Front, Active, goroutines
<1>23. CASE TimeOut
  BY <1>23, Fields DEF TimeOut, Return, PlaceInv, Front, Active, goroutines
<1>24. CASE Complete
  BY <1>24, Fields DEF Complete, Return, PlaceInv, Front, Active, goroutines
<1>25. CASE ParentCancel
  BY <1>25, Fields DEF ParentCancel, PlaceInv, Front, Active, goroutines
<1>26. CASE UNCHANGED vars
  BY <1>26, Fields DEF vars, PlaceInv, Front, Active
<1> QED
  BY <1>1, <1>2, <1>3, <1>4, <1>5, <1>6, <1>7, <1>8, <1>9, <1>10, <1>11, <1>12, <1>13,
     <1>14, <1>15, <1>16, <1>17, <1>18, <1>19, <1>20, <1>21, <1>22, <1>23, <1>24, <1>25,
     <1>26 DEF Next, ReaderStep, Dispatcher, Scheduler, Writer, Collector, Main, Quiet

(* The readers that are gone are finitely many. *)
LEMMA GoneType ==
    /\ IsFiniteSet(Gone) /\ Cardinality(Gone) \in Nat /\ Cardinality(Gone) <= Cardinality(Readers)
<1>1. Gone \subseteq Readers /\ IsFiniteSet(Readers)
  BY MultipartAssumption, ChunksThere DEF Gone
<1>2. IsFiniteSet(Gone) /\ Cardinality(Gone) <= Cardinality(Readers)
  BY <1>1, FS_Subset
<1> QED
  BY <1>2, FS_CardinalityType

(* The number of errors in flight fits the error channel. *)
LEMMA ErrType == TypeOK => errs \in Nat /\ errs <= Cardinality(Readers) + 1
<1> SUFFICES ASSUME TypeOK PROVE errs \in Nat /\ errs <= Cardinality(Readers) + 1
  OBVIOUS
<1>1. errs \in 0..(Cardinality(Readers) + 1)
  BY Zenon DEF TypeOK
<1> QED
  BY <1>1, Fields

(* The errors, one action at a time. *)
LEMMA ErrKeeps == TypeOK /\ ErrInv /\ [Next]_vars => ErrInv'
<1> SUFFICES ASSUME TypeOK, ErrInv, [Next]_vars PROVE ErrInv'
  OBVIOUS
<1>1. CASE TakeSlot
  BY <1>1, Fields, GoneType, ErrType DEF TakeSlot, ErrInv, Gone
<1>2. ASSUME NEW r \in Readers, Dispatch(r) PROVE ErrInv'
  <2>1. reader[r] \in ReaderType /\ IsFiniteSet(Gone) /\ Cardinality(Gone) \in Nat
    BY Fields, GoneType
  <2>2. \A q \in Readers : q # r => reader'[q] = reader[q]
    BY <1>2, Fields DEF Dispatch
  <2>3. reader[r].pc # "exit" /\ reader'[r].pc # "exit" /\ errs' = errs /\ writer' = writer
    BY <1>2, <2>1, Fields DEF Dispatch, ReaderType, IdleReader
  <2>4. Gone' = Gone
    BY <2>2, <2>3 DEF Gone
  <2> QED
    BY <2>3, <2>4 DEF ErrInv
<1>3. CASE DispatcherExits
  BY <1>3, Fields, GoneType, ErrType DEF DispatcherExits, ErrInv, Gone
<1>4. ASSUME NEW r \in Readers, StartRead(r) PROVE ErrInv'
  <2>1. reader[r] \in ReaderType /\ IsFiniteSet(Gone) /\ Cardinality(Gone) \in Nat
    BY Fields, GoneType
  <2>2. \A q \in Readers : q # r => reader'[q] = reader[q]
    BY <1>4, Fields DEF StartRead
  <2>3. reader[r].pc # "exit" /\ reader'[r].pc # "exit" /\ errs' = errs /\ writer' = writer
    BY <1>4, <2>1, Fields DEF StartRead, ReaderType, IdleReader
  <2>4. Gone' = Gone
    BY <2>2, <2>3 DEF Gone
  <2> QED
    BY <2>3, <2>4 DEF ErrInv
<1>5. ASSUME NEW r \in Readers, ReadChunk(r) PROVE ErrInv'
  <2>1. reader[r] \in ReaderType /\ IsFiniteSet(Gone) /\ Cardinality(Gone) \in Nat
    BY Fields, GoneType
  <2>2. \A q \in Readers : q # r => reader'[q] = reader[q]
    BY <1>5, Fields DEF ReadChunk
  <2>3. reader[r].pc # "exit" /\ reader'[r].pc # "exit" /\ errs' = errs /\ writer' = writer
    BY <1>5, <2>1, Fields DEF ReadChunk, ReaderType, IdleReader
  <2>4. Gone' = Gone
    BY <2>2, <2>3 DEF Gone
  <2> QED
    BY <2>3, <2>4 DEF ErrInv
<1>6. ASSUME NEW r \in Readers, ReadFails(r) PROVE ErrInv'
  <2>1. reader[r] \in ReaderType /\ IsFiniteSet(Gone) /\ Cardinality(Gone) \in Nat
    BY Fields, GoneType
  <2>2. \A q \in Readers : q # r => reader'[q] = reader[q]
    BY <1>6, Fields DEF ReadFails
  <2>3. /\ reader[r].pc # "exit" /\ writer' = writer
        /\ \/ errs' = errs + 1 /\ reader'[r].pc = "exit"
           \/ errs' = errs /\ reader'[r].pc # "exit"
    <3>0. reader[r].pc = "read" /\ writer' = writer
      BY <1>6 DEF ReadFails
    <3>1. CASE reader[r].tries > 1
      <4>1. reader' = [reader EXCEPT ![r].pc = "try", ![r].tries = @ - 1] /\ errs' = errs
        BY <1>6, <3>1 DEF ReadFails
      <4>2. reader'[r].pc = "try"
        BY <2>1, <4>1, Fields DEF ReaderType
      <4> QED
        BY <3>0, <4>1, <4>2
    <3>2. CASE ~(reader[r].tries > 1)
      <4>1. reader' = [reader EXCEPT ![r].pc = "exit"] /\ errs' = errs + 1
        BY <1>6, <3>2 DEF ReadFails
      <4>2. reader'[r].pc = "exit"
        BY <2>1, <4>1, Fields DEF ReaderType
      <4> QED
        BY <3>0, <4>1, <4>2
    <3> QED
      BY <3>1, <3>2
  <2>4. CASE reader'[r].pc = "exit"
    <3>1. Gone' = Gone \cup {r} /\ r \notin Gone
      BY <2>2, <2>3, <2>4 DEF Gone
    <3>2. Cardinality(Gone') = Cardinality(Gone) + 1
      BY <2>1, <3>1, FS_AddElement
    <3> QED
      BY <2>1, <2>3, <2>4, <3>2, ErrType DEF ErrInv
  <2>5. CASE reader'[r].pc # "exit"
    <3>1. Gone' = Gone
      BY <2>2, <2>3, <2>5 DEF Gone
    <3> QED
      BY <2>3, <2>5, <3>1 DEF ErrInv
  <2> QED
    BY <2>4, <2>5
<1>7. ASSUME NEW r \in Readers, ReaderExits(r) PROVE ErrInv'
  <2>1. reader[r] \in ReaderType /\ IsFiniteSet(Gone) /\ Cardinality(Gone) \in Nat
    BY Fields, GoneType
  <2>2. \A q \in Readers : q # r => reader'[q] = reader[q]
    BY <1>7, Fields DEF ReaderExits
  <2>3. reader[r].pc # "exit" /\ writer' = writer /\ errs' = errs /\ reader'[r].pc = "exit"
    BY <1>7, <2>1, Fields DEF ReaderExits, ReaderType
  <2>4. CASE reader'[r].pc = "exit"
    <3>1. Gone' = Gone \cup {r} /\ r \notin Gone
      BY <2>2, <2>3, <2>4 DEF Gone
    <3>2. Cardinality(Gone') = Cardinality(Gone) + 1
      BY <2>1, <3>1, FS_AddElement
    <3> QED
      BY <2>1, <2>3, <2>4, <3>2, ErrType DEF ErrInv
  <2> QED
    BY <2>3, <2>4
<1>8. ASSUME NEW c \in Chunks, Collect(c) PROVE ErrInv'
  BY <1>8, Fields, GoneType, ErrType DEF Collect, ErrInv, Gone
<1>9. CASE PassOn
  BY <1>9, Fields, GoneType, ErrType DEF PassOn, ErrInv, Gone, WriterType
<1>10. CASE SchedulerExits
  BY <1>10, Fields, GoneType, ErrType DEF SchedulerExits, ErrInv, Gone
<1>11. CASE StartPart
  BY <1>11, Fields, GoneType, ErrType DEF StartPart, ErrInv, Gone, WriterType
<1>12. CASE PartUploaded
  BY <1>12, Fields, GoneType, ErrType DEF PartUploaded, ErrInv, Gone, WriterType
<1>13. CASE PartFails
  <2>1. Gone' = Gone
    BY <1>13 DEF PartFails, Gone
  <2>2. \/ errs' = errs /\ writer.pc = "put"
        \/ errs' = errs + 1 /\ writer.pc = "put" /\ writer'.pc = "exit"
    BY <1>13, Fields DEF PartFails, WriterType
  <2> QED
    BY <2>1, <2>2, GoneType, ErrType DEF ErrInv
<1>14. CASE Report
  BY <1>14, Fields, GoneType, ErrType DEF Report, ErrInv, Gone, WriterType
<1>15. CASE ReleaseSlot
  BY <1>15, Fields, GoneType, ErrType DEF ReleaseSlot, ErrInv, Gone, IdleWriter,
     WriterType
<1>16. CASE WriterExits
  <2>1. UNCHANGED <<errs, reader>> /\ writer'.pc = "exit" /\ writer.pc # "exit"
    BY <1>16, Fields DEF WriterExits, WriterType
  <2>2. Gone' = Gone
    BY <2>1 DEF Gone
  <2> QED
    BY <2>1, <2>2, GoneType, ErrType DEF ErrInv
<1>17. CASE AddPart
  BY <1>17, Fields, GoneType, ErrType DEF AddPart, ErrInv, Gone
<1>18. CASE AllPartsDone
  BY <1>18, Fields, GoneType, ErrType DEF AllPartsDone, ErrInv, Gone
<1>19. CASE RefreshToken
  BY <1>19, Fields, GoneType, ErrType DEF RefreshToken, ErrInv, Gone
<1>20. CASE Quit
  BY <1>20, Fields, GoneType, ErrType DEF Quit, ErrInv, Gone
<1>21. CASE RefreshFails
  BY <1>21, Fields, GoneType, ErrType DEF RefreshFails, Return, ErrInv, Gone, goroutines
<1>22. CASE ErrReceived
  <2>1. errs' = errs - 1 /\ writer' = writer /\ Gone' = Gone
    BY <1>22 DEF ErrReceived, Return, goroutines, Gone
  <2> QED
    BY <2>1, GoneType, ErrType DEF ErrInv
<1>23. CASE TimeOut
  BY <1>23, Fields, GoneType, ErrType DEF TimeOut, Return, ErrInv, Gone, goroutines
<1>24. CASE Complete
  BY <1>24, Fields, GoneType, ErrType DEF Complete, Return, ErrInv, Gone, goroutines
<1>25. CASE ParentCancel
  BY <1>25, Fields, GoneType, ErrType DEF ParentCancel, ErrInv, Gone, goroutines
<1>26. CASE UNCHANGED vars
  BY <1>26, Fields, GoneType, ErrType DEF vars, ErrInv, Gone
<1> QED
  BY <1>1, <1>2, <1>3, <1>4, <1>5, <1>6, <1>7, <1>8, <1>9, <1>10, <1>11, <1>12, <1>13,
     <1>14, <1>15, <1>16, <1>17, <1>18, <1>19, <1>20, <1>21, <1>22, <1>23, <1>24, <1>25,
     <1>26 DEF Next, ReaderStep, Dispatcher, Scheduler, Writer, Collector, Main, Quiet

(* The types, one action at a time. *)
LEMMA PartsKeep == TypeOK /\ TypeParts /\ OrderInv /\ CountInv /\ SlotInv /\ PlaceInv /\ ErrInv /\ [Next]_vars => TypeParts'
<1> SUFFICES ASSUME TypeOK, TypeParts, OrderInv, CountInv, SlotInv, PlaceInv, ErrInv, [Next]_vars PROVE TypeParts'
  OBVIOUS
<1>1. CASE TakeSlot
  <2>1. disp' \in DispType
    BY <1>1, Fields DEF TakeSlot, DispType
  <2>2. tokens' \in 0..QueueMax
    BY <1>1, Fields DEF TakeSlot
  <2> QED
    BY <1>1, <2>1, <2>2, Zenon DEF TakeSlot, TypeParts
<1>2. ASSUME NEW r \in Readers, Dispatch(r) PROVE TypeParts'
  <2>1. disp.chunk \in 1..NChunks
    BY <1>2, Fields DEF Dispatch, SlotInv
  <2>2. disp' \in DispType
    BY <1>2, <2>1, Fields, SMTT(30) DEF Dispatch, DispType
  <2>3. [pc |-> "try", chunk |-> disp.chunk, tries |-> MaxTries] \in ReaderType
    BY <2>1, Fields, SMTT(30) DEF ReaderType
  <2>4. reader' \in [Readers -> ReaderType]
    BY <1>2, <2>3, Fields DEF Dispatch
  <2> QED
    BY <1>2, <2>1, <2>2, <2>3, <2>4, Zenon DEF Dispatch, TypeParts
<1>3. CASE DispatcherExits
  <2>1. disp' \in DispType
    BY <1>3, Fields DEF DispatcherExits, DispType
  <2> QED
    BY <1>3, <2>1, Zenon DEF DispatcherExits, TypeParts
<1>4. ASSUME NEW r \in Readers, StartRead(r) PROVE TypeParts'
  <2>1. [reader[r] EXCEPT !.pc = "read"] \in ReaderType
    BY Fields DEF ReaderType
  <2>2. reader' \in [Readers -> ReaderType]
    BY <1>4, <2>1, Fields DEF StartRead
  <2> QED
    BY <1>4, <2>1, <2>2, Zenon DEF StartRead, TypeParts
<1>5. ASSUME NEW r \in Readers, ReadChunk(r) PROVE TypeParts'
  <2>1. IdleReader \in ReaderType
    BY Fields DEF IdleReader, ReaderType
  <2>2. reader' \in [Readers -> ReaderType]
    BY <1>5, <2>1, Fields DEF ReadChunk
  <2>3. waiter' \in [Chunks -> Data \cup {NoData}]
    BY <1>5, Fields DEF ReadChunk
  <2> QED
    BY <1>5, <2>1, <2>2, <2>3, Zenon DEF ReadChunk, TypeParts
<1>6. ASSUME NEW r \in Readers, ReadFails(r) PROVE TypeParts'
  <2>1. \/ reader' = [reader EXCEPT ![r] = [reader[r] EXCEPT !.pc = "try", !.tries = reader[r].tries - 1]]
           /\ errs' = errs /\ reader[r].tries > 1
        \/ reader' = [reader EXCEPT ![r] = [reader[r] EXCEPT !.pc = "exit"]] /\ errs' = errs + 1
    BY <1>6 DEF ReadFails
  <2>2. /\ [reader[r] EXCEPT !.pc = "exit"] \in ReaderType
        /\ reader[r].tries > 1 => [reader[r] EXCEPT !.pc = "try", !.tries = reader[r].tries - 1] \in ReaderType
    <3>1. /\ reader[r] \in ReaderType
          /\ reader[r].tries > 1 => reader[r].tries - 1 \in 0..MaxTries
      BY Fields, SMTT(30)
    <3> QED
      BY <3>1 DEF ReaderType
  <2>3. reader' \in [Readers -> ReaderType]
    BY <2>1, <2>2, Fields
  <2>4. errs' \in 0..(Cardinality(Readers) + 1)
    <3>1. r \notin Gone /\ Gone \subseteq Readers /\ r \in Readers
      BY <1>6 DEF ReadFails, Gone
    <3>2. errs <= Cardinality(Readers)
      <4>1. Cardinality(Gone \cup {r}) = Cardinality(Gone) + 1
        BY <3>1, GoneType, FS_AddElement
      <4>2. Gone \cup {r} \subseteq Readers /\ IsFiniteSet(Readers)
        BY <3>1, MultipartAssumption, ChunksThere
      <4>3. Cardinality(Gone \cup {r}) <= Cardinality(Readers)
        BY <4>2, FS_Subset
      <4> QED
        BY <4>1, <4>3, GoneType, ErrType, Fields, SMTT(30) DEF ErrInv
    <3>3. errs' = errs \/ errs' = errs + 1
      BY <2>1
    <3> QED
      BY <3>2, <3>3, ErrType, Fields, SMTT(30)
  <2> QED
    BY <1>6, <2>3, <2>4, Zenon DEF ReadFails, TypeParts
<1>7. ASSUME NEW r \in Readers, ReaderExits(r) PROVE TypeParts'
  <2>1. [reader[r] EXCEPT !.pc = "exit"] \in ReaderType
    BY Fields DEF ReaderType
  <2>2. reader' \in [Readers -> ReaderType]
    BY <1>7, <2>1, Fields DEF ReaderExits
  <2> QED
    BY <1>7, <2>1, <2>2, Zenon DEF ReaderExits, TypeParts
<1>8. ASSUME NEW c \in Chunks, Collect(c) PROVE TypeParts'
  <2>1. c \in 1..(NChunks + 1) /\ waiter[c] \in Data \cup {NoData}
    BY Fields
  <2>2. sched' = [sched EXCEPT !.pc = "send", !.chunk = c, !.data = waiter[c]]
    BY <1>8 DEF Collect
  <2>3. sched' \in SchedType
    BY <2>1, <2>2, Fields DEF SchedType
  <2>4. waiter' \in [Chunks -> Data \cup {NoData}]
    BY <1>8, Fields DEF Collect
  <2> QED
    BY <1>8, <2>1, <2>2, <2>3, <2>4, Zenon DEF Collect, TypeParts
<1>9. CASE PassOn
  <2>1. sched.chunk \in 1..NChunks
    BY <1>9, Fields DEF PassOn, PlaceInv, Front
  <2>2. sched' \in SchedType
    BY <1>9, <2>1, Fields, SMTT(30) DEF PassOn, SchedType
  <2>3. sched.data \in Data \cup {NoData} /\ MaxTries \in 0..MaxTries
    BY Fields DEF SchedType
  <2>4. writer' = [writer EXCEPT !.pc = "try", !.chunk = sched.chunk, !.data = sched.data, !.tries = MaxTries]
    BY <1>9 DEF PassOn
  <2>5. sched.chunk \in 0..NChunks /\ writer \in WriterType
    BY <2>1, Fields
  <2>6. writer' \in WriterType
    BY <2>3, <2>4, <2>5 DEF WriterType
  <2> QED
    BY <1>9, <2>1, <2>2, <2>3, <2>4, <2>5, <2>6, Zenon DEF PassOn, TypeParts
<1>10. CASE SchedulerExits
  <2>1. sched' \in SchedType
    BY <1>10, Fields DEF SchedulerExits, SchedType
  <2> QED
    BY <1>10, <2>1, Zenon DEF SchedulerExits, TypeParts
<1>11. CASE StartPart
  BY <1>11, MultipartAssumption, ChunksThere DEF StartPart, TypeParts, WriterType
<1>12. CASE PartUploaded
  BY <1>12, MultipartAssumption, ChunksThere DEF PartUploaded, TypeParts, WriterType
<1>13. CASE PartFails
  <2>1. \/ writer' = [writer EXCEPT !.pc = "try", !.tries = writer.tries - 1]
           /\ errs' = errs /\ writer.tries > 1
        \/ writer' = [writer EXCEPT !.pc = "exit"] /\ errs' = errs + 1
    BY <1>13 DEF PartFails
  <2>2. writer' \in WriterType
    <3>1. writer \in WriterType /\ (writer.tries > 1 => writer.tries - 1 \in 0..MaxTries)
      BY Fields, SMTT(30)
    <3> QED
      BY <2>1, <3>1 DEF WriterType
  <2>3. errs' \in 0..(Cardinality(Readers) + 1)
    <3>1. errs <= Cardinality(Readers)
      BY <1>13, GoneType, ErrType, Fields DEF ErrInv, PartFails
    <3> QED
      BY <2>1, <3>1, ErrType, Fields, SMTT(30)
  <2>4. stored' \in [Chunks -> Data \cup {NoData}]
    <3>1. writer.data \in Data \cup {NoData}
      BY Fields DEF WriterType
    <3> QED
      BY <1>13, <3>1, Fields DEF PartFails
  <2> QED
    BY <1>13, <2>2, <2>3, <2>4, Zenon DEF PartFails, TypeParts
<1>14. CASE Report
  BY <1>14, MultipartAssumption, ChunksThere DEF Report, TypeParts, WriterType
<1>15. CASE ReleaseSlot
  <2>1. writer' \in WriterType
    BY <1>15, Fields DEF ReleaseSlot, IdleWriter, WriterType
  <2>2. tokens' \in 0..QueueMax
    BY <1>15, Fields, SMTT(30) DEF ReleaseSlot
  <2> QED
    BY <1>15, <2>1, <2>2, Zenon DEF ReleaseSlot, TypeParts
<1>16. CASE WriterExits
  BY <1>16, MultipartAssumption, ChunksThere DEF WriterExits, TypeParts, WriterType
<1>17. CASE AddPart
  <2>1. inbox \in Chunks /\ inbox = Len(parts) + 1
    BY <1>17, Fields DEF AddPart, OrderInv
  <2>2. parts' \in Seq(Chunks)
    BY <1>17, <2>1, Fields DEF AddPart
  <2>3. wg' \in 0..NChunks
    BY <1>17, <2>1, Fields, SMTT(30) DEF AddPart, CountInv
  <2>4. inbox' \in 0..NChunks
    BY <1>17, Fields DEF AddPart
  <2> QED
    BY <1>17, <2>1, <2>2, <2>3, <2>4, Zenon DEF AddPart, TypeParts
<1>18. CASE AllPartsDone
  BY <1>18, MultipartAssumption, ChunksThere DEF AllPartsDone, TypeParts
<1>19. CASE RefreshToken
  BY <1>19, MultipartAssumption, ChunksThere DEF RefreshToken, TypeParts
<1>20. CASE Quit
  BY <1>20, MultipartAssumption, ChunksThere DEF Quit, TypeParts
<1>21. CASE RefreshFails
  BY <1>21, MultipartAssumption, ChunksThere DEF RefreshFails, Return, TypeParts, goroutines
<1>22. CASE ErrReceived
  <2>1. errs' \in 0..(Cardinality(Readers) + 1)
    BY <1>22, ErrType, Fields, SMTT(30) DEF ErrReceived
  <2>2. main' = "failed" /\ ctxDone' = TRUE
    BY <1>22 DEF ErrReceived, Return
  <2> QED
    BY <1>22, <2>1, <2>2, Zenon DEF ErrReceived, TypeParts, Return, goroutines
<1>23. CASE TimeOut
  BY <1>23, MultipartAssumption, ChunksThere DEF TimeOut, Return, TypeParts, goroutines
<1>24. CASE Complete
  BY <1>24, MultipartAssumption, ChunksThere DEF Complete, Return, TypeParts, goroutines
<1>25. CASE ParentCancel
  BY <1>25, MultipartAssumption, ChunksThere DEF ParentCancel, TypeParts, goroutines
<1>26. CASE UNCHANGED vars
  BY <1>26, MultipartAssumption, ChunksThere DEF vars, TypeParts
<1> QED
  BY <1>1, <1>2, <1>3, <1>4, <1>5, <1>6, <1>7, <1>8, <1>9, <1>10, <1>11, <1>12, <1>13,
     <1>14, <1>15, <1>16, <1>17, <1>18, <1>19, <1>20, <1>21, <1>22, <1>23, <1>24, <1>25,
     <1>26 DEF Next, ReaderStep, Dispatcher, Scheduler, Writer, Collector, Main, Quiet

(* Each step keeps the type invariant, given the invariants that bound its counters. *)
LEMMA TypeKeeps ==
    TypeOK /\ OrderInv /\ CountInv /\ SlotInv /\ PlaceInv /\ ErrInv /\ [Next]_vars => TypeOK'
BY TypeFold, PartsKeep

(* The invariant holds before the first step. *)
LEMMA InitInv == Init => IInv
<1> SUFFICES ASSUME Init PROVE IInv
  OBVIOUS
<1>0. NChunks \in Nat /\ NChunks >= 1 /\ QueueMax \in Nat /\ MaxTries \in Nat /\ MaxRefresh \in Nat
      /\ Cardinality(Readers) \in Nat
  BY MultipartAssumption, ChunksThere, FS_CardinalityType
<1>1. disp \in DispType /\ sched \in SchedType
  BY <1>0 DEF Init, DispType, SchedType
<1>2. writer \in WriterType
  BY <1>0 DEF Init, IdleWriter, WriterType
<1>3. reader \in [Readers -> ReaderType]
  <2>1. IdleReader \in ReaderType
    BY <1>0 DEF IdleReader, ReaderType
  <2> QED
    BY <2>1 DEF Init
<1>4. /\ waiter \in [Chunks -> Data \cup {NoData}] /\ stored \in [Chunks -> Data \cup {NoData}]
      /\ parts = << >> /\ Len(parts) = 0
  BY DEF Init
<1>5. TypeOK
  <2>1. /\ tokens \in 0..QueueMax /\ inbox \in 0..NChunks /\ wg \in 0..NChunks
        /\ errs \in 0..(Cardinality(Readers) + 1) /\ ossToken \in 0..MaxRefresh /\ bucket \in 0..MaxRefresh
    <3>1. /\ 0 \in 0..QueueMax /\ 0 \in 0..NChunks /\ NChunks \in 0..NChunks
          /\ 0 \in 0..(Cardinality(Readers) + 1) /\ 0 \in 0..MaxRefresh
      BY <1>0
    <3> QED
      BY <3>1, Zenon DEF Init
  <2>2. parts \in Seq(Chunks)
    BY <1>4
  <2>3. TypeParts
    BY <1>1, <1>2, <1>3, <1>4, <2>1, <2>2, Zenon DEF Init, TypeParts
  <2> QED
    BY <2>3, TypeFold
<1>6. /\ Done = 0 /\ Released = 0 /\ Front = 1
      /\ \A r \in Readers : ~Active(r) /\ reader[r].pc # "exit"
      /\ \A c \in Chunks : waiter[c] = NoData
  BY <1>4 DEF Init, Done, Released, Front, Active, IdleWriter, IdleReader
<1>7. PartsInOrder
  BY <1>4 DEF PartsInOrder
<1>8. OrderInv
  BY <1>4, <1>6, <1>7 DEF Init, OrderInv, IdleWriter
<1>9. CountInv /\ SignInv
  BY <1>0, <1>4 DEF Init, CountInv, SignInv, SignedTogether, IdleWriter
<1>10. DataInv
  BY <1>6 DEF Init, DataInv, IdleWriter
<1>11. SlotInv
  BY <1>0, <1>6 DEF Init, SlotInv
<1>12. PlaceInv
  BY <1>6 DEF Init, PlaceInv
<1>13. ErrInv
  BY GoneType DEF Init, ErrInv, IdleWriter
<1> QED
  BY <1>5, <1>8, <1>9, <1>10, <1>11, <1>12, <1>13 DEF IInv

(* Each step keeps the invariant. *)
LEMMA Inductive == IInv /\ [Next]_vars => IInv'
<1> SUFFICES ASSUME IInv, [Next]_vars PROVE IInv'
  OBVIOUS
<1>1. TypeOK /\ OrderInv /\ CountInv /\ DataInv /\ SlotInv /\ PlaceInv /\ ErrInv /\ SignInv
  BY DEF IInv
<1>2. TypeOK' /\ OrderInv' /\ CountInv' /\ DataInv'
  BY <1>1, TypeKeeps, OrderKeeps, CountKeeps, DataKeeps
<1>3. SlotInv' /\ PlaceInv' /\ ErrInv' /\ SignInv'
  BY <1>1, SlotKeeps, PlaceKeeps, ErrKeeps, SignKeeps
<1> QED
  BY <1>2, <1>3 DEF IInv

(* Every buffer is that of a chunk between the last one released and the    *)
(* last one dispatched, and those are no more than the slots taken.         *)
LEMMA BufferedBounded == IInv => MemoryBound
<1> SUFFICES ASSUME IInv PROVE MemoryBound
  OBVIOUS
<1>1. TypeOK /\ OrderInv /\ SlotInv /\ PlaceInv
  BY DEF IInv
<1> DEFINE a == Released + 1
           b == disp.chunk - 1
<1>2. a \in Int /\ b \in Int /\ Done \in Int /\ Released \in Int /\ b - Released <= QueueMax
      /\ QueueMax \in Nat /\ (Released = Done \/ Released = Done - 1) /\ disp.chunk \in Int
  <2>1. Done \in Int /\ disp.chunk \in Int /\ tokens \in Int
    BY <1>1, Numbers DEF Done
  <2>2. Released \in Int /\ (Released = Done \/ Released = Done - 1)
    BY <2>1 DEF Released
  <2>3. disp.chunk - 1 - Released <= tokens
    BY <1>1, <2>1, <2>2 DEF SlotInv
  <2>4. tokens <= QueueMax /\ QueueMax \in Nat
    BY <1>1, Fields
  <2> QED
    BY <2>1, <2>2, <2>3, <2>4
<1>3. Buffered \subseteq a..b
  <2>1. Front >= sched.chunk /\ sched.chunk >= Done + 1 /\ Done >= Released /\ Front <= disp.chunk
        /\ Front \in Int /\ sched.chunk \in Int
    <3>1. Front \in Int /\ sched.chunk \in Int /\ Front >= sched.chunk
      BY <1>1, Numbers DEF Front
    <3>2. sched.chunk >= Done + 1 /\ Front <= disp.chunk
      BY <1>1 DEF OrderInv, PlaceInv
    <3> QED
      BY <1>2, <3>1, <3>2
  <2>2. ASSUME NEW r \in Readers, Active(r) PROVE reader[r].chunk \in a..b
    <3>1. Front <= reader[r].chunk /\ reader[r].chunk < disp.chunk /\ reader[r].chunk \in Int
      BY <1>1, <2>2, Numbers DEF PlaceInv
    <3> QED
      BY <1>2, <2>1, <3>1
  <2>3. ASSUME NEW c \in Chunks, waiter[c] # NoData PROVE c \in a..b
    <3>1. Front <= c /\ c < disp.chunk /\ c \in Int
      BY <1>1, <2>3, Numbers DEF PlaceInv
    <3> QED
      BY <1>2, <2>1, <3>1
  <2>4. sched.pc = "send" => sched.chunk \in a..b
    <3>1. sched.pc = "send" => Front = sched.chunk + 1
      BY <2>1 DEF Front
    <3> QED
      BY <1>2, <2>1, <3>1
  <2>5. writer.pc \in {"try", "put", "report", "release"} => writer.chunk \in a..b
    <3>1. writer.pc \in {"try", "put", "report"} =>
            Released = Done /\ writer.chunk = Done + 1 /\ sched.chunk = Done + 2
      BY <1>1, <1>2 DEF OrderInv, Released
    <3>2. writer.pc = "release" =>
            Released = Done - 1 /\ writer.chunk = Done /\ sched.chunk = Done + 1
      BY <1>1, <1>2 DEF OrderInv, Released
    <3> QED
      BY <1>2, <2>1, <3>1, <3>2
  <2> QED
    BY <2>2, <2>3, <2>4, <2>5 DEF Buffered, Active
<1>4. IsFiniteSet(a..b) /\ Cardinality(a..b) = IF a > b THEN 0 ELSE b - a + 1
  BY <1>2, FS_Interval
<1>6. b - a + 1 <= QueueMax
  BY <1>2
<1>5. Cardinality(Buffered) <= Cardinality(a..b) /\ Cardinality(Buffered) \in Nat
  BY <1>3, <1>4, FS_Subset, FS_CardinalityType
<1> HIDE DEF a, b
<1> QED
  BY <1>2, <1>4, <1>5, <1>6 DEF MemoryBound

(* The invariant of the pipeline: the order of the chunks, the WaitGroup,   *)
(* the data, the slots, the places of the chunks and the errors             *)
(* (UploadByMultipart, util.go:358-700).                                    *)
THEOREM Invariance == Spec => []IInv
<1>1. Init => IInv
  BY InitInv
<1>2. IInv /\ [Next]_vars => IInv'
  BY Inductive
<1> QED
  BY <1>1, <1>2, PTL DEF Spec

(* Every variable keeps its type: no counter of the pipeline runs over or   *)
(* below zero, errCh holds every error that is sent.                        *)
THEOREM TypeCorrect == Spec => []TypeOK
<1>1. IInv => TypeOK
  BY DEF IInv
<1> QED
  BY <1>1, Invariance, PTL

(* The parts are registered in file order, whatever order the readers       *)
(* finish in.                                                               *)
THEOREM InOrder == Spec => []PartsInOrder
<1>1. IInv => PartsInOrder
  BY DEF IInv, OrderInv
<1> QED
  BY <1>1, Invariance, PTL

(* CompleteMultipartUpload is called with every part, all are stored, and   *)
(* their ranges tile the file, whatever its size.                           *)
THEOREM CompleteWhole == Spec => []CompleteHasAll
<1>1. IInv => CompleteHasAll
  <2> DEFINE cs == Split(FileSize)
             ranges == [i \in 1..Len(parts) |-> cs[parts[i]]]
  <2> SUFFICES ASSUME IInv, main \in {"complete", "ok"}
               PROVE  /\ parts = [i \in Chunks |-> i] /\ Tiles(ranges, FileSize)
                      /\ \A c \in Chunks : stored[c] # NoData
    BY DEF CompleteHasAll
  <2>1. TypeOK /\ OrderInv /\ CountInv /\ DataInv
    BY DEF IInv
  <2>2. Len(parts) = NChunks /\ NChunks = Len(cs) /\ NChunks \in Nat \ {0}
    BY <2>1, Numbers, ChunksThere DEF CountInv, NChunks
  <2>3. parts = [i \in 1..Len(parts) |-> i]
    BY <2>1 DEF OrderInv, PartsInOrder
  <2>4. Done >= NChunks /\ Done \in Int
    BY <2>1, <2>2, Numbers DEF Done
  <2>5. \A c \in Chunks : stored[c] # NoData
    BY <2>1, <2>4, Numbers DEF DataInv
  <2>6. Tiles(ranges, FileSize)
    <3>1. Tiles(cs, FileSize)
      BY ChunksThere
    <3>2. ranges = [i \in 1..NChunks |-> cs[i]]
      BY <2>2, <2>3
    <3>3. Len(ranges) = NChunks /\ \A i \in 1..NChunks : ranges[i] = cs[i]
      BY <2>2, <3>2
    <3> HIDE DEF ranges, cs
    <3>4. 1 \in 1..NChunks /\ NChunks \in 1..NChunks
          /\ \A i \in 1..(NChunks - 1) : i \in 1..NChunks /\ i + 1 \in 1..NChunks
      BY <2>2
    <3> QED
      BY <2>2, <3>1, <3>3, <3>4 DEF Tiles
  <2> QED
    BY <2>2, <2>3, <2>5, <2>6 DEF Chunks
<1> QED
  BY <1>1, Invariance, PTL

(* Every part that OSS gets is large enough, unless it is the last one, and *)
(* no size a file may have is cut in another way.                           *)
THEOREM PartsFit == Spec => []PartsAccepted
<1>1. IInv => PartsAccepted
  <2> SUFFICES ASSUME IInv, NEW i \in 1..Len(parts), parts[i] # NChunks
               PROVE  Split(FileSize)[parts[i]].size >= MinPart
    BY SplitCorrect DEF PartsAccepted
  <2>1. parts[i] \in Chunks /\ NChunks \in Nat \ {0}
    BY ChunksThere DEF IInv, TypeOK
  <2>2. parts[i] \in 1..(NChunks - 1)
    BY <2>1 DEF Chunks
  <2> QED
    BY <2>2, ChunksThere DEF OssAccepts, NChunks
<1> QED
  BY <1>1, Invariance, PTL

(* No more than queueMaxLen buffers are in memory, for every number of      *)
(* readers and slots.                                                       *)
THEOREM MemoryBounded == Spec => []MemoryBound
BY BufferedBounded, Invariance, PTL

(* No attempt is signed with credentials of two generations.                *)
THEOREM SignedWhole == Spec => []SignedTogether
<1>1. IInv => SignedTogether
  BY DEF IInv, SignInv
<1> QED
  BY <1>1, Invariance, PTL

(* What a step means to the caller: a part is registered, the main loop     *)
(* ends, or nothing.                                                        *)
LEMMA CallerSees ==
    [Next]_vars =>
        \/ UNCHANGED <<main, parts>>
        \/ AddPart
        \/ parts' = parts /\ main = "loop" /\ main' \in {"complete", "failed"}
        \/ parts' = parts /\ main = "complete" /\ main' \in {"ok", "failed"}
<1> SUFFICES ASSUME [Next]_vars
             PROVE  \/ UNCHANGED <<main, parts>>
                    \/ AddPart
                    \/ parts' = parts /\ main = "loop" /\ main' \in {"complete", "failed"}
                    \/ parts' = parts /\ main = "complete" /\ main' \in {"ok", "failed"}
  OBVIOUS
<1>1. ASSUME NEW r \in Readers, ReaderStep(r) PROVE UNCHANGED <<main, parts>>
  BY <1>1 DEF ReaderStep, Dispatch, StartRead, ReadChunk, ReadFails, ReaderExits
<1>2. CASE Dispatcher \/ Scheduler
  BY <1>2 DEF Dispatcher, TakeSlot, DispatcherExits, Scheduler, Collect, PassOn, SchedulerExits
<1>3. CASE Writer
  BY <1>3 DEF Writer, StartPart, PartUploaded, PartFails, Report, ReleaseSlot, WriterExits
<1>4. CASE Collector
  BY <1>4 DEF Collector, AllPartsDone
<1>5. CASE Main
  BY <1>5 DEF Main, Quit, ErrReceived, Complete, Return
<1>6. CASE RefreshToken \/ ParentCancel \/ Quiet \/ UNCHANGED vars
  BY <1>6 DEF RefreshToken, ParentCancel, Quiet, vars
<1>7. CASE RefreshFails \/ TimeOut
  BY <1>7 DEF RefreshFails, TimeOut, Return
<1> QED
  BY <1>1, <1>2, <1>3, <1>4, <1>5, <1>6, <1>7 DEF Next

(* The goroutines together do what the plain loop over the chunks would do: *)
(* parts one by one in file order, one assembly from all of them, and no    *)
(* way back from a failure (UploadByMultipart, util.go:358-700).            *)
THEOREM Implements == Spec => UploadPromise
<1>1. Init => Seqn!Init
  BY DEF Init, Seqn!Init
<1>2. IInv /\ [Next]_vars => [Seqn!Next]_(Seqn!vars)
  <2> SUFFICES ASSUME IInv, [Next]_vars PROVE [Seqn!Next]_(Seqn!vars)
    OBVIOUS
  <2>0. TypeOK /\ OrderInv /\ CountInv
    BY DEF IInv
  <2>1. CASE UNCHANGED <<main, parts>>
    BY <2>1 DEF Seqn!vars
  <2>2. CASE AddPart
    <3>1. inbox = Len(parts) + 1 /\ inbox \in Chunks /\ parts' = Append(parts, inbox) /\ main' = main
      BY <2>0, <2>2, Fields DEF AddPart, OrderInv
    <3>2. Len(parts) < NChunks /\ Len(parts') = Len(parts) + 1
      BY <2>0, <3>1, Fields
    <3>3. Seqn!Register
      BY <3>1, <3>2 DEF Seqn!Register
    <3> QED
      BY <3>3 DEF Seqn!Next
  <2>3. CASE parts' = parts /\ main = "loop" /\ main' \in {"complete", "failed"}
    <3>1. CASE main' = "complete"
      BY <2>3, <3>1 DEF Seqn!vars
    <3>2. CASE main' = "failed"
      BY <2>3, <3>2 DEF Seqn!Next, Seqn!Fail
    <3> QED
      BY <2>3, <3>1, <3>2
  <2>4. CASE parts' = parts /\ main = "complete" /\ main' \in {"ok", "failed"}
    <3>1. Len(parts) = NChunks
      BY <2>0, <2>4, Numbers DEF CountInv
    <3>2. CASE main' = "ok"
      BY <2>4, <3>1, <3>2 DEF Seqn!Next, Seqn!Assemble
    <3>3. CASE main' = "failed"
      BY <2>4, <3>3 DEF Seqn!Next, Seqn!Fail
    <3> QED
      BY <2>4, <3>2, <3>3
  <2> QED
    BY <2>1, <2>2, <2>3, <2>4, CallerSees
<1> QED
  BY <1>1, <1>2, Invariance, PTL DEF Spec, UploadPromise, Seqn!Spec
=============================================================================
