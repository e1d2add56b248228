------------------------------ MODULE SplitFile ------------------------------
(***************************************************************************)
(* SplitFile, SplitFileByPartNum and SplitFileByPartSize                   *)
(* (drivers/115/util.go): how a file is cut into the chunks of a multipart *)
(* upload.  Sizes are in bytes; the module is parameterised by the         *)
(* constants of the code so that TLC can check it on a small scale.        *)
(***************************************************************************)
EXTENDS Integers, Sequences

CONSTANTS
    GB,           \* utils.GB
    PartsPerGB,   \* 1000: a file of less than i GB gets i * 1000 parts
    Steps,        \* 10: sizes up to (Steps - 1) GB have a part number of their own
    MinPart,      \* 100 * utils.KB, the smallest part OSS takes
    MinMultipart, \* Put uploads files of up to 10 MB in one request
    MaxSize       \* bound on the sizes TLC tries

MaxParts == Steps * PartsPerGB   \* 10000, the limit of OSS

(* The scale of the code: parts of 1/1000 GB are large enough for OSS, and *)
(* a file that goes to SplitFile has more bytes than a 1 GB file has parts *)
(* and fits in parts of the minimal size.                                  *)
ASSUME SplitAssumption ==
    /\ GB \in Nat /\ PartsPerGB \in Nat \ {0} /\ Steps \in Nat \ {0, 1}
    /\ MinPart \in Nat \ {0} /\ MinMultipart \in Nat /\ MaxSize \in Nat
    /\ 2 * PartsPerGB * MinPart <= GB
    /\ PartsPerGB <= MinMultipart

Error == << >>   \* the code returns an error and no chunks

Chunk(number, offset, size) == [number |-> number, offset |-> offset, size |-> size]

(* The least i < Steps with fileSize < i GB decides, Steps if there is none. *)
GBStep(fileSize) ==
    CHOOSE i \in 1..Steps :
        /\ i < Steps => fileSize < i * GB
        /\ \A j \in 1..(i - 1) : ~(fileSize < j * GB)

ChunkNum(fileSize) == GBStep(fileSize) * PartsPerGB

(* Mutants: the last chunk without the remainder, offsets one chunk back. *)
SplitWithoutRest(fileSize, chunkNum) ==
    IF chunkNum <= 0 \/ chunkNum > MaxParts \/ chunkNum > fileSize
    THEN Error
    ELSE LET q == fileSize \div chunkNum
         IN  [i \in 1..chunkNum |-> Chunk(i, (i - 1) * q, q)]

SplitFileByPartNum(fileSize, chunkNum) ==
    IF chunkNum <= 0 \/ chunkNum > MaxParts \/ chunkNum > fileSize
    THEN Error
    ELSE LET q == fileSize \div chunkNum
         IN  [i \in 1..chunkNum |->
                Chunk(i, (i - 1) * q, IF i = chunkNum THEN q + (fileSize % chunkNum) ELSE q)]

SplitFileByPartSize(fileSize, chunkSize) ==
    LET chunkN == fileSize \div chunkSize
        rest   == fileSize % chunkSize
    IN  IF chunkSize <= 0 \/ chunkN >= MaxParts
        THEN Error
        ELSE [i \in 1..(IF rest > 0 THEN chunkN + 1 ELSE chunkN) |->
                Chunk(i, (i - 1) * chunkSize, IF i = chunkN + 1 THEN rest ELSE chunkSize)]

(* Mutant: no fall back to parts of the minimal size. *)
SplitNoFallback(fileSize) == SplitFileByPartNum(fileSize, ChunkNum(fileSize))

Split(fileSize) ==
    LET chunks == SplitFileByPartNum(fileSize, ChunkNum(fileSize))
    IN  IF chunks = Error
        THEN Error
        ELSE IF chunks[1].size < MinPart
             THEN SplitFileByPartSize(fileSize, MinPart)
             ELSE chunks
-----------------------------------------------------------------------------
(* The chunks tile the file: numbered from 1, each starts where the one    *)
(* before it ends, none is empty, and the last ends at the end of file.    *)
Tiles(cs, size) ==
    /\ Len(cs) > 0
    /\ cs[1].offset = 0
    /\ \A i \in 1..Len(cs) : cs[i].number = i /\ cs[i].size > 0
    /\ \A i \in 1..(Len(cs) - 1) : cs[i + 1].offset = cs[i].offset + cs[i].size
    /\ cs[Len(cs)].offset + cs[Len(cs)].size = size

(* What OSS accepts: at most 10000 parts, and only the last one smaller    *)
(* than 100 KB.                                                            *)
OssAccepts(cs) ==
    /\ Len(cs) <= MaxParts
    /\ \A i \in 1..(Len(cs) - 1) : cs[i].size >= MinPart

(* Every size a multipart upload can meet is cut into chunks that tile the *)
(* file and that OSS accepts, whichever of the two ways of cutting         *)
(* SplitFile ends up with: no boundary (1 GB, 9 GB, 100 KB parts) falls    *)
(* through.                                                                *)
AlwaysTiled ==
    \A size \in (MinMultipart + 1)..MaxSize :
        Tiles(Split(size), size) /\ OssAccepts(Split(size))
=============================================================================
