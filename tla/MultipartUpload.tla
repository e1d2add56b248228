--------------------------- MODULE MultipartUpload ---------------------------
(***************************************************************************)
(* UploadByMultipart (drivers/115/util.go): the goroutines that read the   *)
(* chunks of a file, put them back in order, upload them to OSS and        *)
(* collect the parts, and the main loop that refreshes the OSS token and   *)
(* waits for the end.  One action per channel operation; an unbuffered     *)
(* channel is a joint step of its two ends.                                *)
(***************************************************************************)
EXTENDS SplitFile, FiniteSets

CONSTANTS
    FileSize,     \* file.GetSize()
    Readers,      \* the read goroutines, readThreadsNum of them
    QueueMax,     \* queueMaxLen, the capacity of activeChunksLimit
    MaxTries,     \* 3 attempts per read and per uploaded part
    MaxRefresh,   \* bound on ticks of the token ticker
    MayCancel     \* whether the ctx of the caller may be cancelled

ASSUME MultipartAssumption ==
    /\ FileSize \in Nat /\ FileSize > MinMultipart
    /\ Readers # {} /\ IsFiniteSet(Readers)
    /\ QueueMax \in Nat \ {0}
    /\ MaxTries \in Nat \ {0}
    /\ MaxRefresh \in Nat
    /\ MayCancel \in BOOLEAN

NChunks == Len(Split(FileSize))
Chunks == 1..NChunks
Data   == {"full", "short"}      \* a buffer filled by ReadAt, or only in part

VARIABLES
    main,        \* "loop", "complete", "ok", "failed"
    ctxDone,     \* the derived ctx is cancelled
    tokens,      \* slots taken in activeChunksLimit
    disp,        \* dispatcher: pc and the chunk it is at
    reader,      \* per reader: pc, chunk, attempts left
    waiter,      \* chunkWaiters[i]: "none" or the data read
    sched,       \* ordered scheduler: pc, chunk, data
    writer,      \* writer: pc, chunk, data, attempts left, credentials
    parts,       \* parts collected, in the order received
    inbox,       \* the part the collector has received and not added, or 0
    wg,          \* the WaitGroup counter
    closer,      \* goroutine that waits for wg: "wait", "quit", "done"
    errs,        \* errors in errCh
    ossToken, bucket,   \* generation of the credentials in use
    stored       \* OSS: what is stored under each part number

goroutines == <<disp, reader, sched, writer, inbox, closer>>
vars == <<main, ctxDone, tokens, disp, reader, waiter, sched, writer, parts, inbox, wg,
          closer, errs, ossToken, bucket, stored>>

NoData == "none"
IdleReader == [pc |-> "idle", chunk |-> 0, tries |-> 0]
IdleWriter == [pc |-> "idle", chunk |-> 0, data |-> NoData, tries |-> 0, token |-> 0, bucket |-> 0]

(* The types of the variables. *)
TypeOK ==
    /\ main \in {"loop", "complete", "ok", "failed"}
    /\ ctxDone \in BOOLEAN
    /\ tokens \in 0..QueueMax
    /\ disp \in [pc : {"token", "send", "exit"}, chunk : 1..(NChunks + 1)]
    /\ reader \in [Readers -> [pc : {"idle", "try", "read", "exit"},
                               chunk : 0..NChunks, tries : 0..MaxTries]]
    /\ waiter \in [Chunks -> Data \cup {NoData}]
    /\ sched \in [pc : {"wait", "send", "exit"}, chunk : 1..(NChunks + 1), data : Data \cup {NoData}]
    /\ writer \in [pc : {"idle", "try", "put", "report", "release", "exit"},
                   chunk : 0..NChunks, data : Data \cup {NoData}, tries : 0..MaxTries,
                   token : 0..MaxRefresh, bucket : 0..MaxRefresh]
    /\ parts \in Seq(Chunks)
    /\ inbox \in 0..NChunks
    /\ wg \in 0..NChunks
    /\ closer \in {"wait", "quit", "done"}
    /\ errs \in 0..(Cardinality(Readers) + 1)
    /\ ossToken \in 0..MaxRefresh
    /\ bucket \in 0..MaxRefresh
    /\ stored \in [Chunks -> Data \cup {NoData}]

Init ==
    /\ main = "loop"
    /\ ctxDone = FALSE
    /\ tokens = 0
    /\ disp = [pc |-> "token", chunk |-> 1]
    /\ reader = [r \in Readers |-> IdleReader]
    /\ waiter = [c \in Chunks |-> NoData]
    /\ sched = [pc |-> "wait", chunk |-> 1, data |-> NoData]
    /\ writer = IdleWriter
    /\ parts = << >>
    /\ inbox = 0
    /\ wg = NChunks
    /\ closer = "wait"
    /\ errs = 0
    /\ ossToken = 0
    /\ bucket = 0
    /\ stored = [c \in Chunks |-> NoData]
-----------------------------------------------------------------------------
(* 0. The dispatcher takes a memory slot for each chunk, then hands the    *)
(* chunk to a reader; it closes jobsCh when it returns.                    *)
(* Mutant: the slot is not waited for. *)
TakeSlotUnbounded ==
    /\ disp.pc = "token"
    /\ disp.chunk <= NChunks
    /\ disp' = [disp EXCEPT !.pc = "send"]
    /\ UNCHANGED <<main, ctxDone, tokens, reader, waiter, sched, writer, parts, inbox, wg, closer,
                   errs, ossToken, bucket, stored>>

TakeSlot ==
    /\ disp.pc = "token"
    /\ disp.chunk <= NChunks
    /\ tokens < QueueMax
    /\ tokens' = tokens + 1
    /\ disp' = [disp EXCEPT !.pc = "send"]
    /\ UNCHANGED <<main, ctxDone, reader, waiter, sched, writer, parts, inbox, wg, closer, errs,
                   ossToken, bucket, stored>>

Dispatch(r) ==
    /\ disp.pc = "send"
    /\ reader[r].pc = "idle"
    /\ reader' = [reader EXCEPT ![r] = [pc |-> "try", chunk |-> disp.chunk, tries |-> MaxTries]]
    /\ disp' = [pc |-> "token", chunk |-> disp.chunk + 1]
    /\ UNCHANGED <<main, ctxDone, tokens, waiter, sched, writer, parts, inbox, wg, closer, errs,
                   ossToken, bucket, stored>>

(* Mutant: the dispatcher does not select on ctx.Done(). *)
DispatcherExitsAtEnd ==
    /\ disp.pc = "token"
    /\ disp.chunk > NChunks
    /\ disp' = [disp EXCEPT !.pc = "exit"]
    /\ UNCHANGED <<main, ctxDone, tokens, reader, waiter, sched, writer, parts, inbox, wg, closer,
                   errs, ossToken, bucket, stored>>

DispatcherExits ==
    /\ disp.pc # "exit"
    /\ ctxDone \/ (disp.pc = "token" /\ disp.chunk > NChunks)
    /\ disp' = [disp EXCEPT !.pc = "exit"]
    /\ UNCHANGED <<main, ctxDone, tokens, reader, waiter, sched, writer, parts, inbox, wg, closer,
                   errs, ossToken, bucket, stored>>

(* 1. Readers.  ReadAt returns no error for a short read either: its       *)
(* count is ignored and the rest of the buffer stays zero.                 *)
StartRead(r) ==
    /\ reader[r].pc = "try"
    /\ ~ctxDone
    /\ reader' = [reader EXCEPT ![r].pc = "read"]
    /\ UNCHANGED <<main, ctxDone, tokens, disp, waiter, sched, writer, parts, inbox, wg, closer,
                   errs, ossToken, bucket, stored>>

ReadChunk(r) ==
    /\ reader[r].pc = "read"
    /\ \E d \in Data : waiter' = [waiter EXCEPT ![reader[r].chunk] = d]
    /\ reader' = [reader EXCEPT ![r] = IdleReader]
    /\ UNCHANGED <<main, ctxDone, tokens, disp, sched, writer, parts, inbox, wg, closer, errs,
                   ossToken, bucket, stored>>

(* Mutant: the reader leaves without sending its error. *)
ReadFailsSilently(r) ==
    /\ reader[r].pc = "read"
    /\ reader' = [reader EXCEPT ![r] = IF @.tries > 1 THEN [@ EXCEPT !.pc = "try", !.tries = @ - 1]
                                                     ELSE [@ EXCEPT !.pc = "exit"]]
    /\ UNCHANGED <<main, ctxDone, tokens, disp, waiter, sched, writer, parts, inbox, wg, closer,
                   errs, ossToken, bucket, stored>>

ReadFails(r) ==
    /\ reader[r].pc = "read"
    /\ IF reader[r].tries > 1
       THEN /\ reader' = [reader EXCEPT ![r].pc = "try", ![r].tries = @ - 1]
            /\ UNCHANGED errs
       ELSE /\ reader' = [reader EXCEPT ![r].pc = "exit"]
            /\ errs' = errs + 1
    /\ UNCHANGED <<main, ctxDone, tokens, disp, waiter, sched, writer, parts, inbox, wg, closer,
                   ossToken, bucket, stored>>

ReaderExits(r) ==
    /\ \/ reader[r].pc = "idle" /\ disp.pc = "exit"
       \/ reader[r].pc = "try" /\ ctxDone
    /\ reader' = [reader EXCEPT ![r].pc = "exit"]
    /\ UNCHANGED <<main, ctxDone, tokens, disp, waiter, sched, writer, parts, inbox, wg, closer,
                   errs, ossToken, bucket, stored>>

(* 1.5 The scheduler waits for the chunks in order and passes them on; it  *)
(* closes orderedDataQueue when it returns.                                *)
Arrived(c) == c = sched.chunk /\ waiter[c] # NoData

Collect(c) ==
    /\ sched.pc = "wait"
    /\ Arrived(c)
    /\ sched' = [sched EXCEPT !.pc = "send", !.chunk = c, !.data = waiter[c]]
    /\ waiter' = [waiter EXCEPT ![c] = NoData]
    /\ UNCHANGED <<main, ctxDone, tokens, disp, reader, writer, parts, inbox, wg, closer, errs,
                   ossToken, bucket, stored>>

PassOn ==
    /\ sched.pc = "send"
    /\ writer.pc = "idle"
    /\ writer' = [writer EXCEPT !.pc = "try", !.chunk = sched.chunk, !.data = sched.data,
                                !.tries = MaxTries]
    /\ sched' = [pc |-> "wait", chunk |-> sched.chunk + 1, data |-> NoData]
    /\ UNCHANGED <<main, ctxDone, tokens, disp, reader, waiter, parts, inbox, wg, closer, errs,
                   ossToken, bucket, stored>>

SchedulerExits ==
    /\ sched.pc # "exit"
    /\ ctxDone \/ (sched.pc = "wait" /\ sched.chunk > NChunks)
    /\ sched' = [sched EXCEPT !.pc = "exit"]
    /\ UNCHANGED <<main, ctxDone, tokens, disp, reader, waiter, writer, parts, inbox, wg, closer,
                   errs, ossToken, bucket, stored>>

(* 2. The writer.  Token and bucket are read together under tokenMutex.    *)
StartPart ==
    /\ writer.pc = "try"
    /\ ~ctxDone
    /\ writer' = [writer EXCEPT !.pc = "put", !.token = ossToken, !.bucket = bucket]
    /\ UNCHANGED <<main, ctxDone, tokens, disp, reader, waiter, sched, parts, inbox, wg, closer,
                   errs, ossToken, bucket, stored>>

PartUploaded ==
    /\ writer.pc = "put"
    /\ stored' = [stored EXCEPT ![writer.chunk] = writer.data]
    /\ writer' = [writer EXCEPT !.pc = "report"]
    /\ UNCHANGED <<main, ctxDone, tokens, disp, reader, waiter, sched, parts, inbox, wg, closer,
                   errs, ossToken, bucket>>

(* Mutant: after the last attempt the part is reported all the same. *)
PartFailsReported ==
    /\ writer.pc = "put"
    /\ UNCHANGED stored
    /\ writer' = IF writer.tries > 1 THEN [writer EXCEPT !.pc = "try", !.tries = @ - 1]
                                     ELSE [writer EXCEPT !.pc = "report"]
    /\ UNCHANGED <<main, ctxDone, tokens, disp, reader, waiter, sched, parts, inbox, wg, closer,
                   errs, ossToken, bucket>>

(* A failed UploadPart may have stored the part all the same. *)
PartFails ==
    /\ writer.pc = "put"
    /\ \/ UNCHANGED stored
       \/ stored' = [stored EXCEPT ![writer.chunk] = writer.data]
    /\ IF writer.tries > 1
       THEN /\ writer' = [writer EXCEPT !.pc = "try", !.tries = @ - 1]
            /\ UNCHANGED errs
       ELSE /\ writer' = [writer EXCEPT !.pc = "exit"]
            /\ errs' = errs + 1
    /\ UNCHANGED <<main, ctxDone, tokens, disp, reader, waiter, sched, parts, inbox, wg, closer,
                   ossToken, bucket>>

Report ==
    /\ writer.pc = "report"
    /\ inbox = 0
    /\ inbox' = writer.chunk
    /\ writer' = [writer EXCEPT !.pc = "release"]
    /\ UNCHANGED <<main, ctxDone, tokens, disp, reader, waiter, sched, parts, wg, closer, errs,
                   ossToken, bucket, stored>>

ReleaseSlot ==
    /\ writer.pc = "release"
    /\ tokens > 0
    /\ tokens' = tokens - 1
    /\ writer' = IdleWriter
    /\ UNCHANGED <<main, ctxDone, disp, reader, waiter, sched, parts, inbox, wg, closer, errs,
                   ossToken, bucket, stored>>

WriterExits ==
    /\ \/ writer.pc = "idle" /\ sched.pc = "exit"
       \/ writer.pc \in {"try", "report"} /\ ctxDone
    /\ writer' = [writer EXCEPT !.pc = "exit"]
    /\ UNCHANGED <<main, ctxDone, tokens, disp, reader, waiter, sched, parts, inbox, wg, closer,
                   errs, ossToken, bucket, stored>>

(* 3. The collector never leaves its loop: UploadedPartsCh is not closed.  *)
AddPart ==
    /\ inbox # 0
    /\ parts' = Append(parts, inbox)
    /\ wg' = wg - 1
    /\ inbox' = 0
    /\ UNCHANGED <<main, ctxDone, tokens, disp, reader, waiter, sched, writer, closer, errs,
                   ossToken, bucket, stored>>

(* Mutant: the WaitGroup counts one chunk too few. *)
AllPartsDoneEarly ==
    /\ closer = "wait"
    /\ wg <= 1
    /\ closer' = "quit"
    /\ UNCHANGED <<main, ctxDone, tokens, disp, reader, waiter, sched, writer, parts, inbox, wg,
                   errs, ossToken, bucket, stored>>

AllPartsDone ==
    /\ closer = "wait"
    /\ wg = 0
    /\ closer' = "quit"
    /\ UNCHANGED <<main, ctxDone, tokens, disp, reader, waiter, sched, writer, parts, inbox, wg,
                   errs, ossToken, bucket, stored>>

(* Mutant: the bucket keeps the SecurityToken of the old credentials. *)
RefreshTokenOnly ==
    /\ main = "loop"
    /\ ossToken < MaxRefresh
    /\ ossToken' = ossToken + 1
    /\ UNCHANGED <<main, ctxDone, tokens, disp, reader, waiter, sched, writer, parts, inbox, wg,
                   closer, errs, bucket, stored>>

(* The main loop.  Every return cancels the derived ctx. *)
RefreshToken ==
    /\ main = "loop"
    /\ ossToken < MaxRefresh
    /\ ossToken' = ossToken + 1
    /\ bucket' = ossToken + 1
    /\ UNCHANGED <<main, ctxDone, tokens, disp, reader, waiter, sched, writer, parts, inbox, wg,
                   closer, errs, stored>>

Quit ==
    /\ main = "loop"
    /\ closer = "quit"
    /\ closer' = "done"
    /\ main' = "complete"
    /\ UNCHANGED <<ctxDone, tokens, disp, reader, waiter, sched, writer, parts, inbox, wg, errs,
                   ossToken, bucket, stored>>

Return(result) ==
    /\ main' = result
    /\ ctxDone' = TRUE
    /\ UNCHANGED <<tokens, goroutines, waiter, parts, wg, ossToken, bucket, stored>>

RefreshFails == main = "loop" /\ ossToken < MaxRefresh /\ Return("failed") /\ UNCHANGED errs
ErrReceived  == main = "loop" /\ errs > 0 /\ errs' = errs - 1 /\ Return("failed")
TimeOut      == main = "loop" /\ Return("failed") /\ UNCHANGED errs

(* CompleteMultipartUpload and its callback answer. *)
Complete == main = "complete" /\ UNCHANGED errs /\ \E r \in {"ok", "failed"} : Return(r)

(* The caller's ctx is cancelled; the main loop does not look at it. *)
ParentCancel ==
    /\ MayCancel
    /\ ~ctxDone
    /\ ctxDone' = TRUE
    /\ UNCHANGED <<main, tokens, goroutines, waiter, parts, wg, errs, ossToken, bucket, stored>>
-----------------------------------------------------------------------------
ReaderStep(r) == Dispatch(r) \/ StartRead(r) \/ ReadChunk(r) \/ ReadFails(r) \/ ReaderExits(r)
Dispatcher == TakeSlot \/ DispatcherExits
Scheduler  == (\E c \in Chunks : Collect(c)) \/ PassOn \/ SchedulerExits
Writer     == StartPart \/ PartUploaded \/ PartFails \/ Report \/ ReleaseSlot \/ WriterExits
Collector  == AddPart \/ AllPartsDone
Main       == Quit \/ ErrReceived \/ Complete

(* The call has returned and nothing moves any more. *)
Quiet ==
    /\ main \in {"ok", "failed"}
    /\ disp.pc = "exit" /\ sched.pc = "exit" /\ writer.pc = "exit" /\ inbox = 0
    /\ \A r \in Readers : reader[r].pc = "exit"
    /\ ~(closer = "wait" /\ wg = 0)
    /\ UNCHANGED vars

Next ==
    \/ \E r \in Readers : ReaderStep(r)
    \/ Dispatcher \/ Scheduler \/ Writer \/ Collector \/ Main
    \/ RefreshToken \/ RefreshFails \/ TimeOut \/ ParentCancel
    \/ Quiet

Spec == Init /\ [][Next]_vars

(* Every goroutine that can move finally does, and the calls to the source *)
(* and to OSS return; the tickers, the timer and the caller owe nothing.   *)
FairSpec ==
    /\ Spec
    /\ \A r \in Readers : WF_vars(ReaderStep(r))
    /\ WF_vars(Dispatcher) /\ WF_vars(Scheduler) /\ WF_vars(Writer)
    /\ WF_vars(Collector) /\ WF_vars(Main)

-----------------------------------------------------------------------------
Returned == main \in {"ok", "failed"}

(* The parts are registered in file order, as Sequential() demands. *)
PartsInOrder == parts = [i \in 1..Len(parts) |-> i]

(* CompleteMultipartUpload is only called with every part, all of them     *)
(* stored, none twice and none missing, and the ranges of the file they    *)
(* hold tile it, whatever errors, retries, refreshes and cancellations     *)
(* came before.                                                            *)
CompleteHasAll ==
    main \in {"complete", "ok"} =>
        /\ parts = [i \in Chunks |-> i]
        /\ Tiles([i \in 1..Len(parts) |-> Split(FileSize)[parts[i]]], FileSize)
        /\ \A c \in Chunks : stored[c] # NoData

(* OSS takes what it gets: no part that is registered is too small, except *)
(* the last of the file; and whatever other size comes here, its chunks    *)
(* tile the file and are accepted.                                         *)
PartsAccepted ==
    /\ \A i \in 1..Len(parts) :
        parts[i] # NChunks => Split(FileSize)[parts[i]].size >= MinPart
    /\ AlwaysTiled

(* Chunks with a buffer in memory: being read, waiting, or being uploaded. *)
Buffered ==
    {reader[r].chunk : r \in {q \in Readers : reader[q].pc \in {"try", "read"}}}
    \cup {c \in Chunks : waiter[c] # NoData}
    \cup (IF sched.pc = "send" THEN {sched.chunk} ELSE {})
    \cup (IF writer.pc \in {"try", "put", "report", "release"} THEN {writer.chunk} ELSE {})

(* No more than queueMaxLen buffers at a time: the slot of a chunk is held *)
(* from before it is read until after its part is registered.              *)
MemoryBound == Cardinality(Buffered) <= QueueMax

(* Every attempt is signed with an AccessKey and a SecurityToken that      *)
(* belong together, whenever the ticker swaps them.                        *)
SignedTogether == writer.pc = "put" => writer.token = writer.bucket

Seqn == INSTANCE SequentialUpload
    WITH registered <- Len(parts),
         status <- CASE main = "ok" -> "assembled" [] main = "failed" -> "failed" [] OTHER -> "open"

(* The readers, the scheduler and the writer implement the plain loop that *)
(* uploads one chunk after the other.                                      *)
UploadPromise == Seqn!Spec

(* The call returns, or its caller cancels it: no combination of read      *)
(* errors, upload errors and full queues needs the timer of the main loop. *)
(* After a cancellation the goroutines leave silently, and as the main     *)
(* loop does not look at the ctx only the timer is left.                   *)
Returns == <>(Returned \/ ctxDone)

(* Once the call has returned, the dispatcher, the readers, the scheduler  *)
(* and the writer all come to their end.                                   *)
WorkersExit ==
    Returned ~> /\ disp.pc = "exit" /\ sched.pc = "exit" /\ writer.pc = "exit"
                /\ \A r \in Readers : reader[r].pc = "exit"

(* "make sure that when the function leaves by an error every background   *)
(* goroutine gets the signal to close, to prevent leaks" (util.go:366):    *)
(* the goroutine that waits for the WaitGroup ends as well.                *)
NothingLeaks == Returned ~> closer = "done"

(* "a part is uploaded once it has been read in full": no part is made of  *)
(* a buffer that ReadAt filled only partly.                                *)
OnlyFullParts == \A c \in Chunks : stored[c] # "short"
=============================================================================
