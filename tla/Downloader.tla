----------------------------- MODULE Downloader ------------------------------
(***************************************************************************)
(* The multi-part downloader (internal/net/request.go): one reader that    *)
(* takes a range in order, workers that request its chunks, a channel that *)
(* carries the chunks and buffers that are used again.  The mutex d.m is   *)
(* held over sendChunkTask, interrupt and the answer to a refused request, *)
(* each of which is one action.  Only ranges of more than one part; the    *)
(* range starts at 0; pauses are left out.  The names of the specification *)
(* begin with Download, so that a module can extend others beside it.      *)
(***************************************************************************)
EXTENDS Integers, Sequences, FiniteSets

CONSTANTS
    Length, PartSize,   \* bytes in the range and in a part
    Concurrency,        \* Downloader.Concurrency
    Limit,              \* ConcurrencyLimit.Limit when the download begins:
                        \* the places that other downloads do not hold
    MaxRetries,         \* PartBodyMaxRetries
    MaxStatus,          \* bound: requests that are refused with a status
    MaxTroubles         \* bound: these, broken bodies and other errors together

ASSUME DownloadAssumption ==
    /\ Length \in Nat /\ PartSize \in Nat \ {0} /\ Length > PartSize
    /\ Concurrency \in Nat \ {0} /\ Limit \in Nat \ {0}
    /\ {MaxRetries, MaxStatus, MaxTroubles} \subseteq Nat

VARIABLES
    d,          \* the downloader
    chan,       \* chunkChannel
    bufs,       \* the buffers
    worker,     \* downloadPart
    free,       \* ConcurrencyLimit.Limit
    reader,     \* MultiReadCloser and its consumer
    troubles    \* what went wrong so far

downloadVars == <<d, chan, bufs, worker, free, reader, troubles>>

MaxPart == (Length + PartSize - 1) \div PartSize
Cap == IF MaxPart < Concurrency THEN MaxPart ELSE Concurrency
Workers == 1..Cap

(* Mutant: the channel has room for one chunk. *)
ChanCapOne == 1

(* The capacity of chunkChannel. *)
ChanCap == Cap

(* The sizes that sendChunkTask gives to the chunks. *)
ChunkSize(id) ==
    LET firstSize == Length % PartSize
        minSize == PartSize \div 2
    IN  CASE id = 0 /\ firstSize > 0 -> IF firstSize < minSize THEN minSize ELSE firstSize
          [] id = 1 /\ firstSize > 0 /\ firstSize < minSize -> PartSize + firstSize - minSize
          [] OTHER -> PartSize

Chunk(id, start, size, buf, new) ==
    [id |-> id, start |-> start, size |-> size, buf |-> buf, newConcurrency |-> new]

NoChunk == Chunk(-1, 0, 0, 0, FALSE)

(* The bytes in a buffer are places of the range; offW is Len(data). *)
NewBuf == [size |-> PartSize, offR |-> 0, data |-> <<>>, pending |-> FALSE, signal |-> FALSE]

(* Mutant: Reset keeps the place of the reader. *)
ResetKeepsPlace(b, size) == [b EXCEPT !.size = size, !.data = <<>>]

Reset(b, size) == [b EXCEPT !.size = size, !.offR = 0, !.data = <<>>]

Unborn == [pc |-> "unborn", ch |-> NoChunk, retry |-> 0, n |-> 0]
IdleWorker == [Unborn EXCEPT !.pc = "idle"]
Off == [Unborn EXCEPT !.pc = "off"]

(* download, which takes a place of the limit and sends the first chunk. *)
DownloadInit ==
    /\ d = [next |-> 1, pos |-> ChunkSize(0), concurrency |-> Cap - 1, err |-> FALSE,
            written |-> 0, closed |-> FALSE, done |-> FALSE, panicked |-> FALSE]
    /\ chan = <<Chunk(0, 0, ChunkSize(0), 1, TRUE)>>
    /\ bufs = <<Reset(NewBuf, ChunkSize(0))>>
    /\ worker = [w \in Workers |-> IF w = 1 THEN IdleWorker ELSE Unborn]
    /\ free = Limit - 1
    /\ reader = [pc |-> "read", id |-> 0, buf |-> 1, got |-> <<>>]
    /\ troubles = [status |-> 0, breaks |-> 0, late |-> 0, fatal |-> 0]
-----------------------------------------------------------------------------
(* sendChunkTask; ws are the workers after the step of its caller.  While  *)
(* concurrency is left the chunk gets a new buffer, whoever sends it.      *)
SendChunkTask(new, ws) ==
    IF new /\ (d.concurrency <= 0 \/ free = 0)
    THEN worker' = ws /\ UNCHANGED <<d, chan, bufs, free>>
    ELSE LET grow == d.concurrency > 0
             buf  == IF grow THEN Len(bufs) + 1 ELSE (d.next % Len(bufs)) + 1
             all  == IF grow THEN Append(bufs, NewBuf) ELSE bufs
             more == d.pos < Length
             size == ChunkSize(d.next)
         IN  /\ worker' = IF new THEN [ws EXCEPT ![Cap - d.concurrency + 1] = IdleWorker] ELSE ws
             /\ free' = IF new THEN free - 1 ELSE free
             /\ bufs' = IF more THEN [all EXCEPT ![buf] = Reset(@, size)] ELSE all
             /\ chan' = IF more THEN Append(chan, Chunk(d.next, d.pos, size, buf, new)) ELSE chan
             /\ d' = [d EXCEPT !.concurrency = IF new THEN @ - 1 ELSE @,
                               !.pos = IF more THEN @ + size ELSE @,
                               !.next = IF more THEN @ + 1 ELSE @]

(* Something of this kind goes wrong. *)
Goes(kind) ==
    /\ troubles.status + troubles.breaks + troubles.late + troubles.fatal < MaxTroubles
    /\ troubles' = [troubles EXCEPT ![kind] = @ + 1]

(* Mutant: concurrencyFinish is not called. *)
LeaveQuietly(w) ==
    /\ worker' = [worker EXCEPT ![w] = Off]
    /\ UNCHANGED free

(* downloadPart returns; concurrencyFinish is deferred. *)
Leave(w) ==
    /\ worker' = [worker EXCEPT ![w] = Off]
    /\ free' = free + 1

(* downloadPart meets an error that ends the download. *)
Fatal(w) ==
    /\ Leave(w)
    /\ d' = [d EXCEPT !.err = TRUE, !.done = TRUE]

(* Mutant: one attempt too few. *)
RetryOneLess(w, next, n) ==
    \/ /\ d.err
       /\ worker' = [worker EXCEPT ![w] = IdleWorker]
       /\ UNCHANGED <<d, free>>
    \/ /\ ~d.err /\ (d.done \/ next.retry >= MaxRetries)
       /\ Fatal(w)
    \/ /\ ~d.err /\ ~d.done /\ next.retry < MaxRetries
       /\ worker' = [worker EXCEPT ![w] = next]
       /\ d' = [d EXCEPT !.written = @ + n]
       /\ UNCHANGED free

(* An attempt fails with an error that may be retried, after n bytes:      *)
(* downloadChunk first looks for an error or an end from elsewhere.        *)
Retry(w, next, n) ==
    \/ /\ d.err
       /\ worker' = [worker EXCEPT ![w] = IdleWorker]
       /\ UNCHANGED <<d, free>>
    \/ /\ ~d.err /\ (d.done \/ next.retry > MaxRetries)
       /\ Fatal(w)
    \/ /\ ~d.err /\ ~d.done /\ next.retry <= MaxRetries
       /\ worker' = [worker EXCEPT ![w] = next]
       /\ d' = [d EXCEPT !.written = @ + n]
       /\ UNCHANGED free

(* downloadPart: a chunk, or the end. *)
Take(w) ==
    /\ worker[w].pc = "idle" /\ chan # <<>>
    /\ chan' = Tail(chan)
    /\ IF d.err THEN Leave(w)
       ELSE worker' = [worker EXCEPT ![w] = [IdleWorker EXCEPT !.pc = "try", !.ch = Head(chan)]]
            /\ UNCHANGED free
    /\ UNCHANGED <<d, bufs, reader, troubles>>

Stop(w) ==
    /\ worker[w].pc = "idle"
    /\ d.done \/ (d.closed /\ chan = <<>>)
    /\ Leave(w)
    /\ UNCHANGED <<d, chan, bufs, reader, troubles>>

(* tryDownloadChunk: the request is answered, the next worker is started,  *)
(* the body is going to be copied.                                         *)
Respond(w) ==
    /\ worker[w].pc = "try" /\ ~d.done
    /\ SendChunkTask(TRUE, [worker EXCEPT ![w].pc = "body"])
    /\ UNCHANGED <<reader, troubles>>

(* checkTotalBytes fails: the size of the file is not the one expected. *)
WrongSize(w) ==
    /\ worker[w].pc = "try" /\ worker[w].ch.id = 0 /\ ~d.done
    /\ Goes("fatal")
    /\ d' = [d EXCEPT !.err = TRUE, !.done = TRUE]
    /\ worker' = [worker EXCEPT ![w] = IdleWorker]
    /\ UNCHANGED <<chan, bufs, free, reader>>

(* The request fails without a status, or with one that is final. *)
RequestFails(w) ==
    /\ worker[w].pc = "try" /\ ~d.done
    /\ Goes("fatal")
    /\ Fatal(w)
    /\ UNCHANGED <<chan, bufs, reader>>

(* Nothing is left of the chunk: the range ends before it begins, and the  *)
(* server says so. *)
Unsatisfiable(w) ==
    /\ worker[w].pc = "try" /\ worker[w].ch.size <= 0 /\ ~d.done
    /\ Fatal(w)
    /\ UNCHANGED <<chan, bufs, reader, troubles>>

(* The request ends with the context. *)
RequestEnds(w) ==
    /\ worker[w].pc = "try" /\ d.done
    /\ Retry(w, worker[w], 0)
    /\ UNCHANGED <<chan, bufs, reader, troubles>>

(* The server refuses the request for now. *)
StatusError(w) ==
    /\ worker[w].pc = "try" /\ ~d.done
    /\ troubles.status < MaxStatus /\ Goes("status")
    /\ worker' = [worker EXCEPT ![w].pc = "refused"]
    /\ UNCHANGED <<d, chan, bufs, free, reader>>

(* For the first chunk this is one of its attempts. *)
FirstRefused(w) ==
    /\ worker[w].pc = "refused" /\ worker[w].ch.id = 0
    /\ Retry(w, [worker[w] EXCEPT !.pc = "try", !.retry = @ + 1], 0)
    /\ UNCHANGED <<chan, bufs, reader, troubles>>

(* For a later one it is overload: a worker that was started for the chunk *)
(* gives it back and ends, as does the first one that is refused while     *)
(* workers are still to be started; any other tries again without end.     *)
GivesBack(w) == worker[w].ch.newConcurrency \/ d.concurrency > 0

LaterRefused(w) ==
    /\ worker[w].pc = "refused" /\ worker[w].ch.id # 0
    /\ ~GivesBack(w)
    /\ Retry(w, [worker[w] EXCEPT !.pc = "try"], 0)
    /\ UNCHANGED <<chan, bufs, reader, troubles>>

GiveBack(w) ==
    /\ worker[w].pc = "refused" /\ worker[w].ch.id # 0
    /\ GivesBack(w)
    /\ chan' = Append(chan, worker[w].ch)
    /\ d' = [d EXCEPT !.concurrency = (IF @ > 0 THEN -@ ELSE @) - 1,
                      !.panicked = d.closed]
    /\ IF d.err THEN worker' = [worker EXCEPT ![w] = IdleWorker] /\ UNCHANGED free
                ELSE Leave(w)
    /\ UNCHANGED <<bufs, reader, troubles>>

(* The next k bytes of the chunk. *)
Piece(ch, k) == [i \in 1..k |-> ch.start + i]

(* Mutant: Write does not signal. *)
WriteSilently(b, ch, k) ==
    [b EXCEPT !.data = b.data \o Piece(ch, k), !.pending = b.pending /\ k = 0]

(* Buf.Write: it signals to a reader that waits. *)
BufWrite(b, ch, k) ==
    [b EXCEPT !.data = b.data \o Piece(ch, k), !.pending = b.pending /\ k = 0,
              !.signal = b.signal \/ (b.pending /\ k > 0)]

Written(ch, k) == [bufs EXCEPT ![ch.buf] = BufWrite(bufs[ch.buf], ch, k)]

(* What the buffer of the worker still takes. *)
Room(w) == bufs[worker[w].ch.buf].size - Len(bufs[worker[w].ch.buf].data)

(* CopyWithBuffer: the body arrives in one piece. *)
Write(w) ==
    /\ worker[w].pc = "body" /\ ~d.done
    /\ worker[w].ch.size \in 0..Room(w)
    /\ bufs' = Written(worker[w].ch, worker[w].ch.size)
    /\ worker' = [worker EXCEPT ![w].pc = "copied"]
    /\ UNCHANGED <<d, chan, free, reader, troubles>>

(* The body has more than the buffer takes (io.ErrShortWrite), or it is    *)
(* not the range: a server that ignores a range that ends before it begins *)
(* answers with the file from its first byte, and a negative length asks   *)
(* for all from the start on.  The buffer may be one of another chunk now. *)
WriteStray(w) ==
    /\ worker[w].pc = "body" /\ ~d.done
    /\ worker[w].ch.size <= 0 \/ worker[w].ch.size > Room(w)
    /\ \E k \in 0..Room(w) :
        /\ bufs' = Written(IF worker[w].ch.size = 0 THEN [worker[w].ch EXCEPT !.start = 0]
                                                   ELSE worker[w].ch, k)
        /\ worker' = [worker EXCEPT ![w] = [@ EXCEPT !.pc = "broken", !.n = k]]
    /\ UNCHANGED <<d, chan, free, reader, troubles>>

BodyEnds(w) ==
    /\ worker[w].pc = "copied"
    /\ d' = [d EXCEPT !.written = @ + worker[w].ch.size]
    /\ worker' = [worker EXCEPT ![w] = IdleWorker]
    /\ UNCHANGED <<chan, bufs, free, reader, troubles>>

(* The body breaks off after k bytes: the next attempt asks for the rest.  *)
BodyBreaks(w) ==
    /\ worker[w].pc = "body" /\ ~d.done
    /\ worker[w].ch.size \in 1..Room(w)
    /\ Goes("breaks")
    /\ \E k \in 0..(worker[w].ch.size - 1) :
        /\ bufs' = Written(worker[w].ch, k)
        /\ worker' = [worker EXCEPT ![w] = [@ EXCEPT !.pc = "broken", !.n = k]]
    /\ UNCHANGED <<d, chan, free, reader>>

(* The body breaks off after its last byte, or has a byte too many for the *)
(* buffer: the next attempt asks for a range of no bytes, while the reader *)
(* may be done with the chunk and its buffer used again.                   *)
BodyBreaksLate(w) ==
    /\ worker[w].pc = "body" /\ ~d.done
    /\ worker[w].ch.size \in 0..Room(w)
    /\ Goes("late")
    /\ bufs' = Written(worker[w].ch, worker[w].ch.size)
    /\ worker' = [worker EXCEPT ![w] = [@ EXCEPT !.pc = "broken", !.n = worker[w].ch.size]]
    /\ UNCHANGED <<d, chan, free, reader>>

NextAttempt(w) ==
    /\ worker[w].pc = "broken"
    /\ Retry(w, [worker[w] EXCEPT !.pc = "try", !.retry = @ + 1, !.n = 0,
                    !.ch.start = @ + worker[w].n, !.ch.size = @ - worker[w].n], worker[w].n)
    /\ UNCHANGED <<chan, bufs, reader, troubles>>

(* Write meets the end of the context. *)
WriteFails(w) ==
    /\ worker[w].pc = "body" /\ d.done
    /\ Retry(w, worker[w], 0)
    /\ UNCHANGED <<chan, bufs, reader, troubles>>
-----------------------------------------------------------------------------
(* Buf.Read, then finishBuf at the end of a buffer. *)
Cur == bufs[reader.buf]

ReadFails ==
    /\ reader.pc \in {"read", "wait"} /\ d.done
    /\ reader' = [reader EXCEPT !.pc = "failed"]
    /\ UNCHANGED <<d, chan, bufs, worker, free, troubles>>

(* What is there is delivered, or the reader waits for a signal. *)
Deliver ==
    /\ reader' = [reader EXCEPT !.pc = "read", !.got = @ \o SubSeq(Cur.data, Cur.offR + 1, Len(Cur.data))]
    /\ bufs' = [bufs EXCEPT ![reader.buf].offR = Len(Cur.data), ![reader.buf].signal =
                    IF reader.pc = "wait" THEN FALSE ELSE @]

Pend ==
    /\ reader' = [reader EXCEPT !.pc = "wait"]
    /\ bufs' = [bufs EXCEPT ![reader.buf].pending = TRUE, ![reader.buf].signal =
                    IF reader.pc = "wait" THEN FALSE ELSE @]

ReadBytes ==
    /\ \/ reader.pc = "read" /\ ~d.done /\ Cur.offR < Cur.size
       \/ reader.pc = "wait" /\ Cur.signal
    /\ IF Cur.offR < Len(Cur.data) THEN Deliver ELSE Pend
    /\ UNCHANGED <<d, chan, worker, free, troubles>>

FinishBuf ==
    /\ reader.pc = "read" /\ ~d.done
    /\ Cur.offR >= Cur.size
    /\ IF reader.id + 1 >= MaxPart
       THEN /\ reader' = [reader EXCEPT !.pc = "eof"]
            /\ UNCHANGED <<d, chan, bufs, worker, free>>
       ELSE /\ SendChunkTask(FALSE, worker)
            /\ reader' = [reader EXCEPT !.id = @ + 1, !.buf = ((reader.id + 1) % Len(bufs')) + 1]
    /\ UNCHANGED troubles

(* interrupt: the consumer closes the reader, between two reads. *)
Close ==
    /\ reader.pc \in {"read", "eof", "failed"}
    /\ reader' = [reader EXCEPT !.pc = "closed"]
    /\ d' = [d EXCEPT !.err = @ \/ d.written # Length, !.closed = TRUE, !.done = TRUE,
                      !.concurrency = IF @ > 0 THEN -@ ELSE @]
    /\ UNCHANGED <<chan, bufs, worker, free, troubles>>

(* The context of the caller ends. *)
ParentCancel ==
    /\ ~d.done /\ Goes("fatal")
    /\ d' = [d EXCEPT !.done = TRUE]
    /\ UNCHANGED <<chan, bufs, worker, free, reader>>

(* Nobody holds d.m and waits for room in the channel (the chunk of who    *)
(* does counts as sent).  Until a worker takes a chunk the others come     *)
(* only as far as their next use of d.m, which is left out.                *)
Unlocked == Len(chan) <= ChanCap

Download(w) ==
    \/ Take(w) \/ Stop(w)
    \/ /\ Unlocked
       /\ \/ Respond(w) \/ FirstRefused(w) \/ LaterRefused(w) \/ GiveBack(w)
          \/ Write(w) \/ WriteStray(w) \/ BodyEnds(w) \/ NextAttempt(w) \/ WriteFails(w)
          \/ Unsatisfiable(w) \/ RequestEnds(w)

GoesWrong(w) ==
    /\ Unlocked
    /\ WrongSize(w) \/ RequestFails(w) \/ StatusError(w) \/ BodyBreaks(w) \/ BodyBreaksLate(w)

Read == Unlocked /\ (ReadFails \/ ReadBytes \/ FinishBuf)

DownloadNext ==
    /\ ~d.panicked
    /\ \/ \E w \in Workers : Download(w) \/ GoesWrong(w)
       \/ Read \/ (Unlocked /\ Close) \/ ParentCancel

(* Workers run, requests are answered; the consumer reads, and closes the  *)
(* reader after the end or an error.                                       *)
Fairness ==
    /\ \A w \in Workers : WF_downloadVars(~d.panicked /\ Download(w))
    /\ WF_downloadVars(~d.panicked /\ Read)
    /\ WF_downloadVars(~d.panicked /\ reader.pc \in {"eof", "failed"} /\ Unlocked /\ Close)

DownloadSpec == DownloadInit /\ [][DownloadNext]_downloadVars /\ Fairness
-----------------------------------------------------------------------------
(* The types of the variables. *)
DownloadTypeOK ==
    /\ d.next \in 1..MaxPart /\ d.pos \in 1..Length /\ d.concurrency \in -(2 * Cap)..Cap
    /\ d.written \in Nat /\ (troubles.late = 0 => d.written <= Length)
    /\ \A i \in 1..Len(chan) : chan[i].id \in 0..(MaxPart - 1) /\ chan[i].buf \in 1..Len(bufs)
    /\ \A i \in 1..Len(bufs) : bufs[i].size \in 1..PartSize /\ Len(bufs[i].data) <= bufs[i].size
    /\ \A w \in Workers : worker[w].pc \in {"unborn", "idle", "try", "refused", "body", "copied", "broken", "off"}
    /\ free \in 0..Limit
    /\ reader.pc \in {"read", "wait", "eof", "failed", "closed"} /\ reader.id \in 0..(MaxPart - 1)

(* sendChunkTask and a refused worker send while they hold d.m, which the  *)
(* workers need before they can take another chunk: the channel must never *)
(* be full.                                                                *)
SendNeverBlocks == troubles.late = 0 => Len(chan) <= ChanCap

(* The reader fails only for a cause outside: broken bodies and refusals   *)
(* within the retries never reach it.                                      *)
FailsForCause ==
    reader.pc = "failed" =>
        \/ troubles.fatal > 0 \/ troubles.late > 0
        \/ troubles.breaks + troubles.status > MaxRetries

(* A body that breaks off after its last byte is a broken body like any    *)
(* other: the retries cover it.  They do not, the range of no bytes that   *)
(* the next attempt asks for is refused for good.                          *)
RetriesSuffice ==
    reader.pc = "failed" =>
        troubles.fatal > 0 \/ troubles.breaks + troubles.late + troubles.status > MaxRetries

(* The bytes that are read are those of the range.  They are not after     *)
(* such a break, when a server answers that request with the whole file.   *)
BytesTrue == \A i \in 1..Len(reader.got) : reader.got[i] = i

(* The memory is that of a few parts, whatever the length ("memory usage   *)
(* is at about Concurrency*PartSize", request.go:69).                      *)
MemoryBound == Len(bufs) <= IF Concurrency = 1 THEN 1 ELSE 2 * (Concurrency - 1)

(* The reader keeps the promise of RangeRead. *)
Promise == INSTANCE RangeRead
            WITH got <- reader.got,
                 spoiled <- troubles.late > 0,
                 status <- IF reader.pc \in {"read", "wait"} THEN "open" ELSE reader.pc
ReaderPromise == Promise!RangeSpec

(* Every worker that was started has given its chunk back after a refused  *)
(* request and has ended: nobody is left to take a chunk.                  *)
Deserted == troubles.status > 0 /\ \A w \in Workers : worker[w].pc \in {"unborn", "off"}

(* The reader comes to its end, or fails, or is closed before.  It waits   *)
(* for ever when it is deserted, which the code lets happen, and when a    *)
(* body that broke off after its last byte has brought one chunk too many  *)
(* into the channel; it never does for another reason: no signal of a      *)
(* buffer is lost and no chunk is left to nobody.                          *)
ReaderReturns ==
    <>(reader.pc \in {"eof", "failed", "closed"} \/ Deserted \/ (~Unlocked /\ troubles.late > 0))

(* A closed download leaves no goroutine behind and gives back its places, *)
(* unless a refused worker has sent its chunk to the closed channel, which *)
(* ends the process.                                                       *)
WorkersEnd == reader.pc = "closed" ~> (free = Limit \/ d.panicked)
=============================================================================
