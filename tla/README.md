# Verification of aliyun-to-115

TLA+ models, TLC runs and TLAPS proofs about the program in this repository: a
fork of OpenList whose driver `aliyun_to_115` walks the mounted file trees and
uploads every file to 115 cloud, so that 115 knows its SHA1 for rapid uploads.

`PROJECT.json` lists components, runs, mutants, the map from definitions to
source lines, findings, hazards and theorems. This file explains them.

## 1. Inventory

The repository has about 60 000 lines of Go. Most of it is OpenList, a file
server with many storage drivers. What this repository adds, and what this
project is about, is the synchronisation:

| part | source | state | operations | hard behaviour |
|---|---|---|---|---|
| breakpoint walk | `drivers/aliyun_to_115/sync.go` 106-144, 354-378, 506-615 | breakpoint in `data/work.db`, the recursion, `*fullScan`, ctx | a pass over the tree | crash and resume, changing tree, failed listings, order of names |
| strm queue | `sync.go` 206-352 | rows of `strm_tasks`, `failed.txt` | load `strm.txt`, pick, work, log, delete | crash between work and delete, dropped errors, signals |
| single file | `sync.go` 682-1034, `drivers/115/driver.go` 153-243 | `aliyun_sync_cache`, copies on 115, position of a streamer | cache test, three attempts, upload, removal, save | partial failure, retries, crash |
| multipart pipeline | `drivers/115/util.go` 363-732 | channels, WaitGroup, token, parts | dispatcher, 2 readers, scheduler, writer, collector, closer, main loop | interleavings, back pressure, token refresh, cancellation |
| chunk splitting | `util.go` 754-838 | none | `SplitFile` and two helpers | size boundaries |
| mount life cycle | `drivers/aliyun_to_115/driver.go`, `internal/op/storage.go` 48-286 | `storagesMap`, the row of the storage, `syncRunning`, goroutines | create, load, enable, disable, update, delete, sync request, loop | loops that nothing stops |
| source streamers, rapid upload | `sync.go` 1036-1403, `util.go` 131-326 | read position, cached file, hash | reads, `CacheFullAndWriter`, match by SHA1, sign check | a hash of half a file, a source that answers with something else |
| share2open driver | `drivers/aliyundrive_share2open/driver.go` 54-345 | four maps, copies on the user's drive | `Link`, `GetHash`, `Other`, two cron jobs | maps without a lock, shared by all calls and cleared under them |
| directory cache | `internal/op/cache.go`, `internal/op/fs.go`, `internal/cache`, `pkg/singleflight` | `dirCache`, listings under way | list, lookup, six operations that update the cache, expiry | an operation between the two ends of a listing, an id from a listing that is stale |
| multi-part downloader | `internal/net/request.go` | chunk channel, buffers, concurrency limit, error | reader, workers, retries, close | lost wakeups, buffers used again, send under a mutex, a body that breaks off after its last byte |
| WebDAV locks | `server/webdav/lock.go`, `webdav.go` 107-192 | `memLS`: tree with counts, tokens, expiry heap | LOCK, refresh, UNLOCK, confirm, release | several calls per request, expiry at any time |
| copy and move tasks | `internal/fs/copy_move.go`, `internal/task_group` | counts and payloads of the groups, the tasks, both storages | add, run, settle, retry, restart, verify and remove | a source removed before all of its group is copied, a source listed from the cache |
| search index | `internal/search/build.go`, `server/handles/index.go`, `internal/db/searchnode.go` | `Quit`, queue, progress, documents | build, update, stop, clear, update after a listing | two goroutines per build, requests that pass one test together, paths that overlap |
| the rest of OpenList | `internal`, `pkg`, `server`, `cmd`, other drivers | settings, sessions, database | protocol clients and servers | see section 6 |

How they interact: `Init` of the driver starts `doSyncLoop`; each round calls
`doSync`, which either takes the rows of `strm_tasks` one after the other or
walks the tree from its root; both call `processSingleFile` (or its http and
file variants) for a file; that calls `Pan115.Put`, which tries a rapid upload
and otherwise uploads the body in one request or through the multipart
pipeline, on chunks made by `SplitFile`. `work.db` is shared by all of them and
is all that survives the process. Everything in one pass is sequential except
the pipeline; passes of several goroutines meet in `syncRunning`. The sync gets
its sources through the operations of `internal/op`, so through the directory
cache, and the links of shared files through the share2open driver, whose maps
it shares with the web server. That server serves files through the downloader,
and WebDAV clients write through the lock system. Its users copy and move
between mounts by tasks, and every listing, whoever asks for it, may update the
search index by a hook.

What makes each part correct:

* walk: a pass that resumes at the breakpoint skips nothing that was not
  attempted in the same sweep; the breakpoint is cleared only after a complete
  sweep; little is done twice; everything is attempted in the end.
* strm queue: a loaded line is never lost; it is not repeated without a cause;
  the table drains.
* single file: no key in the cache for a file 115 has not received; copies that
  stay on 115 are the result of a fault; the file gets into the cache finally.
* pipeline: parts in order, complete before `CompleteMultipartUpload`, bounded
  memory, credentials that belong together, the call returns, no goroutine stays.
* splitting: the chunks tile the file and OSS accepts them.
* life cycle: one pass at a time; a mount that is there is synced.
* share driver: copies are removed again, interleavings alone make no file
  unavailable, every call returns.
* directory cache: a cached listing is what the directory holds, and "not found"
  means that there is nothing.
* downloader: the bytes of the range in order, no error without a cause, no
  reader that waits for ever, no worker that stays.
* copy and move tasks: a group counts its unfinished tasks exactly, and a source
  is removed only when the target has it.
* search index: what a build walks gets into the index, once.
* WebDAV locks: no two overlapping locks, nothing written where another has a
  lock, nothing lost while it is held, the internal counts exact.

## 2. Modules

| module | what it is |
|---|---|
| `TreePaths` | paths, the order of the walk, the order of Go strings on full paths |
| `Sweep` | abstract specification: what a sweep with a breakpoint promises |
| `SyncWalk`, `MCSyncWalk` | the walk with its breakpoint, and its small trees |
| `StrmQueue`, `MCStrmQueue` | the strm loop with rows of files and directories, and a small `strm.txt` |
| `FileSync` | one file from cache test to saved key, with its streamer, `Pan115.Put` and the rapid upload |
| `SequentialUpload` | abstract specification of an upload in parts |
| `MultipartUpload` | the goroutines of `UploadByMultipart` |
| `SplitFile` | the three splitting functions as operators; `MultipartUpload` extends it |
| `DriverLifecycle` | storage operations, loops, `syncRunning` |
| `LockTable` | abstract specification of a WebDAV lock system |
| `WebdavLocks`, `MCWebdavLocks` | `memLS` and the requests that use it, and a small tree |
| `RangeRead` | abstract specification of the reader of a download |
| `Downloader` | the goroutines of a download in parts |
| `ShareLinks` | the calls and cron jobs of the share2open driver |
| `DirCache`, `MCDirCache` | directory cache, file operations and listings, and a small tree |
| `Transfers`, `MCTransfers` | copy and move tasks with their groups, and a small source |
| `SearchBuild`, `MCSearchBuild` | builds and updates of the search index, and a small tree |
| `*_proofs` | the theorems of the module they are named after; `Drivers_proofs` those of `ShareLinks`, `DriverLifecycle` and `Downloader`, `StrmQueue_proofs` those of `DirCache` too |

### SyncWalk

State: `pc`, `at`, `todo` are the goroutine: the directory being listed, the
file being processed, and the entries that the frames of the recursion have
listed and not handled. A frame iterates over sorted names and a call returns
before its caller goes on, so the next entry is always the first of `todo` in
walk order (`IsNext`). `bp` is the row in `sync_state`, the one variable of the
program that survives a crash. `open`, `stable`, `done` are history: whether a
sweep is under way, which files have been there since it began, which were
attempted. Actions follow the code: `StartPass` reads the breakpoint, `ListDir`
and `ListFails` are the entry of `fsWalkAndSync`, `SkipEntry`, `EnterDir` and
`BeginFile` are the body of its loop with the resume test (`Resumes`,
`AroundBreakpoint`), `FinishFile` is the return of `processSingleFile`,
`ClearBreakpoint` the end of `doSync`. `Create` and `Delete` change the source
at any time; a directory can be deleted between its parent's listing and its own.

A name is its rank in byte order, so the walk order is the lexicographic order
on sequences of ranks; `Spell` gives its bytes, because the resume test compares
whole path strings, where `/` (47) is a byte among others. `OrderAgrees` says
the two orders are the same on the tree. It holds for names whose common
extensions do not continue with a byte below `/` (a blank, `-`, `.`, `(` and so
on). Without it the code is wrong, which the run `MCSyncWalkSpace` shows, so the
theorems that need it assume it.

### StrmQueue

`rows` is `strm_tasks` in id order. Each SQL statement is an action, and each
statement whose error the code drops has a failing twin: a failed COUNT reads as
an empty table, a failed INSERT leaves its line out, a failed SELECT ends the
pass, a failed DELETE leaves the row. `tx` is the transaction in which the lines
are inserted one by one; a crash rolls it back. `Signal` cancels the ctx, which
the loop never looks at; `Exit` is the end of the process some time later. The
work on the row of a file is one step with two outcomes. The row of a directory
is a walk over `NEntries` entries with a breakpoint of its own (`mark`), which
may fail to be read, written or cleared; how such a walk goes through a tree is
`SyncWalk`. `works` is counted up to `MaxFaults + 2`, one above what
`RepeatsArePaid` allows.

### FileSync

The three variants of `processSingleFile` differ in where the bytes come from,
in the limit of 100 MB of the http variant, and in their streamer: the tree
variant makes a new one per attempt, the others keep theirs. `Put` is its
sequence of calls: the question whether an upload is allowed, the hash
(`HashFull`), the rapid upload with its sign checks, the body, and the lookup of
the new file. `hash` tells whether the hash that is sent is that of the whole
file: a source may not know it, and `CacheFullAndWriter` of a URL returns while
its goroutine still copies. `astray` is a streamer on the URL of a picture, which
the share driver gives when it has no link; `BodyMisled` a source that answers a
read with other bytes than asked for. `indexed` says whether 115 knows the SHA1
of the whole file; `moved` whether a streamer has been read from, which matters
to `UploadByOSS` only (`UploadByMultipart` reads by offset); `broken` which
copies are not the file. A file is begun again and again, as the passes do. Each
failing call costs one of `MaxFaults`. An error of the query that asks the cache
is one of them (`CacheUnreadable`): it reads as "not synced", and a file that is
in the cache is sent again. `refused` records that the last `Put`
returned `nil, nil`, `misled` that the source has ever sent something else.

### MultipartUpload

One action per channel operation; an unbuffered channel is a joint step of its
two ends, `select` is a choice of enabled actions. `tokens` is
`activeChunksLimit`, `waiter` the one-slot channels `chunkWaiters`, `inbox` the
part between `UploadedPartsCh` and `wg.Done`. A cancelled ctx may be chosen
wherever the code selects on it. Reads may be short. A failed `UploadPart` may
have stored its part. Left out: the progress printer, the watchdog of a slow
part, recovered panics, and the calls before the goroutines are started, which
return before anything exists.

### SplitFile

Operators on sizes in bytes; constants give the scale (GB, parts per GB, the
smallest part). `MultipartUpload` takes its chunks from here: `NChunks` is the
length of `Split(FileSize)`, and what is completed must tile the file.

### DriverLifecycle

`row` is the storage in the database, `mounted` the object in `storagesMap`.
`UpdateStorage` keeps the object and calls `Init` on it again, which starts one
more loop; `EnableStorage` makes a new object while the loop of the old one goes
on; a request that sets `Disabled` through update changes only the row. A mount
path that changes and failures of the storage database are not modelled.

### WebdavLocks

`table.lock` is `byToken` with the details of each lock; `table.ref` the
reference count of each node of the tree, and a node exists while it is not 0;
`queued` is membership in the expiry heap. Every exported call of `memLS` runs
under its mutex and is one action, and each of them first removes some set of
locks that ran out while they were in the heap (`Collected`): time is any moment.
A request that writes is a small process: with an If header it confirms all its
names in one call, without one it creates temporary locks one by one, so two
requests can meet between the two names of a MOVE. `known` are the tokens that
clients have been told. A request has the names that it locks (`names`) and the
resources that it writes (`res`), and in three cases these are not the same:
DELETE, PUT, MKCOL and PROPPATCH lock the path of the URL and write to that path
joined with the base path of the user (MOVE, COPY and LOCK join first); a list of
an If header may have a resource tag, and `Confirm` then looks at the resource of
the tag in the place of the one of the URL; and the URL without the prefix may be
empty, for which nothing is locked or confirmed. An element of `UrlNames` is such
a name, `<< >>` the empty one. The temporary locks have depth 0, so the handlers of DELETE and
MOVE on a directory do not look at locks below it; `res` are therefore the names
themselves. Conditions of an If header other than tokens are not evaluated by
the code either (`Condition.Not` and ETags are parsed and ignored).

### Downloader

One action per critical section of `d.m`; `chan` is the channel, `bufs` the
buffers with their two positions, `worker` the goroutines of `downloadPart`. An
attempt is request, answer, body. The body arrives in one piece, breaks off
before its last byte (`BodyBreaks`) or after it (`BodyBreaksLate`): then nothing
is left of the chunk, and the next attempt asks for a range of no bytes, which a
server refuses (`Unsatisfiable`) or takes for a request of the whole file
(`WriteStray`), while the reader may be done with the chunk and its buffer belong
to another one. `late` counts these. A sender that finds the channel full holds
`d.m`, so the others come no further than their next use of it (`Unlocked`).
A refused request is an attempt for the first chunk
and overload for a later one: the worker gives the chunk back (`GiveBack`) and
ends, or tries again. `Buf.Read` and `Buf.Write` with their notification are
`ReadBytes` and `BufWrite`: `pending` is what `Read` sets when it found nothing,
`signal` the message in the channel. `Close` is `interrupt`. The range starts at
0, which the code only adds.

### ShareLinks

`memo` are the maps: the copy made for a file, the copies whose URL is known, the
files whose link is known (`Hash_dict` goes with the URLs). Each access of a map
between two requests is one action, so calls of one file interleave at every
request. `Rest` are other files, which matter because `cron2` clears everything
once any link is there. `paid` counts the copies that a fault, a crash or a call
of `Other` may have left; `gaveUp` the files whose URL was refused `Tries` times.
Two goroutines that write one Go map at the same time end the process: that is
`Crash`.

### DirCache

A storage whose driver has no `Get`, as 115: an object is looked up in the
listing of its parent and handed to the driver, which knows it by its id. An
entry of a listing that is not in doubt leads to the object at its path; one of
another listing may lead to any object or to none. So a listing under way may be
that of another directory (`crossed`, `Answers`), and an operation may act on
other objects than it names (the field `lost` of a call, `MayActAs`); what it then
changes and updates is in doubt. `flight` is the call of `singleflight`
for a directory, with the answer the driver has already computed; `ListBegin` and
`ListEnd` are its two ends and everything may happen in between. Each of the six
operations is lookup, driver call and update of the cache, in this order and
without a lock over them; `Move` updates two directories one after the other.
Entries are temporary when the driver does not return the object it made, which
makes `Get` list anew. `doubted` is history: cached listings that a named race
may have made wrong, namely a change between the ends of the listing, a directory
that was looked up in a listing in doubt, two operations that update in another
order than the storage saw them, an operation led astray, or a tree deletion that
stopped at a directory without a cached listing. `Put` removes or renames an old
object by a call of its own, which is another caller here.

### Transfers

`task` are the tasks of the copy and of the move manager, `group` the
coordinator: tasks that are not done, whether one succeeded, and the payload, the
sources to remove. The task manager is a library; modelled is what the tasks see
of it: a task is run, tried again up to `MaxRetry` times, tried again by hand,
canceled, and loaded after a restart (`stored`), when `SetRetry` counts it anew
(`Rejoin`). A directory task lists its source and submits a task per entry
(`NextTask`). `Chain` is the way up from a node, written as a least closed set and
not by recursion so that it can be reasoned about. The last task of a group goes on with `HookAndRemove` outside the
lock; `frames` is the recursion of `verifyAndRemove`. `over` are files that stood
at the target before, `Arrive` another program that adds a file to the source.
`unseen` are files of this kind that the cached listing of their directory lacks;
both the copy and the verification list through the cache (`copy_move.go:188`,
`transfer.go:96`), until the listing expires or somebody has it made anew
(`Relist`) or the process restarts. `missed` is history: what a verification did
not see. A file that fails or is interrupted in the middle leaves nothing at the
target; what it really leaves is up to the driver.

### SearchBuild

`walker` and `consumer` are the two goroutines of each build: the one that clears,
starts, walks the tree and waits, and the one that empties the queue. `quit` is
`Quit`, with the build whose channel it is, `asked` the message in that channel,
`running` the flag of each build, which goes down after `wg.Done`. A build has a list of paths (`Paths`), which it deletes and then walks one after
the other; a client may send paths that repeat or lie below one another. Requests
test `Quit` long before `BuildIndex` takes it, so several may pass. `update` are the
calls of the hook after a listing, which run beside a build that begins after
their test. `lost` is history: nodes with a reason not to be in the index, a
failed batch or a deletion by somebody else; `doubled` nodes that two writers, or
two walks of one build, may have added. `Mounts` are the nodes where a storage is
mounted, whose documents an update keeps; the runs have none. `Below` is a least closed set, and the tree is assumed to have no
cycle, which is what a path is.

## 3. Runs

| run | asks | expected |
|---|---|---|
| `MCSyncWalk` | 8 paths, two directories, one filtered file, 2 faults, 2 changes, RunOnce: safety, refinement of `Sweep`, every file finally attempted | holds |
| `MCSyncWalkSpace` | names `a`, `a b`, `b`: does the resume test skip only what lies before the breakpoint? | violated |
| `StrmQueue` | 3 tasks, one of them a directory of two entries, one line doubled, 2 faults | holds |
| `FileSync` | three variants, three sizes, 3 attempts, 5 faults, DeleteAfterSync | holds |
| `MultipartUpload` | a file of 3 chunks, 2 readers, 2 slots, 2 attempts, 1 refresh, cancellation: safety, refinement, return, end of the workers; the split of all sizes from 7 to 1000 with a GB of 60, where all ten steps, the large files and the switch to the smallest part size occur | holds |
| `DriverLifecycle` | 2 objects, 3 goroutines | holds |
| `WebdavLocks` | a directory and two files, base paths the root and one of the files, tags and empty names, 2 writing requests, 3 tokens: safety, refinement of `LockTable` | holds |
| `Downloader` | 5 chunks of uneven sizes, 3 workers, 2 places under the limit, 1 retry, 2 troubles of any kind: safety, refinement of `RangeRead`, the reader returns unless it is deserted, the workers end | holds |
| `ShareLinks` | 2 callers of one file, 2 faults, 1 call of `Other`, both cron jobs | holds |
| `DirCache` | 4 directories, one of which can move into another, a file, 2 callers, 2 operations, 1 listing under way, objects by id | holds |
| `Transfers` | a directory of two files, one of them late and maybe not in the cached listing, a file beside it, 4 tasks, 1 retry, 1 fault of any kind, any files in the way | holds |
| `SearchBuild` | a directory and a file in it, a build of the whole and one of the directory and then the file, 1 update after a listing, 1 upset: a stop, a clear, a change or a fault | holds |

Further configurations lie beside these. The program does not have these
properties (section 4):

| configuration | module | property |
|---|---|---|
| `LifecycleTwo` | `DriverLifecycle` | `OneAtATime` |
| `StrmSignal` | `MCStrmQueue` | `OnlyTriedLeave` |
| `FileSyncRetry`, `FileSyncLimit` | `FileSync` | `EachAttemptSendsAll`, `LimitKept` |
| `MultipartLeak`, `MultipartShort` | `MultipartUpload` | `NothingLeaks`, `OnlyFullParts` |
| `ShareStuck` | `ShareLinks` | `LinkRecovers` |
| `DirCacheRemove`, `DirCacheTree` | `MCDirCache` | `RemovedIsGone`, `TreeForgotten` |
| `DownloaderLate` | `Downloader` | `RetriesSuffice`, `BytesTrue` |
| `WebdavNames` | `MCWebdavLocks` | `LocksRespected` |
| `SearchGone` | `MCSearchBuild` | `GoneIsDeleted` |

It has these: `TransfersEnd`, without faults (`MovesFinish`: what is to be moved
finally leaves the source), and `SearchBuildEnds`, with two upsets and no update
after a listing (`BuildsEnd`: every call of `BuildIndex` returns and leaves no
goroutine behind).

Bounds. `MaxFaults`, `MaxChanges`, `MaxRefresh`, `FileSize`, `MaxSize`, `MaxRetry`, `MaxRetries`, `MaxUpsets`,
`Tasks`, `Builds`, `Updates`, `Tries`, `Objects`,
`Threads`, `NEntries`, `MaxGen`, `MaxStatus`, `MaxTroubles`, `MaxOthers`, `MaxListings`,
`MaxBegun`, the sets of callers and the trees are the only bounds. Two faults let
a pass resume from a breakpoint that was itself left by a resumed pass; two
changes delete the breakpoint's file and something else. Three chunks with two
slots make the dispatcher wait for a slot while a reader, the scheduler and the
writer each hold a chunk; two readers are what the code starts. Two attempts
instead of three in the pipeline: the counter only decides between "again" and
"give up". Five faults against three attempts exhaust one whole call and disturb
the next. Three tokens are a lock of a client and the two temporary locks of a
MOVE, or one of each of two requests and a refused third; the tree has the two
relations two names can have, above and beside. In the downloader five chunks
make three workers use each buffer again, and the first two chunks have the
sizes that `sendChunkTask` treats apart; two troubles are two refused requests,
after which no worker may be left, or a broken body and its broken retry. Two callers of one file are what the
code's sharing is about; seven ids of copies are never used up. Two operations on
one tree with a listing between their steps is the smallest case of every race
named in `DirCache`. What is proved does not depend on these bounds.

Four tasks are a directory task, the tasks of its
two files, and one that is submitted again while these run. Two builds are what it takes
for one to clear what the other has indexed; the two paths of the second one
overlap. One upset at a time keeps that run small: the two builds, the update and
the overlapping paths meet each kind of upset by itself.

Deadlock is checked in every run but four: requests of `WebdavLocks` end when no
token is left, a download that is closed is over, and so are transfers and builds
of the index when no request is left.

Fairness. The goroutine of a pass is scheduled and its calls return
(`WF(Walker)`, `WF(Loop)`, `WF(Step)`, `WF(Run(t))`): every blocking call has a
timeout or an error return. A signalled process exits (`server.go` calls
`Shutdown` with one second) and is started again by its operator. Faults,
changes, signals, requests, tickers and timers owe nothing. In the pipeline and
in the downloader each goroutine is fair for itself; the timer is not, so
`Returns` shows that nothing but a cancellation of the caller needs it. The
consumer of a download reads, and closes the reader after its end or an error,
as `io.Copy` and a deferred `Close` do; it may close earlier. A call of the share
driver waits for requests only, which have a timeout. The workers of the
task managers and both goroutines of a build go on, its ticker ticks. The runs
check safety alone of `WebdavLocks`, `DirCache`, `Transfers` and `SearchBuild`.

## 4. What the runs found

1. `MCSyncWalkSpace` (`sync.go:573`): the resume test compares strings, the walk
   compares names. Files that come after the breakpoint are skipped in trees with
   names such as `a` and `a b`.

With the further configurations:

2. `LifecycleTwo` (`driver.go:130`): old and new loop sync at the same time.
3. `StrmSignal` (`sync.go:345`): after a signal the remaining rows fail under
   the cancelled ctx and are deleted, so that the restart that `README.md:54`
   names does not come back to them.
4. `FileSyncRetry` (`sync.go:775`): the retry of an http or file upload
   continues a streamer that has been read.
5. `MultipartLeak` (`util.go:441`): the goroutine in `wg.Wait()` stays for ever
   after an error; the collector in every case. The comment at `util.go:366`
   says that none does.
6. `MultipartShort` (`util.go:510`): the count of `ReadAt` is ignored.
7. `ShareStuck` (`share2open/driver.go:294-316`): when the URL of a copy was
   refused three times the copy is removed but stays in `CopyFiles`; as long as
   no other link is known `cron2` clears nothing, and without `Autoremove` every
   later attempt asks for the URL of a copy that is gone, although `sync.go:989`
   says that each attempt fetches the link anew.
8. `DirCacheRemove` (`fs.go:192`): `Get` drops the error of the listing, so
   `Remove` answers "it's ok" to an object that is there.
9. `DirCacheTree` (`cache.go:47`): `deleteDirectoryTree` stops at a directory
   whose listing is not cached; listings below it stay, and show up again when a
   directory of that name comes back.
10. `SearchGone` (`db/searchnode.go:38`): `DeleteSearchNodesByParent` looks for
   the document of a path by what `stdpath.Split` calls its directory, which ends
   in a slash, while the documents store it without one. Below the root the
   document of something that is gone stays, against "delete data that no longer
   exists" (`build.go:241`).

11. `FileSyncLimit` (`sync.go:839`): `README.md:73` and `:174` limit `file://`
    tasks to 100 MB, the code limits http tasks only, and a larger local file is
    uploaded. `FinallyCached` is therefore stated for what the document promises:
    tree files, and http and local files of up to 100 MB.
12. `DownloaderLate` (`request.go:461-465` and `:377-387`): a body that breaks off
    after its last byte is an error that is retried, with `ch.size` 0 and a range
    that ends before it begins. A server that refuses it (416) makes the whole
    download fail, whatever the number of retries (`RetriesSuffice`). A server that
    ignores it sends the file from its first byte; meanwhile the reader may have
    passed the chunk and its buffer may belong to a later one, which then gets
    these bytes (`BytesTrue`). Together with a refused request such a chunk may
    come back to a channel that has no room for it; who sends holds `d.m`, and the
    download stands still. The properties of the run `Downloader` exclude what
    comes after such a break, by name (`late`, `spoiled`).
13. `WebdavNames` (`webdav.go:298` and `:309`, `:163-179`, `:131`): a request of a
    user whose base path is not the root locks the path of the URL and writes to
    the joined path; a list with a resource tag confirms the locks of the tagged
    resource; and the empty name is not locked at all. In all three a request
    writes where another client has a lock, against the comment at
    `webdav.go:125-129`. `ClaimsRespected` says what is left: what a request writes
    under a name that it has locked.

By changing a constant, and in the runs themselves:

* `Downloader` with `Limit = 1`, `Concurrency = 2` and six parts: `MemoryBound`
  fails. `sendChunkTask` makes a new buffer whenever `d.concurrency` is positive,
  also when the reader sends, so the memory is not "about Concurrency*PartSize"
  (`request.go:69`).
* The run `Downloader` reaches states in which, after two refused requests, both
  workers have given their chunk back and ended, and the reader waits until it is
  closed (`Deserted`, which `ReaderReturns` names). It also reaches a worker that
  gives a chunk back after `interrupt` has closed the channel (`request.go:440`
  and `:289`): a panic. The model stops there (`d.panicked`, which `WorkersEnd`
  names).
* The run `SearchBuild` has an update of two paths one of which lies below the
  other: the second walk adds the documents of the first one again
  (`build.go:150`, with paths that `handles/index.go:58-66` takes as they come).
* The run `Transfers` removes a file that another program has added to a
  directory after the copy listed it: the verification gets the listing from the
  cache, does not see the file, and the directory is removed whole
  (`transfer.go:96` and `:113`). The window lasts as long as the cached listing.
* The run `DirCache` has a listing of a directory that was moved away and is
  cached under its old path, because 115 answers by the id that an older listing
  of the parent has told.

Seen in the code without a model of its own: `DESIGN.md:11` promises that
nothing stays on 115, but the error of the removal is dropped (`sync.go:1028`);
a directory that can never be listed keeps everything behind it
from being reached (`sync.go:520`); `rapidUpload` returns neither a result nor
an error when uploads are refused (`util.go:147`) and `Put` uses the result
(`driver.go:202`), a panic that `processSingleFile` recovers; the sign-check loop
of `rapidUpload` ends when 115 wants it to (`util.go:163`); `CacheFullAndWriter`
of a URL returns before everything is written, against `internal/model/obj.go:48`;
`verifyAndRemove` compares names only (`task_group/transfer.go:87`), the other
cause that `RemovedForCause` names; the slice that a listing gives to its first
caller is the one that `RemoveObject` shifts later (`fs.go:109` and
`cache.go:178`), so that caller may see an entry twice and miss another; an empty directory is never made at the target; the walk
and the consumer of a build share `err` (`build.go:98`), so a failed batch may be
forgotten; a stop before the walk begins leaves the progress at "not done"
(`build.go:145`); two builds that pass the test together clear each other's
documents (`handles/index.go:28`).

## 5. Proofs

All theorems are checked by TLAPS for every value of the constants, under the
named assumptions of the modules (`TreeAssumption`, `SpellAssumption`,
`WalkAssumption`, `SplitAssumption`, `StrmAssumption`, `FileSyncAssumption`,
`MultipartAssumption`, `LifecycleAssumption`, `LocksAssumption`,
`BuildAssumption`, `ShareAssumption`, `DownloadAssumption`, `CacheAssumption`, and for `Transfers`
another `TreeAssumption`, `TasksAssumption` and `BoundsAssumption`). They say that a tree is a tree (each
node has a directory above it and the root is above all), that the sets to count
are finite, and that bounds are natural numbers.

* `SyncWalk_proofs` begins with the paths of `TreePaths`: `LexLess` is a strict
  total order, a directory comes before what it contains, and what lies between
  a directory and its end is inside it. Then `TypeCorrect` without further
  assumption, and under
  `OrderAgrees`, `Invariance` and from it `NothingLostBehindBreakpoint`,
  `ClearedOnlyWhenComplete`, `RedoIsBounded`, `BreakpointMonotone` and
  `WalkerKeepsPromise`. The invariant `IInv` is needed because the property
  "everything before the breakpoint is done" says nothing about where the walk
  is. Its parts: what is owed is still pending on the stack (`Covered`); before
  the scan is full the stored breakpoint is the one the pass started from
  (`ResumePoint`); what is done lies at or before the breakpoint (`DoneBehind`)
  and what is to do behind it (`TodoAhead`); a breakpoint belongs to an open
  sweep (`SweepOpen`).
* `StrmQueue_proofs`: `NothingLost`, `RepetitionsPaid` and `FoldersWhole`, for
  every `strm.txt`, every set of directories and any number of faults. The
  invariant says what the loop is about to do with the row in hand: a row that
  is going to be deleted has been synced or its failure is accounted for; the
  open transaction holds every old row and every line inserted so far; how often
  a line in the table has been worked on is bounded by the faults, by one more
  for a line that is not in it; the entries before the one at hand, or before the
  breakpoint, have been processed unless the breakpoint is older than the load.
  That `rows` holds no line twice is needed, since `DELETE` by id would otherwise
  leave the line in the table.
  The second part of the module is about the directory cache, which answers
  `fs.List` when the loop walks a folder of another mount. `ListingsExact`
  (`CacheExact`) and `MissingForCause` (`NotFoundHasCause`) hold for every tree of
  paths and any number of callers, operations and listings, over a storage that
  goes by ids: what was found in a listing in doubt may be anything. They say how
  far an error of that kind spreads: it stays among listings in doubt. `CacheExact`
  says nothing of a listing while an operation is between storage and cache, so it
  is not inductive. The invariant `CacheInv` (`CacheInvariance`) says what holds
  then: calls are for objects they can be for (`CallsFit`); the listings that a call
  which was led astray is about to update are in doubt (`LostInDoubt`); the storage is a tree (`StoreIsTree`); an answer on its way that no
  change has overtaken and that was not led astray is right (`AnswersFresh`); and
  a cached listing that is
  not in doubt either shows the directory exactly or, when one operation is
  pending on it, what it shows and what that operation has still to take from it
  and to give to it (`Takes`, `Gives`, `Awaits`) make up what the directory holds,
  or the operation is about to drop it (`Leaving`). When two are pending, the
  first to update puts the listing in doubt. The steps rest on two facts: a driver
  call changes the contents of a directory only by its own object
  (`ChangedThere`), and `RemoveObject`, `UpdateObject` and an append change a
  listing by exactly the entry of that name (`RemoveFacts`, `UpdateFacts`,
  `AppendFacts`).
* `FileSync_proofs`: `NoUnpaidDuplicate` carries along that the copy at hand
  exists (`CopyAtHand`); a cached file may be sent again when the cache could not
  be read, and that fault pays for it. `NothingSkippedUnsent` carries along that a
  tree file past its upload is indexed unless it was refused or its source
  misled; `OnlySourcesDamage` that the streamer of a tree file stands at its
  start in each attempt.
* `MultipartUpload_proofs` begins with `SplitFile`: `SplitIsSound` for every size
  above `MinMultipart`, by cases on the two ways of cutting. Then `InOrder`, `PartsFit`, `CompleteWhole`,
  `MemoryBounded`, `SignedWhole` and `Implements`, the refinement of `SequentialUpload`, for a
  file of any size and any number of readers and slots; that the completed parts
  tile the file combines this invariant with `SplitIsSound`. The invariant has these parts: the parts
  are what has been registered, in order (`OrderInv`); the WaitGroup counts the
  chunks that are not (`CountInv`); no data is lost between two goroutines
  (`DataInv`); each chunk beyond the registered ones that was dispatched is in exactly one
  place (`PlaceInv`), which makes the slots count the chunks in memory
  (`SlotInv`); a goroutine that sends its error leaves, so the error channel
  never fills up (`ErrInv`); and token and bucket are always of the same refresh
  (`SignInv`).
* `Drivers_proofs` extends three components that have nothing in common, which is
  why two of them have names of their own for the parts of their specification
  (`LifecycleInit`, `DownloadNext`). `LinkCleansUp`
  (`StraysPaid`) and `LinksWork` (`QuietLinksWork`) hold for any number of files of
  a share and of callers. The invariant `LInv` says what a call may rely on while
  the maps change under it: a copy that has not been remembered yet is known to
  nobody else (`Answered`); a remembered copy is of one file (`OneFile`); who is
  about to remove one has its URL, and the URL is remembered as long as the copy
  is, or was refused it (`Removing`). `Account` then balances two sets against
  `paid`: the copies on the drive that no call of `Link` is going to remove, and
  the calls of `Other` that are about to make one. `MutualExclusion`: its
  invariant ties `syncRunning` to the goroutine that is in `doSync`.
  `DownloadFailsForCause` (`FailsForCause`), for every length, part size and number
  of workers: the attempts each worker has used up are no more than the broken
  bodies and refusals so far (`AttemptsPaid`), so the context of a download that
  nobody has closed ends only for a cause (`DoneForCause`). A body that breaks off
  after its last byte is such a cause, and after it nothing of this paragraph holds
  (section 4): what is inductive is that all of it holds as long as there was none
  (`WhileUsual`, `Upheld`).
  `ChannelHasRoom` (`SendNeverBlocks`) and `BytesInOrder` (`ReaderPromise`, the
  refinement of `RangeRead`) rest on one more invariant, `Downloading`
  (`DownloadInvariance`). The chunks from the one the reader is at to the last one
  sent are never more than the buffers, nor than the channel holds (`Window`); each
  of them is in the channel or in the hands of a worker, once at most (`Queue`,
  `Hands`, `Distinct`). So whoever sends has a chunk that is not in the channel, and
  there is room for it. The buffer of a chunk is its number modulo the number of
  buffers, so no two chunks of the window share one (`PlacesDiffer`,
  `ChunksApart`); a buffer holds the first bytes of its chunk, and what a worker
  still has to fetch is what the buffer lacks (`Filled`, `Alive`). So the bytes at
  the front of the reader's buffer are the next of the range, and when the buffers
  are through, all of it has been read, because the sizes of the chunks add up to
  the length (`SizeFacts`, `OffsetFacts`).
* `WebdavLocks_proofs`: `CountsExact`, `HeldHaveOwner`, `WritersApart` and
  `PromiseKept`, the refinement of `LockTable`, for every tree of resources and
  any number of requests, tokens and refreshes. The invariant has two halves. Of
  the table (`Good`): the count of every node is the number of locks at or below
  it, which needs that counts of disjoint sets add up (`RemoveGood`); exactly the
  unheld locks with a timeout are in the heap; no two locks overlap. Of the
  requests (`Served`): in each phase they have the tokens the handler has
  collected and no others (`Shape`), these exist, are held or temporary as the
  request says, and cover the names it has done (`Kept`), and no two requests have
  the same one (`Owned`). Both halves are `Sound`, and `IInv` says it of
  the variables. `WritersApart` (`ClaimsRespected`) holds for every set of base
  paths, with tags in the `If` header and with the empty name, because it speaks
  of what a request writes under a name that it has locked; that a request may also
  write what it has not locked is shown by `WebdavNames`.
* `Transfers_proofs`: `CountIsExact`, for every tree, number of tasks, retries,
  failures and crashes. The invariant is the count with the type: each step brings
  one task into its group or takes one out, and the coordinator counts with it
  (`CountEnters`, `CountLeaves`, `CountStays`), or it is a crash, after which both
  are empty. `GoneForCause` (`RemovedForCause`) rests on it and on `CInv`: what is
  left of the source has its directories (`Rooted`); what the target holds is a
  file where it is new and a directory where it is one (`Target`); everything in
  payloads, tasks and frames was asked for (`GroupsAsked`, `TasksAsked`,
  `StacksAsked`); and as long as no frame of `verifyAndRemove` has failed, each
  file that remains below its directory is still to be visited, lies below the
  directory in the frame above, or is a late file that a cached listing did not
  show (`missed`, in `StacksCover`). So a directory is removed only when nothing
  is left in it but what was verified or missed.
* `SearchBuild_proofs`: `FoundIsKept` (`NothingDropped`) and `DoublesExplained`
  (`DoublesHaveCause`), for every tree and any number of builds, updates, stops and
  faults, and for any list of paths that a build is given, repeated or nested. The invariant says that what a walk has found waits in the queue, is
  indexed or has a reason (`NoneLost`); how far the two goroutines of a build are
  apart unless somebody stopped it (`Lockstep`); that a walk reaches
  a node through its directory and only below the path it is at, and meets a node
  again only when two paths of its list contain it (`Walks`, `Mine`, `Repeated`);
  which nodes an unfinished writer may still add
  (`Marked`, `Fresh`, `Listings`).

The type invariants are theorems (`TypeCorrect`, `LifeTypes`, `CacheTypes`), so the
runs do not repeat them. `DownloadTypeOK` describes the variables to the reader; it
holds in the configurations of `Downloader` and `DownloaderLate` when it is added
to them, and what the proofs need
of it is in `PartTypes` and `Window`.

Only model-checked is all liveness (`EveryFileAttempted`, `RowsDrain`,
`FinallyCached`, `Returns`, `WorkersExit`, `KeepsSyncing`, `CallsReturn`,
`ReaderReturns`, `WorkersEnd`, and that moves and builds come to an end), which is
out of the prover's reach. Every safety property of the passing runs in the first
table of section 3 is a theorem.
`MemoryBound` of `Downloader` and the properties that the program does not have
(section 4) are none, because they are false.

## 6. Not modelled

* In the walk (`SyncWalk`): a failed write of the breakpoint, which `StrmQueue`
  has for its simpler tree. The breakpoint is then older than `SyncWalk` says, so
  more is redone; a failed clear makes the next pass resume at the last file.
* The content of `failed.txt`, statistics, logging.
* Two passes at the same time on one `work.db`: `LifecycleTwo` shows that they
  occur; what they do to each other's breakpoint is not followed up.
* The prefetch and the single retry of `VirtualFile.ReadAt`, which are one
  outcome of a read; the refresh of the tokens of the share driver.
* The link cache and the caches of users, settings and details: entries with a
  time limit that are replaced whole. Whole-array aliasing is not modelled
  either: a listing is a value here, while the slice that a listing returns to
  its first caller is the one `RemoveObject` later shifts.
* Downloads in one part, and the pauses between attempts.
* In `DirCache` the storage has one object per path, though 115 allows two of one
  name in a directory. What an entry of a listing in doubt leads to is any object
  or none; an entry of a listing that is not in doubt leads to the object at its
  path, which is the assumption under which `CacheExact` is stated.
* The HTTP, XML, FTP, SFTP and S3 servers, the clients of other services, the
  drivers of other services, settings, authentication and database code.
  Most of the repository is this: code of OpenList that this fork does not
  change, which converts formats, makes one request per operation and keeps no
  state between two calls. There is nothing in it for a state machine to get
  wrong that a test would not see, and the map covers what is modelled, a small
  part of the repository.
* In `Transfers`: merging, transfers without a task, within one storage, and of
  archives; the refresh of the target after a transfer. A put that fails or is
  interrupted leaves the target as it was; what it leaves there depends on the
  driver, and with one that keeps a part of the file under its name
  `verifyAndRemove`, which compares names, may take it for the file. The target is
  changed by tasks only. The task manager is a
  library outside this repository; `Transfers` has what its tasks see of it.
* In `SearchBuild`: the other search engines, ignored paths, the limit of the depth
  of a walk, and the search itself. `Mounts` is empty in the runs (the theorems hold
  for every set). Meilisearch has a queue of its own, whose order depends on the jobs of
  that service.
* `pkg/generic_sync`: a copy of Go's `sync.Map` with types; its callers are
  modelled as if it were atomic.

## 7. Plan

1. Done: walk, queue with directory rows, file with streamers and rapid upload,
   pipeline, splitting, life cycle, WebDAV locks, downloader, share driver,
   directory cache, copy and move tasks with their groups, search index; proofs
   for all of the synchronisation, the locks, the groups of transfers, the search
   index, the share driver, the downloader and the directory cache.
2. Proofs: the bounds in `DownloadTypeOK` that are not in `PartTypes` and `Window`,
   which need that a worker gives a chunk back at most once and that the bytes
   counted in `written` are of different chunks.
3. Two walkers on one `work.db`, composed of `SyncWalk` and `DriverLifecycle`.
4. The link cache with `singleflight`; the queue of updates for Meilisearch.
