# Formal model of baidu-buzz-proxy

baidu-buzz-proxy imports a Baidu share into a temporary folder of the
operator's own account, lets the user select files of it, streams them from the
Baidu CDN to Buzzheavier and removes the temporary copy. This directory holds
TLA+ models of the parts of it that run concurrently or must survive failures,
the TLC configurations that check them, and TLAPS proofs about them. Paths
below are relative to the repository; `jobs.py`, `streams.py` and
`buzzheavier.py` are in `src/baidu_buzz_proxy/services/`.

## 1. The system

| component | state it keeps | operations | what makes it correct |
|---|---|---|---|
| Job service (`jobs.py`) | one row per job in SQLite; in memory a queue, `active_jobs`, the mutation lock, worker and expiration tasks | `create_job`, `select_items`, `cancel`; `_worker` with `_import_job`, `_transfer_job`, `_cleanup_remote`; `_expiration_loop`; `start`, `stop` | changes at Baidu exclude one another; no job is forgotten; cancel reaches its task; sources are kept while needed and removed afterwards; cleanup is recorded truthfully |
| Range download (`streams.py`) | tasks or futures of the segments, counters of the generator; the preferred CDN host, shared by all downloads | `stream_baidu_file`, `_sync_file_chunks` with `async_from_sync`, `stream_baidu_zip`, route selection | the bytes of the file in order and complete; a bounded window; no download left behind; failover between routes, however stale the preference |
| Buzzheavier upload (`buzzheavier.py`) | parts cut, requests in flight, per-part progress | `create_upload`, `upload` with `_upload_part`, `complete_upload` | complete only with every byte stored; bounded memory; progress does not go back; it ends |
| Baidu adapter (`services/baidu.py`) and PCS client (`src/baidu_pcs_client/`) | cookies of one session; the list of directories to scan, the semaphore of `locate_many` | folder, share access and transfer, recursive listing, locating, removal and permanent deletion | a share is offered whole, its links go to their files, a cleanup leaves nothing |
| Quota (`services/quota.py`) | none | `free_bytes`, checked before and after a transfer | the reserve stays free |
| Database and models (`database.py`, `models.py`) | tables `jobs`, `job_items` | sessions, commits, cascades | a commit is atomic |
| HTTP API (`api/routes/jobs.py`, `schemas.py`) | none | maps requests to the job service | - |
| Security, configuration, Turnstile, web pages, health | none that changes | pure functions, one external call | - |
| Application (`main.py`) | none | `lifespan`: `start`, then `stop` | stop ends |
| Deployment (`deploy/`, `compose*.yaml`, `.github/`) | marker files on a host | scripts | - |

How they interact. A request handler writes a row and puts an action on the
queue. A worker takes it, runs it as an `asyncio` task registered in
`active_jobs`, and handles its exceptions. `cancel` commits to the row and then
cancels that task; the upload additionally polls the row through `is_cancelled`.
The expiration loop runs `_cleanup_remote` on folders that workers may be
cleaning too. Imports and removals at Baidu take `_baidu_mutation_lock`, an
`asyncio.Lock` or a lock in Redis. A transfer composes the range download (the
stream) with the upload (its consumer): OrderedStream is the contract between
them. All imports share the account's space; all downloads share the preferred
CDN host; two requests of one job share its rows of items.

What is hard: every `await` is a point at which another coroutine, a
cancellation, `stop` or the death of the process can come in; rows are read in
one session and written in another; cleanup has two remote steps, is run by four
callers and may fail half-way; segments and parts finish in any order, are
repeated, cancelled and lose their answers. `PROJECT.json` lists the hazards at
their lines with the properties that cover them.

## 2. The modules

### JobService, JobProperties, JobServiceProofs, JobFolderProofs, MCJobService

`JobService` models `jobs.py` as one state machine. `pc[a]` names the await
that coroutine `a` (a worker, the reaper or a client request) is about to
finish; a step is the effect of that await and all the code up to the next one.
A worker and the action task it awaits are one actor, since only one of them
runs at a time; `after[a]` is where `_cleanup_remote` returns to and thereby
says whether the action task is alive (`InTask`).

| model | code |
|---|---|
| `row` | the job's row: state, `cancel_requested`, `cleanup_completed`, whether `temp_fs_id` is stored, and which of the expiries `expires_at` holds |
| `folder` | the temporary folder: none, live, in the recycle bin, purged |
| `queue`, `activeJobs`, `lock`, `orphanLock` | `self.queue`, `self.active_jobs`, the holder of the mutation lock, a Redis key left by a dead process |
| `late` | a `mkdir` of the folder that was given up (an error, a cancellation, a crash) and may still be executed by Baidu: `LateMkdir` |
| `thrown`, `raised` | a `CancelledError` delivered but not yet raised; what `remove` raised when the `finally` clause of `_cleanup_remote` runs |
| `i_*` steps | `_import_job` |
| `t_*`, `x_cancel` | `_transfer_job` and its cancelled exit |
| `h_*` (`Handle`) | the `except` clauses of `_worker`: `_set_cancelled`, `_fail_job` |
| `c_*` | `_cleanup_remote` |
| `SelectExpired`, `CleanNext`, `DeleteRows` | `_expiration_loop` |
| client steps | `create_job`, `select_items`, `cancel`, each cut at its awaits |
| `Crash`, `Stop`, `Stopped`, `Start` | death of the process, `stop`, `start` with `_mark_interrupted_jobs` |

`Throw` is what a cancellation does at each await: most propagate it and give
the lock back, the upload swallows it, a removal still runs its `finally`
clause. `CallFails` is what a failing call does in an action, at the locks and
the calls to Baidu and Buzzheavier; a removal may fail to get the lock
(`AcquireForCleanup`), or raise although it was executed (`RemoveFolder`). A
`mkdir` that raised or was cancelled can come late, once or never. `Allowed` names the events of the environment (crash, stop, failing
calls ...) that an instance lets happen; the theorems hold for every choice.

Abstracted: item lists and their selection (ItemSelection), the attempts of an
import, byte quotas and what Baidu does with a call (ShareImport, where one
`ImportShare` of this module is a dozen steps), names, messages, result URLs.
An await that only reads is merged with its successor. The database is taken to
be available. When the Redis lock expires under its holder, its release raises,
which is a failing call of the last await of the section (`call_fault`,
`purge_fault`), `i_drop` included; the coroutines of one process exclude each other by the same
`asyncio.Lock` first. The server finishes open requests before `stop`
(uvicorn's shutdown). A second selection of the same job while the first is
being answered (the page does not disable its button) is an event of its own,
`double_submit`: with it a job can be transferred twice, and `Registered` and
`SourcePresent` fail, so `jobs_requests` leaves it out; `jobs_faults` has it.
`JobServiceProofs` has the proofs about coroutines, the queue and their jobs;
`JobFolderProofs` those about the folder and what the row says of it.

### OrderedStream, RangeStream, StreamProperties, RangeStreamProofs, MCRangeStream

`OrderedStream` is abstract: the consumer receives the positions of the file in
order, learns of the end only after the last, and a stream that fails or is
abandoned may stop anywhere. `RangeStream` is the code's algorithm, written
twice in `streams.py`: as tasks (`stream_baidu_file`) and on a thread pool
(`_sync_file_chunks`, used inside the ZIP generator). `threaded`, chosen in the
initial state and never changed, says which; the two differ in what a
cancellation does to a download that runs. `Open`, `Take`, `Yield`, `Advance`, `Finish`, `TakeRaises` and
`Closed` are the generator; `StartFetch`, `FetchSucceeds`, `AttemptFails` and
`FetchCancelled` are one download with its attempts over the routes; `Abandon`
and `Interrupt` are the consumer that stops. A byte is its position in the
file, so a download of a wrong range would show in `delivered`. The bounds of
segments, the width of the window and the validation of a response are
operators translated from the code.

Abstracted: the choice and order of routes (CdnRoutes; here a constant set of
them is broken), redirects (part of an attempt), pauses between attempts, the
HTTP client. An
asynchronous generator that is dropped without being closed is finalised by the
event loop; that is the same `Abandon`. The early exits for an empty file and
for a source without URLs fetch nothing and are outside `StreamAssumption`.

### BuzzUpload, UploadProperties, UploadProofs, MCBuzzUpload

`BuzzUpload` models `BuzzMultipartClient.upload`: cutting the stream into parts
(`ReadChunk`, `NextPart`), polling for a cancellation, submitting parts while a
slot is free, waiting for one or for all, confirming (`Confirm`), completing,
and the `finally` clause that cancels and awaits what is in flight (`Unwind`,
`Unwound`). A part (`SendBytes`, `PartSucceeds`, `PartFails`, `PartCancelled`)
is a PATCH with retries whose request may be stored although its answer is
lost. Progress is the sum of the per-part counters and `confirmed`.
`CancelTask` is the cancellation delivered by the job service at any await,
`RequestCancel` the flag that `is_cancelled` reads. The source is an
`OrderedStream`.

Abstracted: URLs, headers, the response body; the rate limit of progress
reports is a choice (`reported' \in {...}`); `progress_lock` is not a variable:
what runs under it reads and writes the counters first and awaits
`progress(...)` last, so the lock only keeps the reports in their order.

### CdnRoutes, CdnProperties, CdnProofs, MCCdnRoutes

`CdnRoutes` is the choice of routes that RangeStream leaves open, for several
downloads at once: `Select` expands the located URLs (CDN hosts only, if there
is one, with the fallback hosts, each once), skips the probes when they are not
needed, `ProbeEnds` and `RankProbes` are `_probe_*_cdn_url` and the ranking by
time, `Answer`, `Remember` and `Forget` an attempt of a segment. The code has
two selections, for tasks and for threads, with the same text. `preference` is
`_cdn_preference`; since a thread may be held up between an answer and
`_remember_cdn_url`, these are two steps. A URL is its host. `HostChanges` and
`PreferenceExpires` are the environment (`MaxChanges` bounds the first);
`steady` is a history variable: the routes that were up ever since the download
began to fetch. The expansion drops repetitions among CDN hosts only; URLs of
which none is at a CDN host are tried as they were located, twice if they were
given twice (`streams.py` 125-126, 190), and `RoutesRanked` says so.

### ShareImport, ImportProperties, ShareImportProofs, MCShareImport

`ShareImport` is what JobService takes for one call: `_import_job` with
`_import_share_with_retries` and `_cleanup_remote`, down to the calls of
`client.py`, for several jobs that share the account. `folder` and `content`
are Baidu's; `late` holds the calls that were given up (an error, a timeout or
a cancellation) and may be executed afterwards (`LateCall`), once or never.

| steps | code |
|---|---|
| `CheckQuota`, `CheckQuotaAgain` | `jobs.py` 268-271 and 298-300, `quota.py` |
| `Acquire`, `CheckCancelled`, `Mkdir` | the locked section of `_import_job` |
| `OpenSession`, `Transfer`, `Relist` | `_import_share_with_retries`, `import_share` |
| `ScanBatch` | `list_tree`, a batch at a time |
| `LookUp`, `RemoveFolder`, `Purge`, `MarkCompleted` | `_cleanup_remote` |
| `DeliverCancel`, `Leave` | a cancellation, and the handlers of `_worker` |

Taken from Baidu, since it is outside the repository: a transfer is atomic, and
refused when the folder is missing, holds the share already, or there is no
space. A look-up may fail like any other call (`LookUp`, error `"lookup"`).
Left out: the pages of a share session, crashes (JobService), the database. Which error is
"temporary" is a choice: the code decides by the text of the error.
`ListingAssumption` says that the share is a tree: a folder lists each of its
entries once, no two folders list the same one, and all are below the root.
`list_tree` keeps no set of what it has visited, so it relies on this.

### ItemSelection, SelectionProperties, SelectionProofs, MCItemSelection

`ItemSelection` is what one job transfers. `LoadJob`, `LoadItems`, `Commit` and
`Put` are `select_items` of each concurrent request: what its ORM session
loaded, and that a commit writes the attributes that differ from it (`Written`)
and no others. `Take`, `StartLocate`, `EndLocate`, `OpenStream`, `StreamFile`
and `Publish` are `_transfer_job` with the semaphore and the ordered gather of
`locate_many`. Paths are sequences of names, so that a directory whose name
begins like another's is not below it. Output names are reduced to whether they
end in `.zip` (`Name`). The code only ever adds that ending: a single file whose
own or requested name has it keeps it and is streamed as it is (`jobs.py`
185-191, 422), so a name that ends in `.zip` does not mean an archive.

### Subsequence, DataProofs

`Subsequence` is the list comprehension with a condition, `[x for x in s if
...]`, which ItemSelection, CdnRoutes and ShareImport use: the elements of a
sequence at some of its places, in order. It is written with a choice of the
places and not with recursion, so that facts about it can be proved.
`DataProofs` has these facts, and those about sums over sets, sequences without
repetitions and concatenations that the proofs of four components need.

## 3. What is checked

Deadlock checking is off in every run, because all these systems do stop: a job
service whose jobs are used up and deleted is quiescent, and a download, an
upload, an import, a selection of routes and a transfer end.

| run | bounds | shows |
|---|---|---|
| `jobs_faults` | 1 job, 2 workers, 2 requests; crash, double submission, failing calls, late `mkdir`, failing locks, removals and purges | `TypeOK`; `MutationExclusive`; `NoStrandedJob`; `CleanupTruthful`; `LiveFolderTracked` |
| `jobs_requests` | 1 job, 2 workers, 2 requests; crash, stop, failing lookups, expiry at any time | `Registered`, `SourcePresent` |
| `jobs_live` | 1 job, 2 workers, 1 request; crash, failing calls, late `mkdir`, failing locks, removals and purges; fair, and no removal refused for ever | `Settles`, `FolderLeaves` |
| `stream` | both generators; 14 bytes in ranges of 3 (a short last one), chunks of 2, 3 connections, 3 attempts, 2 routes, the first broken, 2 more failures; fair | `TypeOK`, `Window`, `NothingLeftRunning`, `Failover`, `InOrder`, `Ends` |
| `upload_parts` | 7 bytes, parts of 2, chunks up to 3, 2 in flight, 2 attempts, 4 faults; fair | `TypeOK`, `PublishedWhole`, `MemoryBound`, `NothingLeftSending`, `ProgressMonotone`, `UploadEnds` |
| `cdn_routes` | 2 downloads of one segment, 2 CDN hosts and another, 3 answers of `locatedownload` (one CDN URL; a foreign one and one CDN host twice; one foreign URL twice), 2 attempts, 3 changes of a host; fair | `TypeOK`, `RoutesRanked`, `SteadyHostWins`, `EveryFetchEnds`, `DeadHostForgotten` |
| `share_import` | 2 imports of 4 units in an account of 10 with a reserve of 3; one retry; a tree of 4 directories and 3 files scanned 2 at a time; fair | `TypeOK`, `ImportedWhole`, `ReserveKept`, `NothingLeftBehind`, `ImportEnds` |
| `item_selection` | every selection of 6 items (nested and look-alike directories), 1 request at a time, 2 links at a time; fair | `TypeOK`, `SelectionConsistent`, `PublishedAsSelected`, `TransferEnds` |

The four violation runs (`jobs_cancel_revived`, `jobs_copy_in_bin`,
`jobs_shutdown`, `selection_merged`) are in section 4. Two of the divergences
listed there limit what the passing runs can say: `SourcePresent` speaks of jobs
that are not expired, and `NothingLeftBehind` of cleanups whose look-up did not
fail.

Why these bounds are enough. Jobs meet only in the lock, the queue, the worker
pool and the pending count, so one job with two workers has the interleavings
of one row and folder (two actions of a job, an action and the reaper, a
cancellation and both). The contention of several jobs for the lock is in
`share_import`, and `MutationIsExclusive` is a theorem for any number of them.
Two requests are what a read-then-write race needs. The number of crashes and
faults is not bounded in the job runs, nor that of failing calls in
`share_import`, where one of two shares fits, so that the second quota check
must refuse, and where one retry separates a first attempt from a last. Its
tree has more directories side by side than are scanned at a time, a nested one
and an empty one. A download of five segments with a window of three has
segments ahead, in the window and not submitted; its last segment is short and
its chunks do not divide a segment. Four parts with two slots pass through
waiting for a slot, several results at once, the wait for the rest, and a short
last part; four faults can fail both requests in flight for good. Two downloads
are the fewest that can spoil each other's preference; the three changes let a
host die after its probe, come back and die again, or two hosts swap.
`MaxGlitches`, `MaxFaults`, `MaxChunk` and `MaxChanges` are the only bounds that
the code does not have.

Every property is paired in `PROJECT.json` with a mutant of a definition (the
`mutant_*` operators beside it) under which TLC finds it violated.

### Fairness

`JobProperties!Scheduling`: the event loop runs every ready coroutine, the calls
that are awaited have timeouts, so an action, a cleanup and a begun request go
on; actions and cleanups are strongly fair because they may wait for the
mutation lock, which is FIFO in one process. Time passes, so a Redis lock left
behind expires and a page comes to its expiry. A dead process is started again
(`restart: unless-stopped` of the compose file). No new request, fault, crash
or stop is assumed to happen. `FolderLeaves` promises removal only to a process
that does not die again before it: nothing can be promised if each sweep is
interrupted. For its sake `jobs_live` has `RetriedSpec`, which adds
`NotRefusedForEver`: of the removals of a folder that are tried again and again,
by the reaper each hour, one gets the lock and one is executed. That is a
fairness of Baidu and Redis and not of the code; without it the folder stays for
as long as they refuse. `RangeStream` and `BuzzUpload` are weakly fair for each download
and request (timeouts) and for the generator and the upload itself; a consumer
asks again or closes the generator. `CdnRoutes` is weakly fair for each probe,
each ranking and each attempt (all have timeouts), not for changes of hosts.
`ShareImport` is strongly fair for the steps of each import and cleanup, which
may wait for the FIFO lock; no cancellation and no late call has to come.
`ItemSelection` is weakly fair for the transfer alone: neither requests nor
failures have to happen.

## 4. Where the code differs from what it says

Each of the violation runs has a counterexample for one property:

* `jobs_cancel_revived` (`CancelIsFinal`): a cancellation that is committed just
  before the import stores its items is overwritten, and the cancelled job
  offers its files.
* `jobs_copy_in_bin` (`FolderPurged`): a cancellation at the permanent deletion
  leaves the copy in the recycle bin, and the next cleanup records success.
* `jobs_shutdown` (`ShutdownCompletes`): a worker whose upload swallows the
  cancellation of `stop` waits for its queue for ever, and `stop` for it.
* `selection_merged` (`SelectionConsistent`): two selections that both read
  "awaiting" are both accepted, and since each writes only what differs from
  what it read, the row can hold the items of one with the size and the name of
  the other.

Known divergences for which no run is kept; the models have those that concern
state they keep:

* `create_job` counts and inserts in two sessions, so concurrent creations can
  exceed `BBP_MAX_PENDING_JOBS` ("Maximum number of queued or waiting jobs").
* `expires_at` is set at the creation and the expiration loop looks at nothing
  else, so a job can expire, and lose its folder, while it is worked on
  ("Completed job page retention").
* Any error of the metadata look-up is taken for a missing folder: after a
  transient one the cleanup is recorded as done and the folder stays with its
  content. `NothingLeftBehind` and `LiveFolderTracked` name this exception;
  `jobs_faults` and `jobs_live` have no `metadata_fault` for this reason.
* `_mark_interrupted_jobs` fails a job without the expiry of failed jobs.
* One range more than there are connections is in memory: the next download
  starts when a range is taken, not when it has been yielded (`README.md`
  117-119, "buffer at most one range per connection").
* "retrying each route" (`streams.py` 234) holds only with an attempt for each
  route: with the five fallback hosts there can be more routes than attempts.
  `Failover` and `SteadyHostWins` say it with that condition.
* A `mkdir` that was given up and that Baidu executes after the cleanup leaves an
  empty folder that nothing removes; its content never comes
  (`NothingLeftBehind`). `JobService` and `ShareImport` both let this happen, and
  `LiveFolderTracked` and `FolderLeaves` name it as their exception.
* Two of the error codes of a transfer are worded "try again later" but are not
  among the texts that `_import_share_with_retries` retries; neither is an
  `httpx` timeout, whose text is empty.
* `route_status` and `file_started` schedule their status messages, so one of
  them can overwrite the message of a job that has ended (`test_jobs.py` 276
  has the terminal message of a run without that interleaving).
* When one link cannot be resolved, `asyncio.gather` leaves the other requests
  running while the folder is removed; nobody reads their answers.
* After a removal whose permanent deletion did not happen, every later removal
  fails and the expiration loop never deletes the row.

## 5. What is proved

Every invariant that a passing run checks is a theorem, and so are the two
safety properties of steps, `InOrder` and `ProgressMonotone`. There is no bound
on jobs, workers, requests, faults, sizes, routes, hosts, directories or
connections; the only assumptions on the constants are these:

| assumption | says |
|---|---|
| `JobAssumption`, `ActorAssumption`, `BoundAssumption` (JobService) | finitely many jobs; workers, clients and the reaper are different; `Allowed` are events |
| `StreamAssumption` | a file of at least one byte, at least one route, positive sizes |
| `UploadAssumption` | positive part size, chunk size and concurrency |
| `HostAssumption`, `RouteAssumption` (CdnRoutes) | CDN hosts and others differ, fallback hosts are CDN hosts, an answer of `locatedownload` has at least one URL (`client.py` raises otherwise) |
| `JobAssumption`, `TreeAssumption`, `ListingAssumption`, `SizeAssumption` (ShareImport) | finitely many jobs and entries; the share is a tree; sizes are numbers |
| `ItemAssumption`, `ConnectionsAssumption`, `ClientAssumption` (ItemSelection) | finitely many items, in one order of their paths; finitely many requests |

Some theorems have a hypothesis besides. Each names something the code leaves
open and section 2 or section 4 describes. TLC refutes the property of a run as
soon as the event is allowed, which is why its run leaves the event out too.

| hypothesis | theorems | what it excludes |
|---|---|---|
| `"double_submit" \notin Allowed` | `CancelFindsWorker`, `SourceStays` | a second selection of a job while the first is being answered |
| `"late_expiry" \notin Allowed` | `ImportIsAlone`, `CleanupTold`, `FoldersTracked` | a page that expires while its job is worked on (`expires_at` is set days ahead) |
| `"metadata_fault" \notin Allowed` | `FoldersTracked` | a failing metadata lookup, which is taken for a missing folder |
| `[]OneAtATime` | `RowFitsSelection`, `PublishedFitsSelection` | overlapping selections, refuted by `selection_merged` |

### JobService

* `TypeCorrect`: `TypeOK` is inductive as it stands, since it ties labels, jobs
  and return points of each coroutine together; without the clause that a
  worker with a job is at a label of that job, `Deregistered` and `Return` would
  not be typed.
* `MutationIsExclusive`: inductive together with `TypeOK`. The lemmas show for
  each way out of a section (return, exception, cancellation, end of the
  process) that it gives the lock back and that no other label or lock changes;
  a section is entered only when Redis has no key of a dead process, and only
  the end of the process leaves one.
* `BaseInvariant`: who may be at a job. An entry of `active_jobs` leads to a
  worker at that job; nobody knows a job before its row exists but the request
  that inserts it; a `CancelledError` is on its way only into an action whose
  job is to be cancelled; a process that is down knows no job. The later proofs
  rest on it, and it needs no hypothesis.
* `NoJobStranded`: each step of an actor keeps, for every job in an active
  state, the queue entry, worker or request that will move it on, or hands the
  job to another. `CancelHeld` of `Base` is what makes it inductive: a worker
  that takes a cancellation to its end without failing the job has one to cancel.
* `CancelFindsWorker`, `SourceStays`: `OwnershipInvariant` says that a job
  nobody has asked to cancel has at most one owner (a request, an entry of the
  queue, a worker), which fits the state of its row, is registered, and is not
  disturbed by other workers or the expiration loop. One owner is not inductive
  without the state of the row it fits (`StateFits`), since requests and
  handlers are admitted by that state.
* `ImportIsAlone` (invariant `Staging`): while a job is created or imported
  nobody else acts on it but requests to cancel it, and its row is new.
* `CleanupTold`, `FoldersTracked` (`Trust`, `Track`): the folder appears only in
  an import, which is alone, so no cleanup is recorded over it, and a removal in
  its two steps is inside the mutation lock. `Late` says when a `mkdir` can come
  late: its import has ended and made no folder, so that what comes is the empty
  folder that `FoldersTracked` excepts.

### RangeStream

* `StreamTyped`, `StreamWindow`, `StreamClean`: `TypeOK`, `Window` and
  `NothingLeftRunning` of both generators. The window needs that segments are
  submitted consecutively (`Submitted`), that the submitted ones are less than
  `Width` ahead (`Ahead`) and that those already taken are finished (`Taken`).
* `StreamInOrder`: both generators implement `OrderedStream`. `OrderInv` says
  that a finished download holds exactly its segment (`Held`), that the positions
  delivered are those up to the segment and offset being yielded (`Position`),
  and that only a complete delivery is called complete (`Verdict`); the
  arithmetic of segment bounds is proved as lemmas.
* `StreamFailover`: `Tried` says that a download fails only by a failed segment,
  and that, as long as nothing but broken routes has failed, every attempt of a
  segment so far went to a broken route; `RouteFacts` that enough attempts reach
  every route.

### CdnRoutes

* `RoutesTyped`, `RoutesAreRanked`: `ChoiceInv` follows a download from its
  candidates, without repetitions and all at CDN hosts if they are probed,
  through the probes that passed to the routes, which are the same hosts in an
  order where those that passed come first. `RankedIs`, `DistinctIs` and
  `ExpandedIs` say what the operators compute for every input.
* `SteadyRouteWins`: `SteadyInv` says that no attempt that failed went to a route
  in `steady`, whatever the preference was. A segment that fails has used all its
  attempts, and with as many attempts as routes these reach every route.

### ShareImport

* `CleanupLeavesNothing`, `OneInLock`: `NothingLeftBehind` speaks only of
  recorded cleanups; `IInv` follows a job to that point: nothing is at Baidu
  before the folder is made (`Begun`), a folder that may come late stays empty
  (`Orphaned`), the removal acts on a folder that was found (`Sought`), after a
  removal without an error the folder is in the bin or an empty one has come in
  its place (`Removed`), and what is recorded is true and stays so, unless the look-up failed (`Marked`).
* `OffersLeaveReserve`: `SpaceInv` says that the content of a share takes its
  space exactly while it is live or in the bin, that the account is never over
  its capacity, and that the shares that passed the second check leave the
  reserve together, also when others arrive later: these are not among them
  before their own check. The sums over sets of jobs are lemmas of `DataProofs`.
* `SharesAreWhole`, `ImportTypes`: `ScanInv` says that what was found is exactly
  what the scanned directories list, each entry once, where a directory is
  pending or scanned and never both. When nothing is pending, the known
  directories are closed under listing, and by `ListingAssumption` they are all.

### BuzzUpload

* `UploadWhole`, `UploadBounded`, `UploadQuiet`: one invariant carries all three.
  The buffer holds the positions read last, and what was read before them is in
  full parts (`Buffered`, `Sliced`; `CutFacts` shows that a cut keeps this, the
  shorter last part included), tasks that run are in flight and what is done is
  stored (`Tasks`), a part is in hand exactly between its cut and its submission
  (`Hand`), no part is lost between the stream and its confirmation (`Kept`), and
  completion comes after the last part (`Whole`). `Kept` is what makes it
  inductive: the end of the stream is seen with parts still in flight.
* `UploadProgress`, `UploadTyped`: `ProgressInv` says that a part counts either
  in `partProgress` or in `confirmed`, never more than its length, and that
  `confirmed` is the sum of the parts that were confirmed. That `reported` stays
  within what is sent, and so within the file, is a sum over all parts.

### ItemSelection

* `SelectionTyped`: the row, the requests and the transfer of any number of
  concurrent requests. Each request queues at most one transfer (`Demand`), and
  no more links run than the semaphore has permits.
* `RowFitsSelection`, `PublishedFitsSelection`: with one request at a time, what
  a session loaded is what the row still says (`Current`), so the attributes that
  a commit leaves out are right as they are; the transfer works on the files of
  the row it read (`Underway`) and the archive holds each with the answer to its
  own link (`Matches`). An archive has a name that ends in `.zip`; of a single file
  the name says nothing. `DataProofs` shows that the order of the files is kept.

### DataProofs

The library's induction takes an operator as a parameter, which the provers
cannot instantiate. An induction over a finite set is therefore written as an
argument about a smallest set for which a claim fails (`SmallestSet`, from the
well-foundedness of strict inclusion, which has no such parameter), one over
numbers as an argument about a smallest number (`SmallestNumber`). So the sums
of the account and of an upload, the ranking of routes and the concatenation of
listings are covered for every input.

### Only model-checked

* Everything under fairness, which is outside the prover (liveness, `ENABLED`):
  `Settles`, `FolderLeaves`, `Ends`, `UploadEnds`, `EveryFetchEnds`,
  `DeadHostForgotten`, `ImportEnds`, `TransferEnds`.
* The four violations, each a counterexample of an instance.

## 6. What is not modelled, and the plan

Not modelled:

* The HTTP API validates, calls one operation of the job service, and maps
  errors; it keeps nothing between requests. Security, configuration,
  Turnstile, the web pages and health are pure functions, constants, or one
  call without state. Signing, cookies, URLs and the parsing of answers in the
  PCS client are functions over strings.
* Status messages and `transferred_bytes` in the row: no decision of the code
  reads them.
* Failures of the database. An error in `_fail_job`, `_set_cancelled` or in the
  expiration loop ends that worker or that loop until the next start; the code
  has no handling of it that a property could be about.
* Redirects (part of a request), the bytes of the ZIP format (a library's), and
  the deployment scripts, which run outside the program.

The plan, in this order:

1. An abstract life cycle of a temporary folder (none, held, given up, gone)
   that `JobService` and `ShareImport` both implement, with the refinement
   proved.
2. `CancelFindsWorker` under a weaker hypothesis than the absence of
   `double_submit`: what still holds of a job that is transferred twice.
3. The two marker files of `vps-deploy.sh`.
