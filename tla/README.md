# A TLA+ model of kflashback

kflashback watches Kubernetes resources and stores every change of an object as
a *revision*: a full snapshot now and then, a JSON merge patch otherwise.  The
web UI and API rebuild an object at any revision by replaying patches on the
nearest snapshot.  This directory holds TLA+ modules of its core, TLC runs on
small instances, and TLAPS proofs for instances of any size.

## 1. The system

| part | code | state | operations |
|---|---|---|---|
| Policy controller | `internal/controller/policy_controller.go` | none (policy status in the cluster) | `Reconcile` every 5 minutes and on every change: restart the policy's watchers, purge old revisions, refresh status |
| Resource watcher | `resource_watcher.go` 29-128 | `watchers` map policy/GVR -> cancel | `Reconcile`, `StopPolicy`, `StopAll`, one goroutine `watchResource` per entry |
| Event handlers | `resource_watcher.go` 131-574 | none between calls; the informer's cache beside them | `OnAdd`, `OnUpdate`, `OnDelete`, filters in `shouldTrack` |
| Storage | `internal/storage` (sqlite, postgres) | tables `resource_revisions`, `tracked_resources` | one SQL statement per method; no transaction spans two |
| Diff engine | `internal/diff/diff.go` | none | strip noisy fields, compute and apply merge patches, list changed paths |
| API server | `internal/server` | none | history pages, reconstruction, diff of two revisions, statistics |
| AI assistant | `internal/ai`, `ai_handlers.go` | the rate limiter's request times | query, summarize, find anomalies, all through `GuardedProvider` |
| Configuration | `internal/config`, `cmd/kflashback/main.go` | the resolved settings | flags < KFlashbackConfig object < Secret < environment |
| Web UI | `ui/src` | the pages loaded so far | dashboard, resource list, history with infinite scroll |

How they interact: the controller starts one informer per policy and kind; the
informer calls the handler's methods one at a time; handlers of different
policies, and of one policy before and after a restart, run at the same time
and share only the store, without a lock.  The API reads the same store while
handlers write and the controller purges.

What is hard to get right, and what makes it correct:

- **Recording** (handlers and store).  A handler reads `current_revision`,
  inserts the next revision and then updates `current_revision`: three
  statements, interleaved with other handlers', with a crash or an error
  possible at each.  Correct means: no gaps, one publisher at a time, an index
  that never goes back, final deletions, and revisions that rebuild to what the
  cluster really had.
- **Restarts.**  Every reconcile cancels the policy's watchers without waiting
  for them and starts new ones, whose initial list has to find what changed in
  the meantime.
- **Retention.**  Purging goes by timestamp alone and runs beside handlers and
  reconstructions.
- **Watcher bookkeeping.**  Every live goroutine must be reachable by
  `StopPolicy`.
- **Rate limit.**  At most N requests in any minute, from concurrent requests.
- **Paging.**  A history that grows while it is paged through by offset.
- **Configuration.**  Precedence, and what an error on the way leaves behind.

`PROJECT.json` lists these as hazards, each with its line and the properties
that cover it, or the reason why none does.

## 2. Modules

| module | models |
|---|---|
| `Docs` | `internal/diff`: documents as functions of their leaf paths, merge patches, stripping |
| `Store` | `internal/storage`: the two tables, one operator per SQL statement; `reconstructResource` |
| `Recorder` | handlers, watcher life cycle, informers and cluster, over `Store` |
| `Fidelity` | no actions: the conditions under which `Recorder` tells the truth and misses nothing, and the invariants by which it does |
| `HistoryLog`, `RecorderRefinement` | what a reader of the store is promised, an append-only log per object, and the mapping under which `Recorder` implements it |
| `Retention` | `Recorder`, time, the row's timestamps and the purge that ends every reconciliation |
| `Readers` | `Retention` and an API client: reconstruction, diff and the history page, one SQL statement a step |
| `Controller` | the workqueue, `Reconcile`, the table of cancel functions and the goroutines behind it |
| `AIService` | the AI routes, the guard's sliding window, the provider |
| `Startup` | `main`: settings, storage factory, API server and manager, signals and shutdown |
| `MCRecorder`, `MCReaders`, `MCController`, `MCAIService`, `MCStartup` | the instances TLC checks |
| `RecorderProofs`, `FidelityProofs`, `RefinementProofs`, `RetentionProofs`, `ReadersProofs`, `ControllerProofs`, `AIServiceProofs`, `StartupProofs` | the theorems |

How they compose: `Docs` <- `Store` <- `Recorder` <- `Fidelity` <- `Retention`
<- `Readers` is one tower, each module adding the actors that share the store with those below.
`Controller`, `AIService` and `Startup` are about state the recorder does not
touch and stand alone; `Controller` says which watchers exist, of which
`Recorder` takes any number.

### Store

`rows` is `resource_revisions`, `current` and `deleted` are the two columns of
`tracked_resources` that decide anything; `current[u] = 0` says that `u` has no
record (revisions start at 1).  A row's `data` is a document when `isSnapshot`,
else a patch.  `seen` is auxiliary: the document the handler had when it wrote
the row, so that a property can compare a replay with it.  sqlite and postgres
run the same statements; both make each statement atomic and reject a second
row with the same `(resource_uid, revision)`.

### Recorder

`versions[u]` is what the API server has held for object `u`, ending in `Gone`
once it is deleted (a UID is never used again).  A *watcher* is a slot for one
goroutine of `watchResource`:

- `phase`: `stopped`, `starting` (cancellable, nothing listed yet), `running`,
  `draining` (cancelled; what it has buffered may still be handed over, and
  nobody waits for it).  `Reconcile` cancels every watcher of the policy and
  starts a stopped slot; `StopPolicy` is also what a paused or deleted policy
  leads to.
- `pos`, `initial`: the informer.  A watch shows every version in turn; after a
  broken watch a re-list jumps to the newest version.  `OnUpdate` gets the
  informer's old object and the new one, `OnDelete` the last known object.
  The cache is keyed by namespace and name (`CachedByName`), and objects own a
  name one after the other (`Incarnation`, `Former`, `Later`).  Where an object
  was deleted and another one created under its name while the watch was broken,
  the re-list shows no deletion: `OnUpdate` gets the former owner as its old
  object.  Nothing in the code compares the UIDs, and what is recorded is
  recorded of the new one.  The auxiliary `replaced` remembers such pairs.
- `pc`, `job`: the handler.  `OnAdd*`, `OnUpdate`, `OnDelete` are a call up to
  its first use of the store, with its early returns (filters, disabled events,
  empty patch).  `Lookup` is `GetTrackedResource` and the choice of the revision
  number, `ReadLatest` the comparison of a re-listed object, `Save`
  `StoreRevision`, `Index` `UpsertTrackedResource` or `MarkDeleted`.  Each is one
  atomic step, and the steps of different handlers interleave freely.
- Faults: a read that fails (and, in the code, counts as "no record"), an INSERT
  or an UPDATE that fails, and a crash of the process at any point.  A graceful
  shutdown, where `StopAll` cancels the informers and the store is closed under
  the handlers, leaves what a failed write and a crash leave.

A policy's spec belongs to the slot, so an edited policy is another slot of the
same `PolicyOf` with another `PolicySpec`.

### HistoryLog

Three abstract variables and three actions: `Extend` appends an event to an
object's log, only where nothing is pending; `Publish` tells readers of it;
`Close` marks an object removed, only where its pending entry is a deletion.
The mapping reads the log off the rows (`LogOf`), and `published` and `removed`
are the columns of `tracked_resources`.  The abstract log knows neither
handlers nor revision numbers: that the entry published is the one appended, and
that nothing is appended behind an unpublished entry, is what the recorder's
reads and the UNIQUE constraint have to bring about together.

Abstractions: one kind of resource, one entry per policy (`Controller` has
several); a row's copy of the object's name, its timestamp (`Retention` adds
it), its size and its changed paths are left out; documents always
marshal, and snapshots decompress to what was compressed; values are never JSON
null.  The order in which an informer hands over changes of *different* objects
is left open, which allows more than client-go does; the runs that show a
violation use one object.

### Retention

`Requeue(p)` is `Reconcile` up to its retention: the policy's watchers restarted
or stopped, or nothing to do.  `Purge(p)` is `runRetention`: one DELETE of every
row older than `MaxAge[p]`, of whatever object and policy, or an error that is
logged.  A policy whose `maxAge` does not parse (outside `Purging`) gets no
further than that error, every time.  A paused policy purges like any other.  `now[h]` is the time a
handler takes before it first calls the store, and what its row is stamped with.
A purge shrinks what `HistoryLog` only lets grow, so `Retention` does not
implement that log; nor do `Gapless` and `SealedByDeletion` survive a purge of
the rows they speak of.  `HistoryIsSuffix` says what is left.

### Readers

One client.  A reconstruction is two steps, `FindSnapshot`
(`GetNearestSnapshot`) and `ApplyPatches` (`GetPatchesBetween` and the replay);
a diff is two reconstructions; a page of the history is `CountHistory` and
`SelectHistory`; `LoadMore` is the UI's infinite scroll with its offset
`revisions.length`.  Handlers and purges run between any two of these.

### Controller

`work` is the one worker: `Take` takes a policy off the queue, `Get` reads and
copies its spec, `GetFails` is any other error of that read, after which the
policy is tried again; `Stop` is `StopPolicy`, `Start(e)` one round of the loop that registers a cancel
function and starts a goroutine, `EndOfLoop` and `Finish` the rest.  The order
of the entries is left open.  Users edit a policy at any time, which puts it on
the queue; so does the requeue after 5 minutes, a failed status update and the
update's own change of the status.  `watchers` is the map under the key
`policy/group/version/resource`, `routine` the goroutines, which end some time
after they are cancelled.  Steps of the worker are atomic per critical section
of `rw.mu`.

### AIService

One goroutine per request, one step for every call that leaves it.
`request[r]` names the route and what is wrong with the input (at most one flaw
a request, since the first one found is answered).  `CheckRateLimit` is the
section under `rateMu`; `admitted` is auxiliary and forgets nothing.

### Startup

A setting is represented by the place its value came from.  `spec`, `base` and
`cfg` are the three copies `LoadFromCR` and `main` keep, `found` is auxiliary.
Every read of the cluster, and every call that opens something, is a step that
may fail; a signal may come at any of them.  Fields treated alike are
represented by one (`address` for the three addresses).

## 3. Runs

| run | instance | shows |
|---|---|---|
| `recorder_faults` | 2 policies, 1 object, 3 versions, 1 fault of any kind, 3 reconciles, snapshotEvery 2 | `TypeOK`, `IndInv`, `Gapless`, `SingleCommitter`, `CurrentSteps`, `SealedByDeletion`, `BoundedReplay`, `ImplementsHistoryLog`, in every interleaving |
| `recorder_exact` | 1 watcher, 2 objects that own one name after each other, 4 versions of 2 paths between them, snapshotEvery 3 | `ExactReconstruction`, `NothingMissed`, the invariant behind them `FidelityInv`, and under fairness `RecordedEventually` and `DeletionMarkedEventually` |
| `recorder_restart` | 1 slot, 1 object, label and name filters, 3 versions of 3 paths (one ignored), 4 reconciles, snapshotEvery 1 | a restart after the old watcher has ended misses no change of a live object |
| `recorder_drift` | 1 slot, 1 object, no filters, 3 reconciles, snapshotEvery 3 | **violation**: the change is missed when the newest revision is a patch |
| `recorder_wedge` | 1 watcher, 1 crash, snapshotEvery 1 | **violation**: after a crash between the two writes the object is never recorded again |
| `recorder_two_policies` | 2 policies, no faults | **violation**: a replay shows a document nobody saw |
| `readers` | 1 watcher, 1 object, 3 versions, 1 failed purge, 2 reconciles; p1 records and has an age that does not parse, p2 is paused and keeps rows 0 ticks; pages of 1 row | `HistoryIsSuffix`, `SuffixInv`, `ReaderHonest`, `NoRevisionSkipped`, `EndMeansAll`, the invariant behind these three `ClientInv`, under fairness `EventuallyPurged` |
| `controller` | 2 policies, any specs over an entry that parses and one that does not, 3 goroutines, 1 edit | `ControllerInv`, `NoOrphan`, `OthersUndisturbed`, under fairness `PausedGoesQuiet` and `TracksItsSpec` |
| `controller_one_kind` | 1 policy, 2 entries of one kind | **violation**: a goroutine that survives the policy's pause or deletion |
| `ai` | 3 requests to any route, limit 1 in 2 ticks, 4 instants | `WindowBound`, `RefusedOnlyWhenFull`, `QuotaIsForCalls`, under fairness `EveryRequestAnswered` |
| `startup` | any command line of the kinds `main` tells apart, any environment and configuration object, every read failing or not, a signal at any time | `DSNByPriority`, `AllOrNothing`, `StoreReadyWhenUsed`, `ProviderFixed`, under fairness `SignalEnds` |
| `startup_ai_key` | the same | **violation**: `KFLASHBACK_AI_API_KEY` is ignored |

Properties:

- `Gapless`: revisions of an object are `1..n`, the index is `n` or `n - 1`.
- `SingleCommitter`: never two handlers between INSERT and index update for the
  same object.  No lock ensures this; the UNIQUE constraint does.
- `CurrentSteps`: `current_revision` moves up by one or stays.
- `SealedByDeletion`: after a DELETED row the history, the index and the mark
  are final, whatever older events other handlers still hold.
- `BoundedReplay`: the README's "at most 19 patches", for any `snapshotEvery`
  that all handlers share.  It does not promise a snapshot below revision
  `snapshotEvery`: where the creation was not recorded there is none.
- `ImplementsHistoryLog`: every step of the recorder is a step of `HistoryLog`
  or invisible to readers.
- `ExactReconstruction`, `NothingMissed`, `RecordedEventually`,
  `DeletionMarkedEventually`: for one watcher of an object, undisturbed.  An
  object the handler was given as an update of the former owner of its name is
  excepted from each by exactly what the code gets wrong: its first revisions
  may be patches without a snapshot (`TookOver`), it may have no record, but
  only while it looks to the policy like a state of the former owner
  (`SameAsFormer`), and that owner is never marked deleted (`WasReplaced`).
- `HistoryIsSuffix`: a DELETE by time leaves a run of revisions without gaps that
  ends where the index says.
- `ReaderHonest`: an answered reconstruction or diff is made of the documents
  the handler saw, whatever was added or purged between its SELECTs; the one
  exception is a row purged between snapshot and target (section 5).
- `NoRevisionSkipped`, `EndMeansAll`: scrolling down by offset through a history
  that grows at its front and shrinks at its end never jumps over a revision, and
  reaches the oldest.  It may show rows twice, and of those added meanwhile some
  not at all: the next page can begin above the first row shown.
- `EventuallyPurged`: a policy reconciled again and again leaves no row older
  than its `maxAge`, if that parses, even if a purge fails.
- `NoOrphan`: a goroutine that watches is one a cancel function can reach.
  `OthersUndisturbed`: stopping a policy stops its own watchers only.  (The code
  compares a key with the policy's name and a slash; names hold no slash, so that
  is the equality `Matches` states.)
- `PausedGoesQuiet`, `TracksItsSpec`: an edit made while the worker is on an
  older spec is not lost, although every reconciliation stops and restarts all
  the policy's watchers.
- `WindowBound`: the window slides; `RefusedOnlyWhenFull`: and is no stricter
  than it says; `QuotaIsForCalls`: bad input and failed reads cost no quota.
  `EveryRequestAnswered`: the provider may stay silent.
- `DSNByPriority`, `AllOrNothing`: the documented priority on every path, an
  error half-way included; `ProviderFixed`: `s.ai`, read without a lock, is not
  written once a request can be served; `SignalEnds`: shutdown does not hang on
  an API server that never came up.

The bounds.  Two handlers are enough for every race over one revision number; a
third would find the number taken or not, as the second does, and the proofs
cover any number.  Three versions give creation, update and deletion or two
updates, and with two handlers up to six revisions, past the second snapshot.
One fault reaches each of the four windows of a write; three reconciles start
both policies and restart one.  `snapshotEvery` is 1 to 3 so that both a
snapshot and a patch occur as the newest revision.  `MaxFaults`, `MaxVersions`
(the versions of all objects, but for `Gone`) and `MaxReconciles` only bound the
state space: the theorems do not use them.  Two successive owners of a name
suffice, since a third meets the second as that met the first; with four
versions the second can be changed twice after it took over, past its first
snapshot.
A bounded cluster comes to rest, so deadlock is not checked.

`readers`: one watcher, because two can give a higher revision an older
timestamp (section 5); an age of 0 makes the
purge take nothing, some rows or all at the two instants of the clock;
three versions and pages of one row are the least with which a page can shift
and a scroll take three requests.  One object and one path suffice, since purge,
reconstruction and page treat objects apart; the price is that a wrong base may
go unseen where two documents agree.  `controller`: three goroutines let one
policy restart while another watches and a cancelled one has not ended; one edit
at any point reaches every stage of the worker, before and after which the specs
are arbitrary.  A second kind in one policy is one more cell of the table, which
no other entry shares; the proofs cover any number.  `ai`: with limit 1 two requests compete for a place
while the third waits for the window to slide; entries can expire, and so be
dropped and counted again, in 4 instants.  `startup`: the instance leaves out
only combinations in which two fields that are merged in the same way differ.
Each of these processes may end or come to rest, so deadlock is not checked.

Fairness (`FairSpec`): every informer lists, hands over what it has observed,
and ends once cancelled; every store call returns.  Go schedules each goroutine
and client-go retries lists and watches, so weak fairness on each is justified.
The cluster, the user and the faults are under no obligation.

Elsewhere: `readers` assumes that a reconciliation under way reaches its purge
(weak fairness on `Purge`); that there is a next one is the premise of
`EventuallyPurged`.  `controller` assumes that the worker goes on, timers fire
and cancelled informers return (weak fairness) and that the queue serves every
policy in it however often others come back (strong fairness on `Take`: the
workqueue is a FIFO), and that a read tried again and again succeeds in the end
(strong fairness on `Get`).  `ai` assumes that goroutines run on and that the HTTP
client's 5-minute time-out ends an exchange; nothing makes the provider reply.
`startup` assumes that `main` runs on and the calls it makes return;
`mgr.Start` returns within its grace period once the context is done.  The API
server's goroutine is under no obligation.

## 4. Proofs

`RecorderProofs` proves, from `PolicyAssumption` (every slot has a policy and a
well-formed spec), `UIDsAssumption` (some object exists) and
`IncarnationAssumption` (the owners of a name have an order), for any sets of
objects, watchers and policies and any of the faults:

`Invariance`: `Spec => []IndInv`, and from it `TypeCorrect`, `HistoryGapless`,
`OneCommitter`, `CurrentNeverRegresses`, `DeletionIsFinal`, `ReplayBounded`.

The argument.  `Gapless` alone is not inductive: a handler that carries a stale
revision number into `Save` might leave a hole or index an old number.
`JobsChosen` bounds every chosen number by `current + 1`.  Since revisions
`1..current` exist, an INSERT that succeeds must be at exactly `current + 1`
(`InsertIsNext`), and from then on the number is taken: `CommitterHoldsRow` says
that the handler about to index still holds `current + 1` and its row is there,
which shuts every other handler out (`SingleCommitter`) and makes its update
move the index by one.  `MarkDeleted` moves no number, so a DELETED row keeps
`current + 1` taken for good (`DeletionHoldsRevision`), and every later INSERT
fails: the same mechanism that wedges an object after a crash makes deletion
final.  `InformersBehind` is needed for types only: an informer never refers to
a version that does not exist.  Most steps do not touch the store, and one lemma
(`CalmStep`) covers them.  For `ReplayBounded` a second small invariant
(`OnBeat`: multiples of N are snapshots) is combined with `Gapless`.

`FidelityProofs` proves the two things the recorder is for.  `HistoryIsExact`:
every stored revision is rebuilt as the document its handler saw.
`NothingIsMissed`: a watcher with nothing left to do has recorded the present
state of every object it tracks.  Both state the exception of an object that took
over its name in an update (section 3), and no more than that: without
`replaced` pairs they say it of every row and every object.  Both hold for any objects, documents, filters
and `snapshotEvery`, under conditions each of which excludes something the code
does get wrong (section 5, findings and limits):

| condition | without it |
|---|---|
| `OneRecorder`: one slot, started again after its last handler has ended | two handlers choose one number, the loser's event is dropped |
| `ReadsSucceed` | a failed read counts as "no record" and starts again at 1 |
| `InsertsSucceed`, for `NothingIsMissed` `WritesComplete` | the event is dropped, or the object wedged |
| `RecordsCreations`, `RecordsUpdates` | the policy asks for less |
| `SelectsByName` (for `HistoryIsExact`) | an object leaves and enters what the policy selects; its next patch is relative to a version nobody stored |
| `KeepsLabels` (for `NothingIsMissed`) | an object enters the selection by a change of an ignored field, which is no event |
| `DriftCaught`: a re-listed object that is left as recorded has not changed | the finding `recorder_drift` |

The last one is about behaviours, not about constants, and two theorems say when
it is met: where every revision is a snapshot (`SnapshotsCatchDrift`), over any
restarts, and while the watcher has been started once (`FirstStartCatchesDrift`).
Hence `SnapshotsMissNothing`, `FirstStartIsExact`, `FirstStartMissesNothing`
without that condition, and `SnapshotsAreExact`, which needs no other condition
than `EverySnapshot`: any watchers, faults and restarts.

The argument.  A handler computes a patch from the informer's two objects and
never reads the row it will be replayed on.  `PatchesFollow` says that
nevertheless each patch leads from the document of the row before it to its own;
it is kept because of `CacheFollowed` (the newest row is what the cache held) and
`JobsFollow` (so is the old object of an update under way).  Two facts make these
inductive: an update whose stripped documents agree is dropped, which leaves
both sides alone, and a re-listed object is either recorded as a snapshot or
unchanged (`DriftCaught`).  `FirstInv` says that row 1 is a snapshot unless
its object took over its name, so every other replay has a base (`ChainIsExact`).
An update may have an old object of another UID.  `Succession` says when: former
owners of a name are gone before the next one is created (`OwnersSucceed`), every
cache has passed them once it holds a later one (`CachesSucceed`), and only what
a cache has held is recorded (`RecordedIsSeen`).  So such an update is the
first the recorder hears of its object: its patch is row 1 and follows no row, or
it is dropped, and then the object has looked to the policy like a version of the
former owner ever since (`Shows`).  The replay itself is a recursive function of
the store (`Replayed` in `Store`: a function on base..n each of whose values
follows from the one before); that it meets the document of every row is proved
by the least revision at which it does not (`LeastElement`), since the library's
induction theorems are out of reach.  For `NothingIsMissed`, `EndInv` adds that
the newest row is the cache's version (`CacheUpToDate`) and that the number
after the index is only taken while a row is being published or for good by a
deletion (`TakenForAReason`), which is the last thing the informer saw
(`DeletionsSeen`).  `FidelityInvariance` states all of it for a recorder that is
started once, which is what run `recorder_exact` checks.

`RefinementProofs` proves `Refinement`: `Spec => ImplementsHistoryLog`.  Under
`IndInv` an INSERT that succeeds is `Extend` (`InsertIsNext` says that nothing is
pending), `UpsertTrackedResource` is `Publish` and `MarkDeleted` is `Close`
(`CommitterPending`: the handler's own row is the pending entry, and only a
deletion may find the object marked already), or a stutter where the object has
no record; everything else leaves the store alone (`StoreUntouched`).

`RetentionProofs` proves `PurgeLeavesSuffix`, `HistoryIsSuffix` for any objects,
policies and ages, through failed INSERTs, failed updates, failed purges and
crashes, from two hypotheses: one watcher (`OneRecorder`) and reads that succeed
(`ReadsSucceed`); section 5 says what happens without them.  The purge looks at
timestamps and the property is about numbers, so `SuffixInv` has to tie the two:
timestamps follow revision numbers (`TimeFollowsRevision`), which a new row keeps
because its handler took the time after every row before it was written
(`HandlerIsLatest`) and its number is the index's plus one (`NextChosen`).  Then
a purge takes the lower part of a run, and what is left is a run (`UpperPart`).
A purge may also come between an INSERT and its index update;
`UnpublishedIsLast` says that it then took all of the object's rows, or not the
one the index is about to name.  The recorder's own invariant is of no help here:
`Gapless` is false once anything is purged.

`ReadersProofs` is about a client between whose SELECTs recorders write and
purges delete.  `ReadersTyped` has no hypothesis: replays end in documents and
pages hold revision numbers, whatever watchers, faults and page sizes.

`AnswersAreExact` is `ReaderHonest` under the conditions of `HistoryIsExact`, for
any ages and policies, so the rows the replay needs may be purged at any time.
The chain survives a purge because a purge takes an object's oldest rows
(`PurgeTakesOldest`, from `SuffixInv`), and because the row the next patch would
follow goes last.  `DueReplays` keeps for a reconstruction half-way what the
chain said of its rows when the snapshot was read; `StillThere` says that a
revision asked for is still stored or older than all that is, so a snapshot
found at or below it means that it is there itself: a client never gets an older
document for a purged one.  `SnapshotAnswersAreExact` and
`FirstStartAnswersAreExact` replace `DriftCaught` as above.

`NothingIsSkipped` and `EndIsComplete` are the paging properties, for any page
size, ages and policies, from `OneRecorder` and `ReadsSucceed` alone.  A page is
characterised by the place of a revision in descending order (`Places`,
`PageIs`); `NextPageMeets` says that the number of rows shown plus the last of
them is at most the newest revision plus one, so the next page, which begins at
the newest revision minus that number, begins no lower than one below the last
row.  The newest revision only rises while there is one, so rows added or purged
between two requests cannot open a gap.  For `EndMeansAll`, what COUNT counted
includes all rows that are left, and a list that never falls by more than one
passes through every number (`Descends`).  `ClientInvariance` puts both
invariants together (`ClientInv`).

`ControllerProofs` proves, for any policies, entries and edits, that no
goroutine is orphaned (`EveryWatcherReachable`), under the hypothesis
`DistinctKeys` that no two entries share a kind; without it the statement is
false, as `controller_one_kind` shows (`ControllerInvariance` is the invariant).  `NoOrphan` is not inductive: a start
that overwrites a table cell would orphan what the cell named, and a stop
cancels what the table names, whoever that is.  `ControllerInv` adds that cells
name running goroutines of their own policy and kind (`Registered`) and that the
cell of every entry still to be started is empty (`StartsAfresh`); the loop
visits each entry once, so distinct keys keep it so.  `OthersKeepWatching` needs
`Registered` only.

`AIServiceProofs` proves `AtMostLimitAMinute` and `NoSpuriousRefusal` for any
limit, minute and number of requests.  Counting what `reqTimes` holds says
nothing of what it has dropped; `Remembered` says that everything admitted
within the last minute is still in it, so `Fresh` is exactly that minute
(`FreshIsLastMinute`), a refusal is justified, and an admission keeps every
window, ending now or earlier, within the limit.  `QuotaSpentOnCalls` rests on
two more parts of the invariant: a request has passed all checks before it
leaves its handler (`Checked`), and has one place in the window exactly if it
has been let through to the provider (`Accounted`).

`StartupProofs` proves, for any command lines and configuration objects, with
every read failing or not, `CredentialPriority`, `ConfigIsAtomic`, `StoreReady`
and `ProviderNeverSwapped`.  The invariant `Progress` says for each point of
`main` what the three copies of the settings hold: the flags as long as nothing
has succeeded, otherwise what merging the whole object gives, so an error at any
read finds the flags untouched.  `TypeCorrect` is its type invariant.

Only model-checked: everything under fairness, `RecordedEventually`,
`DeletionMarkedEventually`, `EventuallyPurged`, `PausedGoesQuiet`,
`TracksItsSpec`, `EveryRequestAnswered` and `SignalEnds` (liveness is out of the
prover's reach).  Every invariant and action property the runs check is a
theorem, the safety properties of recording and reading under the conditions
above.  The runs still say something the theorems do not: that the conditions can
be met by behaviours in which the interesting things happen, and, where they are
not met, what goes wrong.

## 5. Findings and limits

Findings (`PROJECT.json` quotes the documents they contradict):

- `recorder_drift`: a re-listed object is compared with the last stored state
  only when the newest revision is a snapshot; other changes made during a
  restart are lost.
- `recorder_wedge`: a crash between the INSERT and the index update leaves an
  object that is never recorded again.
- `recorder_two_policies`: patches are relative to the informer's old object,
  not to the last stored revision; two policies on one object make a replay
  nobody saw.
- `controller_one_kind`: two entries of one kind share a table cell; the first
  goroutine is leaked by every reconciliation and records on after a pause.
- `startup_ai_key`: the AI key's environment variable counts only where a
  configuration object was read without an error.

Limits, recording:

- Two watchers of one policy overlap while it restarts: the safety properties
  hold, but `NothingMissed` does not, even with snapshotEvery 1 (both choose the
  same number; the loser's event is dropped).
- An object deleted while nothing watches is never marked deleted, nor is one
  that lost the selected label before it was deleted.
- The informer's cache is keyed by name.  An object deleted and created again
  under its name while the watch is broken reaches the handler as one update from
  the old UID to the new one (`resource_watcher.go:320-375`): the old object is
  never marked deleted, and the new one's history begins with a patch, so it
  cannot be rebuilt before its first snapshot, or, if the two look the same to the
  policy, it is not recorded before its first change.
- With creations disabled, or after a failed INSERT of the creation, the first
  revisions are patches without a snapshot and cannot be rebuilt.
- Two policies with different `ignoreFields` record patches over different views
  of one object in one history.
- With a label selector and patches, an object that leaves the selection, changes
  and enters it again gets a patch relative to a version that was never stored,
  and one that enters by an update begins with a patch: neither history can be
  rebuilt (`SelectsByName`).
- Where `ignoreFields` holds a label the policy selects by, an object that enters
  the selection by that label alone is not recorded (`KeepsLabels`).

Limits, retention and reading:

- A row purged between the two SELECTs of a reconstruction is left out of the
  replay without an error; `ReaderHonest` excepts this (`torn`).
- Two handlers of one object may give a higher revision an older timestamp; a
  purge then leaves a hole.  `HistoryIsSuffix` is about one watcher.
- A purge can take a snapshot that younger patches need (they answer an error)
  and the whole history of an object that has not changed for `maxAge`; the
  re-list after a restart does not record such an object again.
- A `maxAge` that does not parse makes its policy purge nothing for ever: the
  error is logged, and the reconciliation goes on as if nothing were wrong.
- A failed read after a purge restarts an object's numbers at 1.
- Policies purge each other's rows, paused ones too, so the shortest `maxAge`
  rules.  `maxRevisions` bounds nothing: nothing calls `PurgeExcessRevisions`.
- A row added between COUNT and SELECT makes `total` too small: a scroll can end
  before its last row (`EndMeansAll` excepts this), and shows rows twice while
  the history grows.  Revisions added between two requests can be missing from
  the top of the list until the page is opened again.

Limits, controller and process:

- A status update is an event like any other and can trigger the next
  reconciliation, which restarts every watcher of the policy.
- The policy object the handlers read is the one the reconciler writes the
  status of: a data race in which the two sides touch different fields.
- `pluralize` guesses a resource's name, and the informer of a wrong one lists an
  error for ever.
- The server's write time-out equals the provider client's, so the answer of an
  exchange that times out may not reach the browser.

## 6. Not modelled

- Prompt texts, redaction patterns and the parsing of replies: string
  processing, whose effect on control (`ValidateQuestion`, the early returns) is
  in `AIService`.
- Nested documents (the merge patches of the json-patch library), `findChanges`
  and `splitPath`: pure functions with unit tests beside them; documents are
  functions of their leaf paths here, and values are never JSON null.
- `ListTrackedResources`, statistics and policy status numbers: single reads
  whose results nothing else depends on.  The history's filters: `Readers` has
  one filter.
- HTTP routing, formatting, metrics and the UI's other pages; generated deepcopy
  code; deployment manifests.
