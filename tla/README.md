# Verification of the frostpillar storage engine

TLA+ models of the engine under `src/`, the TLC runs that check them on small
instances, and proofs that TLAPS checks for every value of the constants.
The engine is a single-process record store: an in-memory B+tree index, and
behind it, optionally, one *durable driver* that stores snapshots of the whole
index. It runs on one JavaScript thread. Everything that is hard about it comes
from what interleaves at an `await`, from commits that fail or are cut off, and
from other processes on the same file or other tabs on the same database.

File names below are relative to `src/src/storage/` unless they begin with
`tests/` or `docs/`.

## 1. Inventory

### The write mutex (`backend/asyncMutex.ts`)

*State*: `locked`, the array of waiting resolvers `queue`, its `head`.
*Operations*: `acquire` returns a release closure; `release` hands the lock to
the next waiter or frees it; a closure called twice does nothing; the served
prefix of the array is cut off when it is long.
*Used by* every mutation of a datastore and by `commit()`.
*Hard*: the lock passes from hand to hand without ever being free, the array is
compacted under the waiters' feet, and more than a thousand writes must queue up
before that happens once. *Correct when*: one holder, no waiter lost, served in
the order of the calls, and the dead prefix bounded.

### The auto-commit controller (`backend/asyncDurableAutoCommitController.ts`)

*State*: pending bytes, the "cleared" flag, a foreground and a background request
flag, the promise of the commit loop, the timer.
*Operations*: `handleRecordAppended`, `handleCleared`, `commitNow`, the timer's
tick, the commit loop, `close` with a final flush.
*Interaction*: the datastore calls it under the mutex; the driver's
`executeSingleCommit` is awaited by the loop; the datastore awaits the loop.
*Hard*: changes arrive while a commit writes; a commit fails before, during or
after it became durable; requests join a loop that may have ended already;
`close` flushes next to a loop. *Correct when*: unsaved work is never forgotten,
an awaited request is durable when it resolves, loop and flush never write
together, nothing commits after the lock is released, and everyone is answered.

### The datastore's lifecycle (`datastore/datastoreLifecycle.ts`, `datastoreRuntime.ts`, `datastoreClose.ts`, `datastoreInit.ts`)

*State*: `closed`, `closing`, the count of active operations and the promise that
resolves when it reaches zero, the pending initialisation and its error, the
controller.
*Operations*: `runWithOpen`, `runWithOpenExclusive`, `close`, and the
initialisation that settles on its own.
*Hard*: `close` meets operations that wait for the mutex, for the initialisation,
or run; several `close` calls overlap; a controller arrives after `close` began.
*Correct when*: one writer is active, teardown comes after the last operation,
the controller is closed exactly once, and every call settles.

### Mutations and capacity (`datastore/datastorePut.ts`, `datastorePutStrict.ts`, `datastoreDelete.ts`, `datastoreIdOps.ts`, `mutationById.ts`, `backend/capacity.ts`)

*State*: the index, `currentSizeBytes`, the capacity policy, the treatment of
duplicate keys.
*Operations*: `put`, `putMany` (strict: validated as a whole; turnover: one after
the other), `delete`, `deleteMany`, `updateById`, `replaceById`, `deleteById`,
`deleteByIds`, `clear`, and reopening.
*Hard*: a mutation throws after it changed the index, or the commit it awaits
fails, and the size is assigned only at the end. *Correct when*: the size is that
of the records, the capacity is kept, a strict batch is all or nothing and equals
putting its records in turn, and turnover evicts no more than it needs.

### The file driver's lock (`drivers/file/fileBackend.ts`)

*State*: `<file>.lock` with a pid. *Operations*: exclusive creation, recovery of a
dead process's lock with a verification, release. *Hard*: other processes run
between any two system calls, and any of them can be killed. *Correct when*: one
writer, no lock left behind, a stale lock always recovered.

### The file driver's snapshots (`drivers/file/fileBackendSnapshot.ts`, `fileBackendController.ts`)

*State*: generation files `<file>.g.<n>`, a sidecar naming the active one,
temporary files, `commitId`. *Operations*: clean-up, initial snapshot, load,
commit by write, rename, write, rename, fsync, unlink. *Hard*: a crash, a power
loss or a failure at each of them. *Correct when*: a reopening finds a whole
snapshot, none older than the last acknowledged commit, and files do not pile up.

### localStorage and syncStorage drivers (`drivers/localStorage/`, `drivers/syncStorage/`)

*State*: chunks under a generation, a manifest. *Operations*: load, clean-up before
a commit, chunks, manifest, clean-up of the previous generation. *Hard*: quota
errors and crashes in the middle, retries of the same generation with another
number of chunks, mutations during the asynchronous commit of syncStorage.
*Correct when*: as for files.

### OPFS and IndexedDB drivers (`drivers/opfs/`, `drivers/IndexedDB/`)

*State*: OPFS: two data files that alternate and `meta.json`, which names the
active one; IndexedDB: one record in one object store, the database's schema
version and its connections; in each tab, what it believes to be active and its
`commitId`. *Operations*: load, commit, close. *Interaction*: the controller
serialises the commits of one tab; nothing serialises those of two.
*Hard*: a stale tab writes over the file another tab has made active; a tab loads
while another commits; calls fail and tabs end at every await; an IndexedDB
upgrade waits for the connections of others, and a transaction can abort without
the code hearing of it. *Correct when*: a database once stored always opens with
a whole snapshot; what the last commit stored is found; used from one tab at a
time, as for files; every call settles.

### Components without a model of their own

| Component | Why |
| --- | --- |
| Record key index (`btree/`) | The tree is the package `@frostpillar/frostpillar-btree`; `RecordStore` models the adapter by what its calls return. Range queries and serialisation only read. |
| syncStorage adapter | Turns a callback API into promises; `ChunkedStore` takes its calls as atomic. |
| Configuration, capacity resolution, validation, size estimation, ordering, encoding | Pure functions of their arguments; their results are the constants of the modules. |
| Errors and error events | Error classes and a set of listeners; reporting a failed background commit changes no modelled state. |

## 2. Modules

| Module | Models | Uses |
| --- | --- | --- |
| `FifoLock` | abstract: a lock whose waiters are served in order | |
| `AsyncMutex` | the mutex with its array, dead slots and stale closures | implements `FifoLock` |
| `DatastoreLifecycle` | open, initialisation, operations and close | an instance of `FifoLock` |
| `AutoCommit` | the commit scheduler, its timer, its close | |
| `RecordStore` | mutations, capacity, size accounting | |
| `FileLock` | the lock file | |
| `DurableStore` | abstract: what a commit and a crash may do to the stored version | |
| `FileCommit` | the file driver's snapshots | implements `DurableStore` |
| `ChunkedStore` | localStorage and syncStorage | implements `DurableStore` |
| `BrowserTabs` | OPFS and IndexedDB, in several tabs | implements `DurableStore` |

Each of `AsyncMutex`, `DatastoreLifecycle`, `AutoCommit`, `RecordStore`, `FileLock`,
`FileCommit`, `ChunkedStore` and `BrowserTabs` has its theorems in a module of its
own, `<module>_proofs`, which extends it.

The pieces meet at abstract interfaces, as in the code: the datastore's model
takes the mutex as `FifoLock`, which `AsyncMutex` is shown to implement;
`AutoCommit` sees a driver as a commit that takes a snapshot and later succeeds
or fails, possibly after it became durable -- `FileCommit`, `ChunkedStore` and
`BrowserTabs` show drivers that fail in all these ways and still keep
`DurableStore`. The one way `AutoCommit` does not allow for is a commit that
never settles, which `BrowserTabs` shows of IndexedDB (section 6).

### From code to state and actions

The unit of interleaving is the stretch of JavaScript between two awaits
(`AsyncMutex`, `AutoCommit`, `DatastoreLifecycle`, `BrowserTabs`), a whole mutation
(`RecordStore`: the mutex is held from end to end), or a system or storage call
(`FileLock`, `FileCommit`, `ChunkedStore`).

**AsyncMutex.** `queue` and `head` are the fields of those names; a served slot is
`Dead` (`undefined` in the code). `closure[c]` is the `released` flag of caller
`c`'s closure. `AcquireFree` and `AcquireBusy` are the two branches of `acquire`,
`Release` chooses between `PassOn` and `Unlock`, `ReleaseAgain` is the second call
of a closure. Compaction is part of `PassOn`, as it is of the code's release.

**AutoCommit.** The first five variables are the controller's fields. `phase` says
where the commit loop is: in `executeSingleCommit` before or after its snapshot,
ended but with its `finally` callback still to run, or absent. `run` holds the
locals of the iteration. A state of the records is a version number, and
`durable` is the one a reopening would find. `queueCommitRequest` starts a loop
only when `commitInFlight` is null, so the head of the loop is part of the
requesting action. `CommitFails` has the three outcomes the drivers have:
not durable, durable all the same, and a failure before the snapshot.

**DatastoreLifecycle.** A writer goes acquire - initialisation - begin - end, a
reader the same without the mutex. `closeStep` follows `performClose`. The body of
an operation is one step and may throw. Waiting for the initialisation ends after
its `finally` callback, which is an action of its own.

**RecordStore.** `entries` is the index as a sequence in key order. Each operation
is an action that mirrors the code's order: duplicates, replacement or eviction,
the index, the commit, the assignment of the size; each early throw and the
failure of the commit is a disjunct, which leaves the index changed when the code
does. `Behind` is where the tree puts a record (by key, equal keys by insertion);
the strict batch is sorted with it, validated by a fold of `PrepareEntry` and
inserted by a fold of `ApplyEntry`, the two loops of the code. `RemoveRecords` is
what `deleteSingle`, `deleteRecordById` and `deleteRecordByIds` have in common.
`last` remembers the last put so that properties can compare before and after. A
mutation that rejects after it has changed the index (`SizeNotAssigned`) adds the
difference to one of two history variables, `uncounted` or `overcounted`; with
them the properties say by how much the size and the capacity may be off, instead
of holding only while nothing has failed. `putMany` under turnover, and
`deleteMany`, put or delete one record after the other and assign the size each time: they are sequences of the single actions
(other operations cannot come between them in the code, in the model they may).

**FileLock.** One action per system call and process: `openSync('wx')`,
`writeSync`, `readFileSync`, `kill(pid, 0)`, `unlinkSync`, the verification.
A file that was created and not yet written holds no pid. A descriptor stays with
its file when another process unlinks the name.

**FileCommit.** `disk` is what system calls show; `past` is the set of directories
a power loss may leave, every one there has been since the last fsync of the
directory. `disk.gens[n]` is the version in generation `n`, or `Torn` while a file
is created in place and not yet written.

**ChunkedStore.** `items[g][i]` is the version whose chunk is stored under
generation `g`, index `i`. The variable `driver` is chosen at the start and never
changes; where the two drivers differ (item by item or in one call, mutations
meanwhile, whether a failing clean-up is reported) the actions say so.

**BrowserTabs.** `data` and `meta` are the origin's two data files and
`meta.json`; the IndexedDB record is `data["a"]` and `meta`, replaced together.
`active`, `commitId` and `records` are, for each tab, the controller's
`activeData` and `commitId` and the records in memory. An OPFS commit is
`CreateData`, `StoreData`, `CreateMeta`, `StoreMeta` (the awaits of
`getFileHandle` and of the writable's `close`, twice), an IndexedDB commit one
`transaction` that completes, fails, or aborts unheard. `CommitReturns` is the
assignment to the controller's fields after the storage has changed. `exclusive`
is chosen at the start: either the application keeps to one tab, or it does not.

## 3. Runs

| Run | Configuration | States | Shows |
| --- | --- | --- | --- |
| `mutex` | 4 callers, compaction threshold 1 | 364 | exclusion, no waiter lost through hand-overs and compactions, every waiter served, `FifoLock` implemented |
| `autocommit` | 4 mutations of 0, 1 or 2 bytes, threshold 2, both frequencies | 214 770 | nothing signalled forgotten, requests and `close` durable, one committer, everyone answered |
| `lifecycle` | 2 writers, 1 reader, 2 closers, every kind of initialisation | 44 268 | one writer, orderly teardown, one controller close, every call settles |
| `records` | keys 1, 2; sizes 1, 2, 4 in a capacity of 3; 3 records, batches of 2 | 83 360 | size and capacity off by no more than failed commits, overflows and the reopening explain, atomic batches, minimal and sufficient eviction |
| `filelock` | 3 processes | 62 310 | single writer up to one accident, nothing left behind, stale locks recovered |
| `filecommit` | 2 commits, 2 mutations | 515 306 | `DurableStore` implemented, no garbage |
| `chunked` | 2 chunks, 3 commits, 3 mutations, both drivers | 48 527 | `DurableStore` implemented, no orphaned chunks |
| `tabs` | 2 tabs, 2 schema versions, 2 commits, 2 mutations, both drivers | 246 115 | opens once stored, last lone writer found, `DurableStore` implemented from one tab, calls settle |

Four runs are expected to fail: each checks a sentence of the repository's docs or
tests that the code does not keep (section 6).

Four of the hazards in `PROJECT.json` have no property. Three lie where nothing is
promised yet: the initial file snapshot and OPFS's first `meta.json`, before
anything was acknowledged, and localStorage used from two tabs. The fourth, an
IndexedDB transaction that aborts unheard, is the exception `CallsSettle` names.

### Bounds and why they are enough

* *Callers and processes.* The shortest way to lose a waiter or to compact a queue
  with live waiters behind it needs a holder and two waiters; the fourth caller
  queues after the compaction. With a compaction threshold of 1 (1 024 in the
  code) the condition becomes true and false in every order; the proofs cover
  every threshold. The accident of the lock file needs a dead process and two
  live ones.
* *Versions.* Every property of `AutoCommit` relates at most a durable version, one
  being written, one after it and the request: four mutations. Sizes are zero (an
  update of equal size), below and at the threshold. The code's
  `maxPendingBytes: null` is a threshold that is never reached; behaviours below
  the threshold are the same.
* *Records.* Three records of two keys contain a duplicate, a replaced record and a
  neighbour; sizes 1 and 2 in a capacity of 3 make one eviction enough, or not;
  size 4 never fits.
* *Counters.* `MaxCommitId` and `MaxGeneration` stand for `Number.MAX_SAFE_INTEGER`,
  and are reached: the refusal of the commit there is part of the models. Two
  commits suffice for a generation that was replaced, a failed attempt and its
  repetition over the same names.
* *Chunks.* A snapshot has up to `MaxChunks + 1` chunks, so growing, shrinking and
  the refusal of one too large all happen. Chunks of one version are all alike;
  that a snapshot is not a mixture of two is what `Loads` decides.
* *Tabs.* A stale tab and the one that overtook it, or two commits that overlap, are
  two tabs; two commits of one tab use both data files, the second the one the
  other tab may hold for active. The proofs cover any number of tabs and commits.
  Two schema versions make an upgrade wait and an old version fail.
* *Drift.* `MaxDrift` = 3 lets the bytes that rejected mutations leave uncounted, or
  counted too many, reach a whole capacity; a rejection that would go beyond it is
  not explored. Every bound of `SizeAccountedFor` is reached within it. The proofs
  cover every `MaxDrift`.
* `LoadOverhead` stands for the bytes of a serialised snapshot that belong to no
  record; after a reopening the code takes the length of the whole as the size.

### Fairness

Liveness is checked for the mutex, the scheduler, the lifecycle and the tabs.

* *AsyncMutex*: weak fairness of `Release` by each holder. `runWithOpenExclusive`
  releases in a `finally`, so a holder whose body settles releases.
* *AutoCommit*: weak fairness of the loop and of `close` (microtasks run, a storage
  call settles one way or the other) and of the tick (`setInterval`).
  Nothing obliges the application to call anything. That a change becomes durable
  has the premise `StorageRecovers`, strong fairness of taking a snapshot and of a
  successful commit: with a storage that always fails the property is false, as it
  should be.
* *DatastoreLifecycle*: weak fairness of each writer's and reader's steps after the
  call, of the initialisation and of `close`: all of them are promise callbacks.
  Nobody is obliged to call.
* *BrowserTabs*: weak fairness, for each tab, of the steps of an opening and of a
  commit: the storage answers a call. An upgrade is not enabled while another
  connection is open, and an aborted transaction has no next step, so fairness
  does not rescue either; `CallsSettle` names both as its exceptions.

The other modules have safety and refinement only.

## 4. Abstract specifications

`FifoLock` has an owner and a sequence of waiting callers. `AsyncMutex` implements
it with `Owner` (the caller with a live closure) and `Backlog` (the unserved part
of the array): checked by TLC, and proved as `MutexIsFifoLock`.

`DurableStore` has the set of versions that a reopening may find, and the version
last acknowledged. A commit that has begun may add its version to the set;
acknowledging it makes it the only one. Never may the set be empty or hold
something older than what was acknowledged (`AcknowledgedSurvives`, proved of
`FileCommit` and `ChunkedStore` from their invariants, and of `BrowserTabs` from
its refinement of `DurableStore`). `FileCommit` maps `outcomes` to what loading
finds in each directory a power loss may leave; `ChunkedStore` and `BrowserTabs`
map it to what loading finds now. An unreadable snapshot (`Torn`, or `Absent` and
`Empty` in `BrowserTabs`) is a version `DurableStore` does not have, so the
refinement fails if a crash can produce one.

Two qualifications are built into the mappings. In `FileCommit` the initial
snapshot is written in place, not renamed into place, and a crash between the
creation of the sidecar and its content leaves a database that can never be
opened. Nothing had been acknowledged by then, so `outcomes` starts to count when
the initial snapshot is complete (`created`). `OpenFails` shows the broken
database. In `BrowserTabs` the first `meta.json` is created empty and filled
later, with the same consequence until the first commit is stored; and only an
`exclusive` behaviour implements the store. With several tabs an acknowledged
commit can be lost to a stale tab; what remains true then are
`OpensOnceCommitted` and `LastWriterWins`.

## 5. Proofs

Proved by TLAPS for all values of the constants, under the assumptions the
modules name (`DeadAssumption`, `ThresholdAssumption`, `MaxPendingAssumption`,
`SizesAssumption`, `NoFileAssumption`, `CallersAssumption`, `BoundsAssumption` and
the like: types, distinctness and finiteness, nothing more). In each component
a statement `Invariant` says that an inductive invariant `IInv` always holds; the
others follow from it.

**The mutex** (`AsyncMutex_proofs`). `IInv` is the type invariant with exclusion, "the
waiters are exactly the unserved slots, once each" and "the flag is set exactly
while somebody holds". Each needs the others: handing over keeps exclusion because
the next slot is a waiter and not a holder, and the slot is a waiter because of
the second conjunct. The lemma `CompactionKeepsBacklog` isolates what the
compaction does to a sequence: the part behind the head stays element by element.
From it follow `WaitersAreQueued`, `Exclusion`, `LockedExactlyWhileHeld`,
`DeadPrefixStaysBounded` and the refinement `MutexIsFifoLock`.

**The scheduler** (`AutoCommit_proofs`). What a commit makes durable is fixed when it
takes its snapshot, while the properties speak of the moment it ends. `IInv`
therefore says, for the time between, what is known beyond the snapshot: if
something was signalled after it, more bytes are pending than the iteration will
subtract (`AppendedSinceSnapshot`); a clear after it is marked
(`ClearedSinceSnapshot`); the awaited request is in the running iteration, pending,
or done (`RequestInHand`); the storage is not ahead of the snapshot, because loop
and flush exclude each other (`SnapshotIsNewer`, `NoLoopAfterSettling`). All six
safety invariants of the run and the action property `NoCommitAfterRelease`
follow.

**Mutations** (`RecordStore_proofs`). `IInv` is the type invariant -- records in key
order, distinct unless duplicates are allowed -- and `SizeAccountedFor`; each needs the
other's ground: that a record to be replaced is the only one of its key is what
makes the size right, and the capacity of every batch is decided on the size.
`SizeAccountedFor` speaks of four numbers (`Within`), and one lemma for each way
they change says that it stays: by a checked change (`ChangeWithin`), an insertion
after an eviction (`InsertionWithin`), a removal cut off at zero (`RemovalWithin`),
and a mutation that rejects (`DriftWithin`).
What the last put promised (`BatchIsAtomic`, `EvictsOnlyWhatIsNeeded`,
`TurnoverMakesRoom`) follows from `IInv` at every step.

The work is in what the operators compute, for sequences of any length. The prover
cannot be given an induction rule for a predicate, so the rules are stated for
*sets*: a set of numbers that contains 0 and successors contains `Nat`
(`NatSetInduction`, from the well-foundedness of `<`), and the same for sequences
and `Append` (`SequenceInduction`); a predicate becomes the set of the values that
satisfy it. A fold is defined by a function that is chosen to satisfy a recursion
over the set of positions left; `RecursionHasSolution` shows that there is one, and
each fold then has a lemma that lists its steps (`SumSizesChain`,
`InsertInTurnChain`, `BuildStrictBatchChain`, ...). On this rest

* sums: `SumConcat`, `SumRemoveAt`, `SumOverwrite`, `SumIndexPut` say what each change
  of the index does to its size;
* order: `IndexPutOrder`, `PartOrder`, `WithoutKeeps` say what keeps the keys sorted
  and distinct;
* the batch: two puts of different keys commute (`IndexPutCommutes`) and of the same
  key under 'replace' the last one counts (`IndexPutTwice`), so a record can be moved
  past all those with larger keys (`InsertPast`), which is why the sorted batch has
  the effect of the batch as it was given (`SortedBatchSameEffect`). `Foresees` is the
  invariant of the first pass: what it has prepared so far would, if inserted,
  change the size by the delta it has summed up, although under 'replace' it takes
  entries back; `StrictBatch` draws the conclusion for both passes;
* eviction: the records evicted are the fewest that make room (`RoomMade`), and under
  turnover evicting all of them is enough unless the bytes counted too many are
  in the way.

**The lock file** (`FileLock_proofs`). Exclusion rests on two facts: a lock judged
stale names a dead process, and pids do not come back (`StaleMeansDead`); and
whoever is between creation and release owns the file (`OwnersLock`). A removal
then takes nobody's lock unless it hits another file than was read -- the accident
that the history variable `mistaken` records. `NoLockLeft` and `Recovery` need, in
addition, that a live process's lock is in use, and what an undisturbed process
finds.

**The lifecycle** (`DatastoreLifecycle_proofs`). A writer past its `acquire` is the
owner of the lock and the queued ones are its waiters (`MutexFollowsCalls`); an
operation that runs is counted (`ActiveIsCounted`: the counter is one exactly
while a writer runs); the two guards, the drain and the single-flight promise
follow the step of `close` (`CloseInOrder`). Beyond the drain the counter is zero
and `closing` keeps everyone from raising it, which is `TeardownIsQuiet`.
`ControllerInOrder` says what is left of initialisation and controller at each
step, so that one that arrives late is closed, and closed once. `LateCallsWait`
carries the moment of the call to the moment it is refused.

**The file driver** (`FileCommit_proofs`). The invariant speaks of every directory in
`past`, not of `disk` alone: each is `Sound` (its sidecar names a generation that
is there and whole), and once the initial snapshot is complete, each opens with
something not older than `acked` (`NothingLost`). `CommitInOrder` says that the
sidecar names the next generation only when it is written, and that after the
fsync `past` has one member, which is why `CommitReturns` may acknowledge.
`FilesAccountedFor` bounds the files besides the active one to the next and the
previous generation; `InitialSnapshot` follows the files written in place.

**The chunked drivers** (`ChunkedStore_proofs`). A commit never writes the generation
the manifest names (`ActiveIsWhole`), and the next one holds one version as far as
it is written (`StoredSoFar`), whatever earlier attempts have left there. So what
a reopening finds changes in one step only, when the manifest is stored.
`ChunksAccountedFor` says under which generations there can be chunks at each step.

**The tabs** (`BrowserTabs_proofs`). A file that has been whole stays whole, and
`meta.json` never goes back to empty, so what metadata names can be read whoever
wrote it (`NamedFileIsWhole`). A commit that overlaps another knows of it
(`OverlapIsKnown`); one that runs alone finds what it stored (`AloneUndisturbed`);
from both follows `LastWriterWins`, which is in the invariant itself because
`settled` is carried through later steps. `OneTab` is what an exclusive use adds:
the tab knows the active file, and holds nothing older than `acked`.

`LockedExactlyWhileHeld` and `DeadPrefixStaysBounded` are proved and not checked by
a run. The inductive invariants were checked by TLC on the instances of the runs
before they were proved.

*Only model-checked*: liveness (`EveryWaiterServed`, `EveryoneAnswered`,
`SignalledBecomesDurable`, `EveryCallSettles`, `CallsSettle`), which is out of the
prover's reach. Every invariant and every safety property of an action that a
passing run checks is also proved.

## 6. Where code and documents disagree

Each of these is a run that TLC must find violated; its trace is the shortest
story.

1. `autocommit_window`: a commit request arriving after the commit loop ended, but
   before its `finally` callback cleared `commitInFlight`, joins the ended loop and
   resolves; what it asked for is not durable until the next request. The document
   says that `commit()` completion is the boundary for persisted state. What
   *does* hold is `ResolvedRequestDurableOrPending`, and in immediate mode
   `ImmediateResolvesDurable`: both are proved.
2. `autocommit_samesize`: an update that leaves the encoded size unchanged signals
   zero bytes. In scheduled mode no tick commits it, and `close()` does not flush
   it.
3. `records_overflow`: under the strict policy, a replacement that does not fit has
   removed the old record before the quota error is thrown. The record is lost and
   its bytes stay counted, so a later put that fits is rejected.
4. `filelock_race`: two processes recover the same stale lock; the slower one
   removes the faster one's new lock by name, and both hold the datastore. The
   verification is done once, and the faster one has passed it.
Seen while modelling, with no run of its own:

* A writer that still waits for the mutex, or an operation that waits for the
  initialisation, is refused with `ClosedDatastoreError` when `close()` begins: it
  is counted only when it begins. A test is named "runWithOpen counts operation
  before awaiting pendingInit"; it accepts either outcome. What holds is that such
  an operation never runs during the teardown: `NoOperationDuringTeardown`.
* A put whose awaited commit fails is rejected, but its record is in the index and
  its bytes are not counted: under strict, later puts are accepted beyond the
  capacity, by as much as failed commits have brought in (`SizeAccountedFor`).
* After a reopening the size is that of the serialised snapshot, more than the
  records have, and evictions subtract the records alone. A turnover put can evict
  every record and still fail with `QuotaExceededError`, where
  `docs/specs/01_DatastoreAPI.md:303` says that it evicts until the new record fits;
  `docs/specs/02_DurableBackends.md:50` prescribes the size after loading, so the two
  cannot both be kept. Only a record within that overhead of the capacity is
  refused (`TurnoverMakesRoom`), and `clear` ends it.
* IndexedDB: `idbTransaction` listens for `complete` and `error`, not for `abort`. A
  transaction that aborts by itself (a quota at commit time) settles nothing: the
  commit promise stays pending, and every later commit and `close()` wait behind
  it, while `docs/specs/03_InternalArchitecture.md:53` says that foreground commit
  failures must throw. In `BrowserTabs` this is the step `aborted`, the exception
  in `CallsSettle`; `AutoCommit`'s fairness excludes it.
* OPFS: between the creation of the first `meta.json` and its content, the end of
  the tab leaves an empty file that no opening accepts.
* Two tabs: a commit of a stale tab replaces what another has acknowledged, even
  one that fails (OPFS: its data file is the other's active one), and the stored
  `commitId` can go back. ADR-0039 knows of the lost updates; the lease it decides
  on is not in the code.
* localStorage in two tabs: a stale tab's clean-up of "the next generation" removes
  the chunks another tab has just made active. `ChunkedStore` has one tab.
* syncStorage sets its fields, then cleans up; if that fails, a durable commit is
  reported as failed.
* Chunks of a generation that was replaced just before a crash are never removed
  (`leaked`): the clean-ups only know the next and the active generation.
* The initial file snapshot can be torn, section 4.

## 7. Assumptions about the environment

* A pid is not given to another process while a lock file names it; each process
  opens a path once.
* The file system is POSIX with an ordered metadata journal: a rename is atomic,
  and a power loss leaves the directory as it was at some moment since its last
  fsync. Data of a renamed file is on disk, because the code fsyncs it first.
  Windows, where the directory is not fsynced, is not modelled.
* A call of localStorage or of the extension's storage is atomic and durable when
  it returns; one tab uses a key at a time.
* OPFS: what is written into a writable appears as a whole when it is closed, and a
  call that fails has changed nothing. IndexedDB: a transaction is atomic, and a
  read-only one ends in `complete` or `error`. A tab that ends loses its memory and
  its connections, and nothing that was stored.
* A commit's failure can have any cause; quota errors are one.
* The B+tree package orders records by key, and equal keys by insertion, as the
  adapter (`btree/recordKeyIndexBTree.ts`) uses it.

## 8. Plan

Done, in the order of importance: the mutex; the scheduler; the lifecycle;
mutations and capacity; the lock file; the file and chunked drivers and the two
drivers that tabs share, with their common abstract store; the proofs of all of
them.

Next, models:

1. A composition of `AutoCommit` with `DurableStore`, replacing its variable
   `durable` by the set of outcomes, so that `CloseSavesSignalled` speaks of what a
   reopening after a crash finds.
2. A second tab for `ChunkedStore`, to say what of `LastWriterWins` localStorage
   keeps.

Next, proofs: `AutoCommit` implements `DurableStore`, with that composition.
