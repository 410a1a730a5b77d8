# TLA+ models of the SuperDB data lake

This directory holds TLA+ specifications of the concurrent core of this
repository: the transaction journal, the branches and commits of a pool, the
caches of snapshots, the pools of a lake, the writers of data objects, the event
feed and the queries of the service, and, of the query runtime, the operators
and the file reader that run in goroutines. TLC checks them on small instances,
and TLAPS proves the safety results about the journal, the commits of a pool, the
snapshot cache, the pools, the writers, the service and lateral subqueries for
instances of any size. Source paths are relative to `src/`.

## 1. The system

`super` is a query engine for super-structured data, and a data lake on top of
it (`super db`). A lake is a directory tree (or an object-store prefix) without
any server that owns it: several `super db serve` processes and command-line
clients work on the same files at the same time. All coordination goes through
files, and all correctness rests on a small stack:

| Layer | Code | State | Operations |
| --- | --- | --- | --- |
| Storage engine | `pkg/storage` | files | `Get`, `Put` (truncate, then write), `PutIfNotExists` (exclusive create), `Delete` |
| Journal queue | `lake/journal/queue.go`, `reader.go` | `HEAD`, `TAIL`, entry files `1.bsup`, `2.bsup`, ... | `ReadHead`, `CommitAt`, `Open` |
| Journal store | `lake/journal/store.go` | `snap.bsup`; per process a table and its position | `Insert`, `Update`, `Delete`, `Move`, `Keys`, `Values`, `All` |
| Branch store, pool store | `lake/branches`, `lake/pools` | a journal store: branch name to commit, pool name to configuration | `Add`, `Update`, `Remove`, `Rename`, lookups |
| Commit store | `lake/commits` | commit objects, snapshot files; per process caches | `Put`, `Remove`, `Snapshot`, `Path`, `PatchOfCommit`, `PatchOfPath`, `Vacuumable` |
| Branches | `lake/branch.go`, `pool.go` | the branch pointers | `Load`, `Delete`, `DeleteWhere`, `Revert`, `CommitCompact`, merge, `AddVectors`, `DeleteVectors`, create and remove branch, `Vacuum` |
| Data objects | `lake/writer.go`, `lake/data` | data, seek-index and vector files; two buffers and an errgroup | `Write`, `Close`, `Abort`, remove |
| Lake root | `lake/root.go` | pool directories, the pool store | `CreatePool`, `RemovePool`, `RenamePool` |
| Service | `service` | subscriptions, query status | HTTP handlers, event stream |
| Operators | `runtime/sam/op` | channels between the goroutines of fork, switch, combine, merge, mux, over | `Pull(false)`, `Pull(true)` ("done"), end of stream ("EOS") |
| Reader | `zio/bsupio` | parser and worker goroutines, queue of results, type tables | `Pull` |
| Other runtime | `runtime/vam`, `zbuf`, `zio` | none shared | pure functions of their input |
| Management | `cmd/super/internal/lakemanage` | none of its own | periodic compaction and vectorization |
| Compiler, values, formats | `compiler`, `sup`, `vector`, `zcode`, ... | none that outlives a call | pure functions |

How they interact: an operation of a branch writes data objects, computes a
commit object from the snapshot of the tip, writes it, and moves the branch
pointer with a conditional update of the branch store. That update is an
append to a journal: load the table up to `HEAD`, check the condition, create
entry `HEAD+1` exclusively, write `HEAD`. If the condition fails, the branch
operation starts over with the new tip; if the create fails, the store does.

What is hard here, and what makes each part correct:

* **Journal store.** Two levels of optimistic retry, tables cached per process
  and shared by goroutines, files rewritten in place while others read them, a
  crash between any two file operations. Correct means: every entry met its
  condition in the state its predecessors define, nothing is overwritten, a
  read sees what was acknowledged before it, and the store never gets stuck.
* **Branches.** Commit objects computed from a tip that may be old when they are
  published; objects removed after a failure; files deleted by vacuum and by an
  aborted compaction. Correct means: the tip can always be turned into a
  snapshot, no acknowledged commit is lost, no row is lost, revived or
  duplicated, and what is deleted is not in use.
* **Snapshot cache.** A snapshot comes from a cache, from a file written by
  anybody, or from a walk. Correct means: it is the snapshot the commits define.
* **Pools.** An entry and a directory change in separate steps. Correct means:
  a listed pool exists and a created pool stays until it is removed.
* **Writers.** A caller and a goroutine exchange two buffers; either may fail or
  be cancelled. Correct means: who gets to commit has written everything once.
* **Service.** Publishers and subscribers meet on a lock and on unbuffered
  channels; a query runs in one goroutine, is answered by another and asked about
  by a third. Correct means: events arrive, and a status is true.
* **Operators.** Data flows in platoons (batches up to an EOS), and a done travels
  against it. Correct means: done and EOS meet once per leg and platoon, nothing
  is lost or delivered in the wrong platoon, nobody waits for ever, and all
  goroutines end with the query.
* **Reader.** Frames are decoded concurrently. Correct means: results are those of
  reading one frame after another.

`PROJECT.json` lists the components, the hazards with their lines, and the
line ranges each definition stands for.

## 2. Modules

| Module | Models |
| --- | --- |
| `StoreOps` | the operations of a journal store as conditional updates of a table (pure) |
| `KVStore` | abstract specification: one table, atomic conditional updates |
| `JournalStore` | the journal store over files, with caches, goroutines, processes, crashes |
| `JournalStoreProofs` | the theorems about `JournalStore` |
| `CommitOps` | commit objects, snapshots, patches, revert and diff (pure) |
| `LakeBranch` | the branches of a pool and every operation on them; the branch store is the atomic table that `JournalStore` implements |
| `LakeBranchProofs` | the theorems about `LakeBranch` |
| `SnapshotCache`, `SnapshotCacheProofs` | `commits.Store.Snapshot` with its cache and files, and the theorems about it |
| `LakePools` | create, remove, rename of pools; its theorems are in `LakeServiceProofs` |
| `LakeWriter`, `LakeWriterProofs` | `lake.Writer` with its two buffers, `SortedWriter`, and theorems |
| `LakeService`, `LakeServiceProofs` | the event feed, queries and query status of the service, and theorems |
| `Flowgraph`, `FlowgraphProofs` | Router (fork, switch), legs, and combine, merge or mux, and theorems |
| `OverScope`, `OverScopeProofs` | Over, Scope, subquery and Exit of a lateral subquery, and theorems |
| `BsupScanner`, `BsupScannerProofs` | the threaded and the synchronous reader of Super Binary, and theorems |
| `MC*` | constants for TLC |

The composition is by refinement: `JournalStore` implements `KVStore`, and
`LakeBranch` and `LakePools` use the operators of `StoreOps` on an atomic table.
`LakeBranch` likewise takes `Store.Snapshot` to be exact (`snapOf`);
`SnapshotCache` shows when that is so. `LakeWriter` shows what `LakeBranch` takes
for granted of a load and a compaction: that the objects they commit are complete.
`Flowgraph` and `OverScope` both model their source and their caller by the contract
of `zbuf.Puller` (`zbuf/batch.go:48-56`).

Definitions whose comment says "variant" are plausible mistakes in the
definition that follows them. Nothing uses them; they serve to confirm that the
property they are paired with in `PROJECT.json` would notice the mistake.

### JournalStore

One step per file access and per critical section of `Store.mu`. A client is a
goroutine; `StoreOf` gives its process, whose `table` and `at` its goroutines
share. `pc` follows the code:

| `pc` | Action | Code |
| --- | --- | --- |
| `idle` | `BeginUpdate`, `BeginRead` | the public methods, up to `load` |
| `readHead` | `ReadHead`, `ReadHeadFails` | `Queue.ReadHead`; the file may be truncated |
| `compare` | `CompareHead` | the read-locked comparison with `Store.at` |
| `getSnapshot` | `GetSnapshot` | `getSnapshot`, missing, truncated and half-written files included |
| `reopen` | `ReopenAtHead` | `Queue.Open` with a nil head reads `HEAD` again |
| `replay` | `ReplayEntry`, `Publish` | the reader; at its end table and position are stored |
| `truncSnap`, `frameSnap`, `writeSnap` | `TruncSnapshot`, `WriteSnapshotFrame`, `WriteSnapshot` | `putSnapshot` |
| `check` | `ReturnTable`, `CheckCondition` | the read, or the condition of a commit |
| `put` | `PutEntry`, `PutConflict` | `PutIfNotExists` |
| `truncHead`, `writeHead` | `TruncHead`, `WriteHead` | `writeHead` |
| `reset` | `ResetAt` | `s.at = Nil` |

`Crash` ends every goroutine of a process and clears its cache; files stay.
Position arithmetic wraps around (`Minus`), as `head-at` does in the code.
`SnapFits` says whether a snapshot fits in one frame of its file; if not, a
reader may see a part of it. `tables`, `acked` and `low` are history variables: the
table at each position, the last position acknowledged, and, for a read, how new its
answer has to be. The last is `acked` when the read begins or, if loads are
under way in the same process, the oldest `HEAD` that one of them has read, because each
will put its table into the Store they share.

Left out: `TAIL` stays 1 because `MoveTail` has no caller, and the fallback for
engines without `PutIfNotExists`, which the code itself calls incorrect
(`queue.go:116-118`). An I/O error of a write is not modelled apart from a crash
at the same place.

### CommitOps and LakeBranch

A commit object is a set of deletes and adds of data objects and of vectors, plus
the IDs that occur twice; `Play` is `PlayAction` of all actions and yields a
snapshot that is not `ok` where the code returns an error. Patches are
modelled with the code's `Lookup`, which finds objects of the base that the patch
deletes.

An operation is `Begin...` (what it does before `Branch.commit`: write data
objects, read a child's tip, read the objects to compact), then the loop of
`Branch.commit`: `Prepare` (look the branch up, call the constructor, write the
commit object), `Publish` (the conditional update succeeds), `Conflict` (it
fails: the object is removed, and the loop goes on or gives up), `UpdateFails`
(any other failure). The constructors are `LoadObject`, `DeletesObject`,
`DeleteWhereObject`, `RevertObject`, `CompactObject`, `MergeObject` and
`VectorsObject`. `Prepare` is one step because it reads one mutable thing, the
branch pointer, and writes a file with a fresh name. Each data object records the
rows it holds (`content`), so that a property can speak of rows while compactions
and rewrites move them between objects. `CreateBranch`, `RemoveBranch` and
`VacuumFile` are steps of their own, and a client may crash anywhere.

### SnapshotCache

A path of `Depth` commits, processes with a cache each, and clients that ask for
the snapshot of any commit: cache, file, walk to the nearest ancestor with
either, play the commits from there one at a time (`PlayObject`; `PlayFails` where
`PlayAction` returns an error, `PlayEnds` at the leaf), write the file, fill the
cache. The variable
`engine`, chosen in the initial state from `Engines`, distinguishes an object
store from a file system, where a file being replaced is empty for a while. The
cache may evict at any time.

### LakePools

`CreatePool` checks the name, makes the directory, adds the entry (or removes
the directory again); `RemovePool` looks the entry up, deletes it with a
constraint on the ID, removes the directory; `Rename` looks the entry up and
moves its key. The history variable `stale` records that
a rename moved a name whose entry was not the one it had looked up.

### LakeWriter

A behaviour is the life of one writer. For a `Writer`: `Write` (the context check,
append, threshold), `FlipBuffers` and `FlipClosed` (the two outcomes of the receive in
`flipBuffers`), `Close`, `CloseReturns` (`errgroup.Wait`, then the commit of
`Branch.Load`), and per goroutine `JobNew`, `JobSort`, `JobWrite`, `JobReturn` or, on
failure, `JobClose` and `JobFail` as separate steps, because the code closes the
channel before the errgroup cancels the context. For a `SortedWriter`:
`SortedWrite`, `SortedClose` and their failures, which end in `Abort`. A value is its
position in the input, so that `Complete` can say that the objects hold each value
once and in order. Any storage
operation may fail, up to `MaxFaults`, and all do once the context is done.

### LakeService

The lock `subscriptionsMu` is modelled as Go's: a writer announces itself
(`AnnounceLock`), from then on readers block, and it proceeds when the readers inside
are out (`LockedUpdate`). A publisher's goroutine is `RLock`, one `Send` per registered
channel in any order, `RUnlock`; an `/events` handler is `Subscribe`, the lock, a loop of
receives and `WriteEvent`, and after `Disconnect` `SeeDone` and the lock again. A query
is `StartQuery`, `PullReturns` in its goroutine, `ReceiveResult` or `Tick` in the handler
with `WriteBatch` and `WriteControl` after them, then `SignalDone`, `CloseWriter` and, ten
seconds later, `RemoveStatus`; a status request is `AskStatus` and `AnswerStatus`.

A batch given to the response's writer is in its buffer (`buffered`) until a write takes
it to the response (`sent`); `form` says whether the format buffers at all (bsup does) and
has control messages. `Flush` is bsup's: it returns nil even when the write failed, and the
buffer stays. `CloseWriter` flushes after `SignalDone` and drops the error, in the order
of the deferred calls. A client may go away (`Disconnect`) or stay and read no more
(`StopReading`); a write to the latter may fail or never return. The feed and the
queries share no state, and `Workloads` lists which requests arrive together.

### Flowgraph

A source, a Router with `N` routes, a leg per route, a fan-in, a consumer; `Graphs`
lists which are run. A batch is named by its platoon and its place in it. The Router
is `RouterBatch`, `RouterEOS`, `RouterDone`, and then one step per route: `RouterSend`
(the send meets the leg's `Pull(false)`), `RouterTakesDone` (it meets a
`Pull(true)`) or `RouterSkip`. `pPC[r]` is where the fan-in's goroutine of leg `r` stands,
the leg's own code included: in `Pull(false)`, in a head's `Pull(true)`, queued,
offering a result, in a `Pull(true)` of the fan-in, or waiting for the other legs. The
actions `Combine...`, `Merge...` and `Mux...` are the `Pull` of the three fan-ins.
`LegCancelled` is a goroutine that sees the context done, once the first `Pull` has started it. The
source may fail on a `Pull` or on the done that the Router passes on. History
variables: `fwd`, `got`, and `swallowed` (a done has met the error of a leg).

### OverScope

`OverPull` is the source and `Over`; `SendToken`, `SendBatch`, `SendEOS`, `ExitDone`,
`SubDone`, `SubDoneAcked` are the rendezvous of the Scope's goroutine with
`Scope.Pull` and `Exit.Pull`; `SubPull` and `SubReceives` are the subquery, which passes
its input on, filters it, is a head of one batch or doubles each; `Gather`, `Poll` and
`Finish` are `Exit.pullPlatoon`. The source may fail on a `Pull` or on the done of
`ExitDone`. History variables: `dropped`, `quits`, `cut`, and `stale`
(a `Pull(true)` left the token of an EOS behind).

### BsupScanner

`ReadTypes`, `ReadEOS` and `ReadFrame` are `parser.read`; the parser goroutine takes a
worker, queues the result channel, and gives the frame, one step each, so that a
cancellation can come between any two; a worker decompresses, then decodes with the
`Decoder` that came with its frame, while that may still grow. `Pull`, `Pull(true)` with its
drain, and the error paths are the caller's steps. `Files` gives the inputs by what
their frames do (a batch, nothing that passes the filter, a bad value, a bad block, a
control message, the end of a stream), so that `Gives(i)` can say what frame `i` yields
whoever decodes it, and `Follows` which result may come after which: the frames in between
give nothing. An ID that its stream defines only later is an error, but in the threaded
scanner its worker may look it up after the parser has entered the type; `Gives` allows
both. One thread selects `scannerSync`. Progress counters are left out.

## 3. Runs

Bounds are named constants (`Max...`). `SnapGap` is 1 instead of 10 so that
snapshots are written and used within a journal of a few entries; `MaxRetries`
and `MaxTries` are 2 instead of 10 so that both a retry and giving up occur;
`IDModulus` is 256 instead of 2^64 (any value above the journal's length wraps
around in the same way). `Pairs` says which clients of a journal work together: in
`journal_store` two goroutines that share a Store in some behaviours, and those of two
processes in the others, so that the shared cache and the shared files are both met.

| Run | Instance | Shows |
| --- | --- | --- |
| `journal_store` | 2 goroutines of one process, or 2 processes, insert/update/delete/move, 3 updates and entries, 1 crash | `Serializable`, `IndInv` (the inductive invariant of the proofs), `JournalGrows`, `ReadsSeeAcked`, `ImplementsKV` (the refinement of `KVStore`) |
| `journal_processes` | 2 processes, snapshots of several frames, 3 updates and entries, 1 crash | `JournalDense`, even if snapshots are read half-written, and, under fairness, `OperationsReturn` |
| `lake_rows` | 2 clients, one branch, all operations on rows, vacuum, failing updates, 4 objects, 4 commits, 1 crash | `TipReadable`, `NoDuplicateRows`, `TipDataPresent`, `LakeInv` (the inductive invariant of the proofs), `EffectAtTip` |
| `lake_tree` | 2 clients, 2 branches created and removed, loads, deletes, reverts, merges in both directions, 4 commits | `HistoryKept`, `NoLostCommit`, `MergeReflectsChild` |
| `snapshot_cache` | 2 processes, 3 commits, both kinds of engine, 1 crash | `ServedExact` on an object store, `ServedSound` on both |
| `pools` | 3 clients, 2 names, 4 pools, 2 renames, 1 crash | `ListedPoolsExist`, `PoolsKept` |
| `lake_writer` | 6 values, 2 per buffer; 3 keys; 2 storage failures and a cancellation | `BuffersDisjoint`, `LoadComplete`, `CompactComplete`, `WriterEnds` |
| `service` | 2 subscribers that come and go and 2 events, or a query of up to 3 batches, buffered or not, with a status request; clients that leave or stop reading | `EventsArriveOrWedge`, `WedgeStalls`, `StatusTruthful`, `QueriesEnd` |
| `flowgraph` | 2 legs, one of them a head or none; combine over 2 platoons of 2 batches, with fork and switch; combine, merge and mux of one platoon with a failure and cancellation | `PlatoonsAligned`, `NothingMissed`, `PullsReturn`, `GoroutinesEnd` |
| `over_scope` | 3 outer values, four kinds of subquery; one platoon with dones and failures, two platoons without; cancellation | `InOuterOrder`, `EachOuterValue`, `ErrorBeforeEOS`, `PullsReturn`, `ScopeEnds` |
| `bsup_scanner` | synchronous and 2 workers, 8 files of up to 5 frames, done and cancellation | `InFileOrder`, `NotReadAfterDone`, `PullsReturn`, `GoroutinesExit` |

`TypeOK` is a conjunct of one of these in each module that has it: `IndInv`,
`NoDuplicateRows`, `BuffersDisjoint`, `StatusTruthful`, `PlatoonsAligned`, `InOuterOrder`,
`InFileOrder`.

Why these bounds are enough to be of interest: two writers are what it takes for
a conflict, and with two attempts a writer can lose once and win or lose again;
three journal entries with `SnapGap` 1 let a snapshot be written, used, replaced
and read by a process that is two positions behind, and let a commit follow a
half-written one; three or four data objects
allow a load, a compaction of two objects and a concurrent deletion or rewrite of
one of them; two branches and four commits allow a merge after commits on both sides or a commit after
it (a second merge takes five: see Variations). Three flips of a `Writer` reuse the first buffer; two subscribers and a
publisher are what the event feed needs for one to leave while the other is being
sent to; two legs let one be at its end while the other is not, and two platoons show a
leg that is one ahead; two workers can finish in either order, and five frames fit two
streams that give one type ID different meanings. Runs with `CHECK_DEADLOCK FALSE` stop
when their bounds on operations are used up or their query is over; in the journal runs
reads never end, so that a state without a successor would be a real deadlock. That the
goroutines of the other modules do not block each other is what their liveness
properties say.

Some properties are restricted on purpose. `lake_rows` has one branch and no
revert: vacuum spares only what the commit it is given refers to, and the
documentation makes it a "DANGER ZONE" command that removes deleted objects for
good, so that a revert or another branch may miss them; that tips stay readable after
reverts is proved (`TipsAreReadable`). `MergeReflectsChild`
leaves out merges where the parent has deleted, since the common ancestor, an object that
the child added or deleted. The comments of `Diff` call both conflicts; the run
`lake_merge_delete` is about the second, `MergeKeepsDeletes` in Variations about the first. `ListedPoolsExist` and
`PoolsKept` stop claiming anything once `stale` is set (see Variations). In the
runtime and service models the exceptions are what the code does at a known line:

* `EventsArriveOrWedge`: a publisher holds the read lock while it sends to a subscriber
  that waits for the write lock because its client is gone (`service/core.go:233-237`,
  `service/handlers.go`). `WedgeStalls` shows that this never resolves: from then on
  nobody can subscribe or leave, and every later event is stuck. `Stuck`: it sends to a
  subscriber that never comes back from a write to a client which is connected and does not
  read; the server sets no write timeout (`pkg/httpd/server.go:26`);
* `ReadsSeeAcked`: a load that read an older `HEAD` before the read began, in the same
  process, may put its table back (`lake/journal/store.go:114`); `low` is what remains due;
* `StatusTruthful`: a batch may still be in the writer's buffer when the status is answered,
  and be lost if closing the writer fails (`service/handlers.go:77-82`);
* `QueriesEnd`: a query whose client is connected and never reads again may not end, and the goroutine of a query whose handler gave up after a write error is left
  sending (`service/handlers.go:91`);
* `Flowgraph` (`swallowed`): a leg that holds an error has a nil batch, so that combine's
  done takes it for one at its EOS (`combine/combine.go:201`) and its route is never told;
* `OverScope!PullsReturn` (`stale`): `Pull(true)` that finds a gathered platoon returns
  without the token of the source's EOS (`traverse/scope.go:229`), and the next EOS of
  the source waits for room in the channel;
* `ErrorBeforeEOS`: once the subquery has filtered a batch away (`cut`), Exit may take the
  token of the source's error for that of an EOS (`traverse/scope.go:233`);
* `BsupScanner!PullsReturn`: once the owner has cancelled the context, a Pull may receive a
  nil channel from the closed queue and wait on it (`scanner.go:81-82`); `InFileOrder`
  allows the synchronous scanner to read on after an error (`sync.go:65`).

### A run that shows a disagreement

`lake_merge_delete` finds `TipReadable` violated: two branches have deleted the same
object of their ancestor, the merge deletes it again, and the parent's tip has no
snapshot any more. Comments in `lake/branch.go` and `lake/commits/patch.go` say that this is
found out before the commit; `PROJECT.json` quotes them.

### Variations

The constants and the guards of the properties name what the code depends on.
Changing one of them, in the configuration or in the property, makes TLC show
what happens without it:

* `low` set to `acked` in `BeginRead`: `ReadsSeeAcked` is violated with two goroutines of
  one process, and holds with `Pairs = {{c1, c3}}`, one per process. Two loads overlap, the slower one stores its older table over the
  newer one (`lake/journal/store.go:114`), and a read that compares positions in
  between returns it. `Serializable` still holds: a commit that was checked on the
  older table can not create its entry;
* a snapshot of several frames (`SnapFits = FALSE`, with 4 updates and entries): `Serializable` is violated. The
  reader of a half-written `snap.bsup` takes it for a whole one
  (`lake/journal/store.go:179`);
* a delete that names an ID twice (kind `"duplicates"`): `TipReadable` is violated.
  The first delete of the object plays, the second does not, and the commit has
  been published by then (`lake/branch.go:115`);
* `ServedExact` without its guard on `engine`: violated on a file system, because an
  empty snapshot file reads as an empty snapshot (`lake/commits/snapshot.go:167`,
  `pkg/storage/file.go:41`);
* `PoolsKept` without `stale`: violated. A rename moves a pool that has taken the old
  name since it was looked up (`lake/pools/store.go:91`);
* `HeadCatchesUp` as a property of `journal_processes` (`MaxLog = 2`, `MaxOps = 2` are
  enough): violated. After a crash between creating an entry and writing `HEAD`
  nobody probes `HEAD+1`, although `docs/lake/format.md:192-195` says so, and no commit
  succeeds any more (`lake/journal/queue.go:132`). With `MaxCrashes = 0` it holds;
* `ReplaySucceeds` (`OnePerProcess`, `AllKinds`, `SnapFits = TRUE`, `MaxLog = 4`, `MaxOps = 4`, no crash):
  violated. A snapshot newer than the `HEAD` that a load has read makes `head-at` wrap
  around, the newer table is stored under the older position, and a later load fails on
  its own table (`lake/journal/store.go:120`);
* `MergeKeepsDeletes` (one client, `MergeKinds`, `ThreeObjs`, `MaxObjs = 3`, 5 commits): violated. `Diff`
  collects the deleted objects from the child where its comment speaks of the parent
  (`lake/commits/patch.go:155-159`); a second merge adds back what the parent deleted;
* `lake_tree` with `MergeKinds`, `ThreeObjs`, 5 commits and a crash: `NoLostCommit` and
  `MergeReflectsChild` hold there too;
* `RespondsAfterExit` in `service`: violated. `docs/lake/api.md:444-445` says that a status
  request "only responds after the query has exited"; the deferred `status.Done` comes before
  `writer.Close` (`service/handlers.go:77-82`), so that what is still buffered is written after
  the answer, or lost without a trace in the status;
* `EventsArriveOrWedge` without `<>[]Stuck` and `QueriesEnd` without `<>[]Blocked(q)`: violated
  by a client that stays connected and stops reading;
* `SourceErrorSeen` with `Graphs <- FailingSource`: violated. `Router.sendEOS` gets the
  error of its parent and sends an empty result (`router.go:110`), so that the consumer of
  a fork sees a plain end of stream;
* `Graphs <- MergePlatoons`: `PullsReturn` is violated. A merge's goroutine pulls past the
  EOS of its leg (`merge/merge.go:213`), so that one leg asks for the next platoon while
  another is still in this one. With three platoons and a switch `PlatoonsAligned` and
  `NothingMissed` are violated too: after a done, the consumer gets a batch of the third
  platoon in its second one;
* `Graphs <- Nested` with `MaxVals = 1`: `EachOuterValue` is violated. A done that reaches
  the Scope while it sends the source's EOS goes on to the source (`traverse/scope.go:127-138`),
  which is in its next platoon by then; the outer values of that platoon are lost.
  `docs/language/lateral-subqueries.md:106` says that the query is evaluated once per outer
  value, line 20 that queries nest to arbitrary depth;
* a file with a frame that refers to a type defined after it: if `Gives` leaves out
  `TypesAfter`, `InFileOrder` is violated, because the `Decoder` may have grown when the
  worker looks the type up. The encoder writes no such file.

### Fairness

`JournalStore!FairSpec` assumes weak fairness of each client's steps inside an
operation (a goroutine is scheduled, a system call ends, the mutex is granted:
each critical section is one step of the model) and of beginning a read (clients
keep using the lake). It assumes nothing about updates or crashes.

`LakeService`, `LakeWriter`, `Flowgraph`, `OverScope` and `BsupScanner` assume weak fairness
of the goroutines and of the calls in progress: the Go scheduler runs what can run,
channels and locks are handed over in order of arrival, storage operations and
compiled operators return. (`PairsSpec` of `MCJournalStore` is `FairSpec` for the clients at
work.) Nothing is assumed of clients, of cancellation, of a
disconnect or of failures: in `LakeService` a write returns only if its client reads or is
gone (`~Blocked`), and strong fairness of `ReceiveResult` says that a select which finds a result
ready again and again between two ticks takes it. Only the consumer of `Flowgraph` pulls on to its EOS, as the
code that runs a query does, and the caller of `LakeWriter` comes to the end of its input.
`OverScope` has strong fairness of `ScopeCancelled`: a select with several ready cases picks
one at random, so that a goroutine which comes back to a select with a cancelled
context leaves in the end. `LakeBranch`, `SnapshotCache` and `LakePools` have no liveness
property.

## 4. Proofs

`JournalStoreProofs` proves, for every set of clients, processes, keys, values
and operations and every bound:

* `JournalInvariant`: `Spec => []IndInv`;
* `TypeCorrect`, `JournalIsDense`: `TypeOK` and `JournalDense`;
* `JournalSerializable`: `SnapFits /\ Spec => []Serializable`;
* `JournalOnlyGrows`: `Spec => JournalGrows`;
* `JournalRefinesKV`: `SnapFits /\ Spec => ImplementsKV`;
* `ReadsAreCurrent`: `SnapFits /\ Spec => ReadsSeeAcked`.

The assumptions are those on constants in `JournalStore` and `StoreOps`: clients
belong to processes, bounds are natural numbers, operations are well formed.
`SnapFits` is needed where it is stated: without it TLC finds a counterexample
(see Variations).

Why `Serializable` is not inductive: a commit checks its condition on the
process's cached table, which is neither the table at `HEAD` nor even the table
of any one position: a load can combine a snapshot of a later position with the
`HEAD` it read before, and a slow load can put an older table back. The idea of
the invariant is `NotOlder`: a table labelled with position `m` holds for each
key a value that the key had at `m` or later. Replaying entries keeps this, and
so does re-labelling a newer table with an older position. A table
labelled with the end of the journal is therefore exactly the table at the end;
and a commit can only succeed if the position it was checked at is the end,
because the exclusive create of the next entry fails otherwise. `IndInv`
states this for the caches, the snapshot file and every load in progress
(`CachesNotOlder`, `LoadInv`), for pending commits (`PutInv`), and adds the facts
on the files: at most one client is between creating its entry and writing
`HEAD` (`WriterInv`), every remembered position was read from `HEAD`
(`PositionInv`), and `tables` is the replay of the entries (`ChainInv`).

What a read returns depends on the loads around it. `ReadInv` (checked with TLC, then proved
on top of `IndInv`) says of a read that has passed the comparison of positions that the table in
its Store is not older than `low`, and that neither is what any load under way in its
process will put there: such a load either was counted in `low` when the read began, or
read `HEAD` later, when it covered `acked`.

The refinement maps the abstract table to `tables[head.id]`. Every `WriteHead`
is one abstract commit, every other step a stutter.

`LakeBranchProofs` proves, for every set of clients, branches, data objects and
operations and every bound on retries, commits and crashes:

* `LakeInvariant`: `Spec => []LakeInv`;
* `HistoryIsKept`: `Spec => []HistoryKept`, no commit object that was ever on a
  branch is removed;
* `CommitsAreKept`: `Spec => []NoLostCommit`, an acknowledged commit stays on the
  path of its branch;
* `TipsAreReadable`: `PlainKinds /\ Spec => []TipReadable`, the tip of a branch always
  has a snapshot;
* `TypesAreKept`: `PlainKinds /\ Spec => []TypeOK`;
* `RowsAreUnique`, `EffectsAreExact`: `RowKindsOnly /\ Spec` implies `[]NoDuplicateRows`
  and `EffectAtTip`, no row is in two objects of a tip, and a commit changes the rows of
  its branch by what the operation was asked to do, relative to the tip it lands on;
* `TipDataIsPresent`: `DataKinds /\ Spec => []TipDataPresent`, the data files of a tip
  exist.

Why they are not inductive: a commit object is removed again when its branch
update fails, by a client that knows only its ID. That this is never the object
of somebody else, or one that has been published after all, takes two facts on
every pending commit (`PendingInv`): it is referred to by one client and it is not
published. A published commit has a published parent (`PublishedInv`), so that
moving a pointer from a tip to its child keeps every path, and
`NoLostCommit` with it; these and the types form `HistoryInv`, which needs no
assumption on the operations. For `TipReadable` the invariant says that each commit
plays on the snapshot of its parent (`Readable`), that a pending commit's parent is
the tip it was computed from, which is the tip the conditional update then
compares with, that requests in progress are those of plain operations
(`RequestInv`), and that an object still to be added is in no snapshot
(`UnsharedInv`); they form `SnapshotInv`. `LakeInv` claims `SnapshotInv` if
`PlainKinds` holds: no merges and no deletes with duplicate IDs. Both exceptions are real: see
`lake_merge_delete` and Variations.

The rows of a tip depend on what is not published yet. `RowsInv` says of a request in
progress that the object of a load holds a row that no other object holds, and that of a
compaction the rows of the objects it replaces (`Written`); of every snapshot, published or
pending, that its objects share no row (`Disjoint`); and of a pending commit that its rows
are `RowsAfter` the request, relative to its parent. When the commit is published its parent
is the tip, which turns the last one into `EffectAtTip`. `RowKindsOnly` leaves out
reverts as well as merges: a revert of a delete may bring back an object whose rows a compaction
has copied since.

Files are deleted by an operation that aborts and by vacuum. The former deletes what
its request added, which by `UnsharedInv` is in no snapshot. Vacuum deletes what some commit of the
path added and the snapshot of the commit it is given does not have; that none of it is in a later tip
is `Gone`: an object that has left the path does not come back on top of it. `DataInv` says that the
files of every commit `InUse` exist, and that those of a pending commit do if its parent
is still in use, because otherwise its update fails. `DataKinds` says
what the code relies on: vacuum knows only the branch it is called on, and a revert may
need what it deleted, so that a pool with vacuum has one branch and no reverts. Without
vacuum, branches and reverts are covered.

`SnapshotCacheProofs` proves `SnapshotsAreExact` (`Spec => []ServedExact`) and
`SnapshotsAreSound` (`Spec => []ServedSound`), for any clients, processes, engines and
length of the path. `SnapshotInv` says of whatever is stored, in a file or in a cache, of
what a call has played so far, relative to the commit it has come to, and of what it
returned, that it is `Sound`: the snapshot of its commit on an object store, and
without foreign objects on a file system. Playing the next commit keeps this because a commit
deletes objects added before it (`DepthAssumption`), so that a snapshot with less in it
can make a call fail and not show too much.

`LakeServiceProofs` has the theorems about `LakePools` as well as its own (below; the two
modules share no names): `ListedPoolsHaveDirectories` and `CreatedPoolsAreKept`
(`PoolsSpec => []ListedPoolsExist`, `PoolsSpec => []PoolsKept`). `PoolInv` adds that IDs are fresh:
a pool being created is not listed and nobody else works on its ID (`CreatingInv`), so that
a create that fails removes a directory of its own; and that a remove gets to the
directory only once the pool is not listed (`WorkingInv`). After a `stale` rename it
claims only types.

`LakeWriterProofs` proves `DoubleBufferingIsSafe`, `LoadsAreComplete` and
`CompactionsAreComplete` (`BuffersDisjoint`, `LoadComplete`, `CompactComplete`) for any number of
values, thresholds, keys and failures. `WriterInv` says that all goroutines but the last have ended and that
the two buffers are divided between the caller, the channel and that goroutine
(`JobsInv`); that a failure has closed the channel before anybody can be told it went
well (`CallerInv`); and, as long as nothing has failed, where the values are: the first ones in
finished objects, the next ones in the buffer being written, the last ones in the one
being filled (`ValuesInv`). `SortedInv` is the same for the objects of a
`SortedWriter`, whose keys arrive in order.

`LakeServiceProofs` proves `AnswersAreTruthful` (`Spec => []StatusTruthful`) and
`WedgesStall` (`Spec => WedgeStalls`), for any queries, status requests and publishers and any finite set
of subscribers. `ServiceInv` follows a batch from the goroutine to the handler, the buffer and the
response: until the handler meets an error each batch is in one of them (`QueryInv`), because a
flush that fails keeps the buffer; a status request is answered once the query is done
(`StatusInv`).

`FlowgraphProofs` proves, for any number of routes, any graphs in which a source of
several platoons is read by a combine, and any bounds on platoons, batches and errors:

* `FlowInvHolds`: `PlatoonsCombined /\ Spec => []FlowInv`;
* `PlatoonsAreAligned`: `PlatoonsCombined /\ Spec => []PlatoonsAligned`;
* `NothingIsMissed`: `PlatoonsCombined /\ Spec => []NothingMissed`.

The hypothesis `PlatoonsCombined` leaves out a merge over a source of several platoons, for which TLC
violates both properties (`MergePlatoons` of Variations). What a consumer gets depends on how far
Router, leg and fan-in have come, each in a platoon of its own reckoning. `LockstepInv` ties them: a leg
and its route are in the same platoon, or the route is one ahead because the Router
has ended the leg's (`Resolved`), by an EOS on its way or by a done that it has taken. For a combine
the platoon of a leg changes when `unwait` receives its token, and `WaitInv` says that
blocked legs are the waiting ones and that `unwait` waits for no more tokens than there are, by
counting sets of routes. Then what a leg holds is of its platoon (`HoldingInv`), and so of the consumer's. For
`NothingMissed`, `AccountInv` says of a leg that is still owed to the consumer that each
batch forwarded to it is delivered, held, offered, or later than the one that a head wants
(`Accounted`), and that once its platoon has ended the Router gives it no more (`NoMore`).
`HeadInv` is needed there because a head's done may block its route while the Router is
still offering it the next batch. When the fan-in takes the EOS of a leg, the leg
holds nothing, and the account says that all has been delivered (`FinishedInv`).
`CallInv`, `RouterInv` and `LegInv` say which positions of the parties go together. TLC
checked each part on combine, merge and mux, fork and switch, with heads and failures.

`OverScopeProofs` proves, for any number of platoons and of outer values:

* `OuterOrderIsKept`: `NoNestedDones /\ Spec => []InOuterOrder`;
* `EachOuterValueRuns`: `NoNestedDones /\ Spec => []EachOuterValue`;
* `ErrorsComeFirst`: `NoNestedDones /\ OneFailingPlatoon /\ Spec => []ErrorBeforeEOS`.

The Exit sees only EOS and has to tell an inner one from the source's by whether a
token is in the channel when it looks. That this works rests on where the three parties can
stand at the same time. `SyncInv` says how far the source is ahead of the caller: by the
ends of platoons that are on their way, at most one as a result that waits for room and
one as a token. `SubInv` says that while the output of a batch is being gathered the Scope offers
the EOS after that batch and no token is there, and `DoneInv` that a done which the Scope has taken
has ended the source. With these, a batch that the Scope can hand over is of the caller's
platoon and finds nothing in between (`AtSend`). `OrderInv` then puts everything
delivered, gathered and kept in one order behind the Scope; `ConserveInv` says that, as
long as the end of a platoon can still arrive, what is due for its outer values
is delivered, held by Exit and subquery or offered by the Scope, so that nothing is
missing when Exit takes the token with empty hands; `ErrorInv` that the Scope has the error
until Exit gets it, as long as nothing was filtered away and no done was said. `NoNestedDones` says that a source with several
platoons, which is an outer Scope, gets no dones: the other case is the counterexample `Nested`
of Variations. `OneFailingPlatoon` says that a source that fails has one platoon, because
`ErrorBeforeEOS` speaks of the first.

`BsupScannerProofs` proves, for any set of files and of thread counts:

* `IInvHolds`: `Spec => []IInv`;
* `InFileOrderHolds`: `Spec => []InFileOrder`, which includes the types of the state;
* `NotReadAfterDoneHolds`: `Spec => NotReadAfterDone`.

The assumptions are `FilesAssumption` and `ThreadsAssumption`: files are sequences of
frames, and there is at least one thread. `InFileOrder` speaks of results that the caller has,
and they depend on what is in the channels and with the workers. `QueueInv` says
that the frame the caller waits for, the queued ones and the one in the parser's hands come in
this order in the file, all after the last result, and that every frame read since then is one
of them, gives nothing, or is the one at which a cancelled parser gave up (`Abandoned`).
`ResInv` says that a result channel holds what its frame gives, or was closed by that parser.
That a worker's result is what its frame gives needs the Decoders: the one in use holds exactly the types
of the stream read so far, each at its ID (`DecoderInv`), and the one a worker has holds
all types of its frame's stream up to that frame and none of another stream (`Decodes` in
`WorkInv`), although the parser may still be adding to it. This is what a new
Decoder per stream, instead of an emptied one, is for. `EndInv` says how the scan can have ended
and that the parser has exited once a done has returned, which is all that
`NotReadAfterDone` takes. Order is stated by the place of a result's frame, not by a fold over the
file, so that no induction over the file is needed.

The proof corrected the property: an earlier form said that an ID which is not
defined before its frame is always an error. In the threaded scanner it is not: the frame may
wait for its worker while the parser reads on and enters the type.

The inductive invariants `ReadInv`, `PoolInv`, `ServiceInv`, `SnapshotInv`, `WriterInv`, `RowsInv`,
`DataInv`, `IInv`, `FlowInv` and those of `OverScope` were checked with TLC before they were proved; only
`IndInv` and `LakeInv` are invariants of a run, since the theorems say the rest.

Only model-checked:

* liveness: fairness and `ENABLED` are outside the prover's reach;
* everything about merges, `MergeReflectsChild` and the types of a merge included:
  `PatchOfPath` is a recursive function, and what it yields takes an induction over a path
  that the installed provers do not have.

## 5. Not modelled, and plan

Not modelled, and why:

* the compiler (`compiler`, `zfmt`), most of it a generated parser, and the value and type
  system (`sup`, `zcode`, `type.go`): functions of their input over a space of syntax
  trees and values that TLC can not enumerate, without state that outlives a call.
  `super.Context` interns types under one mutex held for the whole call;
* the vector runtime (`runtime/vam`, `vector`, `csup`), half of it generated code, and the
  other sequential operators and expressions: transformations of data by one goroutine.
  `uniq` and `top` may answer `Pull(true)` with a batch (`uniq/uniq.go:78`, `top/top.go:54`),
  which `zbuf/batch.go:50-51` rules out; `Flowgraph`'s legs keep that contract;
* formats other than Super Binary, and the bytes of a frame: parsing and formatting. A file that
  is cut off right after a frame's code, or after the header of one that is not compressed, ends
  without an error (`zio/bsupio/scanner.go:125`): to `BsupScanner` it is a file without that frame;
* the values inside batches: where legs of a merge overlap, its `Pull` takes values from several
  batches and replenishes more than one leg (`merge/merge.go:88-117`); `MergeNext` returns whole
  batches, which passes through the same states with a return in between;
* a `Pull(true)` before any `Pull(false)`: `Exit.Pull` would wait for a goroutine that is not started
  yet (`traverse/scope.go:194`), but every operator pulls before it says done;
* the choice of a commit for `CreateBranch`, which the code does not validate: `LakeBranch` takes
  one that is or was on a branch, or none;
* lake management: its commits are those of `LakeBranch` in some order, and which objects
  it picks affects performance only. Its scan checks for a nil object before it checks the
  error (`cmd/super/internal/lakemanage/scan.go:45`), so that an error ends a scan like its
  end would;
* the fallback of `CommitAt` for engines without `PutIfNotExists` (`lake/journal/queue.go:116`),
  which the code itself calls incorrect, and an update of remote storage that takes
  effect although it reports an error;
* `mirror`, reference counts of batches, progress counters, authentication, request
  parsing, commands, clients, tests.

Next: `mirror` and the reference counts of batches (`zbuf/batch.go`), which `Flowgraph` and
`OverScope` take for granted.
