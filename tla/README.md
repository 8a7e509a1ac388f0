# TLA+ models of the Substreams foundational store

The foundational store consumes the output of a Substreams, block by block, keeps
it in a key-value database, and answers "what is the value of this key at this
block" over gRPC. Blocks may be undone until they are irreversible, the process may
stop at any moment, and reads run beside all of it. In a second mode, `remote-feed`,
services push final entries over gRPC instead. These modules model both modes, from
the bytes of composite keys to the exit status of the process, and check, and partly
prove, what readers and the disk may hold.

Line numbers below are those of the repository; paths are relative to `src/`.

## 1. The system

| Component | State | Operations | Works with |
|---|---|---|---|
| Fork-aware store, `store/ForkAware/store.go` | `cache` (key -> entry, block number), `flushUpToBlock`, `mu` | `SetAll`, `Get`, `GetFirst`, `FlushUpToBlock`, `EvictUpToBlock` | called by the sinker and by gRPC handlers; wraps a backend |
| Sinker, `sink/sinker.go` | `cursorHistory`, `headBlock` | `HandleBlockScopedData`, `HandleBlockUndoSignal`, `HeadBlock` | called back by the Substreams sink library; drives the store; `headBlock` is read by gRPC handlers |
| Cursor file, `sink/cursor.go` | one file | save, load | written by the sinker, read when the process starts |
| Badger, latest value, `store/badger` | one (block, value) per key | `SetAll`, `Get`, `GetFirst` | wrapped by the fork-aware store; used directly by remote-feed |
| Badger, time traversal, `store/badger_time_traversal` | one value per (key, block) | the same | wrapped by the fork-aware store |
| Postgres stores, `store/postgres*` | tables | the same | wrapped by the fork-aware store |
| Readiness flag, `store/badger/ready.go` | a reserved key on disk, an atomic in memory | `SetReady`, `IsReady` | written by the feed service, read by the gRPC gate |
| Feed service, `grpc/feed` | none | `Set`, `SetReady` | called concurrently by external services |
| Read services v2 and v1, `grpc/server.go`, `grpc/legacy` | none | `Get`, `GetFirst`, v1 `Get`, `GetAll` | gate on `headBlock` (and, v2 only, on readiness), then read the store |
| gRPC server, `grpc/server.go` | its listeners, one shutter | `newServer`, `Launch`, `Shutdown` | one or two dgrpc servers that share handlers and shutter |
| Authentication, `grpc/auth.go`, `cmd/foundational-store/auth.go` | a configuration for each listener | interceptors | in front of every call |
| Process, `cmd/foundational-store/server.go`, `remote_feed.go` | what it wires | start, supervision, shutdown, exit | loads the cursor, builds the store, runs sinker and server |
| Messages, `pb/` | | | what the services receive and answer |
| DSN parsing, CLI client, store-manager ping | none that matters here | | |

What is hard about it:

* **Forks against numbers.** The cache and the database know block numbers, not
  branches. Undo, eviction and the gate all compare numbers, and it is the order of
  the handler's steps that keeps orphaned entries away from readers and the disk.
* **Two kinds of memory.** What is not final lives in memory only. After a crash it
  must come back by replay, and where the replay starts is decided by a cursor that
  is saved by the same handler, from a history it prunes itself.
* **Replays over a database that is ahead.** Flushes stamp entries with the LIB, so
  a replay meets its own entries under other numbers and, with `IfNotExist`, skips.
* **Failures in the middle.** `FlushUpToBlock` moves `flushUpToBlock` before the
  write, a batch may be committed in part, saving an undo cursor may fail silently.
* **Concurrent gRPC calls** without locks in remote-feed mode: batches that look up and
  write in separate transactions, reads that use one transaction for each key.
* **Composite keys.** Everything the time traversal store answers rests on how bytes
  sort, with keys that extend other keys between the two ends of a range.
* **Ends that race.** The stream, two listeners and a signal may each end the process.

## 2. Modules

    Chain  tree of blocks (external)         OverlayStore  what the cache promises
      |                                          ^
      |     Backend  versions of keys            | implements
      |        |  \                              |
      |        |   ForkAwareStore  cache --------+
      |        |        |
      +--------|----- Sinker  sink, cursor file, store
               |        |
               |        +-- Serving  requests beside the sinker
               |
               |     Messages
               |        |
               +---- RemoteFeed  feed over the latest-value store
               |        |
               |        +-- FeedServing  requests beside the feed
               |
               +---- TimeTravelKeys  composite keys as bytes
                        |
                     PostgresStore        Process  flags, listeners, shutdown, exit

`Sinker_proofs`, `SinkerReads_proofs`, `Serving_proofs`, `RemoteFeed_proofs`,
`FeedServing_proofs`, `ForkAwareStore_proofs`, `TimeTravelKeys_proofs` and
`Process_proofs` hold the theorems.

**Chain.** The repository never builds the block tree, but it is what makes an answer
right or wrong. `Anc[b]` holds the ancestors of `b`, `Num[b]` its number; numbers may
have gaps. `ChainAssumption` is all the proofs know.

**Backend.** A database is a set of versions `[key, block, val]`. `TimeTraversal`
selects the store: with it a put replaces the version of the same key and block,
without it the single version of the key. `WrappedGet`, `WrappedGetFirst`, `Exists`
and `WrappedSetAll` follow the getters and setters of the two badger packages,
including that the existence test of the time traversal store is a prefix scan
(`Extensions`) and that its `GetFirst` ignores the requested block and, for a key
without versions, lands on a key that extends it (`Oldest`). `PartialSetAll` is a
batch that ended early.

**ForkAwareStore.** One action per operation, because each holds `mu`; a failing
operation has its own action. `Reopen` is a new process: the cache starts empty.
`Spec` drives the store with every caller that never goes below the last flush, which
is what `FlushBehind` shows of the sinker. `ImplementsOverlay` maps it to
**OverlayStore**, which has a visible and a final value for each key and three steps:
write, finalize (changes nothing visible), undo (falls back to what is final).

**Sinker.** `pc` holds the step a handler is at.

| Code | Action |
|---|---|
| `HandleBlockScopedData`, 50-57: record the cursor, look for output | `DeliverBlock` |
| 79 `SetAll` | `StoreSet` |
| 83 `FlushUpToBlock(lib, IfNotExist)` | `StoreFlush` |
| 89-97 cursor of the LIB, or the current one; save it | `SaveCursor` (`LibCursor`) |
| 99-107 prune the history, publish the head | `Finish` |
| `HandleBlockUndoSignal`, 111-113 lower the head | `DeliverUndo` |
| 115 `EvictUpToBlock` | `StoreEvict` |
| 119-123 save the cursor, only warn on failure | `SaveUndoCursor` |
| error returns at 62-97, then `sinker.Shutdown` and exit | `HandlerFails` |
| process killed, also inside the write of a batch | `Crash` |
| `server.go` 80-154: stores, cursor, `NewSinker` | `Restart` |

A block is delivered when it extends the current one; its LIB is any ancestor that
`LibOf` allows and never moves back. A cursor names its block, its LIB and the number of
the head of the chain when it was made (`HeadOf`), which is the block itself in a stream
that is caught up, and ahead of it in one that catches up or sends final blocks only.
The handlers publish the number of the block they processed; a restarted sinker starts
from the head in its cursor (`sinker.go:36`), and so does `Restart`. An undo goes to an ancestor from which another
branch leaves, never below the LIB. The value a block writes is its own id, so a read
tells where its answer comes from. `final` remembers the last block ever announced as
irreversible, across restarts, and is read by no action of the code.

**Serving.** Sinker with read requests of the `serve` command beside it. `Ask` is the
gate of a handler (`headBlock` against the number of the request); `Get` and
`GetFirst` of v2 and `Get` and `GetAll` of v1 are `Ask` with their operation and keys.
`Respond` is the read and the answer. `SinkerStep` is any step of Sinker in between.
A request may read at any moment, so `Found`, what it would find, is looked at in
every state. A request names a block: its number is what the code uses, its id is the
`block_hash` no code looks at. `seen` remembers the blocks the sinker stood on since
the gate and is read by no action.

**Messages.** The messages of both services as sets of records, with the field names of
the code. `block_hash` is left out here, as no handler reads it.

**RemoteFeed.** Each client has at most one call in progress. `Set` is the batch taken
in, then one `CheckKey` for each entry, then `Flush`; `CommitPart` is a write batch
that outgrows a transaction. `SetReady` is `Persist`, then `Cache`. `Restart` loses
the calls and reads the flag back from disk.

**FeedServing.** RemoteFeed with the read services of the same listener beside it.

| Code | Action |
|---|---|
| `grpc/server.go` 76-86, 113-123: readiness, head block | `Get`, `GetFirst` (`Handle`) |
| `grpc/legacy/server.go` 33-37, 82-87: head block only | `LegacyGet`, `LegacyGetAll` |
| `badger/getter.go` 29: a goroutine takes a place of the semaphore | `Acquire` |
| 32-64: one key in one transaction | `ReadKey`, `ReadKeyFails` |
| 74-82, then the handler's answer or error | `Respond` |
| the feed's `Set` and `SetReady` | `SetReturns`, `SetReadyStarts`, `SetReadyReturns`, `FeedStep` |
| process killed and started again | `ServerRestart` |

`promised`, `since`, `believed` and `acked` record what clients were told and are read
by no action.

**TimeTravelKeys.** The time traversal store on bytes: a database is a map from byte
sequences, `makeTimeTraversalKey` appends the reversed block number, `Seek` and
`SeekReverse` land where iterators of badger land, and `Get`, `GetFirst`, `Exists`,
`Store` follow the code with its bounds. `Store` is the loop over a batch: `Admitted`
are the entries that pass the scan, `Written` puts them into the database one after the
other, so that the last entry of a key wins; in a `SetAllFails` any part of the admitted
entries may have been committed. `Radix` and `Width` are 256 and 8 in the code.
`Versions` reads the database back as Backend's versions, so that Backend's
definitions are the reference for the bytes. `Extensions` and `Rank`, constants
elsewhere, are derived here: `Rank` is the order of the versions in the database, in
which an extension comes before what it extends.

**PostgresStore.** The answers that `Get` of `postgres_time_traversal` may give over a
table. The other calls of the two stores are not modelled (see below).

**Process.** Both commands, from flags to exit status. A shutter is
`open`, `shut` or `terminated` and keeps the error of its first `Shutdown`.

| Code | Action |
|---|---|
| `cmd/.../server.go` 74-188, `remote_feed.go` 62-77 | `BuildStore` |
| 190-209, `remote_feed.go` 79-99 | `StartServer` |
| error returns of either | `StartFails` |
| `grpc/server.go` 157-214: `newServer`, `Launch` | `NewServer`, `Launch` |
| interceptors of a call, `grpc/auth.go` | `Call`, `Intercept`, `Handle`, `Reply` |
| `server.go` 184-187: the stream ends, with or without error | `StreamEnds` |
| `grpc/server.go` 205-207 | `ListenerFails` |
| the application hears of a child, or gets a signal | `ChildEnds`, `Signal` |
| `grpc/server.go` 230-240 | `ShutdownChildren`, `Refuse`, `Drained` |
| `WaitForTermination` and what follows | `Terminated`, `Exit` |

The `MC*` modules hold the small instances. Definitions named as a mutant of another
one are plausible mistakes in that code: each property is known to fail when its
mutant takes the place of the original, see `PROJECT.json`.

## 3. Runs

Run a configuration with `tlc -config X.cfg M`.

| Run | Configuration | Checks |
|---|---|---|
| `cache_time_travel` | `MCForkAwareStore_tt` | `FlushInvisible`, `ImplementsOverlay` |
| `lines` | `MCSinker_lines` | `HistoryExact`, `FirstRunExact`, `Served` |
| `early_gate` | `MCSinker_early` | `ReachedIsProcessed` is violated |
| `undo_loses`, `restart_loses` | `MCSinker_undo`, `_restart` | `TipExact` is violated |
| `requests` | `MCServing_fork` | `IndInv`, `DurableFinal`, `NoStaleVersion`, `CanonicalRead`, `CanonicalFirst`, `SettledHistory`, `RequestCanonical`, `OneBranch`, `ServingInv` |
| `other_branch` | `MCServing_hash` | `AnswersAskedBlock` is violated |
| `feed` | `MCFeedServing_one` | `AnswersInOrder`, `AckedFound`, `ReadinessAnswered`, `ReadinessSurvives`, `FirstKept`, `RequestsEnd`, `TypeOK`, `RequestOK` |
| `v1_ungated` | `MCFeedServing_v1` | `LegacyReadinessAnswered` is violated |
| `lookups` | `MCTimeTravelKeys_apart` | `GetsAgree`, `FirstsAgree`, `SetsAgree`, `PartsAgree`, `PostgresAgrees`, `TypeOK` |
| `longer_key` | `MCTimeTravelKeys_longer` | `LongerKeysApart` is violated |
| `process` | `MCProcess_serve` | `CallsChecked`, `StatusHonest`, `QuietWhenTerminated`, `EndsTogether`, `TypeOK` |

What holds. *Safety of answers*: whatever is undone, replayed or lost, and between any
two steps, a request the head lets through is never answered from an orphaned block
(`CanonicalRead`, `CanonicalFirst`). *Safety of the disk*: only final blocks are on
disk (`DurableFinal`) and none of their entries is older than its stamp allows
(`NoStaleVersion`). *Stability*: up to the last flush, answers do not change while a
process runs (`SettledHistory`). *Exactness*, where nothing is only in memory: when
every block is final on delivery, every read up to a block the sinker processed is what
the chain says through any crash (`HistoryExact`). *Progress*: the last block of the
branch that wins ends up served (`Served`).

*Requests*: whatever the sinker does between the gate and the read, an answer comes from
a branch it stood on meanwhile or from final blocks (`RequestCanonical`), and the keys
of one `Get` never mix two branches (`OneBranch`). It may well be another branch than
the client's: `block_hash`, documented as making sure that "the query is performed
against the correct block in case of chain forks", is never compared
(`other_branch`).

What does not hold:

* `early_gate`: a request that passes the gate is not always about a block that was
  processed. The head of a restarted sinker is the head of the chain when its cursor was
  made, so that after a restart in a stream that catches up, or of final blocks, reads
  get `block_reached = true` for blocks still to come, until the next block lowers the
  head again. They are not from orphaned blocks (`CanonicalRead` holds with any head),
  but what those blocks write is missing.
* Entries are lost. `TipExact` says that between two messages the head reads what the
  chain says. With one flag for all blocks, and undos only of entries that replaced none
  and back to blocks that wrote nothing, it holds until the process first stops
  (`FirstRunExact`). Each premise is needed:
  * `undo_loses`: `EvictUpToBlock` removes entries at or above `LastValidBlock`, so
    the entries of the last valid block itself go, and it is not sent again.
  * `restart_loses`: pruning the history removes the cursor of the LIB. While the LIB
    stays the same the next block saves its own cursor, and a restart resumes behind
    entries that were in memory only.
  * With flags that differ between blocks, a flush applies the `IfNotExist` of the
    current block to earlier ones and forgets what the backend skipped, while
    `model.proto:34-36` has the flag say how the entries of its own message are stored.
    Give `c4` of the run `lines` the flag: `c2` makes `c1` final, whose `k1` is flushed,
    and overwrites `k1`; `c4` makes `c2` final, the flush finds `k1` on disk and drops
    the entry of `c2`, and `k1` reads as of `c1` again. No run reports this one.

*Remote feed*, with one controller and one setter, beside readers and over restarts:
readers of v2 are told the readiness the controller last set (`ReadinessAnswered`,
`ReadinessSurvives`), a key whose `Set` returned is found by every later request
(`AckedFound`), `IfNotExist` never replaces an entry (`FirstKept`), an answer has one
entry for each key in the order asked (`AnswersInOrder`), and every request that
reaches the store ends (`RequestsEnd`). What does not hold:

* v1 readers are not gated: they are answered with `block_reached = true` while the
  store is not ready (`v1_ungated`).
* Two controllers: overlapping `SetReady` calls may leave memory and disk apart until
  the next restart (set `Controllers` to both clients).
* Two setters: overlapping `Set` calls may both find a key absent, and the second
  replaces the entry of the first, although both asked "to only store entries if their
  keys don't already exist" (`model.proto:34-36`). `FirstKept` fails when `Setters` is set
  to both clients; the run has one, and no run reports this.
* Batches are not atomic, although `model.proto:35` and v1 `service.proto:119` have their
  entries "stored atomically". A `WriteBatch` commits in several transactions when it
  outgrows one, and one that fails, or a process that stops, leaves a part
  (`CommitPart`, `PartialSetAll`); and one request may find some keys as they were before
  a batch and others as they are after it, as keys are read in transactions of their own.
  No run reports this; `PartsAgree` says what holds all the same.
* `numWorkers = 0` (`--workers 0`) makes a semaphore without places, and every request
  that names a key waits for ever; `FeedServingAssumption` excludes it.

*Composite keys*: with keys whose composite keys stay apart (`KeysApart`), `Get` lands
on the newest version of its own key at or below the block and never on another key's
(`GetsAgree`), `GetFirst` of a key that was stored on its oldest one (`FirstsAgree`), and
`SetAll` leaves one version with the last value for each key of its batch, less the
stored keys that `IfNotExist` skips (`SetsAgree`). Wherever it fails or is cut off, no
version is lost, none is replaced under `IfNotExist`, and what is new is of the batch
(`PartsAgree`). What does not hold is that keys are told apart from longer ones
(`longer_key`): of a key that was never stored, `GetFirst` answers with the value of a
stored key that starts with its bytes, and `IfNotExist` skips it, where
`badger_time_traversal/getter.go:86` says "the oldest value for that key" and
`setter.go:33` "check if any version of this key exists". In Backend this is `Oldest` and
`Exists`, so that the runs of the sinker and the proofs about it include it.

What `GetFirst` is meant to do the repository does not agree on. v2 `service.proto:18-19`
and `:34` promise "the first key >= each requested key"; `badger/getter.go:85-88`, where it
is `Get`, calls it an exact lookup; `badger_time_traversal/getter.go:86` says what is quoted
above; none of them is the first key at or above. `AnswersInOrder`, `FirstKept` and the
other properties of the feed take the exact lookup, `FirstsAgree` the oldest value.

`KeysApart` is needed: a byte `0xFF`
that follows a key in a longer one, or a request for a block of 2^56 or more, as a
server without a manifest lets through, puts other keys inside the range. The scan of
`IfNotExist` needs it, too: it takes the bytes of a block number for those of a key, and
skips `00 FF` when only `00` has versions.

*Postgres*: where `Get` of `postgres_time_traversal` answers, it never gives a value the
badger store would not give (`PostgresAgrees`), and it may miss one, as `rows.Err` is not
looked at (`postgres_time_traversal/getter.go:40`). The other calls are not modelled.
Each write, each `GetFirst` and each `Get` of `postgres` passes the key message where
its bytes are meant (`setter.go:18`, `:30`, `:66`, `:78`, `getter.go:72`), a pointer to a
struct, which `database/sql` cannot convert: with `--dsn postgres://...` the sinker
would end at its first entries. The tests say the opposite: `SetAll` and `GetFirst` are
required to succeed in `postgres_time_traversal/store_test.go:253-254`, `:551-564` and
`postgres/store_test.go:206`. They need a running database, and nothing in the
repository decides between the two, since the driver is external: no run reports it, and
no property rests on either.

*Process*: calls are handled exactly when the flags entitle them, on either listener
(`CallsChecked`); the exit status is 0 only after a signal or the regular end of the
stream, whatever fails in whatever order (`StatusHonest`); once the application has
terminated, no listener that existed at shutdown is busy (`QuietWhenTerminated`); and
when one part ends, all do (`EndsTogether`). Two things the model shows on the way: a
listener made after `Shutdown` copied the list is not drained (`late`), and nothing
cancels the stream, so blocks are handled while listeners drain and the store closes,
which is one more way for the crash of Sinker to happen. The flags for authentication
are read after the sinker has started, so that wrong ones stop a process that is
already writing.

### Bounds

* ForkAwareStore: two keys, two values, block numbers 1 to 3, unconditional writes over
  the time traversal store. Two entries are needed for a partial write, and three
  numbers to have one below, at and above a flush. `IfNotExist` and the latest-value
  store are in the runs of the Sinker: mixing the two kinds of writes breaks
  `FlushInvisible`, as it does `TipExact`. 23,620 states.
* Serving, `requests`: a fork after the first block whose two sides have a block of the
  same number, a block with `IfNotExist`; LIB is a block before, or `a2` itself, so
  that a restart may find a cursor of the branch that lost; two restarts, so that a replay
  can itself be cut off. No property relates more than two branches. The head of
  the chain is always the highest number: after a restart the gate then lets everything
  through, more than with any nearer head. One request, since requests change nothing and
  no property relates two of them. About 567,000 states.
* Sinker, `lines`: two lines of four blocks with a gap in the numbers, two keys, three
  restarts. On the one (`a1` to `a4`) every block is final when sent, the head in a cursor
  is the block itself or the last of the line, and the flags are mixed; on the other (`c1`
  to `c4`) the LIB may be any ancestor, writes are unconditional, and the last block has a
  rival, `d4`. The sinker follows either line and may be turned back to where they part,
  and from `c4` or `d4` to `c3`. Root and `c3` write nothing and the rivals replace
  nothing, so that no undo loses an entry. About 251,000 states.
* Sinker, the runs with a violation: one line, or a fork with two blocks on each side,
  over the latest-value store (`undo_loses`). Heads are the blocks themselves where
  `TipExact` is checked, so that its failures do not come from the head. `LagLib` makes
  the first block final when sent, so that `restart_loses` does not depend on a LIB before
  the start of the stream. The latest-value store has no other run behind the sinker: it
  is in the theorems.
* FeedServing: a setter, a controller and a reader; two keys, two values, a batch of each
  flag, the four methods, requests of one and two keys; one worker, so that goroutines
  wait; one restart. `MaxUint64 = 1`: every block number passes the gate of this mode.
  About 630,000 states.
* TimeTravelKeys: bytes of three values, numbers of two bytes, blocks 0 and 1; a key, one
  that extends it, one that extends both, and one apart. The properties look at every
  key, block and batch in every state. Radix 3 leaves a byte below, between and at the
  top. 1,296 states.
* Process: all 256 combinations of the flags that decide anything, callers that each
  plugin knows, does not know, or knows with another or no organisation, one call at a time for each
  listener. About 400,000 states.
* `MaxRestarts` bounds crashes, handler errors and failed saves; `MaxBlock` the block
  numbers of the ForkAwareStore runs. In the runs of Sinker and Serving deadlock is
  not checked: the tree of blocks is finite, and the stream ends. In that of Process it
  is not checked either: the process exits.

### Fairness

`FairSpec` assumes weak fairness of the next delivery (the stream goes on), of the undo
signal that leads away from a branch that lost (a stream resumed from a cursor on such a
branch begins with one), of the handler's steps (a handler that starts runs to its end)
and of the restart (a process that exits with status 1 is started again by its
orchestrator). Errors, crashes and other undo signals are owed nothing. `MaxRestarts`
makes the first two finite; `Served` takes it as a premise that undos end. Nothing in the
repository restarts the process: `Served` is a statement about the store under such an
orchestrator.

`FairFeedServing` assumes weak fairness of the goroutines and the handler of each
request (`HandlerStep`): goroutines are scheduled and a transaction of badger ends, in
success or error. Nothing is assumed of clients or of the feed. `FairSpec` of Process
assumes that main goes on from wiring, that callbacks of shutters run and that the grace
period of `WaitForTermination` runs out; it assumes nothing of drains, calls or the
stream.

### Assumptions about what is outside

The sink library delivers a tree walk with undo signals and runs one handler at a
time. The head of the chain in a cursor is not below the cursor's block. The LIB is an ancestor of the block and does not move back. A process has
its database to itself. The byte that follows a key inside a longer key is below
`0xFF`, so extensions sort before all versions of the key. A commit that returned
survives a crash of the process.

## 4. Proofs

`tlapm M.tla` checks the proofs of each of the `_proofs` modules.

**Sinker**, for every block tree, every set of keys, every output and flag, every LIB
schedule, whatever heads of the chain the cursors name, both badger stores, and any number
of restarts, from `ChainAssumption` and
`SinkerAssumption`:

* `Invariance` (`IndInv`); `TypeCorrect`, `DiskIsFinal` (`DurableFinal`) and
  `DiskIsFresh` (`NoStaleVersion`) are conjuncts of it.
* `AnswersAreCanonical` (`CanonicalRead`) and `FirstAnswersAreCanonical`
  (`CanonicalFirst`) follow from it.

The properties are not inductive alone. `DurableFinal` needs that a flush only takes
blocks at or below the LIB of the branch the cache belongs to: `CacheCanonical` (the
cache holds entries of the current branch, or of an undone block above it while the
eviction is pending), `CursorsSound` (every LIB known, also through the history and
the file, is final), and `FlushBehind` (the store was never flushed past the LIB, so a
new block is never written through). `NoStaleVersion` needs `CacheFresh` (a cached
entry is the last unconditional one of the branch) and `StampsFinal` (no stamp above
the last final block, so a block that becomes final later cannot undercut a version).
`CanonicalRead` needs `HeadLowered`: with the head lowered first, an entry awaiting
eviction is above every request that passes the gate. Nothing is said of the head
otherwise: after a restart it may be anywhere above the block. There is one lemma for each
action, plus lemmas on ancestors and on what a flush, a put and an eviction leave.

`SinkerReads_proofs` goes on from there, each theorem in the mode of the program in which
it holds:

* `HistoryIsSettled` (`SettledHistory`, time traversal): what is flushed later is stamped
  above the last flush, and so is all that is cached (`CacheAbove`), so that neither a set
  nor an eviction nor a flush touches what a read up to the last flush looks at.
* `SinkerRespectsStore`: every step of the sinker is, for the store, a call that does not
  go below the last flush, a new process, or nothing. ForkAwareStore takes this of its
  callers; here it is proved of the only one `serve` has.
* `TipIsExact` (`FirstRunExact`), where nothing at all is undone, with blocks that are all
  unconditional or, when no key extends another, all `IfNotExist`, until the process first
  stops. `TipInv` says what memory and disk hold together (`Held`): the entry that the
  blocks ingested so far leave (`Holding`). The hypotheses are the premises that the runs
  `undo_loses` and `restart_loses`, and mixed flags, show to be needed. The LIB may lag as
  it likes, and both badger stores are covered.
* `HistoryIsExact` (`HistoryExact`), over the time traversal store, when every block is
  final on delivery and no key extends another; blocks may disagree on `IfNotExist`, and
  crashes, failures and partial batches may come at any step. `HistInv` says that memory
  is empty between blocks (`CacheBrief`), that a block is on disk only when all before it
  are complete (`DiskInOrder`), and that nothing a restart does not replay is missing
  (`DiskComplete`).

**Serving**, for any number of requests and whatever keys they ask for:
`RequestsAreCanonical` (`RequestCanonical`) and `RequestsAreOnOneBranch` (`OneBranch`).
Every step is one of Sinker or leaves it alone, so `IndInv` holds throughout.
`ServingInvariance` adds `CacheInView` (what a pending request can read from the cache
was set by a block of a branch the sinker stood on since the gate: at the gate because
entries from elsewhere are above the head, later because only the current block is
cached) and `CacheOnBranch` (all that is cached is on one branch, that of the last
final block, so that cache and disk never disagree about the branch). The block a
`GetFirst` answers from need not have written the key asked for: `Oldest` may land on a
key that extends it, and the theorem does not claim otherwise.

**ForkAwareStore**, for any keys and values, any bound on block numbers and both badger
stores, by callers that never go below the last flush: `StoreTypeCorrect` (`TypeOK`, which no run
checks), whatever flags they pass, and, with writes of one kind (`OneFlag`), `FlushesAreInvisible`
(`FlushInvisible`) and `StoreImplementsOverlay` (`ImplementsOverlay`: writes are overlay
writes, flushes are finalizations, evictions are undos). One kind is all unconditional, or
all `IfNotExist` with no key that extends another. All of them rest on `StampedBelow`:
nothing on disk is stamped above the last flush, so that what a flush writes is the newest
version of its keys. With `IfNotExist` they need `FirstOnly`, too: a key is on disk once,
and what a flush that failed half way left in memory agrees with it. With both kinds the
two properties do not hold: a flush may find a key on disk and drop what was visible.

**TimeTravelKeys**, for any radix and width, any keys and batches: `StoreTypeCorrect`
(`TypeOK`), `GetFindsNewest` (`GetsAgree`), `StoreWritesVersions` (`SetsAgree`),
`PartsAreWritten` (`PartsAgree`), `PostgresReadsNewest` (`PostgresAgrees`) and, for finitely
many keys, which `Rank` counts, `GetFirstFindsOldest` (`FirstsAgree`). With keys apart,
`BytesImplementVersions` puts the writes together: each step on bytes is, on versions, what
Backend says of that call, longer keys included; the lemmas `GetIsWrapped` and
`FirstIsWrapped` say the same of the reads. So Backend, on which the proofs above are built,
says of keys and blocks what the code does on bytes, for 256 and 8 as for any other base.
The invariant is `DiskInv`: the database is a map from finitely many composite keys. The
argument goes from digits to keys:

* Big-endian digits sort as their numbers do (`DigitsOrdered`), so the versions of a key
  sort from the newest to the oldest (`VersionsOrdered`), and a composite key can be read
  back in one way (`CompositeInjective`, `ReadBack`).
* What lies between two sequences that start with a key starts with it (`Between`). Keys
  apart, a composite key starts with another key only if its own key does
  (`PrefixOfComposite`), and an extension sorts before what it extends (`ExtensionFirst`).
  The range of `Get` then holds the versions of its key (`GetRange`), that of `GetFirst`
  those of all extensions (`FirstRange`), in the order of `Rank` (`VersionOrder`).
* A finite set of sequences has a first one (`FirstOfFinite`), so the seek of the scan
  lands (`ScanFinds`). The loop of `SetAll` is followed by `LoopInv`; whichever entries
  reach the database, the last one of each key is what counts (`WrittenIsPut`).

Powers and the loop are recursive functions. Where a proof would use induction it takes
the least number that fails (`LeastNumber`, from the well-foundedness of the naturals);
`Iteration` shows the same way that a function given step by step exists.

**RemoteFeed**, for any clients, keys and values: `FeedTypeCorrect`;
`ReadinessIsDurable` assumes one controller and goes through `InSync` (memory and
disk differ only inside a SetReady call, and then the disk already holds its value);
`FirstIsKept` assumes one setter and goes through `StillAbsent` (what the setter
found absent stays absent until it commits).

**FeedServing**, for any clients, readers, requests and number of workers: `FeedIsFeed`
(readers never change the feed), `RequestsTyped` (`RequestOK`), `AckedIsFound`
(`AckedFound`), `AnswersMatchRequests` (`AnswersInOrder`) and, with one controller,
`ReadinessIsAnswered` (`ReadinessAnswered`).
`AckedIsFound` needs, beside the types, that keys are never removed and that nothing is
stamped above block 0 (`Unstamped`), that a setter's key, once looked at, is either
admitted or in the database (`LookedAfter`), so that `Flush` leaves every key of its
batch in it (`HistoryOK`), and that an entry already filled in for an acknowledged key
says FOUND (`RequestInv`). `AnswersMatchRequests` needs `FromBatches`: a value in the
database, or about to be, was sent for its key. `ReadinessIsAnswered` needs that both
memory and disk hold a value clients may believe, through the two steps of `SetReady` and
a restart between them.

**Process**, for any flags, plugins, organisations and callers: `ProcessTypeCorrect`,
`CallsAreChecked` (`CallsChecked`) and `StatusIsHonest` (`StatusHonest`). The chain a
call still has to go through, and the identity found so far, decide what it has passed.
The exit status is honest because every shutter that was shut without an error was
shut by a signal, by the end of the stream, or after the application's. `TerminatedIsQuiet`
(`QuietWhenTerminated`) goes through `DrainInv`: only listeners that serve or drain have
calls, and every listener that is not down yet is one the shutdown still has to drain, or
was made after it looked.

The constants are assumed to be what `ChainAssumption`, `BackendAssumption` and their
like say, which every run checks of its instance. Two of these deserve a word: the root of
the tree, where the stream starts, writes nothing (`Writes[Root] = {}`: a cursor there
stands for no cursor), and `MaxBlock` is below 2^64.

Every safety property that a run checks is stated by a theorem, some with the hypotheses
named above. Checked only by TLC are the liveness properties `Served`, `RequestsEnd` and
`EndsTogether`, which need ENABLED and fairness, and TLAPS does not handle those; and that
the properties of the runs that report a violation fail.

## 5. Not modelled

* The command line client (`get.go`, `main.go`): it builds one request and prints the
  answer.
* The store-manager ping: a ticker whose result is logged; and its messages.
* `Set` for one entry of the latest-value store and of the postgres stores, and
  `GetKeyOnly` and `GetAllKeysOnly` of the latter: only tests call them.
* Connection strings and schemas (`dsn.go` beyond the driver): string handling at start.
* The encoding of values, messages and cursors, TLS, logging and metrics.
* `SetAll` and `GetFirst` of the postgres stores, and `Get` of `postgres` (section 3).
* The unsynchronised access to `headBlock`: the model reads the current value. A reader
  that sees an older one is a request that passed its gate earlier, which is what
  `RequestCanonical` and `OneBranch` are about, or is refused.
