# Quorin: TLA+ models, model checking and proofs

Quorin is a feature store: producers append feature rows to a Redis stream, a
consumer applies them to a hash table in POSIX shared memory (the online store)
and to Parquet files (the offline store), and serving processes read the shared
memory directly. Redis also holds the bookkeeping of the shared-memory segments:
which one is current, how many handles it has, which processes are alive. This
directory models the parts of `src/quorin/` whose correctness depends on
interleavings, crashes and lost replies. Everything else is left to the tests.

## Inventory

| Component | State it keeps | Operations | Interacts with |
|---|---|---|---|
| WAL producer, `wal.py` | none (the stream) | `write`, `write_sync` (polls `quorin:processed:{id}`) | stream, consumer through the processed keys |
| WAL consumer, `wal_consumer.py` | `_pending_ack`, `_stop_event`, `_flush_now`, flush task; pending list and cursor of its group in Redis; lock and liveness keys | `run`, `stop`, `_drain_pel`, `_run_one_iter`, pause and reopen, `_process_batch`, `_flush_loop`, `_flush_and_ack` | stream, offline writer, segment registry, upgrade orchestrator |
| Offline store, `offline.py` | row buffers per schema and date; Parquet files | `append`, `flush`, `close`; point-in-time and latest reads | consumer, hydration |
| Segment registry, `shm.py`, `posix_shm.py` | `schema:current`, `refcount`, `pid_segments`, `segment_to_schema`, `cleanup_queue`; `/dev/shm` | `create`, `open_current`, `close` | every process, watchdog |
| Heartbeat, `heartbeat.py` | `quorin:heartbeats`, one thread per process | `ensure_started`, periodic write, exit handler | watchdog |
| Watchdog, `watchdog.py`, `watchdog_lua.py` | `_tracked` (miss counts, create times) | `run_one_tick` in five steps | registry keys, `/dev/shm` |
| Schema evolution, `evolution.py` | upgrade lock, pause key, new segment | `upgrade_schema` | consumer (pause), registry (flip) |
| Hydration, `hydration.py` | new segment | `hydrate`, `_force_drop_orphan` | offline store, registry |
| Segment table, `layout.py`, kernels | slot table, rows, string pool | `insert`, `lookup`, `insert_many` | consumer writes, servers read |
| Buffer pools, `pool.py` | a deque of buffers per pool | checkout and return | request threads, assembly |
| GC manager, `gc_manager.py` | `_state`, the callback in `gc.callbacks`, timer threads | `start_collector`, `stop_collector`, `_collector_loop`, `_gc_callback`, `_reset_after_fork` | CPython's collector |
| Schema compiler and codecs, `schema.py`, `layout.py`, `row_pack.py` | none | offset tables, layout, pack plan, packing | producer, consumer, hydration, assembly, upgrade |
| Assembly and serving, `assembly.py`, `serving.py` | none | `assemble`, `assemble_batch` | segment table, buffers |
| Metrics and logging | counters | | |

What is hard here: the consumer is two coroutines that share `_pending_ack`; the
acknowledgement is deferred past the Parquet flush, so a crash replays; every
Redis call may be executed and still raise; a segment is kept alive by a count
that several processes and the watchdog change, from reads that may be stale;
pids are reused; an upgrade, a hydration and the consumer are kept apart by keys
that expire; five parts of the program derive the bytes of a row from a schema,
each in its own order. `PROJECT.json` lists these hazards at their lines.

What makes the components correct:
* write path: nothing that left the pending list is missing on disk; confirmed
  writes stay visible; everything is processed in the end;
* segment table: a reader gets its entity's values, and every insert that
  returned; nobody shares a slot or a row;
* segments: the count covers the open handles; `schema:current` names a segment
  that is counted, linked and not queued; what nobody uses is unlinked;
* evolution and hydration: whatever replaces a segment, readers keep every
  acknowledged write; nobody waits for ever for a lock or a pause;
* offline store: what is acknowledged is found by the pruned reads, and they
  return the row that the definition of an as-of read selects;
* row format: what one part stores under a name, every other part reads under it;
* buffer pools: a buffer has one owner and shows no foreign features;
* GC manager: no timer out of reach, no pause unobserved.

## Modules

| Module | Models |
|---|---|
| `DurableLog` | abstract: what producers are promised, without group, consumer and buffers |
| `Wal`, `MCWal`, `WalProofs` | producer, stream and group, consumer with its flush task, offline buffer, the orchestrator's pause, operator actions; implements `DurableLog` |
| `Segments`, `MCSegments`, `SegmentsProofs` | registry, heartbeats, watchdog, process lifecycle with pid reuse |
| `SegmentTable`, `MCSegmentTable`, `SegmentTableProofs` | slot table, string pool and rows of one segment: `insert`, `insert_many`, `lookup` with the copy of the row, the alignment of an upgrade's copy |
| `OnlineStore` | abstract: what readers are promised, without segments and pointers |
| `Evolution`, `MCEvolution`, `EvolutionProofs` | composition of `upgrade_schema`, `hydrate`, consumer, registry and watchdog around `schema:current`; implements `OnlineStore` |
| `Offline`, `MCOffline`, `OfflineProofs` | buckets, flush file by file, point-in-time and latest reads |
| `RowFormat`, `MCRowFormat`, `RowFormatProofs` | offset tables, layout, pack plan, bulk insert, assembly, widening and translation of rows |
| `BufferPool`, `MCBufferPool`, `BufferPoolProofs` | both buffer pools and the assembly between checkout and return |
| `GcManager`, `MCGcManager`, `GcManagerProofs` | start, stop, timer threads, pause callback, fork |

The MC modules give the constants their values. `Wal`, `Segments` and
`SegmentTable` each look at one mechanism in fine steps; `Evolution` puts them
together in coarser ones (a registry call is one step, a segment's content is the
set of messages it reflects).

### Wal

A message is its position in the stream; `EntityOf` says which entity it writes,
`Poison` which messages `_apply` rejects and `Halfway` which of them it rejects after
`layout.insert` has made their row visible, because the event time does not parse or
`offline.append` raises. `last`, `trimmed`, `group`,
`cursor`, `pel`, `processed` and `live` are Redis; `online` and `durable` survive
the consumer; the rest is the consumer object. One action is the code between two
awaits that suspend: `pc` is where `run()` is suspended and `task` where the flush
task is. `_apply` never suspends, hence `LoopFree`; a crash can still fall
between two inserts. `offline.flush` never suspends either, so `_flush_and_ack`
is two steps, the flush (`Paused`, `TaskFlushes`, `CancelAndFlush`) and the XACK
(`PauseAck`, `TaskAcks`, `FinalAck`). A failed flush leaves any subset of the
rows on disk and the rest in the buffer. A Redis call that raises may or may not
have been executed.

The flush task's cancellation has a state of its own. `_flush_loop` cancels its
two helper tasks and awaits them under `suppress(CancelledError)`; a cancellation
of the task itself that arrives in this await is suppressed too. `settle` is that
await, `CancelIsSwallowed` the lost cancellation and `join` the coroutine waiting
for a task that was not cancelled.

`Start` may find an object whose earlier `run()` raised (its `_pending_ack` and
buffer are kept) or, after `Crash` or `Exit`, a new one.

`DurableLog` knows of a message only whether it is owed and whether it is kept. Under
the mapping of `Wal`, owed is what the stream has not delivered and what the group has
pending, kept is `durable`. It has a step for a write (which may drop old entries of
the stream), one in which rows reach the disk and rows that were there are forgotten,
and one in which a destroyed group makes everything owed again. Deliveries, crashes,
replays, pauses and failed flushes have no step of their own: they may change neither.

### Segments

One schema; segments are numbered by creation, since their names are fresh. A
process has a pid and an incarnation (`birth`, psutil's create time). `create` is
two steps (link, transaction), `open_current` three (GET, map, transaction),
`close` one script. The tick is `Tick` (read and count misses), `CrossCheck` and
`CleanupDeadPid` per pid, `DrainQueue`, `Unlink` per name, `TickEnd`. `fresh` is
the set of pids whose heartbeat changed since the watchdog read it, which is all
that the wall-clock value is compared for. `_CLOSE_LUA` and the cleanup script
share `DropRefs`. A script that raises may have been executed. `create` with
`set_current=False` is the evolution's; its flip is in `Evolution`.

### SegmentTable

One writer and one reader share the memory of one segment without a lock. A step
is one store or load that the other side can tell apart: the cursors, the pool
entry, each field of a row, the slot's hash, offset and row index (one step, they
are read only after the flags), the flags. Loads and stores take effect in program
order, which the code relies on. `HashOf` stands for the
64-bit hash; probing is the code's, modulo the number of slots. `wpc` is where the
writer is: `cursors`, `pool`, `cells` and `flags` are the four numbered steps of
`_insert_into_empty_slot`; `bulk` is the loop of `_insert_many_core`, which goes
through the same stores with cursors of its own and writes them back at the end.
The value that the n-th call writes is n, so `log` tells for whom a value was
written and when. `WriterDies` leaves memory as it is and the next process goes
on; it is budgeted separately for `insert` and `insert_many`. `UpgradeRefuses` and
`TranslatedId` are the sanity check and the ordering of `_build_translation_table`,
evaluated when the writer is idle, as the drained consumer makes it.

### Evolution and OnlineStore

`upc` is where a call of `upgrade_schema` is; one step is one Redis call or the
work between two: lock, XPENDING, liveness, pause, open, create, copy, flip by
compare-and-set, clearing the pause, the attach wait, the cleanup of an orphan, the
finally block's three calls. `hpc` is the same for `hydrate`: preconditions, read of
the offline store, create with `schema:current`, fill, drop of the orphan.
The consumer is `Wal`'s, reduced to drain, read, apply, flush and ack, park and
exit. An exception (`Raise`), a failure that the code suppresses and goes on from
(`Suppressed`), a lost reply, a kill and an expired key are actions;
which of them may happen is `Faults`, how many `Budget`. `counted` are the rows
behind `occupied_count`, read before the copy; `rows[s]` is written by whoever has
the segment open, current or not.

A hydration may be killed at every step. Killed while it fills its segment it leaves
any part of the rows in it, with the pointer on it (`HydrateBreaksOff`; `hpc` is then
`partial`, so that the model remembers which segment this is). One that raises drops
its segment (`FillRaises`), and since `_force_drop_orphan` has a `try` for each of its
blocks, the pointer may stay while the segment goes, or the segment while Redis
forgets it (`ForceDropFails`). `CleanupOrphanFails` is the same for the orphan of an
upgrade. `Reap` stands for the watchdog's ticks until the references of dead processes
are dropped.

`OnlineStore` has four variables. Under the mapping of `Evolution`, `up` is "the
pointer names a segment that is filled" (no hydration is filling it, none broke off
over it), `served` the messages this segment reflects, `confirmed` the delivered
messages that left the pending list and `holders` who has the segment open. An
upgrade maps to a stutter or to `Turnover`, which changes the holders; a hydration to
`Restore`, which must bring back all that is confirmed; an acknowledgement to
`Confirm`, which a store that is up may do only with served messages. `Withdraw` takes
the store down and is allowed to the last holder only: nobody deletes a pointer to a
segment that others use.

`Runbook` is the operator's order of ADR-014: the consumer is stopped before an
upgrade or a hydration and started after it; after a hydration that was killed the
operator waits until the watchdog has removed its segment, then retries, which is what
`tests/chaos/test_hydration_crash.py` does. The safety of the pair does not rest
on the keys alone: with `Runbook = FALSE` and no fault at all `RowsSurvive` fails.
Four hazards of `PROJECT.json` therefore occur only off the runbook (a consumer started
beside the checks, a pause key deleted by another call, work on a part-filled segment,
a pointer deleted under a concurrent call). Liveness is checked without the runbook.
`PartialGoes`, the removal of a part-filled segment, then has an excuse: an upgrade or a
consumer that opened the segment in the meantime keeps it.

### Offline

`append` puts a row in the bucket of its day (`CachedDate`, with the rounding of
the float that the code computes), `flush` takes the buckets, writes them one by
one under temporary names and renames them, and restores what it has not written
when one fails, before or after the rename. A crash empties the buffers and the
consumer appends the unacknowledged rows again: files hold duplicates. Reads are
operators over the files. A loaded row is its place, file and row in it, because
without message ids the last one loaded counts: `Load` is the places in the window of
the whole query table and on the dates it touches, `DedupFeatures` keeps one of each
message or, without ids, of each entity and event time, `Sorted` puts the row with k
rows before it at k + 1, `AsofRow` is the search with the lookback of each query. `Expected` is the
reference: the newest write of the entity not after `as_of` and not before the
lookback, over all messages that are on disk, without files.

### RowFormat

A schema is a sequence of fields; a row is a function from byte offsets to pieces
of values, so a misplaced or torn field reads as garbage. `Encode` is the producer's
list, `PackPlan` and `PackInto` the consumer's struct and its shaped fields,
`InsertMany` the scatter by columns, `ReadField` the read, `CanUpgrade` and
`Translate` the upgrade. A failed pack leaves the shared buffer half written, as in
the code. An integer out of its field's range is refused by struct when the field is a
scalar (`Packs`), and wrapped by numpy when it is a list (`Cast` with `LowBytes`): the
repository pins numpy below 2, where `np.asarray` wraps with a DeprecationWarning. This
meets producers that were upgraded before the consumer. `truth` is what was last
written under a name, without any wrapping, and `wrapped` the names whose last write
did not fit. Capacities and id lengths are ones that `compute_layout` accepts; its
refusals are not modelled. Values are classes: small, out of a narrower type's range, not a float32,
negative; `Sample` chooses the hard value of each payload, and `SampleAssumption` says
of it what the Pydantic model of the payload checks (`pydantic_factory.py:65-66,
219-220`): an integer is in the range of its dtype. A float may need rounding. Hashes
are a permutation of the names. Recursions over fields, shapes and powers of two are
recursive functions, the sorts by hash and by offset are stated by rank (`SortBy`: the
i-th entry has i - 1 entries below it), and a sequence of stores by the last store to
each byte (`OverAll`), so that all of it can be proved about.

### BufferPool

`popleft`, `len`, `append` and `fill` are atomic under the GIL, everything between
them is not: `EnterHit`, `EnterMiss`, the assembly cell by cell, `Exit`, `Zero`,
`HasRoom`, `IsFull`, `AppendBuf`. `content` is what every cell of a buffer holds.
`kind` chooses between the pool that zeroes and the batch pool that does not. A thread
may have several checkouts open at once, as `tests/unit/test_pool.py` does (`Checkouts`,
`ThreadOf`), and executes one of them at a time (`Runs`).

### GcManager

What runs under `_lock` is one step. `stop_collector` goes on after it has released
the lock, as `Signal`, `Join` (the thread may still be alive: a zombie) and
`Reset`. A collection has a start and a stop phase, at which the callback runs if
it is installed; `lost` records one that nobody observed. Every `Start` has its own
`install_callback`; `asked` are the values the process has passed so far. `Fork` is followed into
the child: its only thread is the caller, and `_reset_after_fork` has run.

## Runs

| Run | Shows | Bounds |
|---|---|---|
| `wal_failures` | `TypeOK`, `NothingLost`, `ReadYourWrites`, `TrimsOnlyAcked`, `EventuallyDurable`, `DrainEndsEventually` | 4 messages of one entity, the first rejected by `_apply` before its insert, the second after it; pages of 2, soft limit 1; one crash, failed flush, Redis error and stop |
| `wal_pause` | `PendingBounded`, `ImplementsDurableLog`, with an upgrade's pause, a destroyed group and trimming | 3 messages, soft limit 1, MAXLEN 2; one pause, XGROUP DESTROY, crash and failed flush |
| `segments_rotation` | `TypeOK`, `CurrentIsKept`, `CurrentIsLinked` | 2 processes, 2 segments; one crash, exit, lost heartbeat and failed unlink |
| `segments_pidreuse` | `CountCoversHandles` | 2 pids of 2 incarnations, 1 segment opened twice; one crash, lost reply and watchdog restart |
| `segments_reclaim` | `OrphansReclaimed` | 2 processes, one of them hidden from psutil while it lives, 2 segments; one crash, failed unlink and watchdog restart |
| `table_readers` | `TypeOK`, `ReadsOwnRow`, `SeesReturned`, `OneSlotPerEntity`, `CopyIsAligned` | 3 ids, two of them with the same hash, whose home is the last slot; 2 rows, 4 slots, rows of 2 fields, 4 inserts, 2 lookups; one death inside `insert` |
| `evolution_race` | `TypeOK`, `PointerIsLive`, `RowsSurvive`, `ImplementsOnlineStore` | 2 upgrades, 1 hydration, 1 message, 3 segments; any 2 of: exceptions, kills, failed cleanups, an expired lock, consumer crashes; runbook |
| `evolution_faults` | `ParkedResumes`, `LockIsFreed`, `PartialGoes` | 1 upgrade, 1 hydration; 1 fault of any kind; no runbook |
| `offline_reads` | `TypeOK`, `AckedIsReadable`, `AsOfIsRight`, `LatestAgrees` | 3 messages, 2 entities, days of 3 ticks, event times on two days, 3 query times, lookback of one day; one crash or failed write |
| `pool_requests` | `Exclusive`, `OwnFeatures`, `NothingForeign`, `Bounded` | 2 threads, one with two checkouts and one with one, both pools, `max_size` 1, rows of 2 cells, batches of 1, 2 entities and an unknown one |
| `gc_calls` | `TypeOK`, `NoOrphan`, `EveryPauseObserved`, `TimerSweeps` | 2 callers, 2 timers, 1 fork, both values of `install_callback` |
| `rowformat_rows` | `TypeOK`, `NothingLost`, `RegionsDisjoint` | every pair of schemas over 3 names, five dtypes, scalars and shapes; 2 writes and an upgrade; capacities 1 and 3 |

Each property has a mutant of the code that breaks it.

The bounds are the smallest in which the cases of the hazards occur: three
messages make a page, a second page and a message appended during an XACK, a fourth
lets a drain with a ceiling of two meet it behind a rejected message; a soft
limit of 1 puts the ceiling within reach; two segments are a rotation; a miss
threshold of 1 differs from 5 only in the number of identical ticks; two rows for
three ids fill the table, and four inserts can claim a row, die, replay the
insert and update it; a lock that expires needs a second upgrade, and three
segments are the first, its copy and a rebuilt one; query times one day and two
days apart make one query's window wider than another's lookback; a pool of one
buffer is empty or full at every call of two threads, and three checkouts over it are a
burst; a field longer than a cache
line makes padding visible. Deadlock is checked except where all messages or calls
are used up, every fault is spent and somebody may wait for ever.

### Fairness

`Wal`: both coroutines run while they can (one event loop, no starvation), the
supervisor calls `run()` again, and the pause key is cleared (the orchestrator's
`finally`, or its TTL). Nothing forces a fault, a write, a stop or the
orchestrator's other steps. `EventuallyDurable` is claimed as long as nobody stops
the consumer, no Redis error has killed the flush task and no drain has met its own
ceiling. `Segments`: the watchdog
ticks, parents wait for their children, and a registry call that began ends.
`Evolution`: a call of `upgrade_schema` that began goes on until it is killed, the
consumer's loop runs, Redis expires keys whose TTL is running, and the watchdog drops
what a process that is gone has held (`Reap`: that process has not been replaced by one
with its pid, and it left its heartbeat, as a kill does). `GcManager`: the operating system
schedules threads, so a wait returns, a collection ends and a stop that began goes
on; nobody has to call start or stop. The others state safety only.

## Claims of the repository that the code does not keep

The models contain all of these behaviours, and for each the property that the claim
amounts to is defined in the module. No run checks these properties, because the code
does not keep them: the runs exclude the case, or their property names it as an
exception. To see one, add the property to a cfg with the constants given; TLC
prints the trace.

| Claim | What happens | To see it |
|---|---|---|
| read your own writes, `wal.py:255-256` | a message rejected after its insert stays pending; every drain inserts it again, over newer confirmed rows | `ConfirmedStaysVisible`: `MCWal`, `MaxMsgs` 3, `Poison` = `Halfway` = {1}, `BudgetCrash` |
| re-running drains the unfinished work, `wal_consumer.py:59-61` | with more pending entries than the ceiling, the drain waits for a flush task that is not started yet | `RestartDrains`: `MCWal`, `FairSpec`, `MaxMsgs` 3, `MaxPendingAck` 1, no `Poison`, `BudgetCrash` |
| an open handle's segment exists, ADR-002, lines 42-49 | GET, last close, unlink, then INCR | `HeldIsLinked`: as `segments_rotation` |
| a watchdog that crashed mid-unlink recovers, ADR-013, lines 301-305 | the names it had popped are in no queue any more | `QueuedIsUnlinked`: as `segments_reclaim`, with one pid, none `Hidden`, `BudgetRestart` |
| an upgrade of a drained store works, `evolution.py:749-750`, `docs/ARCHITECTURE.md:447-449` | a row leaked by a death inside `insert` makes every later upgrade raise | `UpgradeAccepts`: as `table_readers` |
| no mid-insert state of the bulk kernel is observable, ADR-012, lines 243-246 | a process killed in it leaves visible slots with cursors at 0; the next inserts overwrite their rows and ids | `ReadsOwnRow`: as `table_readers`, with `BudgetBulk` |
| readers never see a partial write, `docs/ARCHITECTURE.md:427-429` | an update in place is visible field by field | `ReadsAreWhole`: as `table_readers` |
| a consumer started between the checks and the pause key parks, `evolution.py:20-21, 461-463` | it has looked at the key before and writes to the segment that was copied | `RowsSurvive`: as `evolution_race`, with `Runbook` FALSE and no `Faults` |
| the watchdog catches what `_force_drop_orphan` could not remove, `hydration.py:387-396` | Redis does not name the segment any more | `LeakIsCaught`: `MCEvolution`, `FairSpec`, `Runbook` TRUE, `Faults` {"orphan"}, `Budget` 1 |
| the deque is capped at `max_size`, ADR-005, lines 173-179, `tests/unit/test_pool.py:351` | two threads read its length before either appends | `CapHolds`: as `pool_requests` |
| zombies keep a second timer from starting, `gc_manager.py:198-200` | `start_collector` does not look at them | `ZombiesRefuseStart`: as `gc_calls` |
| `start_collector` is idempotent, `gc_manager.py:116` | a start without the callback, then one with it: the second starts another timer and the first is out of reach | `StartIsIdempotent`: as `gc_calls` |
| out-of-range integers are poison pills, `wal_consumer.py:948-950` | lists of a field that the producer's version has widened are wrapped, stored and acknowledged | `OutOfRangeIsPoison`: as `rowformat_rows` |
| the dry run reports the row size, `evolution.py:905-906` | it adds up field sizes without their alignment | `DryRunMatches`: as `rowformat_rows` |

Further behaviours without a claim against them:
* `Wal`: what else breaks read-your-writes, and is excluded from `ReadYourWrites` by
  `Calm` and by the sizes of the run: a batch dropped by a pause is replayed over newer
  rows; a `stop()` in the middle of a second `run()`'s drain acknowledges ids without
  applying them; a destroyed group delivers the stream again; a MAXLEN trims the newer
  of two pending entries while a drain replays them. The flush task dies in its XACK and `run()` goes on without it
  (`TaskAckRaises`); a cancellation that arrives while the task settles its helpers
  is swallowed, and after a Redis error `run()` then never ends
  (`CancelIsSwallowed`); two `_flush_and_ack` at once, the pause path's and the
  task's, trim `_pending_ack` twice, so `TrimsOnlyAcked` is checked without a pause.
* `Segments`: a `create` transaction that is executed and raises leaves
  `schema:current` naming an unlinked segment (`RegisterRaises`); open, open, close
  takes the segment out of the pid's set while a handle is left; a reused pid whose
  first heartbeat is lost has its references dropped; after an exit without close
  (`Exit`), and after a pid is reused before the miss threshold, nobody reclaims the
  segment, nor when the process with the two handles dies with one. `OrphansReclaimed`
  is checked without these.
* `Evolution`, each of them without the runbook or with a lost reply: the first
  orchestrator's `finally` deletes the second's pause key; a consumer started
  between the checks and the pause drains without looking at it, and one started
  while the key is set may miss it, so the check of the row count
  (`evolution.py:461-463`) is not sufficient; an upgrade beside a hydration copies a
  half-filled segment; a flip whose reply is lost is cleaned up as an orphan
  although it is current; a failing `hydrate` deletes the pointer another call set.
  Even under the runbook, an operator's DEL of `schema:current` (fault `drop`) loses
  a row: the consumer is in its last flush, its liveness key has lapsed, and the
  hydration that follows reads the offline store before that flush is in it; with two
  messages `RowsSurvive` fails. A lost reply to a flip and a liveness key that lapses
  under a live consumer break it too; kills and a lapsed pause key do not.
* `Offline`: in the last half microsecond of a day the writer's float rounds up to the
  next day, and pruned reads miss the row (`AckedIsReadable` with event time 2 in
  `EventTimes`).
* `GcManager`: a start between the halves of a stop loses its observers; a fork while another
  thread holds `_lock` leaves the child a locked lock (not modelled: `Fork` waits
  for the lock).
* `RowFormat`: messages carry no schema version. A list of the right length from
  the other version is packed as it is; `NothingLost` covers the versions
  that `can_upgrade` accepts.

## Proofs

Every theorem holds for every value of the constants that its module's `ASSUME`
allows. Where a theorem has a hypothesis, it excludes behaviour listed above under
which the property is false. In each module the invariant is a conjunction of named
parts, TLC checked it on the instance of the run first, and there is one step per
action.

`WalProofs`
* `TypeCorrect`, `NoMessageLost`: `IInv = TypeOK /\ AckBacked /\ NothingLost`.
  `NothingLost` alone is not inductive: an XACK removes a snapshot from the pending
  list, so the snapshots must be known to be on disk, and `_pending_ack` to be on
  disk or in the buffer that the next flush writes (`AckBacked`).
* `LogIsImplemented`, the refinement of `DurableLog`, for every budget, from `IInv`. A
  delivery changes nothing of what is owed, because a page is a prefix of what is
  undelivered (`PageIsPrefix`, `DeliveryOwesTheSame`); an XACK, executed with or without
  a reply, forgets a snapshot that an earlier step put on disk (`AckSettles`); the step
  that cancels the flush task may do both at once with a flush. All other steps are
  frames (`QuietSettles`).
* `PendingIsBounded`: `BatchBounded` and `CeilingKept` say how large a batch in hand
  is and below which ceiling it entered. After `stop()` no batch is read, so
  at most one more is added on top of the ceiling; hence two batches in the bound.
  `PageCardinality` is the lemma about XREADGROUP's COUNT.
* `TrimsAreAcked`, with `Budget["pause"] = 0`: `OneFlush` (the flush task exists only
  beside the read loop) and `SnapsArePrefixes` (an XACK in flight names a prefix of
  `_pending_ack`), so `del pending[:n]` removes what was acknowledged.
* `WritesAreRead`, as `Spec /\ []PendingKept => []ReadYourWrites`, where `PendingKept`
  says that MAXLEN has trimmed no entry that is still pending (the producer's MAXLEN
  is approximate and sized far above the pending list; the code does not enforce it).
  The argument: messages are applied in id order within a batch (`InOrder`), a drain
  replays a prefix of what is pending (`DrainedSoFar`) and acknowledged ids are the
  oldest ones (`AckOrder`, `AckedOldestFirst`), so whatever an older replayed row hides
  is replayed after it (`VisibleOrReplayed`), before the consumer reads again
  (`CaughtUp`). A message rejected halfway is the exception the property names: it stays
  pending and its row comes back.

`SegmentsProofs`
* `TypeCorrect`, `CurrentNeverReaped`: `CurrentIsKept` is not inductive because a
  transaction makes current the segment a `create` linked earlier; `CallsWellFormed`
  says that nobody has touched it in between. `DropRefsEffect` is the lemma about the
  two scripts.
* `CurrentStaysLinked`, under `RepliesArrive` (no create transaction is reported as
  failed): neither the current segment nor one that a `create` is about to register is
  among the names the watchdog unlinks (`LInv`).
* `HandlesAreCounted`, under `BeatsArrive` (no first heartbeat is lost): the handles
  of every pid, with the references of the dead that the watchdog has not given back
  (`Tickets`), never exceed the count. That the watchdog gives back only what the dead
  held needs `HoldersBeat`, `BeatsAreOwn` and `VictimIsGone`: whoever holds a
  reference has a heartbeat of its own incarnation.

`SegmentTableProofs`, under `BulkSurvives` (no death inside `insert_many`)
* `TypeCorrect`, `ReadersGetTheirRow`, `EntitiesKeepTheirSlot`, `CopiesAreAligned`:
  a visible slot is complete and reachable by probing (`SlotsBacked`,
  `SlotsDistinct`), the row, pool entry and slot being filled belong to no visible
  slot (`FillingOK`), how far they are written (`WrittenOK`), and what a reader has
  established stays true (`ReaderOK`). The heart is `ProbeIsComplete`: slots are never
  emptied, so a probe that stops at an EMPTY slot has passed every slot that could
  hold the id.
* `LookupsSeeReturned`: `SInv` adds that an insert that returned has a visible slot
  with fields at least as new (`ReturnedOK`), and what the reader has copied so far is
  as new as when it began (`SinceOK`).

`EvolutionProofs`, in three layers
* `TypeCorrect`: `TInv`, with every fault and without the runbook.
* `PointerStaysLive`, with `"reply" \notin Faults`, without the runbook: `PInv` says
  who may still touch the pointer and who holds the segment it names; a segment whose
  hydration broke off keeps its count, and a new one is never unlinked by the cleanup
  of another call.
* `AckedRowsSurvive` and `StoreIsImplemented`, under `Orderly` (the runbook, and none
  of the faults `reply`, `livettl`, `drop`): `RInv` says what an upgrade's or a
  hydration's new segment reflects at every point where it can still become current,
  and that the consumer acknowledges nothing in between. Kills of both calls at any
  step, failed cleanups, exceptions, expired locks and pause keys are covered; a
  part-filled segment is not a store, and nobody makes it one. The second is the refinement
  of `OnlineStore`: the initial state maps to its initial state, and every step maps
  to one of its steps or leaves its variables alone.

`OfflineProofs`
* `TypeCorrect`; `FlushIsOrdered`: a bucket counts as written only when its file is in
  place (`WrittenIsFiled`), and between a flush and its XACK the buffers are empty
  (`NothingBehind`).
* `AcksAreReadable`, under `NoLateTick` (no event in the last half microsecond of a
  day): every message this process appended is in the bucket of its day, in the
  snapshot or in a file of its day (`Accounted`), for which the cache must name the
  day itself (`CacheIsDay`). A failed flush puts back exactly what is not `written`.
  `ConstantsAssumption` says that event and query times have a greatest day.
* `ReadsAreRight`, under `NoLateTick`: every row, buffered, in the snapshot or filed, is
  under the date of its day (`RowsOfDay`), and days are monotone in time, so the dates
  of a window hold all its rows (`WindowIsWhole`). Deduplication keeps a row of each
  message or of each entity and event time (`DedupKeeps`). `Before` is a total order on
  messages, so `Sorted` is a bijection (`RowsAreSorted`) and the row at the position the
  search finds is the last one not after `as_of` (`AsofRowIsLast`); the window of two
  queries contains the window of each (`WindowOfTwo`), and the age check of the join
  removes what only the other query loaded. `LatestIsRight` compares two reads of the
  same files and needs the types only.

`BufferPoolProofs`: `TypeCorrect`, `BuffersAreExclusive`, `FeaturesAreOwn`,
`FeaturesAreNeverForeign`, `MemoryIsBounded` follow from one invariant: who owns which
buffer (`CheckoutOK`, `Exclusive`), that the cells an assembly has behind it hold the
features of its ids (`WrittenOK`), and that the zeroing pool has zeros in its deque and
on the way to it (`ZeroOK`). `MemoryIsBounded` needs the cap: a thread is between
reading the length and appending with one checkout at most (`OneBusy`), and the deque
together with the appends that are decided never exceeds `max_size` and one for every
other thread ((`Committed`). `TypeOK` of this module is only proved; its run is about
the others.

`GcManagerProofs`: `TypeCorrect`, `NoTimerIsOrphaned`, `PausesAreObserved` follow from
one invariant: a stop that joins has signalled its thread (`CallsOK`), a named timer
of a process that has always asked for the callback has it installed
(`ThreadImpliesCallback`), and
under an installed callback nobody is between the halves of a stop (`ObservedOK`).

`RowFormatProofs`
* `LayoutIsDisjoint`. What is derived from a schema never changes (`Derived`), so the
  theorem is about the operators, for every schema, capacity and id length. The
  library's induction theorems take an operator, which the provers cannot instantiate;
  `NatMin`, `UpTo` and `Recursion` say the same of sets and functions, from the
  well-foundedness of `<`: a nonempty set of naturals has a least element, a set that
  contains 0 and k with k - 1 contains everything up to n, and a recursion over
  naturals has a solution. From them come the equations of the recursive functions
  (`PowersEquations`, `CursorEquations`, `ElementCountType`). `CursorsAgree`: offsets
  counted from the 16-byte header and from 0 differ by one line throughout. `SortedBy`:
  ranks are a bijection, so the table in hash order has the entries of the table in
  declaration order (`RowTable`); hence `RowSizeIsEnd`: `row_size`, the maximum over
  the sorted, shifted table, is the aligned end of the last declared field.
  `FieldsDisjoint`, `RegionsFollow` and `RowsFit` are the rest of the arithmetic.
* `NothingIsLost`, `TypeCorrect`: the bytes of a row. `NothingLost` is
  not inductive: `IInv` adds that what was stored under a name is a value of the field's
  dtype and shape, unless the name is in `wrapped` (`TruthOK`; without it the cast of an
  upgrade could lose it), that only lists of a widened integer field are (`WrapOK`), that a
  message in flight is the list of a producer whose schema is one of the two, the second
  only if it can follow the first (`MessageOK`), that the segment is at the second only
  then (`UpgradeOK`), and that row and buffer stay in the row (`InRow`). TLC has checked
  `IInv` on the instance of the run. The argument:
  sorting the hash table by offset gives the declaration order back, so the struct's
  pads bring every scalar to the offset `assemble` reads (`PlanFacts`); regions of
  different fields are apart, so of many stores each byte keeps the one of its field
  (`SomeStores`, `InsertReads`, `PackReads`); a value reads as it was put (`PutGet`, for
  elements of 1, 4 and 8 bytes). Messages carry no version, but `can_upgrade` only adds
  names: a list whose length the consumer accepts has the names of its own schema, and
  then the same order (`NamesOfSameLength`, `OrderOfNames`). The widening table only
  allows casts to a dtype with all the values of the old one (`Widens`), so what does not
  fit comes from the wider version of an integer list (`OnlyWidened`, `WiderFits`):
  struct refuses the scalars and every integer rounds to a float.

The assumptions are the code's checks: distinct hashes, positive dimensions, capacity
and id length, integers in range.

Only model-checked:
* liveness (`EventuallyDurable`, `DrainEndsEventually`, `OrphansReclaimed`,
  `ParkedResumes`, `LockIsFreed`, `PartialGoes`, `TimerSweeps`): they need fairness and ENABLED, out of
  the prover's reach.

## Not modelled

The msgpack envelope, hashing and CRC (bit-level); Arrow, Parquet and Pydantic
conversions (the libraries'); metrics and logging; the choice between the serial and
the parallel kernel. TTLs are expiry events, not clocks, so the consumer-name lock,
whose TTL equals the interval that renews it, is not modelled: which of two clocks
fires first is the whole question. `freeze` and `unfreeze` of the GC manager keep no
state. The heartbeat module's reset after fork, and several schemas at once, are left
out: scripts and pause act per schema.

## Plan

Done: the write path (`Wal`, refining `DurableLog`), segment lifetime (`Segments`), the table
(`SegmentTable`), the composition around `schema:current` (`Evolution`, refining
`OnlineStore`), `Offline`, `BufferPool`, `GcManager`, each with proofs of the safety
properties its runs check, as far as the prover reaches; `RowFormat`, with proofs of
its layout and of what a row holds.

Left: `ConsumerLock` with explicit clocks.
