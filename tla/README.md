# A TLA+ model of tombstash

tombstash is a key-value store in C++: a log-structured merge tree with a
write-ahead log, a background flusher, a background compactor, a value log for
large values with garbage collection, and a MANIFEST that commits the set of
files. This directory models it in TLA+, checks the model with TLC on small
instances, and proves part of what is checked with TLAPS for all instances.

Paths are relative to the repository; `db.cpp:305` means `src/db.cpp`, line 305.

## The system

| Part | State | Operations | Who else touches its state |
|---|---|---|---|
| `DB`, clients | `memtable_`, `wal_`, one lock `mu_`, one condition variable `cv_` | `put`, `del`, `sync`, `flush`, `get`, `scan`, `compact_all`, `gc_value_log`, `wait_for_idle` | all threads, under `mu_` |
| Flusher thread | `flushing_memtable_`, `has_flushing_`, `flushing_seq_`, `wal-flushing.log` | `flush_loop`: take, build without the lock, commit | writers fill the slot, `flush` and garbage collection wait for it |
| Compactor thread | `compacting_`, its inputs | `do_size_tiered_compaction`, `do_leveled_compaction`: pick, build without the lock, install | `compact_all` does the same from a caller's thread |
| Table list | `sstables_`, newest first; `level_of_`; `next_seq_` | insertion of a flush, replacement by a merge | readers copy it |
| MANIFEST | tables in order, `next_seq`, generation | replaced by rename at every change of the list | read by the constructor |
| Write-ahead log | `wal.log`, `wal-flushing.log` | append, sync, replay, truncate, rotate | recovery |
| Value log | `vlog-<gen>` files, `vlogs_`, `current_gen_` | append, sync, read, new generation | flusher (without the lock), `flush`, garbage collection, readers |
| SSTable | an immutable file: blocks, sparse index, Bloom filter | build, open, get, range, iterate, unlink in the destructor when obsolete | readers and merges hold it by `shared_ptr` |
| Memtable | a map with its size in bytes | put, del, get, range, snapshot | |
| Bloom filter | bits | add, maybe_contains, serialise | SSTable |
| Statistics, CLI, dashboard, benchmark | counters, HTTP | read or call the public interface | |

What is hard about it: building a table takes place without the lock, so what
was read before it may have changed after; files are unlinked by whoever lets go
of them last; every durable change is a sequence of disk operations, with a
crash possible between any two; two logs, tables and MANIFEST have to agree on
what is newest; and one boolean, `compacting_`, stands for all mergers.

What makes each part right:

- clients: a read returns the last write; a write that was synced, sealed or
  flushed survives a crash; blocked writers get on;
- flusher: its table becomes the newest only if nothing newer was listed before
  it; the value log has one writer at a time;
- mergers: they change nothing that can be read, and drop a tombstone only when
  nothing older is left;
- MANIFEST: it names only files that exist, with values that are on disk;
- value log: no pointer outlives its generation;
- SSTable: a file is written once, is there as long as it is held, and goes then;
- write-ahead log: replay returns the acknowledged records, in order.

`PROJECT.json` lists the hazards behind these, each at its line.

## The modules

| Module | What it is |
|---|---|
| `Tables` | Pure data and algorithms: memtable and table contents, lookup in a newest-first list, `merge_records`, `pick_compaction`, `contiguous_to_oldest`, `install_merge_result`, value separation, replay of a log |
| `KVStore` | The abstract promise: a map that survives crashes. Not a translation of code |
| `LsmState` | The state of `DB`, its threads and its directory; types; what the operations share |
| `LsmFlush` | `put`, `del`, `sync`, `maybe_seal`, `flush`, `flush_locked`, `flush_loop` |
| `LsmCompact` | Size-tiered compaction, `compact_all`, `gc_value_log` |
| `LsmReads` | `get`, `scan` |
| `LsmRecovery` | The constructor, the end of the process, loss of power |
| `LsmDB` | The engine with the size-tiered strategy: the four modules together, the specification, the properties. Refines `KVStore` |
| `LeveledDB` | The engine with the leveled strategy: `LsmDB` with levels |
| `Wal` | The write-ahead log byte by byte |
| `Memtable`, `SSTable` | The data structures: byte accounting; blocks, sparse index, Bloom filter, cursors, the merge loop |
| `Formats` | The path of a record through those structures, against `Tables` |
| `MCLsmDB`, `MCLeveled`, `MCWal`, `MCFormats` | Constants for the instances |
| `LsmStateProofs` | Lemmas about `Tables`; the inductive invariant `EngineInv`, and what steps that do the same things share |
| `LsmEngineProofs` | Writes, flushes, reads, crashes and recovery preserve `EngineInv`; every action preserves `GenLeakInv`, about value-log files |
| `LsmCompactProofs` | Merges and garbage collection preserve `EngineInv`; every action preserves `LeakInv`, about table files; the theorems that hold for any mergers |
| `LsmViewProofs` | The invariant `ViewInv` of a store with one merger; all but merges and garbage collection preserve it |
| `LsmDurableProofs` | The invariant `DurInv` about what is on disk; writes, flushes and crashes preserve it |
| `LsmMergeProofs` | Merges and garbage collection preserve `ViewInv` and `DurInv`; the steps of a recovery preserve `DurInv` |
| `LsmDBProofs` | Which step of `KVStore` each action is; the theorems about a store with one merger |
| `WalProofs` | What replay makes of the bytes of a log; the invariant `LogInv`; the theorems about the log |

### How `LsmDB` corresponds to the code

The members of `DB` are variables of the same name without the underscore. The
locals of a function that releases the lock on its way are records: `flusher`,
`jobs[j]`, `rd[r]`. What a background thread still refers to after its last unlock,
until the end of the enclosing scope, is `locals[t]`: the table it listed (`output`,
db.cpp:540, 631, 967) and, for the flusher, its generation (`gen_log`). It lets go
of them without the lock (`EndScope`), and whatever became obsolete in between is
unlinked only then. A thread that works under the lock across several disk
operations holds `mu`; `mu.at` is how far it is. A part of a function between
two points where another thread, or a crash, can get in is one action:

| Code | Actions |
|---|---|
| `put`, `del` | `Put`, `Del`; `MaybeSeal` if they had to wait for the slot |
| `flush`, `flush_locked` | `Flush`, then `FlushBuild`, `FlushCommit`, `FlushTruncate` (also for garbage collection and the constructor) |
| `flush_loop` | `FlusherTake`, `FlusherBuild`, `FlusherCommit`, `FlusherFinish`, `EndScope` |
| `do_size_tiered_compaction` | `DoSizeTieredCompaction`, then `MergeBuild`, `MergeCommit`, `MergeFinish`, `EndScope` |
| `compact_all` | `CompactAll`, then the same four |
| `gc_value_log` | `GcValueLog`, the flush, then `GcNothing` or `GcBuild`, `GcCommit`, `GcFinish` |
| `get`, `scan` | `Get`, `Scan`, then `EndRead` |
| `sync` | `Sync` |
| the constructor | `OpenDB`, the flush if there was a sealed log, `OpenDropWal`, `OpenDone` |
| the destructor, or the process is killed | `Exit` |
| the machine stops | `PowerLoss` |
| `wait_for_idle` | no state of its own; `WaitForIdleOK` and `EventuallyIdle` are about its condition |

Abstractions:

- The vector `sstables_` is a function from age slots to tables; a larger slot
  is newer. Only the order of slots counts.
- A table's content is a function from all keys to cells: a value, a tombstone,
  a pointer, or nothing. `Formats` is about when that is right: what blocks, index,
  Bloom filter and cursors make of it (`TablesOK`, `GetOK`, `ScanOK`).
- A pointer is a generation, the flush that wrote the value, and the key,
  instead of a byte offset. Flushes append to a value log one after the other,
  so the three determine the offset; `OneAppender` is what justifies it.
- A log is a sequence of records. `Wal` is about when that is right.
- `seal_locked` is one action. A crash inside it leaves the same records in
  `wal.log` or in `wal-flushing.log`.
- An answer that a memtable gives to `get` takes one step under the lock and
  changes nothing, so `Get` is only for the other case; `ViewOK` covers both.
- The size of a memtable is a parameter, a function of its content (`SizeOK`
  in `Formats` says that it is one), and so is the size bucket of a table.
- I/O errors are not modelled.

`kv`, `allowed` and `lost` are history variables: what clients wrote, per key
what a power loss may leave of it, and whether power was lost.

### How `LeveledDB` corresponds to the code

`LeveledDB` extends `LsmDB` by `level_of` (`level_of_`), the levels in MANIFEST and
the locals of `do_leveled_compaction`. Its steps are `DoLeveledCompaction` (pick
under the lock, db.cpp:673), `LeveledReserve` (merge and split, then the lock to
number the outputs), `LeveledBuild` (without the lock), `LeveledCommit` (swap,
`reorder_sstables_locked`, MANIFEST) and `LeveledFinish`, after which the outputs
are released without the lock as in `LsmDB`. The steps of the engine
that change the list are conjoined with what they do to levels:
`LeveledFlushCommit`, `LeveledFlusherCommit`, `LeveledGcCommit`, `LeveledOpenDB`,
`LeveledOpenDone`, `LeveledEnd`. All other steps are those of `LsmDB`.

### How `Formats` corresponds to the code

Nothing runs concurrently in `Formats`: `FPut`, `FDel`, `FSeal`, `FFlush` and
`FMerge` take records through `Memtable::put` and `del`, a seal, the builder of an
SSTable and `merge_records`. The structures are operators: a memtable with
`size_bytes_` (`Memtable`); an SSTable as a sequence of records cut into blocks
with a sparse index and a Bloom filter that is serialised and read back; its
`get_no_bloom`, `range` and iterator; the cursor loops of `merge_records` and
`DB::scan` (`SSTable`, `Formats`). Beside them `contents` and `map` hold what the
operators of `Tables` say, and the properties compare the two.

### How `Wal` corresponds to the code

The file is a sequence of bytes. `WalAppend` is `append`, with its check that a length
fits its field (`Fits`, wal.cpp:68); `Encode` is the record format, with lengths as
`put_u32_le` writes them, byte by byte (`PutLE`, from the successive right shifts
`Shifts`). `ReplayFrom` is the loop of `replay` from any position, with `IsComplete`
its four checks for a torn record and `ReadLE` for `read_u32_le`. `WalOpen` and
`WalTruncate` are the two uses of the constructor. `WalExit` may stop `write_all`
after any number of bytes, and `WalPowerLoss` keep any prefix that holds what was
synced. `history`, `durable` and `owed` are history variables.

### The directory and crashes

When the process ends, the directory stays as it was. When power is lost, of
`wal.log` a prefix survives that holds at least what was synced, and of a value
log what was synced. The file system keeps its directory operations in order, as
journaling file systems do, and a sync of any file or directory makes the earlier
ones durable. So at most one operation is open to loss, the one in `pending`:
the truncation of `wal.log` (db.cpp:447) or the removal of `wal-flushing.log`
(db.cpp:538), the two that the code does not sync. `rename` is atomic. A
file that an unsynced unlink brings back is an orphan, which the next open
removes again.

This is kinder than POSIX in one respect: `wal.log` is created after the
directory sync of a seal (db.cpp:466), and its name is durable in the model as
soon as the file is synced.

## What is checked

The cfgs use two keys (one in `Liveness`, three in `Formats`) and one value per
key (two sizes in `Formats`); the value is separated into the value log where the
cfg says `Big <- BigOnly`. With one value, a key distinguishes "written",
"deleted", "never written"; what goes wrong in this code is a delete undone, a
write undone, or a pointer that leads nowhere, and all three are visible. A
memtable's size is its number of entries. `Threshold = 1` makes every write fill
the memtable, which gives the most tables and seals per write; `Threshold = 2`
leaves unflushed data in memory and gives tables of two sizes.

| Run | Instance | Shows | States |
|---|---|---|---|
| `Engine` | 1 writer, 3 writes, 1 reader, compactor, 1 collection | `ViewOK`, `ReadOK`, `HeldOK`, `PointersOK`, `OneAppender`, `WaitForIdleOK`, `NoLeak` | 2,202,000 |
| `Crash` | 3 writes, synced or not, `compact_all` as the merger, 2 crashes, 1 collection | `TypeOK`, `DurableOK`, `ManifestOK`, `ViewOK`, `TablesImmutable` | 1,410,000 |
| `CrashSynced` | 4 synced writes, compactor with two size buckets, 1 crash, both losses | refinement of `KVStore` (`KVSpec`) | 454,000 |
| `Liveness` | 2 writers, 3 writes, 1 crash, 1 collection | `WritersProceed`, `EventuallyIdle`, `ViewOK` | 108,000 |
| `Leveled` | 3 writes, levels 0 to 2, 1 crash, 1 collection | `ViewOK`, `DurableOK`, `LevelsDisjoint`, `ReadOrder` | 1,950,000 |
| `Formats` | 3 keys, 2 value sizes, 4 puts and deletes, any flushes and merges | `SizeOK`, `TablesOK`, `GetOK`, `ScanOK` | 86,000 |
| `WalReplay` | 3 records, 2 crashes at any byte | `WalTypeOK`, `CleanLogRecovered` | 389,000 |

Why the bounds are enough: three writes make three tables, so that a merge can
leave one out on either side, or a second merge can take the first one's output;
one reader can hold a snapshot over all of that. Two writers, of which one waits in
`maybe_seal` while the other writes, are in `Liveness`. A wrong order needs two writes
of a key and one more table between them. Two crashes are needed for a crash
during recovery and for a reused sequence number. One collection swaps the
generations once; a second one starts from a state like the first did. In
`Leveled`, budgets of one and two entries, a target of one byte and a merge of level
0 as soon as it has a table make three writes reach level 2; the constructor fixes
the proportions (twice and sixteen times the memtable threshold), which only decide
when a level is full. In `Formats`, blocks of 24 bytes hold one or two records, so
that keys fall on, between and before block boundaries, and filters of five to
thirteen bits have false positives and end within a byte. Every property fails on a
version of the model with a plausible mistake in the code (`mutants` in
`PROJECT.json`): a skipped wait, a forgotten sync, a MANIFEST written too early, a
tier with a gap, tombstones always dropped.

`Crash`, `CrashSynced` and `Leveled` exclude a crash at one point, between the
truncation of `wal.log` and the removal of `wal-flushing.log` during recovery
(`OutsideDropWal`), and `Crash` and `Leveled` exclude the loss of a truncation,
because of the two findings below. All passing runs have one merger, because of
`CompactRace` and `GcRace`.

### Disagreements with the documentation

Five runs find a property violated that a comment of the code states.

| Run | What happens |
|---|---|
| `CompactRace` | `compact_all` starts while the compactor merges. The second to install finds its inputs replaced; a deleted key comes back (db.cpp:943, db.cpp:568) |
| `GcRace` | Two merges overlap; the first to end clears `compacting_`. `gc_value_log` starts, and the merge still running then lists pointers into the dropped generation (db.cpp:964, db.cpp:975). `wait_for_idle` returns too early in the same way |
| `RecoveryCrash` | Recovery flushes both logs, truncates `wal.log`, and crashes before it removes `wal-flushing.log`. The next recovery replays the sealed log alone, and flushes old values as the newest table (db.cpp:305) |
| `LostTruncate` | Unsynced writes are flushed; a power loss undoes the truncation and leaves a prefix of the log, which is replayed over the newer table (db.cpp:447) |
| `WalTorn` | A torn record is ignored by replay but stays in the file; records appended after it are lost to the next replay (wal.cpp:36) |

Two comments are out of date without consequence: vlog.h:16 says garbage
collection is not implemented, and vlog.h:28 says values are appended under the
exclusive lock, which `flush_loop` does not hold (db.cpp:502).

### Fairness

`FairSpec` assumes weak fairness of each thread's next step: the flusher, the
compactor, each merge in progress, a caller inside `flush_locked` or
`gc_value_log`, the constructor, and a writer whose wait in `maybe_seal` is
over. The operating system schedules runnable threads, `cv_` is notified after
every change of a condition waited for, and no thread waits for anything else
with the lock held. Clients owe no call: `put`, `flush`, reads and crashes have
no fairness. `shared_mutex` makes no promise of fairness, and a client that
calls `flush` or `gc_value_log` for ever could keep others out; the liveness
properties assume that such calls end (`CallersRest`), and the number of writes
is bounded.

## What is proved

For all sets of keys, values, clients and readers, any size functions,
thresholds and bounds, any crash points and any of the two unsynced operations
lost. `TablesAssumption` asks that keys are integers, that the cells are told
apart, and that `MinMerge` is a natural number; `LsmAssumption` gives the types of
the other constants. `WalAssumption` says that a length field has at least one byte
and that keys and values are strings of bytes.

| Theorem | Statement |
|---|---|
| `EngineInvariant` | `Spec => []EngineInv` |
| `TypeCorrect` | `Spec => []TypeOK` |
| `SingleAppender` | `Spec => []OneAppender` |
| `FilesHeld` | `Spec => []HeldOK` |
| `TablesWrittenOnce` | `Spec => TablesImmutable` |
| `FilesReleased` | `Spec => []NoLeak` |
| `ViewInvariant` | `OneMerger` implies `Spec => []ViewInv` |
| `ViewCorrect` | `OneMerger` implies `Spec => []ViewOK` |
| `ReadsCorrect` | `OneMerger` implies `Spec => []ReadOK` |
| `PointersLead` | `OneMerger` implies `Spec => []PointersOK` |
| `ManifestCorrect` | `OneMerger` implies `Spec => []ManifestOK` |
| `IdleIsIdle` | `OneMerger` implies `Spec => []WaitForIdleOK` |
| `DurableInvariant` | `OneMerger` and `CrashesHandled` imply `Spec => []DurInv` |
| `RecoveryDurable` | `OneMerger` and `CrashesHandled` imply `Spec => []DurableOK` |
| `Refinement` | `OneMerger` and `CrashesHandled` imply `Spec => KVSpec` |
| `InstallLookup` | Replacing an age-contiguous run of tables by its merge changes no lookup, if tombstones go only with the oldest table |
| `LogInvariant` | `WalSpec => []LogInv` |
| `WalTypeCorrect` | `WalSpec => []WalTypeOK` |
| `CleanLogIsRecovered` | `WalSpec => []CleanLogRecovered` |

### The engine, with any mergers

The first five theorems rest on one inductive invariant, `EngineInv`, none of whose
parts is inductive alone:

- `LockOK`: who can be at which point of the lock;
- `SlotOK`: the flushing slot is taken while the flusher works and free while
  anybody is in `flush_locked` or collects garbage. `OneAppender` follows;
- `GensOK`, `BoundsOK`: the generations in use have files; every list has a
  newest and an oldest table, so that `PushNewest`, `Max` and `Min` make sense;
- `IdsOK`: numbers reserved at seal or pick time, and not yet used, differ from
  each other and from all tables that are listed or still referred to. Needed
  because a table is listed long after its number was taken;
- `FilesOK`, `FreshOK`: listed and finished tables are on disk with their
  content; reserved numbers have no file, and no file has a number still to be
  handed out. `TablesImmutable` follows;
- `CommitOK`: MANIFEST lists the tables in memory, all on disk, with numbers
  below its `next_seq`, so that the numbers handed out after a crash are new
  once the orphans are removed;
- `HeldOK` itself.

Initially nothing exists. Each action has a lemma that it preserves `EngineInv`,
with a step per part it can disturb. Crashes keep it because all that is left is
what `CommitOK` says about the directory, and `OpenDB` builds the rest from it.

`NoLeak` needs the converse of `HeldOK`, and two invariants of its own, inductive
together with `EngineInv`. `LeakInv` is about table files. `FilesWanted`: every one is
listed, finished and about to be, an input of a merge, marked obsolete, or, while a
collection ends, about to be marked. `ObsoleteWanted`: a file stays marked only
while somebody refers to it, because every step that lets go of a table unlinks
what nobody else holds. The holders are readers, merges, and threads past their last
unlock (`locals`): a table that the flusher listed may be merged away before the
flusher lets go of it, and then it is the flusher that unlinks it, without the lock.
`LockLeaves` and `IdleLeaves`: after a commit the table that was built is listed, and
a merge or a read that is over holds no tables. `GenLeakInv` says the same of
value-log files: each is in `vlogs_`, marked, or being filled by a collection
(`GensWanted`), and a marked one is still referred to (`OldGensWanted`) by a reader or
by the flusher's `gen_log`. A crash may leave files that no list names; the
constructor removes them.

### What clients see, with one merger

`ViewOK`, `ReadOK`, `PointersOK`, `ManifestOK` and `WaitForIdleOK` need a hypothesis:
with both mergers some of them do not hold (`CompactRace`, `GcRace`). `OneMerger` says that
`Compactors` has at most one member: a store whose clients never call
`compact_all`, or one whose compactor is never needed. Under it, and on top of
`EngineInv`, `ViewInv` is inductive:

- `MergerOK`: while a merge is under way `compacting_` is set, and nobody collects
  garbage. This is what fails with two mergers. `WaitForIdleOK` follows;
- `InputsOK`: until its output is installed, the inputs of a merge are a run of
  the list, down to the oldest table if it drops tombstones, and its output is
  their merge. Flushes only add newer tables. So the swap changes no lookup, by
  `InstallLookup`;
- `UniqueOK`: no table is listed twice, so the swap takes out its inputs and
  nothing else;
- `TablesPoint`: pointers of listed tables lead to synced values of the current
  generation. `PointersOK` and `ManifestOK` follow;
- `BuiltOK`: a finished table holds what the memtable held, each large value
  behind its pointer, or, for a collection, what all tables together show;
- `CommittedOK`: a memtable about to be dropped is covered by the tables;
- `SnapshotsOK`: the pointers in a reader's snapshot lead to values in files it
  holds, and it answers as the store did. `ReadOK` follows;
- `FirstOK`: a directory without MANIFEST is a new one;
- `ViewOK` itself.

### What survives, with one merger and crashes that are handled

`DurableOK` and the refinement need one more hypothesis, `CrashesHandled`: no crash
falls between the flush of a recovery and the removal of `wal-flushing.log`, and, if
the truncation of `wal.log` may be lost, clients sync every write. Without its first
half `RecoveryCrash` is a counterexample, without its second `LostTruncate`. Under it,
`DurInv` is inductive on top of `EngineInv` and `ViewInv`:

- `LogsOK`: the memtables are what the two logs replay to;
- `KilledOK`: while the store is not open, what a recovery would find is what clients
  wrote or, after a power loss, something they may rely on. A recovery interrupted
  at any of its steps keeps this, so that the next one can start over;
- `PrefixOK`: the same if of `wal.log` only a prefix survives that holds what was synced;
- `PendingOK`: a log that may come back, because its truncation or removal was not
  synced, holds only what the tables show. So replaying it once more is harmless;
- `SyncedOK`: if every write is synced, so is the whole log;
- `ShownType`: clients see values, never tombstones or pointers.

The argument for a flush: once MANIFEST names its table, the end of the process
leaves a log whose records the newest table holds already, and a recovery finds the
same. A power loss may leave a prefix of that log, and replaying it may show a value
older than the table's; that value is still allowed, because a flush promises nothing
before it has truncated the log. After that it promises the newest values, and a
truncation undone would break the promise, unless all of the log was synced and comes
back whole.

`DurableOK` follows. For the refinement, `MapStep` names the five things a step can
be: a write, a promise made firmer, the end of the process, a recovery, or nothing a
client sees; each action is shown to be one of them, and each of them a step of
`KVStore`.

### The log, byte by byte

The last three theorems are about `Wal`, for any width of the length fields, any keys
and values that fit them, any number of records, and crashes after any byte. What a
replay returns can only be said of a file whose bytes are known, so `LogInv` says of a
log that was never opened with a torn end:

- there are a layout `at` of the records of `history` (where each one starts) and a
  number `m` of them whose encodings lie in the file one after the other (`OnFile`);
- what follows the last of them is nothing, or bytes that begin a record and do not
  complete it (`EndsAt`); an open log ends with its last record;
- the records that count as durable end within the part that was synced;
- a log that is not open still holds all that a recovery owes.

The heart of it is the lemma `RecordRead`: where the first `n` bytes of a record's
encoding are the end of a file, the four checks of `replay` find it complete exactly
if all its bytes are there, and then read back the record that was written. It rests on
the numbers `put_u32_le` writes being read back by `read_u32_le` if they fit
(`LengthRead`), and on a check never looking at a byte that is not there. `ReplayLog`
concludes that replay returns the `m` records. An append, a torn append and a cut then
each give a file that is a log of a known prefix of the history.

The definitions behind this are recursive functions (`Shifts`, `ReadLE`, `ReplayFrom`).
The induction theorems of the library cannot be used for them, because they take a
predicate as a parameter. Instead `Recursion` proves, from the well-foundedness of the
natural numbers, that a function that is defined from its smaller arguments exists, and
what such a function returns is proved by looking at a least counterexample
(`LeastNat`).

### What stays with TLC

- Liveness (`WritersProceed`, `EventuallyIdle`): fairness and `ENABLED` are out of
  the prover's reach. Liveness of the cascade of leveled compactions is not checked
  at all: with budgets of 0 levels grow without bound.
- The properties of `Formats`. The loops of `merge_records` and `scan` are recursive
  operators, which the prover does not take; blocks, index and filter are built by
  folds, each of which would need an induction of its own, by hand.
- The properties of `LeveledDB`. The split of a merge into tables is a fold,
  and that a list can be put in order (`SetToSortSeq`) is an induction over its length.

## Not modelled

- I/O errors and exceptions; damaged files and the checks against them.
- Calls that race the destructor.
- `compact_all` under the leveled strategy; a change of strategy between openings;
  the leveled strategy with `min_merge` 0, which reads the front of an empty vector.
- A directory with tables and no MANIFEST, written by an older version:
  `LoadDirectory` models the bootstrap, no behaviour starts from one.
- The bytes of MANIFEST and of block headers; the hash functions and the optimal
  sizes of Bloom filters, which are parameters.
- Statistics, accessors, CLI, dashboard, benchmark: they influence no state
  above.

## Plan

1. Proofs: that the invariants of the engine hold under the leveled strategy, as
   far as they do not depend on how a merge is split.
2. `compact_all` in `LeveledDB`; a bootstrap from tables without MANIFEST.
3. I/O errors in flushes and merges.
