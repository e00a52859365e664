------------------------------- MODULE Tables -------------------------------
(***************************************************************************)
(* The data the store is made of, and the pure operations on it: memtables *)
(* and SSTables, the newest-first list of tables, the k-way merge, the     *)
(* choice of tables for a size-tiered compaction, the swap that installs a *)
(* merge, and the separation of large values into a value log.             *)
(*                                                                         *)
(* A memtable or the content of an SSTable is a function from every key to *)
(* a cell: the newest thing this table knows about the key.                *)
(*                                                                         *)
(* The vector sstables_ (newest first) is a function from age slots to     *)
(* tables; a larger slot is newer.  Only the order of the slots means      *)
(* anything, so taking a table out of the vector leaves a hole instead of  *)
(* shifting its neighbours.                                                *)
(***************************************************************************)
EXTENDS Integers, Sequences, FiniteSets, FiniteSetsExt

CONSTANTS
  Keys,           \* the keys, ordered as the integers they are
  Values,         \* what a client may store
  Big,            \* the values of at least value_sep_threshold_ bytes
  Absent,         \* cell of a key the table holds no record for
  Tomb,           \* cell of a deleted key (a record with Op::Delete)
  SizeBucket(_),  \* size_bucket of a table with this content
  MinMerge        \* min_merge_

\* Where a separated value lives: ValuePtr.  A byte offset is abstracted to
\* the flush that appended the value (its batch) and the value's key.
Ptr == [gen : Nat, batch : Nat, key : Keys]

MemCell == Values \cup {Tomb, Absent}
Cell    == MemCell \cup Ptr
Content == [Keys -> Cell]
MemContent == [Keys -> MemCell]

ASSUME TablesAssumption ==
  /\ Keys \subseteq Int
  /\ Big \subseteq Values
  /\ Absent # Tomb /\ Absent \notin Values /\ Tomb \notin Values
  /\ \A c \in MemCell : c \notin Ptr
  /\ MinMerge \in Nat

Empty == [k \in Keys |-> Absent]

\* Memtable::put and Memtable::del (cell = Tomb).
MemPut(m, k, cell) == [m EXCEPT ![k] = cell]

\* What a client sees of a cell: a tombstone reads as "no such key".
AsValue(c) == IF c = Tomb THEN Absent ELSE c

-----------------------------------------------------------------------------
\* Reading a newest-first list of tables.

Holding(tables, k) == {s \in DOMAIN tables : tables[s].data[k] # Absent}

\* The cell of the newest table that holds a record for k.
Lookup(tables, k) ==
  IF Holding(tables, k) = {} THEN Absent
  ELSE tables[Max(Holding(tables, k))].data[k]

TableIds(tables) == {tables[s].id : s \in DOMAIN tables}

\* sstables_.insert(sstables_.begin(), t)
PushNewest(tables, t) ==
  LET top == IF DOMAIN tables = {} THEN 1 ELSE Max(DOMAIN tables) + 1
  IN  [s \in DOMAIN tables \cup {top} |-> IF s = top THEN t ELSE tables[s]]

-----------------------------------------------------------------------------
\* As MergeRecords, but the oldest record wins.
MergeOldestWins(tables, drop) ==
  [k \in Keys |->
     LET c == IF Holding(tables, k) = {} THEN Absent
              ELSE tables[Min(Holding(tables, k))].data[k]
     IN  IF drop /\ c = Tomb THEN Absent ELSE c]

\* merge_records: per key the newest record wins, tombstones go if asked to.
MergeRecords(tables, drop) ==
  [k \in Keys |-> IF drop /\ Lookup(tables, k) = Tomb THEN Absent
                  ELSE Lookup(tables, k)]

\* No other table of the list lies between two tables of R in age.
AgeContiguous(tables, R) ==
  \A s \in DOMAIN tables : (\E a, b \in R : a <= s /\ s <= b) => s \in R

SameBucket(tables, R) ==
  \A a, b \in R : SizeBucket(tables[a].data) = SizeBucket(tables[b].data)

IsRun(tables, R) ==
  R # {} /\ AgeContiguous(tables, R) /\ SameBucket(tables, R)

\* As Tiers, but a tier may skip over tables of another size.
GappyTiers(tables) ==
  {R \in SUBSET DOMAIN tables :
     /\ MinMerge >= 2
     /\ Cardinality(R) >= MinMerge
     /\ SameBucket(tables, R)
     /\ \A s \in DOMAIN tables \ R : ~SameBucket(tables, R \cup {s})}

\* The maximal runs of age-adjacent tables of one size bucket that are long
\* enough to merge.
Tiers(tables) ==
  {R \in SUBSET DOMAIN tables :
     /\ MinMerge >= 2
     /\ Cardinality(R) >= MinMerge
     /\ IsRun(tables, R)
     /\ \A s \in DOMAIN tables \ R : ~IsRun(tables, R \cup {s})}

BucketOf(tables, R) == SizeBucket(tables[Max(R)].data)

\* pick_compaction prefers the smallest bucket and, among equals, the run it
\* meets first, the newest.  The set is empty when there is nothing to merge.
PickCompaction(tables) ==
  {R \in Tiers(tables) :
     \A Q \in Tiers(tables) \ {R} :
        \/ BucketOf(tables, R) < BucketOf(tables, Q)
        \/ BucketOf(tables, R) = BucketOf(tables, Q) /\ Max(R) > Max(Q)}

\* As ReachesOldest, but every run does.
AlwaysOldest(tables, R) == TRUE

\* contiguous_to_oldest, for a run: it includes the oldest table.
ReachesOldest(tables, R) == Min(DOMAIN tables) \in R

\* install_merge_result: out takes the slot of the newest input that is still
\* listed; when none is, it goes to the end of the list.
InstallMergeResult(tables, inputs, out) ==
  LET hit  == {s \in DOMAIN tables : tables[s].id \in inputs}
      slot == IF hit # {} THEN Max(hit)
              ELSE IF DOMAIN tables = {} THEN 1
              ELSE Min(DOMAIN tables) - 1
  IN  [s \in (DOMAIN tables \ hit) \cup {slot} |->
         IF s = slot THEN out ELSE tables[s]]

-----------------------------------------------------------------------------
\* Value separation.  A value log is a sequence of batches, one per flush that
\* separated something; a batch maps the keys it stores to their values.

\* The first synced batches of a value log are known to be on disk.
IsValueLog(log) ==
  log \in [data : Seq(Content), synced : Nat] /\ log.synced <= Len(log.data)

BigKeys(m) == {k \in Keys : m[k] \in Big}

SeparatedBatch(m) == [k \in Keys |-> IF m[k] \in Big THEN m[k] ELSE Absent]

\* The records as written to the SSTable: a large value becomes a pointer.
Separated(m, g, b) ==
  [k \in Keys |-> IF m[k] \in Big THEN [gen |-> g, batch |-> b, key |-> k]
                  ELSE m[k]]

\* As AppendSynced, without the sync.
AppendUnsynced(log, m) ==
  IF BigKeys(m) = {} THEN log
  ELSE [log EXCEPT !.data = Append(@, SeparatedBatch(m))]

\* ValueLog::append for the large values, then ValueLog::sync if there are any.
AppendSynced(log, m) ==
  IF BigKeys(m) = {} THEN log
  ELSE [data |-> Append(log.data, SeparatedBatch(m)),
        synced |-> Len(log.data) + 1]

\* The pointer refers to a value its log holds.
Resolves(logs, c) ==
  c \in Ptr => /\ c.gen \in DOMAIN logs
               /\ c.batch \in 1 .. Len(logs[c.gen].data)
               /\ logs[c.gen].data[c.batch][c.key] \in Values

\* The value of a cell: ValueLog::read for a pointer into one of the logs gens.
\* A pointer that leads nowhere (vlogs_.at throws) stands for itself.
ReadCell(logs, gens, c) ==
  IF c \in Ptr /\ c.gen \in gens /\ Resolves(logs, c)
  THEN logs[c.gen].data[c.batch][c.key]
  ELSE c

-----------------------------------------------------------------------------
\* A WAL is a sequence of records [key, cell]; replaying it into an empty
\* memtable leaves, per key, the last record.

LogRecord == [key : Keys, cell : Values \cup {Tomb}]

\* As Replay, but the first record of a key wins.
ReplayFirstWins(log) ==
  [k \in Keys |->
     LET at == {i \in DOMAIN log : log[i].key = k}
     IN  IF at = {} THEN Absent ELSE log[Min(at)].cell]

Replay(log) ==
  [k \in Keys |->
     LET last == {i \in DOMAIN log : /\ log[i].key = k
                                     /\ \A j \in i + 1 .. Len(log) : log[j].key # k}
     IN  IF last = {} THEN Absent ELSE log[CHOOSE i \in last : TRUE].cell]
=============================================================================
