--------------------------- MODULE LsmViewProofs ----------------------------
(***************************************************************************)
(* What clients see of LsmDB, when one thread merges: reads return what    *)
(* was written, pointers lead to values, MANIFEST names what is on disk.   *)
(***************************************************************************)
EXTENDS LsmDB, LsmStateProofs

\* compact_all and the background compactor do not overlap.
OneMerger == \A i, j \in Compactors : i = j

\* While a merge is under way, compacting_ is set and nobody collects garbage.
MergerOK ==
  \A j \in Compactors : jobs[j].pc # "idle" => compacting /\ mu.by # "gc"

\* Until its output is installed, the inputs of a merge stay listed.
InputsOK ==
  \A j \in Compactors : jobs[j].pc # "idle" =>
    /\ DOMAIN jobs[j].inputs # {}
    /\ jobs[j].pc = "built" => jobs[j].data = MergeRecords(jobs[j].inputs, jobs[j].drop)
    /\ mu.at # "merge_committed" => StillListed(sstables, jobs[j].inputs, jobs[j].drop)

\* No table is listed twice, in memory or in MANIFEST.
UniqueOK ==
  /\ Distinct(sstables)
  /\ mode = "closed" /\ manifest.present =>
       \A s, t \in DOMAIN manifest.tables : manifest.tables[s] = manifest.tables[t] => s = t

\* A directory without MANIFEST is a new one.
FirstOK ==
  ~manifest.present => /\ DOMAIN ssts = {} /\ flushing_wal = <<>>
                       /\ pending.op = "none" /\ mu.at \in {"free", "open_done"}

\* The pointers of listed tables lead into the current generation.
TablesPoint ==
  /\ mode # "closed" =>
       \A s \in DOMAIN sstables : PointsInto(vfiles, current_gen, sstables[s].data)
  /\ mode = "closed" /\ manifest.present =>
       \A s \in DOMAIN manifest.tables :
         PointsInto(vfiles, manifest.gen, ssts[manifest.tables[s]])

\* A table about to be listed holds what it is to replace.
BuiltOK ==
  /\ flusher.pc = "built" => Written(vfiles, current_gen, flusher.data, flushing_memtable)
  /\ mu.at = "flush_built" => Written(vfiles, current_gen, mu.data, memtable)
  /\ mu.at = "gc_built" =>
       /\ PointsInto(vfiles, current_gen + 1, mu.data)
       /\ \A k \in Keys : AsValue(ValueOf(vfiles, mu.data[k]))
                            = AsValue(ValueOf(vfiles, Lookup(sstables, k)))

\* The tables give the same answers as the memtable m.
Covered(m) ==
  \A k \in Keys : m[k] # Absent => ValueOf(vfiles, Lookup(sstables, k)) = m[k]

\* A memtable that is about to go is covered.
CommittedOK ==
  /\ mu.at = "flush_committed" => Covered(memtable)
  /\ mu.at = "flusher_committed" => Covered(flushing_memtable)

\* A snapshot answers as the store did when it was taken.
SnapshotsOK ==
  \A r \in Readers : rd[r].pc = "reading" =>
    /\ \A g \in rd[r].gens : g <= current_gen
    /\ \A k \in Keys : Lookup(rd[r].tables, k) \in Ptr =>
         /\ Lookup(rd[r].tables, k).gen \in rd[r].gens
         /\ OnDisk(vfiles, Lookup(rd[r].tables, k))
    /\ \A k \in rd[r].keys : Answer(r, k) = rd[r].want[k]

ViewInv ==
  /\ MergerOK /\ InputsOK /\ UniqueOK /\ FirstOK
  /\ TablesPoint /\ BuiltOK /\ CommittedOK /\ ViewOK /\ SnapshotsOK

-----------------------------------------------------------------------------
\* The types the lemmas below use.
Types ==
  /\ IsList(sstables) /\ sstables = [s \in DOMAIN sstables |-> sstables[s]]
  /\ memtable \in MemContent /\ flushing_memtable \in MemContent
  /\ \A g \in DOMAIN vfiles : IsValueLog(vfiles[g])
  /\ DOMAIN vfiles \subseteq Nat /\ current_gen \in Nat
  /\ kv \in Content /\ kv = [k \in Keys |-> kv[k]]
  /\ mode # "closed" => current_gen \in vlogs /\ current_gen \in DOMAIN vfiles

\* They follow from the engine's invariant.
LEMMA Typed == EngineInv => Types
<1> SUFFICES ASSUME EngineInv PROVE Types
  BY Zenon
<1>1. /\ memtable \in MemContent /\ flushing_memtable \in MemContent
      /\ \A g \in DOMAIN vfiles : IsValueLog(vfiles[g])
      /\ DOMAIN vfiles \subseteq Nat /\ current_gen \in Nat /\ kv \in Content
      /\ IsTables(sstables) /\ Bounded(DOMAIN sstables)
  BY Zenon DEF EngineInv, TypeOK, MemoryType, FilesType, GhostType, BoundsOK
<1>2. IsList(sstables) /\ sstables = [s \in DOMAIN sstables |-> sstables[s]]
  BY <1>1, Zenon DEF IsTables, IsList
<1>3. mode # "closed" => current_gen \in vlogs /\ current_gen \in DOMAIN vfiles
  BY Zenon DEF EngineInv, GensOK
<1>4. kv = [k \in Keys |-> kv[k]]
  BY <1>1, Zenon DEF Content
<1> QED
  BY <1>1, <1>2, <1>3, <1>4, Zenon DEF Types

\* What a get finds, in terms of what the cells stand for.
Shown(k) ==
  IF memtable[k] # Absent THEN AsValue(memtable[k])
  ELSE IF has_flushing /\ flushing_memtable[k] # Absent THEN AsValue(flushing_memtable[k])
  ELSE AsValue(ValueOf(vfiles, Lookup(sstables, k)))

\* A lookup that ends in a pointer can be followed.
LEMMA LookupPoints ==
  ASSUME EngineInv, TablesPoint, mode # "closed", NEW k \in Keys
  PROVE  Lookup(sstables, k) \in Ptr =>
           /\ Lookup(sstables, k).gen = current_gen
           /\ OnDisk(vfiles, Lookup(sstables, k))
<1>1. \A s \in DOMAIN sstables : PointsInto(vfiles, current_gen, sstables[s].data)
  BY Zenon DEF TablesPoint
<1>2. IsList(sstables)
  BY Typed, Zenon DEF Types
<1> QED
  BY <1>1, <1>2, MergePoints, Zenon

\* A get shows the values the newest records stand for.
LEMMA VisibleIs ==
  EngineInv /\ TablesPoint /\ mode # "closed" => Visible = [k \in Keys |-> Shown(k)]
<1> SUFFICES ASSUME EngineInv, TablesPoint, mode # "closed"
             PROVE  Visible = [k \in Keys |-> Shown(k)]
  BY Zenon
<1>1. ASSUME NEW k \in Keys
      PROVE  ReadCell(vfiles, vlogs, Lookup(sstables, k)) = ValueOf(vfiles, Lookup(sstables, k))
  BY LookupPoints, Typed, ReadOnDisk, Zenon DEF Types
<1> QED
  BY <1>1, Zenon DEF Visible, Shown

\* What clients see stays if the keys show the same.
LEMMA ViewKept ==
  ASSUME EngineInv, EngineInv', TablesPoint, TablesPoint', ViewOK, mode = "open", mode' = "open",
         \A k \in Keys : Shown(k)' = Shown(k), kv' = kv
  PROVE  ViewOK'
<1>1. Visible = [k \in Keys |-> Shown(k)]
  BY VisibleIs, Zenon
<1>2. (Visible = [k \in Keys |-> Shown(k)])'
  <2>1. (mode # "closed")'
    BY Zenon
  <2> QED
    BY <2>1, VisibleIs, PTL
<1>3. Visible' = Visible
  BY <1>1, <1>2, Zenon
<1> QED
  BY <1>3, Zenon DEF ViewOK, Open

\* Listed tables keep pointing to the same values as long as their value log
\* is only appended to.
LEMMA PointKept ==
  ASSUME EngineInv, EngineInv', TablesPoint, mode # "closed", mode' # "closed",
         UNCHANGED <<sstables, current_gen>>, FileKept(vfiles, vfiles', current_gen)
  PROVE  /\ TablesPoint'
         /\ \A k \in Keys : ValueOf(vfiles', Lookup(sstables, k)) = ValueOf(vfiles, Lookup(sstables, k))
<1>1. /\ \A g \in DOMAIN vfiles : IsValueLog(vfiles[g])
      /\ \A g \in DOMAIN vfiles' : IsValueLog(vfiles'[g])
  <2>1. Types /\ Types'
    BY Typed, PTL
  <2> QED
    BY <2>1, Zenon DEF Types
<1>2. TablesPoint'
  <2>1. \A s \in DOMAIN sstables : PointsInto(vfiles', current_gen, sstables[s].data)
    BY <1>1, PointsKept, Zenon DEF TablesPoint
  <2> QED
    BY <2>1, Zenon DEF TablesPoint
<1>3. ASSUME NEW k \in Keys
      PROVE  ValueOf(vfiles', Lookup(sstables, k)) = ValueOf(vfiles, Lookup(sstables, k))
  BY <1>1, LookupPoints, OnDiskKept, Zenon
<1> QED
  BY <1>2, <1>3, Zenon

\* Snapshots keep their answers while the value logs they hold are kept.
LEMMA SnapshotsKept ==
  ASSUME EngineInv, EngineInv', SnapshotsOK,
         \A r \in Readers : rd'[r] = rd[r] \/ rd'[r].pc = "idle",
         current_gen <= current_gen',
         \A r \in Readers : rd'[r].pc = "reading" =>
           \A g \in rd[r].gens : FileKept(vfiles, vfiles', g)
  PROVE  SnapshotsOK'
<1>1. /\ \A g \in DOMAIN vfiles : IsValueLog(vfiles[g])
      /\ \A g \in DOMAIN vfiles' : IsValueLog(vfiles'[g])
      /\ current_gen \in Nat /\ current_gen' \in Nat
  <2>1. Types /\ Types'
    BY Typed, PTL
  <2> QED
    BY <2>1, Zenon DEF Types
<1> SUFFICES ASSUME NEW r \in Readers, rd'[r].pc = "reading"
             PROVE  /\ \A g \in rd'[r].gens : g <= current_gen'
                    /\ \A k \in Keys : Lookup(rd'[r].tables, k) \in Ptr =>
                         /\ Lookup(rd'[r].tables, k).gen \in rd'[r].gens
                         /\ OnDisk(vfiles', Lookup(rd'[r].tables, k))
                    /\ \A k \in rd'[r].keys : Answer(r, k)' = rd'[r].want[k]
  BY Zenon DEF SnapshotsOK
<1>2. rd'[r] = rd[r] /\ rd[r].pc = "reading" /\ rd[r].gens \subseteq Nat /\ rd[r].keys \subseteq Keys
  BY Zenon DEF EngineInv, TypeOK, ThreadsType, IsRead
<1>3. \A g \in rd'[r].gens : g <= current_gen'
  BY <1>1, <1>2 DEF SnapshotsOK
<1>4. ASSUME NEW k \in Keys
      PROVE  /\ Lookup(rd[r].tables, k) \in Ptr =>
                  /\ Lookup(rd[r].tables, k).gen \in rd[r].gens
                  /\ OnDisk(vfiles', Lookup(rd[r].tables, k))
             /\ ReadCell(vfiles', rd[r].gens, Lookup(rd[r].tables, k))
                  = ReadCell(vfiles, rd[r].gens, Lookup(rd[r].tables, k))
  <2> DEFINE c == Lookup(rd[r].tables, k)
  <2>1. c \in Ptr => c.gen \in rd[r].gens /\ OnDisk(vfiles, c) /\ FileKept(vfiles, vfiles', c.gen)
    BY <1>2, Zenon DEF SnapshotsOK
  <2> HIDE DEF c
  <2>2. (c \in Ptr => OnDisk(vfiles', c)) /\ ValueOf(vfiles', c) = ValueOf(vfiles, c)
    BY <1>1, <2>1, OnDiskKept, Zenon
  <2>3. ReadCell(vfiles, rd[r].gens, c) = ValueOf(vfiles, c)
    BY <1>1, <2>1, ReadOnDisk, Zenon
  <2>4. ReadCell(vfiles', rd[r].gens, c) = ValueOf(vfiles', c)
    BY <1>1, <2>1, <2>2, ReadOnDisk, Zenon
  <2> QED
    BY <2>1, <2>2, <2>3, <2>4, Zenon DEF c
<1>5. ASSUME NEW k \in rd[r].keys PROVE Answer(r, k)' = rd[r].want[k]
  <2>1. Answer(r, k) = rd[r].want[k]
    BY <1>2, <1>5, Zenon DEF SnapshotsOK
  <2>2. k \in Keys
    BY <1>2, <1>5, Zenon
  <2>3. Answer(r, k)' = Answer(r, k)
    BY <1>2, <1>4, <2>2, Zenon DEF Answer
  <2> QED
    BY <2>1, <2>3, Zenon
<1> QED
  BY <1>2, <1>3, <1>4, <1>5, Zenon

\* The store has a MANIFEST as soon as anything can be flushed.
LEMMA Present ==
  ASSUME EngineInv, FirstOK, mode = "open" \/ mu.at \notin {"free", "open_done"}
  PROVE  manifest.present /\ mode # "closed"
<1>1. manifest.present
  BY Zenon DEF EngineInv, CommitOK, FirstOK
<1>2. mode # "closed"
  BY Zenon DEF EngineInv, LockOK
<1> QED
  BY <1>1, <1>2, Zenon

\* The tables, and what is about to be listed, when a step leaves them alone.
LEMMA StoreKept ==
  ASSUME EngineInv, EngineInv', ViewInv, mode # "closed",
         UNCHANGED <<mode, sstables, current_gen, memtable, flushing_memtable,
                     has_flushing, kv>>,
         FileKept(vfiles, vfiles', current_gen),
         mu.at = "gc_built" => FileKept(vfiles, vfiles', current_gen + 1),
         flusher'.pc = "built" => flusher' = flusher,
         mu'.at \in {"flush_built", "gc_built", "flush_committed", "flusher_committed"}
           => mu' = mu
  PROVE  UniqueOK' /\ TablesPoint' /\ BuiltOK' /\ CommittedOK' /\ ViewOK'
<1>0. /\ UniqueOK /\ TablesPoint /\ BuiltOK /\ CommittedOK /\ ViewOK
      /\ mode' # "closed" /\ sstables' = sstables /\ current_gen' = current_gen
  BY Zenon DEF ViewInv
<1>1. UniqueOK'
  BY <1>0, Zenon DEF UniqueOK
<1>2. /\ TablesPoint'
      /\ \A k \in Keys : ValueOf(vfiles', Lookup(sstables, k)) = ValueOf(vfiles, Lookup(sstables, k))
  BY <1>0, PointKept, Zenon
<1>3. /\ \A g \in DOMAIN vfiles : IsValueLog(vfiles[g])
      /\ \A g \in DOMAIN vfiles' : IsValueLog(vfiles'[g])
  <2>1. Types /\ Types'
    BY Typed, PTL
  <2> QED
    BY <2>1, Zenon DEF Types
<1>4. ASSUME NEW data, NEW m, Written(vfiles, current_gen, data, m)
      PROVE  Written(vfiles', current_gen, data, m)
  <2>1. PointsInto(vfiles, current_gen, data) /\ \A k \in Keys : ValueOf(vfiles, data[k]) = m[k]
    BY <1>4, Zenon DEF Written
  <2>2. /\ PointsInto(vfiles', current_gen, data)
        /\ \A k \in Keys : ValueOf(vfiles', data[k]) = ValueOf(vfiles, data[k])
    BY <1>3, <2>1, PointsKept
  <2> QED
    BY <2>1, <2>2, Zenon DEF Written
<1>5. BuiltOK'
  <2>1. flusher'.pc = "built" =>
          Written(vfiles', current_gen', flusher'.data, flushing_memtable')
    BY <1>0, <1>4, Zenon DEF BuiltOK
  <2>2. mu'.at = "flush_built" => Written(vfiles', current_gen', mu'.data, memtable')
    BY <1>0, <1>4, Zenon DEF BuiltOK
  <2>3. ASSUME mu'.at = "gc_built"
        PROVE  /\ PointsInto(vfiles', current_gen' + 1, mu'.data)
               /\ \A k \in Keys : AsValue(ValueOf(vfiles', mu'.data[k]))
                                    = AsValue(ValueOf(vfiles', Lookup(sstables', k)))
    <3>1. mu' = mu /\ PointsInto(vfiles, current_gen + 1, mu.data)
          /\ FileKept(vfiles, vfiles', current_gen + 1)
          /\ \A k \in Keys : AsValue(ValueOf(vfiles, mu.data[k]))
                                    = AsValue(ValueOf(vfiles, Lookup(sstables, k)))
      BY <1>0, <2>3, Zenon DEF BuiltOK
    <3>2. /\ PointsInto(vfiles', current_gen + 1, mu.data)
          /\ \A k \in Keys : ValueOf(vfiles', mu.data[k]) = ValueOf(vfiles, mu.data[k])
      BY <1>3, <3>1, PointsKept
    <3> QED
      BY <1>0, <1>2, <3>1, <3>2, Zenon
  <2> QED
    BY <2>1, <2>2, <2>3, Zenon DEF BuiltOK
<1>6. CommittedOK'
  <2>1. \A m : Covered(m) => \A k \in Keys : m[k] # Absent => ValueOf(vfiles', Lookup(sstables', k)) = m[k]
    BY <1>0, <1>2, Zenon DEF Covered
  <2>2. mu'.at = "flush_committed" => Covered(memtable)'
    BY <1>0, <2>1, Zenon DEF CommittedOK, Covered
  <2>3. mu'.at = "flusher_committed" => Covered(flushing_memtable)'
    BY <1>0, <2>1, Zenon DEF CommittedOK, Covered
  <2> QED
    BY <2>2, <2>3, Zenon DEF CommittedOK
<1>7. ViewOK'
  <2>1. CASE mode = "open"
    <3>1. \A k \in Keys : Shown(k)' = Shown(k)
      BY <1>0, <1>2, Zenon DEF Shown
    <3> QED
      BY <1>0, <1>2, <2>1, <3>1, ViewKept, Zenon
  <2>2. CASE mode # "open"
    BY <2>2, Zenon DEF ViewOK, Open
  <2> QED
    BY <2>1, <2>2, Zenon
<1> QED
  BY <1>1, <1>2, <1>5, <1>6, <1>7

\* Merges that a step leaves alone.
LEMMA MergesKept ==
  ASSUME ViewInv, UNCHANGED <<jobs, compacting, sstables>>,
         mu'.by = "gc" => mu.by = "gc", mu.at = "merge_committed" => mu'.at = "merge_committed"
  PROVE  MergerOK' /\ InputsOK'
<1>1. MergerOK'
  BY Zenon DEF ViewInv, MergerOK
<1>2. InputsOK'
  BY Zenon DEF ViewInv, InputsOK
<1> QED
  BY <1>1, <1>2, Zenon

\* No merge is under way.
LEMMA NoMerges ==
  ASSUME \A j \in Compactors : jobs'[j].pc = "idle"
  PROVE  MergerOK' /\ InputsOK'
BY Zenon DEF MergerOK, InputsOK

\* Snapshots that a step leaves alone.
LEMMA SnapshotsSame ==
  ASSUME SnapshotsOK, UNCHANGED <<rd, vfiles, current_gen>>
  PROVE  SnapshotsOK'
BY Zenon DEF SnapshotsOK, Answer

\* The current value log, when a step leaves the files alone.
LEMMA LogsSame ==
  ASSUME EngineInv, mode # "closed", vfiles' = vfiles
  PROVE  /\ FileKept(vfiles, vfiles', current_gen)
         /\ mu.at = "gc_built" => FileKept(vfiles, vfiles', current_gen + 1)
<1>1. Types
  BY Typed, Zenon
<1>2. /\ current_gen \in DOMAIN vfiles /\ IsValueLog(vfiles[current_gen])
      /\ mu.at = "gc_built" => (current_gen + 1) \in DOMAIN vfiles
      /\ \A g \in DOMAIN vfiles : IsValueLog(vfiles[g])
  BY <1>1, Zenon DEF Types, EngineInv, GensOK
<1> QED
  BY <1>2, SameFile, Zenon

\* A step that moves the lock or a thread, and nothing a client can see.
LEMMA QuietStep ==
  ASSUME EngineInv, EngineInv', ViewInv, manifest.present, mode # "closed",
         UNCHANGED <<mode, sstables, current_gen, memtable, flushing_memtable,
                     has_flushing, kv, vfiles, jobs, compacting, rd, manifest>>,
         flusher'.pc = "built" => flusher' = flusher,
         mu'.at \in {"flush_built", "gc_built", "flush_committed", "flusher_committed"}
           => mu' = mu,
         mu'.by = "gc" => mu.by = "gc", mu.at = "merge_committed" => mu'.at = "merge_committed"
  PROVE  ViewInv'
<1>1. UniqueOK' /\ TablesPoint' /\ BuiltOK' /\ CommittedOK' /\ ViewOK'
  BY LogsSame, StoreKept, Zenon
<1>2. MergerOK' /\ InputsOK'
  BY MergesKept, Zenon
<1>3. SnapshotsOK'
  BY SnapshotsSame, Zenon DEF ViewInv
<1>4. FirstOK'
  BY Zenon DEF FirstOK
<1> QED
  BY <1>1, <1>2, <1>3, <1>4, Zenon DEF ViewInv

\* Clients see what the keys show.
LEMMA ViewShown ==
  ASSUME EngineInv, ViewInv, mode = "open"
  PROVE  \A k \in Keys : Shown(k) = kv[k]
<1>1. Visible = [k \in Keys |-> Shown(k)]
  BY VisibleIs, Zenon DEF ViewInv
<1>2. Visible = kv
  BY Zenon DEF ViewInv, ViewOK, Open
<1> QED
  BY <1>1, <1>2, Zenon

\* And conversely, after a step.
LEMMA ShownView ==
  ASSUME EngineInv', TablesPoint', mode' = "open", \A k \in Keys : Shown(k)' = kv'[k]
  PROVE  ViewOK'
<1>1. (Visible = [k \in Keys |-> Shown(k)])'
  <2>1. (mode # "closed")'
    BY Zenon
  <2> QED
    BY <2>1, VisibleIs, PTL
<1>2. kv' = [k \in Keys |-> kv'[k]]
  <2>1. Types'
    BY Typed, PTL
  <2> QED
    BY <2>1, Zenon DEF Types
<1>3. Visible' = kv'
  BY <1>1, <1>2, Zenon
<1> QED
  BY <1>3, Zenon DEF ViewOK

\* A step of a client on the memtables, the lock being free.
LEMMA MemoryStep ==
  ASSUME EngineInv, EngineInv', ViewInv, mode = "open", mu.at = "free",
         UNCHANGED <<mode, mu, sstables, current_gen, vfiles, jobs, compacting, rd,
                     manifest, flusher>>,
         flusher.pc = "built" => flushing_memtable' = flushing_memtable,
         \A k \in Keys : Shown(k)' = kv'[k]
  PROVE  ViewInv'
<1>1. MergerOK' /\ InputsOK'
  BY MergesKept, Zenon
<1>2. SnapshotsOK'
  BY SnapshotsSame, Zenon DEF ViewInv
<1>3. UniqueOK' /\ FirstOK' /\ CommittedOK'
  BY Zenon DEF ViewInv, UniqueOK, EngineInv, CommitOK, FirstOK, CommittedOK
<1>4. TablesPoint'
  BY Zenon DEF ViewInv, TablesPoint
<1>5. BuiltOK'
  BY Zenon DEF ViewInv, BuiltOK
<1>6. ViewOK'
  BY <1>4, ShownView, Zenon
<1> QED
  BY <1>1, <1>2, <1>3, <1>4, <1>5, <1>6 DEF ViewInv

\* While the slot is free, the flusher has nothing in hand.
LEMMA SlotFree ==
  ASSUME EngineInv, ~has_flushing
  PROVE  flusher.pc = "idle"
BY Zenon DEF EngineInv, SlotOK

\* Sealing the memtable changes no answer.
LEMMA SealedShown ==
  ASSUME EngineInv, ~has_flushing, has_flushing' = TRUE, memtable' = Empty,
         UNCHANGED <<sstables, vfiles>>, NEW k \in Keys
  PROVE  Shown(k)' = IF flushing_memtable'[k] # Absent THEN AsValue(flushing_memtable'[k])
                     ELSE AsValue(ValueOf(vfiles, Lookup(sstables, k)))
<1>1. memtable'[k] = Absent
  BY Zenon DEF Empty
<1> QED
  BY <1>1, Zenon DEF Shown

\* After put and del a get returns the new value, for other keys the old one.
LEMMA WriteRecordView ==
  ASSUME EngineInv, EngineInv', ViewInv, NEW c, NEW k \in Keys, NEW cell \in Values \cup {Tomb},
         NEW sync, WriteRecord(c, k, cell, sync)
  PROVE  ViewInv'
<1> DEFINE m == MemPut(memtable, k, cell)
<1>1. /\ mode = "open" /\ mu.at = "free" /\ kv' = [kv EXCEPT ![k] = AsValue(cell)]
      /\ UNCHANGED <<mode, mu, sstables, current_gen, vfiles, jobs, compacting, rd,
                     manifest, flusher>>
  BY Zenon DEF WriteRecord, LockFree, tablefiles
<1>2. /\ memtable \in MemContent /\ kv \in Content
  BY Typed, Zenon DEF Types
<1>3. /\ m[k] = cell /\ cell # Absent /\ \A x \in Keys : x # k => m[x] = memtable[x]
  BY <1>2, TablesAssumption, Zenon DEF MemPut, MemContent
<1>4. kv'[k] = AsValue(cell) /\ \A x \in Keys : x # k => kv'[x] = kv[x]
  BY <1>1, <1>2, Zenon DEF Content
<1>5. \A x \in Keys : Shown(x) = kv[x]
  BY <1>1, ViewShown, Zenon
<1> HIDE DEF m
<1>6. CASE memtable' = m /\ UNCHANGED <<flushing_memtable, has_flushing>>
  <2>1. \A x \in Keys : Shown(x)' = kv'[x]
    BY <1>1, <1>3, <1>4, <1>5, <1>6, Zenon DEF Shown
  <2> QED
    BY <1>1, <1>6, <2>1, MemoryStep
<1>7. CASE /\ ~has_flushing /\ has_flushing' = TRUE
           /\ memtable' = Empty /\ flushing_memtable' = m
  <2>1. ASSUME NEW x \in Keys PROVE Shown(x)' = kv'[x]
    <3>1. Shown(x)' = IF m[x] # Absent THEN AsValue(m[x])
                      ELSE AsValue(ValueOf(vfiles, Lookup(sstables, x)))
      BY <1>1, <1>7, SealedShown, Zenon
    <3>2. kv[x] = IF memtable[x] # Absent THEN AsValue(memtable[x])
                  ELSE AsValue(ValueOf(vfiles, Lookup(sstables, x)))
      BY <1>5, <1>7, Zenon DEF Shown
    <3>3. CASE x = k
      BY <1>3, <1>4, <3>1, <3>3, Zenon
    <3>4. CASE x # k
      BY <1>3, <1>4, <3>1, <3>2, <3>4, Zenon
    <3> QED
      BY <3>3, <3>4, Zenon
  <2> QED
    BY <1>1, <1>7, <2>1, SlotFree, MemoryStep
<1> QED
  BY <1>6, <1>7, Zenon DEF WriteRecord, SealLocked, SealMayRun, m

\* A writer that waited seals the memtable; a get returns the same as before.
LEMMA MaybeSealView ==
  ASSUME EngineInv, EngineInv', ViewInv, NEW c, MaybeSeal(c)
  PROVE  ViewInv'
<1>1. /\ mode = "open" /\ mu.at = "free" /\ ~has_flushing /\ kv' = kv
      /\ UNCHANGED <<mode, mu, sstables, current_gen, vfiles, jobs, compacting, rd,
                     manifest, flusher>>
  BY Zenon DEF MaybeSeal, LockFree, SealMayRun, tablefiles
<1>2. \A x \in Keys : Shown(x) = kv[x]
  BY <1>1, ViewShown, Zenon
<1>3. CASE UNCHANGED <<memtable, flushing_memtable, has_flushing>>
  <2>1. \A x \in Keys : Shown(x)' = kv'[x]
    BY <1>1, <1>2, <1>3, Zenon DEF Shown
  <2> QED
    BY <1>1, <1>3, <2>1, MemoryStep, Zenon
<1>4. CASE has_flushing' = TRUE /\ memtable' = Empty /\ flushing_memtable' = memtable
  <2>1. ASSUME NEW x \in Keys PROVE Shown(x)' = kv'[x]
    <3>1. Shown(x)' = IF memtable[x] # Absent THEN AsValue(memtable[x])
                      ELSE AsValue(ValueOf(vfiles, Lookup(sstables, x)))
      BY <1>1, <1>4, SealedShown, Zenon
    <3> QED
      BY <1>1, <1>2, <3>1, Zenon DEF Shown
  <2> QED
    BY <1>1, <1>4, <2>1, SlotFree, MemoryStep, Zenon
<1> QED
  BY <1>3, <1>4, Zenon DEF MaybeSeal, SealLocked

\* sync, and flush() as it takes the lock.
LEMMA SyncView ==
  ASSUME EngineInv, EngineInv', ViewInv, Sync
  PROVE  ViewInv'
<1>1. mode = "open" /\ manifest.present
  BY Present, Zenon DEF Sync, LockFree, ViewInv
<1>2. UNCHANGED <<mode, mu, memory, flusher, jobs, rd, tablefiles, kv>>
  BY Zenon DEF Sync
<1> QED
  BY <1>1, <1>2, QuietStep, Zenon DEF memory, tablefiles

\* flush() takes the lock.
LEMMA FlushView ==
  ASSUME EngineInv, EngineInv', ViewInv, Flush
  PROVE  ViewInv'
<1>1. mode = "open" /\ mu.at = "free" /\ manifest.present
  BY Present, Zenon DEF Flush, LockFree, ViewInv
<1>2. UNCHANGED <<mode, memory, flusher, jobs, rd, tablefiles, ghost>>
  BY Zenon DEF Flush
<1>3. mu'.at = "flush" /\ mu'.by = "flush"
  BY Zenon DEF Flush, Free
<1> QED
  BY <1>1, <1>2, <1>3, QuietStep, Zenon DEF memory, tablefiles, ghost

-----------------------------------------------------------------------------
\* What the two ways to flush have in common.

\* The value logs after an append: all kept, the table written.
LEMMA AppendStep ==
  ASSUME EngineInv, mode # "closed", NEW m \in MemContent,
         vfiles' = [vfiles EXCEPT ![current_gen] = AppendSynced(vfiles[current_gen], m)]
  PROVE  /\ \A g \in DOMAIN vfiles : FileKept(vfiles, vfiles', g)
         /\ Written(vfiles', current_gen,
                    Separated(m, current_gen, Len(vfiles[current_gen].data) + 1), m)
<1>1. /\ current_gen \in DOMAIN vfiles /\ current_gen \in Nat
      /\ \A g \in DOMAIN vfiles : IsValueLog(vfiles[g])
  BY Typed, Zenon DEF Types
<1>2. m \in Content
  BY MemIsContent, Zenon
<1>3. \A g \in DOMAIN vfiles : FileKept(vfiles, vfiles', g)
  BY <1>1, <1>2, AppendKeeps, Zenon
<1> QED
  BY <1>1, <1>3, SeparatedWritten, Zenon

\* Snapshots after an append.
LEMMA AppendSnapshots ==
  ASSUME EngineInv, EngineInv', SnapshotsOK, UNCHANGED <<rd, current_gen>>,
         \A g \in DOMAIN vfiles : FileKept(vfiles, vfiles', g)
  PROVE  SnapshotsOK'
<1>1. \A r \in Readers : rd[r].gens \subseteq DOMAIN vfiles
  BY Zenon DEF EngineInv, HeldOK
<1>2. current_gen <= current_gen'
  BY Typed DEF Types
<1> QED
  BY <1>1, <1>2, SnapshotsKept, Zenon

\* A table with the records of memtable m becomes the newest: lookups of the
\* keys m holds find them, other lookups find what they did.
LEMMA PushWritten ==
  ASSUME EngineInv, EngineInv', TablesPoint, mode # "closed", mode' = mode,
         UNCHANGED <<vfiles, current_gen>>, NEW id, NEW data \in Content,
         NEW m \in MemContent, Written(vfiles, current_gen, data, m),
         sstables' = PushNewest(sstables, Table(id, data))
  PROVE  /\ TablesPoint'
         /\ \A k \in Keys : m[k] # Absent => ValueOf(vfiles', Lookup(sstables', k)) = m[k]
         /\ \A k \in Keys : m[k] = Absent => Lookup(sstables', k) = Lookup(sstables, k)
<1> DEFINE t == Table(id, data)
<1>1. t.data = data
  BY Zenon DEF Table
<1>2. IsList(sstables)
  BY Typed, Zenon DEF Types
<1> HIDE DEF t
<1>3. /\ DOMAIN sstables' = DOMAIN sstables \cup {Top(sstables)}
      /\ sstables'[Top(sstables)] = t
      /\ \A s \in DOMAIN sstables : sstables'[s] = sstables[s]
  <2>1. DOMAIN sstables \subseteq Int /\ Bounded(DOMAIN sstables)
    BY <1>2, Zenon DEF IsList
  <2>2. /\ DOMAIN PushNewest(sstables, t) = DOMAIN sstables \cup {Top(sstables)}
        /\ PushNewest(sstables, t)[Top(sstables)] = t
        /\ \A s \in DOMAIN sstables : PushNewest(sstables, t)[s] = sstables[s]
    BY <2>1, PushNewestSlot, Zenon
  <2>3. sstables' = PushNewest(sstables, t)
    BY Zenon DEF t
  <2> QED
    BY <2>2, <2>3, Zenon
<1>4. TablesPoint'
  <2>1. \A s \in DOMAIN sstables' : PointsInto(vfiles', current_gen', sstables'[s].data)
    BY <1>1, <1>3, Zenon DEF TablesPoint, Written
  <2> QED
    BY <2>1, Zenon DEF TablesPoint
<1>5. ASSUME NEW k \in Keys
      PROVE  Lookup(sstables', k) = IF data[k] # Absent THEN data[k] ELSE Lookup(sstables, k)
  BY <1>1, <1>2, PushNewestLookup, Zenon DEF t
<1>6. \A k \in Keys : data[k] = Absent <=> m[k] = Absent
  BY WrittenAbsent, Zenon
<1>7. \A k \in Keys : ValueOf(vfiles, data[k]) = m[k]
  BY Zenon DEF Written
<1> QED
  BY <1>4, <1>5, <1>6, <1>7, Zenon

\* The new table is not listed yet, and comes above the inputs of a merge.
LEMMA PushMerges ==
  ASSUME EngineInv, ViewInv, NEW id, id \notin TableIds(sstables), NEW data,
         sstables' = PushNewest(sstables, Table(id, data)), mode # "closed", mode' # "closed",
         UNCHANGED <<jobs, compacting>>, mu'.by = "gc" => mu.by = "gc",
         mu.at = "merge_committed" => mu'.at = "merge_committed"
  PROVE  UniqueOK' /\ MergerOK' /\ InputsOK'
<1>1. DOMAIN sstables \subseteq Int /\ Bounded(DOMAIN sstables)
  BY Typed, Zenon DEF Types, IsList
<1>2. UniqueOK'
  <2>1. Table(id, data).id = id
    BY Zenon DEF Table
  <2>2. Distinct(sstables')
    BY <1>1, <2>1, PushDistinct, Zenon DEF ViewInv, UniqueOK
  <2> QED
    BY <2>2, Zenon DEF UniqueOK
<1>3. MergerOK'
  BY Zenon DEF ViewInv, MergerOK
<1>4. InputsOK'
  <2> SUFFICES ASSUME NEW j \in Compactors, jobs[j].pc # "idle"
               PROVE  /\ DOMAIN jobs[j].inputs # {}
                      /\ jobs[j].pc = "built" =>
                           jobs[j].data = MergeRecords(jobs[j].inputs, jobs[j].drop)
                      /\ mu'.at # "merge_committed" =>
                           StillListed(sstables', jobs[j].inputs, jobs[j].drop)
    BY Zenon DEF InputsOK
  <2>1. mu.at # "merge_committed" => StillListed(sstables, jobs[j].inputs, jobs[j].drop)
    BY Zenon DEF ViewInv, InputsOK
  <2>2. mu'.at # "merge_committed" => StillListed(sstables', jobs[j].inputs, jobs[j].drop)
    BY <1>1, <2>1, PushListed, Zenon
  <2> QED
    BY <2>2, Zenon DEF ViewInv, InputsOK
<1> QED
  BY <1>2, <1>3, <1>4, Zenon

-----------------------------------------------------------------------------
\* flush_locked builds a table, or has nothing to flush.
LEMMA FlushBuildView ==
  ASSUME EngineInv, EngineInv', ViewInv, FlushBuild
  PROVE  ViewInv'
<1>1. /\ mu.at = "flush" /\ manifest.present /\ mode # "closed"
      /\ UNCHANGED <<mode, sstables, current_gen, memtable, flushing_memtable,
                     has_flushing, kv, jobs, compacting, rd, manifest, flusher>>
  <2>1. mu.at = "flush"
    BY Zenon DEF FlushBuild
  <2>2. manifest.present /\ mode # "closed"
    BY <2>1, Present, Zenon DEF ViewInv
  <2> QED
    BY <2>1, <2>2, Zenon DEF FlushBuild, ghost
<1>2. ~has_flushing /\ flusher.pc = "idle" /\ mu.by \in {"flush", "gc", "open"}
  BY <1>1, SlotFree, Zenon DEF EngineInv, LockOK, SlotOK
<1>3. CASE mu' = AfterFlush(mu.by) /\ vfiles' = vfiles
  <2>1. mu'.at \in {"free", "gc", "drop_wal"} /\ (mu'.by = "gc" => mu.by = "gc")
    BY <1>2, <1>3, Zenon DEF AfterFlush, Free
  <2> QED
    BY <1>1, <1>2, <1>3, <2>1, QuietStep
<1>4. CASE /\ vfiles' = [vfiles EXCEPT ![current_gen] = AppendSynced(vfiles[current_gen], memtable)]
           /\ mu' = [mu EXCEPT !.at = "flush_built", !.seq = next_seq,
                               !.data = Separated(memtable, current_gen,
                                                  Len(vfiles[current_gen].data) + 1)]
  <2>1. /\ mu'.at = "flush_built" /\ mu'.by = mu.by
        /\ mu'.data = Separated(memtable, current_gen, Len(vfiles[current_gen].data) + 1)
    BY <1>4, Zenon DEF EngineInv, TypeOK, MemoryType, LockType
  <2>2. memtable \in MemContent /\ current_gen \in DOMAIN vfiles
    BY <1>1, Typed, Zenon DEF Types
  <2>3. /\ \A g \in DOMAIN vfiles : FileKept(vfiles, vfiles', g)
        /\ Written(vfiles', current_gen, mu'.data, memtable)
    BY <1>1, <1>4, <2>1, <2>2, AppendStep
  <2>4. /\ TablesPoint'
        /\ \A k \in Keys : ValueOf(vfiles', Lookup(sstables, k)) = ValueOf(vfiles, Lookup(sstables, k))
    BY <1>1, <2>2, <2>3, PointKept, Zenon DEF ViewInv
  <2>5. MergerOK' /\ InputsOK'
    BY <1>1, <2>1, MergesKept, Zenon
  <2>6. SnapshotsOK'
    BY <1>1, <2>3, AppendSnapshots, Zenon DEF ViewInv
  <2>7. UniqueOK' /\ FirstOK' /\ CommittedOK'
    BY <1>1, <2>1, Zenon DEF ViewInv, UniqueOK, FirstOK, CommittedOK
  <2>8. BuiltOK'
    BY <1>1, <1>2, <2>1, <2>3 DEF BuiltOK
  <2>9. ViewOK'
    <3>1. CASE mode = "open"
      <4>1. \A k \in Keys : Shown(k)' = Shown(k)
        BY <1>1, <2>4, Zenon DEF Shown
      <4> QED
        BY <1>1, <2>4, <3>1, <4>1, ViewKept DEF ViewInv
    <3>2. CASE mode # "open"
      BY <1>1, <3>2, Zenon DEF ViewOK, Open
    <3> QED
      BY <3>1, <3>2, Zenon
  <2> QED
    BY <2>4, <2>5, <2>6, <2>7, <2>8, <2>9 DEF ViewInv
<1> QED
  BY <1>3, <1>4, Zenon DEF FlushBuild

\* The table of flush_locked is listed: gets find the same, above it or in it.
LEMMA FlushCommitView ==
  ASSUME EngineInv, EngineInv', ViewInv, FlushCommit
  PROVE  ViewInv'
<1>1. /\ mu.at = "flush_built" /\ mode # "closed" /\ manifest'.present
      /\ sstables' = PushNewest(sstables, Table(mu.seq, mu.data))
      /\ UNCHANGED <<mode, current_gen, memtable, flushing_memtable, vfiles,
                     has_flushing, kv, jobs, compacting, rd, flusher>>
  <2>1. mu.at = "flush_built"
    BY Zenon DEF FlushCommit
  <2>2. mode # "closed"
    BY <2>1, Present, Zenon DEF ViewInv
  <2> QED
    BY <2>1, <2>2, Zenon DEF FlushCommit, ghost, ManifestOf
<1>2. ~has_flushing /\ flusher.pc = "idle" /\ mu.seq \notin TableIds(sstables)
  BY <1>1, SlotFree, Zenon DEF EngineInv, LockOK, SlotOK, IdsOK, Listed
<1>3. mu.data \in Content /\ mu'.at = "flush_committed" /\ mu'.by = mu.by
  BY Zenon DEF FlushCommit, EngineInv, TypeOK, MemoryType, LockType
<1>4. memtable \in MemContent /\ Written(vfiles, current_gen, mu.data, memtable)
  BY <1>1, Typed, Zenon DEF Types, ViewInv, BuiltOK
<1>5. /\ TablesPoint'
      /\ \A k \in Keys : memtable[k] # Absent => ValueOf(vfiles', Lookup(sstables', k)) = memtable[k]
      /\ \A k \in Keys : memtable[k] = Absent => Lookup(sstables', k) = Lookup(sstables, k)
  BY <1>1, <1>3, <1>4, PushWritten, Zenon DEF ViewInv
<1>6. UniqueOK' /\ MergerOK' /\ InputsOK'
  BY <1>1, <1>2, <1>3, PushMerges, Zenon
<1>7. FirstOK' /\ BuiltOK'
  BY <1>1, <1>2, <1>3, Zenon DEF FirstOK, BuiltOK
<1>8. CommittedOK'
  BY <1>1, <1>3, <1>5, Zenon DEF CommittedOK, Covered
<1>9. SnapshotsOK'
  BY <1>1, SnapshotsSame, Zenon DEF ViewInv
<1>10. ViewOK'
  <2>1. CASE mode = "open"
    <3>1. \A k \in Keys : Shown(k)' = Shown(k)
      BY <1>1, <1>5, Zenon DEF Shown
    <3> QED
      BY <1>1, <1>5, <2>1, <3>1, ViewKept DEF ViewInv
  <2>2. CASE mode # "open"
    BY <1>1, <2>2, Zenon DEF ViewOK, Open
  <2> QED
    BY <2>1, <2>2, Zenon
<1> QED
  BY <1>5, <1>6, <1>7, <1>8, <1>9, <1>10 DEF ViewInv

\* The memtable goes: gets find in the table what they found in it.
LEMMA FlushTruncateView ==
  ASSUME EngineInv, EngineInv', ViewInv, FlushTruncate
  PROVE  ViewInv'
<1>1. /\ mu.at = "flush_committed" /\ mode # "closed" /\ manifest.present
      /\ memtable' = Empty /\ mu' = AfterFlush(mu.by)
      /\ UNCHANGED <<mode, current_gen, flushing_memtable, vfiles, sstables,
                     has_flushing, kv, jobs, compacting, rd, flusher, manifest>>
  <2>1. mu.at = "flush_committed"
    BY Zenon DEF FlushTruncate
  <2>2. mode # "closed" /\ manifest.present
    BY <2>1, Present, Zenon DEF ViewInv
  <2> QED
    BY <2>1, <2>2, Zenon DEF FlushTruncate, tablefiles
<1>2. ~has_flushing /\ flusher.pc = "idle" /\ mu.by \in {"flush", "gc", "open"}
  BY <1>1, SlotFree, Zenon DEF EngineInv, LockOK, SlotOK
<1>3. mu'.at \in {"free", "gc", "drop_wal"} /\ (mu'.by = "gc" => mu.by = "gc")
  BY <1>1, <1>2, Zenon DEF AfterFlush, Free
<1>4. MergerOK' /\ InputsOK'
  BY <1>1, <1>3, MergesKept, Zenon
<1>5. SnapshotsOK'
  BY <1>1, SnapshotsSame, Zenon DEF ViewInv
<1>6. UniqueOK' /\ FirstOK' /\ TablesPoint'
  BY <1>1, Zenon DEF ViewInv, UniqueOK, FirstOK, TablesPoint
<1>7. BuiltOK' /\ CommittedOK'
  BY <1>1, <1>2, <1>3, Zenon DEF BuiltOK, CommittedOK
<1>8. ViewOK'
  <2>1. CASE mode = "open"
    <3>1. \A k \in Keys : memtable'[k] = Absent
      BY <1>1, Zenon DEF Empty
    <3>2. Covered(memtable)
      BY <1>1, Zenon DEF ViewInv, CommittedOK
    <3>3. \A k \in Keys : Shown(k)' = Shown(k)
      BY <1>1, <1>2, <3>1, <3>2, Zenon DEF Shown, Covered
    <3> QED
      BY <1>1, <1>6, <2>1, <3>3, ViewKept DEF ViewInv
  <2>2. CASE mode # "open"
    BY <1>1, <2>2, Zenon DEF ViewOK, Open
  <2> QED
    BY <2>1, <2>2, Zenon
<1> QED
  BY <1>4, <1>5, <1>6, <1>7, <1>8 DEF ViewInv

-----------------------------------------------------------------------------
\* The flusher takes the sealed memtable.
LEMMA FlusherTakeView ==
  ASSUME EngineInv, EngineInv', ViewInv, FlusherTake
  PROVE  ViewInv'
<1>1. mode = "open" /\ manifest.present /\ flusher'.pc = "taken" /\ mu' = mu
  BY Present, Zenon DEF FlusherTake, LockFree, ViewInv
<1>2. UNCHANGED <<mode, memory, jobs, rd, tablefiles, ghost>>
  BY Zenon DEF FlusherTake
<1> QED
  BY <1>1, <1>2, QuietStep DEF memory, tablefiles, ghost

\* The flusher builds its table from the sealed memtable.
LEMMA FlusherBuildView ==
  ASSUME EngineInv, EngineInv', ViewInv, FlusherBuild
  PROVE  ViewInv'
<1>1. /\ flusher.pc = "taken" /\ mode = "open" /\ manifest.present
      /\ UNCHANGED <<mode, mu, memory, jobs, rd, manifest, kv>>
  BY Present, Zenon DEF FlusherBuild, Open, ghost, ViewInv
<1>2. UNCHANGED <<sstables, current_gen, memtable, flushing_memtable, has_flushing, compacting>>
  BY <1>1, Zenon DEF memory
<1>3. /\ has_flushing /\ flusher.gen = current_gen /\ flusher.data = flushing_memtable
  BY <1>1, Zenon DEF EngineInv, SlotOK
<1>4. mu.at \notin {"flush_built", "gc_built", "flush_committed", "flusher_committed"}
  BY <1>1, <1>3, Zenon DEF EngineInv, LockOK, SlotOK
<1>5. /\ vfiles' = [vfiles EXCEPT ![current_gen] =
                      AppendSynced(vfiles[current_gen], flushing_memtable)]
      /\ flusher'.data = Separated(flushing_memtable, current_gen,
                                   Len(vfiles[current_gen].data) + 1)
  <2>1. flusher \in [pc : {"idle", "taken", "built"}, data : Content, gen : Nat, seq : Nat]
    BY Zenon DEF EngineInv, TypeOK, ThreadsType
  <2> QED
    BY <1>3, <2>1, Zenon DEF FlusherBuild
<1>6. flushing_memtable \in MemContent /\ current_gen \in DOMAIN vfiles
  BY <1>1, Typed, Zenon DEF Types
<1>7. /\ \A g \in DOMAIN vfiles : FileKept(vfiles, vfiles', g)
      /\ Written(vfiles', current_gen, flusher'.data, flushing_memtable)
  BY <1>1, <1>5, <1>6, AppendStep, Zenon
<1>8. /\ TablesPoint'
      /\ \A k \in Keys : ValueOf(vfiles', Lookup(sstables, k)) = ValueOf(vfiles, Lookup(sstables, k))
  BY <1>1, <1>2, <1>6, <1>7, PointKept DEF ViewInv
<1>9. MergerOK' /\ InputsOK'
  BY <1>1, <1>2, MergesKept, Zenon
<1>10. SnapshotsOK'
  BY <1>1, <1>2, <1>7, AppendSnapshots, Zenon DEF ViewInv
<1>11. UniqueOK' /\ FirstOK' /\ CommittedOK' /\ BuiltOK'
  BY <1>1, <1>2, <1>4, <1>7 DEF ViewInv, UniqueOK, FirstOK, CommittedOK, BuiltOK
<1>12. ViewOK'
  <2>1. \A k \in Keys : Shown(k)' = Shown(k)
    BY <1>2, <1>8, Zenon DEF Shown
  <2> QED
    BY <1>1, <1>8, <2>1, ViewKept, Zenon DEF ViewInv
<1> QED
  BY <1>8, <1>9, <1>10, <1>11, <1>12 DEF ViewInv

\* The flusher lists its table: the newest one, for the sealed memtable is
\* older than the memtable and newer than every table.
LEMMA FlusherCommitView ==
  ASSUME EngineInv, EngineInv', ViewInv, FlusherCommit
  PROVE  ViewInv'
<1>1. /\ mu.at = "free" /\ mode = "open" /\ manifest'.present /\ flusher.pc = "built"
      /\ sstables' = PushNewest(sstables, Table(flusher.seq, flusher.data))
      /\ UNCHANGED <<mode, current_gen, memtable, flushing_memtable, vfiles,
                     has_flushing, kv, jobs, compacting, rd, flusher>>
  BY Zenon DEF FlusherCommit, LockFree, ghost, ManifestOf
<1>2. has_flushing /\ flusher.seq \notin TableIds(sstables)
  BY <1>1, Zenon DEF EngineInv, SlotOK, IdsOK, Listed
<1>3. flusher.data \in Content /\ mu'.at = "flusher_committed" /\ mu'.by = "flusher"
  BY Zenon DEF FlusherCommit, Free, EngineInv, TypeOK, ThreadsType
<1>4. /\ flushing_memtable \in MemContent
      /\ Written(vfiles, current_gen, flusher.data, flushing_memtable)
  BY <1>1, Typed, Zenon DEF Types, ViewInv, BuiltOK
<1>5. /\ TablesPoint'
      /\ \A k \in Keys : flushing_memtable[k] # Absent =>
           ValueOf(vfiles', Lookup(sstables', k)) = flushing_memtable[k]
      /\ \A k \in Keys : flushing_memtable[k] = Absent =>
           Lookup(sstables', k) = Lookup(sstables, k)
  BY <1>1, <1>3, <1>4, PushWritten, Zenon DEF ViewInv
<1>6. UniqueOK' /\ MergerOK' /\ InputsOK'
  BY <1>1, <1>2, <1>3, PushMerges, Zenon
<1>7. FirstOK' /\ BuiltOK'
  BY <1>1, <1>3, <1>4, Zenon DEF FirstOK, BuiltOK
<1>8. CommittedOK'
  BY <1>1, <1>3, <1>5, Zenon DEF CommittedOK, Covered
<1>9. SnapshotsOK'
  BY <1>1, SnapshotsSame, Zenon DEF ViewInv
<1>10. ViewOK'
  <2>1. \A k \in Keys : Shown(k)' = Shown(k)
    BY <1>1, <1>2, <1>5, Zenon DEF Shown
  <2> QED
    BY <1>1, <1>5, <2>1, ViewKept, Zenon DEF ViewInv
<1> QED
  BY <1>5, <1>6, <1>7, <1>8, <1>9, <1>10 DEF ViewInv

\* A number is not above itself.
LEMMA Reflexive ==
  ASSUME NEW n \in Nat
  PROVE  n <= n
OBVIOUS

\* Unlinking spares the current value log and those of snapshots.
LEMMA UnlinkLogs ==
  ASSUME EngineInv, EngineInv', mode = "open", NEW obs, NEW obsg,
         Unlink(obs, obsg, sstables, vlogs', flusher', jobs', rd', locals'),
         current_gen' = current_gen, current_gen \in vlogs', SnapshotsOK,
         \A r \in Readers : rd'[r] = rd[r] \/ rd'[r] = IdleRead
  PROVE  /\ \A g \in DOMAIN vfiles : g \notin obsg => FileKept(vfiles, vfiles', g)
         /\ FileKept(vfiles, vfiles', current_gen)
         /\ SnapshotsOK'
<1>1. /\ \A g \in DOMAIN vfiles : IsValueLog(vfiles[g])
      /\ current_gen \in DOMAIN vfiles /\ current_gen \in Nat
  BY Typed, Zenon DEF Types
<1>2. Unlinked(obs, obsg)
  BY UnlinkFiles, Zenon
<1>3. \A g \in DOMAIN vfiles :
        (g \notin obsg \/ g \in vlogs' \/ \E r \in Readers : g \in rd'[r].gens)
        => g \in DOMAIN vfiles' /\ vfiles'[g] = vfiles[g]
  BY <1>2, Zenon DEF Unlinked
<1>4. /\ \A g \in DOMAIN vfiles : g \notin obsg => FileKept(vfiles, vfiles', g)
      /\ FileKept(vfiles, vfiles', current_gen)
  BY <1>1, <1>3, SameFile, Zenon
<1>5. \A r \in Readers : rd'[r].pc = "reading" => \A g \in rd[r].gens : FileKept(vfiles, vfiles', g)
  <2> SUFFICES ASSUME NEW r \in Readers, rd'[r].pc = "reading", NEW g \in rd[r].gens
               PROVE  FileKept(vfiles, vfiles', g)
    BY Zenon
  <2>1. rd'[r] = rd[r]
    BY IdleHolds, Zenon
  <2>2. g \in DOMAIN vfiles
    BY Zenon DEF EngineInv, HeldOK
  <2>3. g \in DOMAIN vfiles' /\ vfiles'[g] = vfiles[g]
    BY <1>3, <2>1, <2>2, Zenon
  <2> QED
    BY <1>1, <2>2, <2>3, SameFile, Zenon
<1>6. SnapshotsOK'
  <2>1. \A r \in Readers : rd'[r] = rd[r] \/ rd'[r].pc = "idle"
    BY IdleHolds, Zenon
  <2>2. current_gen <= current_gen
    BY <1>1, Reflexive, Zenon
  <2>3. current_gen <= current_gen'
    BY <2>2, Zenon
  <2> QED
    BY <1>5, <2>1, <2>3, SnapshotsKept, Zenon
<1> QED
  BY <1>4, <1>6, Zenon

\* The sealed memtable goes: gets find in the table what they found in it.
LEMMA FlusherFinishView ==
  ASSUME EngineInv, EngineInv', ViewInv, FlusherFinish
  PROVE  ViewInv'
<1>1. /\ mu.at = "flusher_committed" /\ mode = "open" /\ manifest.present
      /\ flushing_memtable' = Empty /\ has_flushing' = FALSE /\ mu' = Free
      /\ flusher' = IdleFlusher
      /\ UNCHANGED <<mode, current_gen, memtable, sstables, vlogs, kv, jobs, compacting,
                     rd, manifest>>
  <2>1. mu.at = "flusher_committed"
    BY Zenon DEF FlusherFinish
  <2>2. flusher.pc = "built"
    BY <2>1, Zenon DEF EngineInv, LockOK
  <2>3. mode = "open"
    BY <2>2, Zenon DEF EngineInv, SlotOK
  <2>4. manifest.present
    BY <2>1, Present, Zenon DEF ViewInv
  <2> QED
    BY <2>1, <2>3, <2>4, Zenon DEF FlusherFinish, ghost
<1>2. Unlink(obsolete, obsolete_gens, sstables, vlogs', flusher', jobs', rd', locals')
  BY <1>1, Zenon DEF FlusherFinish
<1>3. current_gen \in vlogs'
  BY <1>1, Typed, Zenon DEF Types
<1>4. FileKept(vfiles, vfiles', current_gen) /\ SnapshotsOK'
  BY <1>1, <1>2, <1>3, UnlinkLogs DEF ViewInv
<1>5. /\ TablesPoint'
      /\ \A k \in Keys : ValueOf(vfiles', Lookup(sstables, k)) = ValueOf(vfiles, Lookup(sstables, k))
  BY <1>1, <1>4, PointKept, Zenon DEF ViewInv
<1>6. mu'.at = "free" /\ mu'.by = "none" /\ flusher'.pc = "idle"
  BY <1>1, Zenon DEF Free, IdleFlusher
<1>7. MergerOK' /\ InputsOK'
  BY <1>1, <1>6, MergesKept, Zenon
<1>8. UniqueOK' /\ FirstOK' /\ CommittedOK' /\ BuiltOK'
  BY <1>1, <1>6, Zenon DEF ViewInv, UniqueOK, FirstOK, CommittedOK, BuiltOK
<1>9. ViewOK'
  <2>1. Covered(flushing_memtable)
    BY <1>1, Zenon DEF ViewInv, CommittedOK
  <2>2. \A k \in Keys : Shown(k)' = Shown(k)
    BY <1>1, <1>5, <2>1, Zenon DEF Shown, Covered
  <2> QED
    BY <1>1, <1>5, <2>2, ViewKept, Zenon DEF ViewInv
<1> QED
  BY <1>4, <1>5, <1>7, <1>8, <1>9 DEF ViewInv

-----------------------------------------------------------------------------
\* A get or scan takes its snapshot: it is to answer what is visible now.
LEMMA SnapshotView ==
  ASSUME EngineInv, EngineInv', ViewInv, LockFree, NEW r \in Readers, NEW keys, NEW mem,
         keys \subseteq Keys, \A k \in keys : mem[k] = InMemory[k], Snapshot(r, keys, mem)
  PROVE  ViewInv'
<1>1. /\ mode = "open" /\ manifest.present
      /\ UNCHANGED <<mode, mu, memtable, flushing_memtable, has_flushing, sstables, vlogs,
                     current_gen, compacting, flusher, jobs, manifest, vfiles, kv>>
  BY Present, Zenon DEF Snapshot, memory, tablefiles, ghost, LockFree, ViewInv
<1>2. /\ rd'[r].gens = vlogs /\ rd'[r].tables = sstables /\ rd'[r].keys = keys
      /\ rd'[r].mem = mem /\ rd'[r].want = kv
      /\ \A q \in Readers : q # r => rd'[q] = rd[q]
  <2>1. rd = [q \in Readers |-> rd[q]]
    BY Zenon DEF EngineInv, TypeOK, ThreadsType
  <2> QED
    BY <2>1, Zenon DEF Snapshot
<1>3. UniqueOK' /\ TablesPoint' /\ BuiltOK' /\ CommittedOK' /\ ViewOK'
  BY <1>1, LogsSame, StoreKept, Zenon
<1>4. MergerOK' /\ InputsOK'
  BY <1>1, MergesKept, Zenon
<1>5. FirstOK'
  BY <1>1, Zenon DEF FirstOK
<1>6. SnapshotsOK'
  <2> SUFFICES ASSUME NEW q \in Readers, rd'[q].pc = "reading"
               PROVE  /\ \A g \in rd'[q].gens : g <= current_gen'
                      /\ \A k \in Keys : Lookup(rd'[q].tables, k) \in Ptr =>
                           /\ Lookup(rd'[q].tables, k).gen \in rd'[q].gens
                           /\ OnDisk(vfiles', Lookup(rd'[q].tables, k))
                      /\ \A k \in rd'[q].keys : Answer(q, k)' = rd'[q].want[k]
    BY Zenon DEF SnapshotsOK
  <2>1. CASE q # r
    <3>1. rd'[q] = rd[q] /\ vfiles' = vfiles /\ current_gen' = current_gen
      BY <1>1, <1>2, <2>1, Zenon
    <3>2. \A k : Answer(q, k)' = Answer(q, k)
      BY <3>1, Zenon DEF Answer
    <3> QED
      BY <3>1, <3>2, Zenon DEF ViewInv, SnapshotsOK
  <2>2. CASE q = r
    <3>1. \A g \in vlogs : g <= current_gen
      BY Zenon DEF EngineInv, GensOK
    <3>2. \A k \in Keys : Lookup(sstables, k) \in Ptr =>
            Lookup(sstables, k).gen \in vlogs /\ OnDisk(vfiles, Lookup(sstables, k))
      BY <1>1, LookupPoints, Typed, Zenon DEF ViewInv, Types
    <3>3. ASSUME NEW k \in keys PROVE Answer(r, k)' = kv[k]
      <4>1. Visible[k] = kv[k] /\ k \in Keys
        BY <1>1, Zenon DEF ViewInv, ViewOK, Open
      <4>2. Answer(r, k)' = IF mem[k] # Absent THEN AsValue(mem[k])
                            ELSE AsValue(ReadCell(vfiles, vlogs, Lookup(sstables, k)))
        BY <1>1, <1>2, Zenon DEF Answer
      <4>3. mem[k] = IF memtable[k] # Absent \/ ~has_flushing THEN memtable[k]
                     ELSE flushing_memtable[k]
        BY <3>3, <4>1, Zenon DEF InMemory
      <4>4. Visible[k] =
              IF memtable[k] # Absent THEN AsValue(memtable[k])
              ELSE IF has_flushing /\ flushing_memtable[k] # Absent
                   THEN AsValue(flushing_memtable[k])
              ELSE AsValue(ReadCell(vfiles, vlogs, Lookup(sstables, k)))
        BY <4>1, Zenon DEF Visible
      <4>5. CASE memtable[k] # Absent
        BY <4>1, <4>2, <4>3, <4>4, <4>5, Zenon
      <4>6. CASE memtable[k] = Absent /\ ~has_flushing
        BY <4>1, <4>2, <4>3, <4>4, <4>6, Zenon
      <4>7. CASE memtable[k] = Absent /\ has_flushing
        <5>1. mem[k] = flushing_memtable[k]
          BY <4>3, <4>7, Zenon
        <5> QED
          BY <4>1, <4>2, <4>4, <4>7, <5>1, Zenon
      <4> QED
        BY <4>5, <4>6, <4>7, Zenon
    <3> QED
      BY <1>1, <1>2, <2>2, <3>1, <3>2, <3>3, Zenon
  <2> QED
    BY <2>1, <2>2, Zenon
<1> QED
  BY <1>3, <1>4, <1>5, <1>6, Zenon DEF ViewInv

\* get looks up one key that is in no memtable.
LEMMA GetView ==
  ASSUME EngineInv, EngineInv', ViewInv, NEW r \in Readers, NEW k \in Keys, Get(r, k)
  PROVE  ViewInv'
<1> DEFINE keys == {k}
<1>1. LockFree /\ InMemory[k] = Absent /\ Snapshot(r, keys, Empty)
  BY Zenon DEF Get
<1>2. keys \subseteq Keys /\ \A x \in keys : Empty[x] = InMemory[x]
  BY <1>1, Zenon DEF Empty
<1> HIDE DEF keys
<1> QED
  BY <1>1, <1>2, SnapshotView

\* scan copies the memtables' part of its range.
LEMMA ScanView ==
  ASSUME EngineInv, EngineInv', ViewInv, NEW r \in Readers, NEW from, NEW to, Scan(r, from, to)
  PROVE  ViewInv'
<1> DEFINE range == {k \in Keys : from <= k /\ k < to}
           mem == [k \in Keys |-> IF k \in range THEN InMemory[k] ELSE Absent]
<1>1. LockFree /\ Snapshot(r, range, mem)
  BY Zenon DEF Scan
<1>2. range \subseteq Keys /\ \A x \in range : mem[x] = InMemory[x]
  BY Zenon
<1> HIDE DEF range, mem
<1> QED
  BY <1>1, <1>2, SnapshotView

\* References end without the lock, and files go that nobody else holds.
LEMMA ReleaseView ==
  ASSUME EngineInv, EngineInv', ViewInv, mode = "open",
         \A q \in Readers : rd'[q] = rd[q] \/ rd'[q] = IdleRead,
         Unlink(obsolete, obsolete_gens, sstables, vlogs', flusher', jobs', rd', locals'),
         UNCHANGED <<mode, mu, memtable, flushing_memtable, has_flushing, sstables, vlogs,
                     current_gen, compacting, flusher, jobs, manifest, kv>>
  PROVE  ViewInv'
<1>1. manifest.present
  BY Present, Zenon DEF ViewInv
<1>2. current_gen \in vlogs'
  BY <1>1, Typed, Zenon DEF Types
<1>3. /\ \A g \in DOMAIN vfiles : g \notin obsolete_gens => FileKept(vfiles, vfiles', g)
      /\ FileKept(vfiles, vfiles', current_gen) /\ SnapshotsOK'
  BY <1>2, UnlinkLogs DEF ViewInv
<1>4. mu.at = "gc_built" => FileKept(vfiles, vfiles', current_gen + 1)
  <2>1. mu.at = "gc_built" => (current_gen + 1) \in DOMAIN vfiles
    BY Zenon DEF EngineInv, GensOK
  <2>2. (current_gen + 1) \notin obsolete_gens
    BY DEF EngineInv, TypeOK, MemoryType, GensOK
  <2> QED
    BY <1>3, <2>1, <2>2, Zenon
<1>5. UniqueOK' /\ TablesPoint' /\ BuiltOK' /\ CommittedOK' /\ ViewOK'
  BY <1>1, <1>3, <1>4, StoreKept
<1>6. MergerOK' /\ InputsOK'
  BY MergesKept, Zenon
<1>7. FirstOK'
  BY <1>1, Zenon DEF FirstOK
<1> QED
  BY <1>3, <1>5, <1>6, <1>7 DEF ViewInv

\* A read ends.
LEMMA EndReadView ==
  ASSUME EngineInv, EngineInv', ViewInv, NEW r \in Readers, EndRead(r)
  PROVE  ViewInv'
<1>1. /\ mode = "open" /\ rd' = [rd EXCEPT ![r] = IdleRead]
      /\ UNCHANGED <<mode, mu, memtable, flushing_memtable, has_flushing, sstables, vlogs,
                     current_gen, compacting, flusher, jobs, locals, manifest, kv>>
  BY Zenon DEF EndRead, Open, ghost
<1>2. \A q \in Readers : rd'[q] = rd[q] \/ rd'[q] = IdleRead
  <2>1. rd = [q \in Readers |-> rd[q]]
    BY Zenon DEF EngineInv, TypeOK, ThreadsType
  <2> QED
    BY <1>1, <2>1, Zenon
<1>3. Unlink(obsolete, obsolete_gens, sstables, vlogs', flusher', jobs', rd', locals')
  BY <1>1, Zenon DEF EndRead
<1> QED
  BY <1>1, <1>2, <1>3, ReleaseView

\* The locals of a thread go out of scope.
LEMMA EndScopeView ==
  ASSUME EngineInv, EngineInv', ViewInv, NEW t \in Threads, EndScope(t)
  PROVE  ViewInv'
<1>1. /\ mode = "open" /\ rd' = rd
      /\ UNCHANGED <<mode, mu, memtable, flushing_memtable, has_flushing, sstables, vlogs,
                     current_gen, compacting, flusher, jobs, manifest, kv>>
  BY Zenon DEF EndScope, Open, ghost
<1>2. Unlink(obsolete, obsolete_gens, sstables, vlogs', flusher', jobs', rd', locals')
  BY <1>1, Zenon DEF EndScope
<1> QED
  BY <1>1, <1>2, ReleaseView

-----------------------------------------------------------------------------
\* What MANIFEST names: each table once, its pointers leading to values on disk.
Named ==
  /\ \A s, t \in DOMAIN manifest.tables : manifest.tables[s] = manifest.tables[t] => s = t
  /\ \A s \in DOMAIN manifest.tables : PointsInto(vfiles, manifest.gen, ssts[manifest.tables[s]])

\* It holds whether the store is open or not.
LEMMA ManifestNames ==
  ASSUME EngineInv, ViewInv, manifest.present
  PROVE  Named
<1>1. CASE mode = "closed"
  BY <1>1, Zenon DEF ViewInv, UniqueOK, TablesPoint, Named
<1>2. CASE mode # "closed"
  <2>1. manifest.tables = [s \in DOMAIN sstables |-> sstables[s].id] /\ manifest.gen = current_gen
    BY <1>2, Zenon DEF EngineInv, CommitOK
  <2>2. /\ DOMAIN manifest.tables = DOMAIN sstables
        /\ \A s \in DOMAIN sstables : manifest.tables[s] = sstables[s].id
    BY <2>1, Zenon
  <2>3. \A s \in DOMAIN sstables : ssts[sstables[s].id] = sstables[s].data
    BY Zenon DEF EngineInv, FilesOK
  <2>4. \A s \in DOMAIN sstables : PointsInto(vfiles, current_gen, sstables[s].data)
    BY <1>2, Zenon DEF ViewInv, TablesPoint
  <2>5. Distinct(sstables)
    BY Zenon DEF ViewInv, UniqueOK
  <2>6. ASSUME NEW s \in DOMAIN manifest.tables
        PROVE  PointsInto(vfiles, manifest.gen, ssts[manifest.tables[s]])
    <3>1. s \in DOMAIN sstables /\ manifest.tables[s] = sstables[s].id
      BY <2>2, Zenon
    <3>2. ssts[manifest.tables[s]] = sstables[s].data /\ manifest.gen = current_gen
      BY <2>1, <2>3, <3>1, Zenon
    <3> QED
      BY <2>4, <3>1, <3>2, Zenon
  <2>7. \A s, t \in DOMAIN manifest.tables : manifest.tables[s] = manifest.tables[t] => s = t
    BY <2>2, <2>5, Zenon DEF Distinct
  <2> QED
    BY <2>6, <2>7, Zenon DEF Named
<1> QED
  BY <1>1, <1>2, Zenon

\* A closed store: only the directory matters.
LEMMA ClosedView ==
  EngineInv /\ mode = "closed" /\ sstables = NoTables /\ FirstOK /\ (manifest.present => Named)
    => ViewInv
<1> SUFFICES ASSUME EngineInv, mode = "closed", sstables = NoTables, FirstOK,
                    manifest.present => Named
             PROVE  ViewInv
  BY Zenon
<1>1. /\ mu.at = "free" /\ flusher.pc = "idle"
      /\ \A j \in Compactors : jobs[j].pc = "idle"
      /\ \A r \in Readers : rd[r].pc = "idle"
  BY IdleHolds, Zenon DEF EngineInv, LockOK, SlotOK
<1>2. MergerOK /\ InputsOK /\ SnapshotsOK
  BY <1>1, Zenon DEF MergerOK, InputsOK, SnapshotsOK
<1>3. UniqueOK
  BY Zenon DEF UniqueOK, Distinct, NoTables, Named
<1>4. TablesPoint
  BY Zenon DEF TablesPoint, Named
<1>5. BuiltOK /\ CommittedOK /\ ViewOK
  BY <1>1, Zenon DEF BuiltOK, CommittedOK, ViewOK, Open
<1> QED
  BY <1>2, <1>3, <1>4, <1>5, Zenon DEF ViewInv

\* The process ends: what MANIFEST names is still there.
LEMMA EndView ==
  ASSUME EngineInv, EngineInv', ViewInv, MemoryLost, FirstOK', UNCHANGED <<manifest, ssts>>,
         \A g \in DOMAIN vfiles : FileKept(vfiles, vfiles', g)
  PROVE  ViewInv'
<1>1. (mode = "closed")' /\ (sstables = NoTables)'
  BY Zenon DEF MemoryLost
<1>2. /\ \A g \in DOMAIN vfiles : IsValueLog(vfiles[g])
      /\ \A g \in DOMAIN vfiles' : IsValueLog(vfiles'[g])
  <2>1. Types /\ Types'
    BY Typed, PTL
  <2> QED
    BY <2>1, Zenon DEF Types
<1>3. (manifest.present => Named)'
  <2> SUFFICES ASSUME manifest.present PROVE Named'
    BY Zenon
  <2>1. Named
    BY ManifestNames, Zenon
  <2>2. ASSUME NEW s \in DOMAIN manifest.tables
        PROVE  PointsInto(vfiles', manifest.gen, ssts[manifest.tables[s]])
    <3> SUFFICES ASSUME NEW k \in Keys, ssts[manifest.tables[s]][k] \in Ptr
                 PROVE  /\ ssts[manifest.tables[s]][k].gen = manifest.gen
                        /\ OnDisk(vfiles', ssts[manifest.tables[s]][k])
      BY Zenon DEF PointsInto
    <3> DEFINE c == ssts[manifest.tables[s]][k]
    <3>1. c \in Ptr /\ c.gen = manifest.gen /\ OnDisk(vfiles, c)
      BY <2>1, Zenon DEF Named, PointsInto
    <3> HIDE DEF c
    <3>2. FileKept(vfiles, vfiles', c.gen)
      BY <3>1, Zenon DEF OnDisk
    <3>3. OnDisk(vfiles', c)
      BY <1>2, <3>1, <3>2, OnDiskKept
    <3> QED
      BY <3>1, <3>3, Zenon DEF c
  <2> QED
    BY <2>1, <2>2, Zenon DEF Named
<1> QED
  BY <1>1, <1>3, ClosedView, PTL

\* ~DB, or the process is killed.
LEMMA ExitView ==
  ASSUME EngineInv, EngineInv', ViewInv, Exit
  PROVE  ViewInv'
<1>1. /\ MemoryLost /\ UNCHANGED <<manifest, ssts, vfiles, flushing_wal, pending>>
  BY Zenon DEF Exit, logfiles, tablefiles
<1>2. \A g \in DOMAIN vfiles : FileKept(vfiles, vfiles', g)
  BY <1>1, Typed, SameFile, Zenon DEF Types
<1>3. FirstOK'
  <2>1. mu'.at = "free"
    BY <1>1, Zenon DEF MemoryLost, Free
  <2> QED
    BY <1>1, <2>1, Zenon DEF ViewInv, FirstOK
<1> QED
  BY <1>1, <1>2, <1>3, EndView

\* Of the value logs, a power loss leaves what was synced.
LEMMA PowerLossKeeps ==
  ASSUME EngineInv, PowerLoss
  PROVE  \A g \in DOMAIN vfiles : FileKept(vfiles, vfiles', g)
<1> SUFFICES ASSUME NEW g \in DOMAIN vfiles PROVE FileKept(vfiles, vfiles', g)
  BY Zenon
<1> DEFINE d == vfiles[g].data
           n == vfiles[g].synced
<1>1. vfiles' = [h \in DOMAIN vfiles |->
                   [vfiles[h] EXCEPT !.data = SubSeq(@, 1, vfiles[h].synced)]]
  BY Zenon DEF PowerLoss
<1>2. vfiles[g] \in [data : Seq(Content), synced : Nat] /\ n <= Len(d)
  BY Typed, Zenon DEF Types, IsValueLog
<1>3. d \in Seq(Content) /\ n \in Nat
  BY <1>2, Zenon
<1>4. g \in DOMAIN vfiles' /\ vfiles'[g].synced = n /\ vfiles'[g].data = SubSeq(d, 1, n)
  BY <1>1, <1>2, Zenon
<1>5. \A b \in 1 .. n : SubSeq(d, 1, n)[b] = d[b]
  BY <1>2, <1>3
<1>6. n >= n
  BY <1>3
<1> QED
  BY <1>4, <1>5, <1>6, Zenon DEF FileKept

\* The machine stops: what was synced of the value logs stays.
LEMMA PowerLossView ==
  ASSUME EngineInv, EngineInv', ViewInv, PowerLoss
  PROVE  ViewInv'
<1>1. /\ MemoryLost /\ UNCHANGED <<manifest, ssts>> /\ pending'.op = "none"
      /\ pending.op # "remove" => flushing_wal' = flushing_wal
      /\ vfiles' = [g \in DOMAIN vfiles |->
                     [vfiles[g] EXCEPT !.data = SubSeq(@, 1, vfiles[g].synced)]]
  BY Zenon DEF PowerLoss, NothingPending
<1>2. \A g \in DOMAIN vfiles : FileKept(vfiles, vfiles', g)
  BY PowerLossKeeps, Zenon
<1>3. FirstOK'
  <2>1. mu'.at = "free"
    BY <1>1, Zenon DEF MemoryLost, Free
  <2> QED
    BY <1>1, <2>1, Zenon DEF ViewInv, FirstOK
<1> QED
  BY <1>1, <1>2, <1>3, EndView

-----------------------------------------------------------------------------
\* The constructor loads what MANIFEST names; a directory without one is new.
LEMMA OpenDBView ==
  ASSUME EngineInv, EngineInv', ViewInv, OpenDB
  PROVE  ViewInv'
<1> DEFINE db == Recovered
<1>1. /\ mode = "closed" /\ mode' = "opening" /\ sstables' = db.tables /\ current_gen' = db.gen
      /\ ssts' = Restrict(ssts, TableIds(db.tables))
      /\ vfiles' = [g \in db.gens |-> IF g \in DOMAIN vfiles THEN vfiles[g] ELSE NewLog]
      /\ UNCHANGED <<flusher, jobs, rd, flushing_wal, pending, manifest>>
  BY Zenon DEF OpenDB, CleanupOrphans, logfiles
<1>2. /\ mu'.at = IF flushing_wal # <<>> THEN "flush" ELSE "open_done"
      /\ mu'.by = "open"
  BY Zenon DEF OpenDB, Free
<1>3. /\ \A s \in DOMAIN db.tables : /\ db.tables[s].id \in DOMAIN ssts
                                     /\ ssts[db.tables[s].id] = db.tables[s].data
      /\ db.gen \in db.gens
      /\ manifest.present => /\ manifest.tables = [s \in DOMAIN db.tables |-> db.tables[s].id]
                             /\ manifest.gen = db.gen
  BY RecoveredTables, Zenon
<1>4. /\ flusher.pc = "idle" /\ \A j \in Compactors : jobs[j].pc = "idle"
      /\ \A r \in Readers : rd[r].pc = "idle"
  BY <1>1, IdleHolds, Zenon DEF EngineInv, SlotOK
<1>5. ~manifest.present => DOMAIN db.tables = {}
  BY <1>3, Zenon DEF ViewInv, FirstOK
<1> HIDE DEF db
<1>6. MergerOK' /\ InputsOK'
  BY <1>1, <1>4, NoMerges, Zenon
<1>7. SnapshotsOK'
  BY <1>1, <1>4, Zenon DEF SnapshotsOK
<1>8. BuiltOK' /\ CommittedOK' /\ ViewOK'
  BY <1>1, <1>2, <1>4 DEF BuiltOK, CommittedOK, ViewOK, Open
<1>9. FirstOK'
  <2>1. ~manifest.present => DOMAIN ssts' = {}
    BY <1>1, <1>5, Zenon DEF Restrict, TableIds
  <2> QED
    BY <1>1, <1>2, <2>1 DEF ViewInv, FirstOK
<1>10. ASSUME manifest.present, NEW s \in DOMAIN db.tables
       PROVE  /\ s \in DOMAIN manifest.tables /\ manifest.tables[s] = db.tables[s].id
              /\ db.tables[s].data = ssts[manifest.tables[s]] /\ db.gen = manifest.gen
  BY <1>3, <1>10, Zenon
<1>11. UniqueOK'
  <2>1. Distinct(db.tables)
    <3>1. CASE manifest.present
      <4>1. \A s, t \in DOMAIN manifest.tables : manifest.tables[s] = manifest.tables[t] => s = t
        BY <1>1, <3>1, ManifestNames, Zenon DEF Named
      <4> QED
        <5> SUFFICES ASSUME NEW s \in DOMAIN db.tables, NEW t \in DOMAIN db.tables,
                            db.tables[s].id = db.tables[t].id
                     PROVE  s = t
          BY Zenon DEF Distinct
        <5>1. s \in DOMAIN manifest.tables /\ manifest.tables[s] = db.tables[s].id
          BY <1>10, <3>1, Zenon
        <5>2. t \in DOMAIN manifest.tables /\ manifest.tables[t] = db.tables[t].id
          BY <1>10, <3>1, Zenon
        <5> QED
          BY <4>1, <5>1, <5>2, Zenon
    <3>2. CASE ~manifest.present
      BY <1>5, <3>2, Zenon DEF Distinct
    <3> QED
      BY <3>1, <3>2, Zenon
  <2> QED
    BY <1>1, <2>1, Zenon DEF UniqueOK
<1>12. ASSUME NEW s \in DOMAIN db.tables PROVE PointsInto(vfiles', db.gen, db.tables[s].data)
  <2>1. manifest.present
    BY <1>5, Zenon
  <2>2. PointsInto(vfiles, db.gen, db.tables[s].data)
    BY <1>10, <2>1, ManifestNames, Zenon DEF Named
  <2> SUFFICES ASSUME NEW k \in Keys, db.tables[s].data[k] \in Ptr
               PROVE  db.tables[s].data[k].gen = db.gen /\ OnDisk(vfiles', db.tables[s].data[k])
    BY Zenon DEF PointsInto
  <2> DEFINE c == db.tables[s].data[k]
  <2>3. c \in Ptr /\ c.gen = db.gen /\ OnDisk(vfiles, c)
    BY <2>2, Zenon DEF PointsInto
  <2> HIDE DEF c
  <2>4. c.gen \in DOMAIN vfiles /\ c.gen \in DOMAIN vfiles' /\ vfiles'[c.gen] = vfiles[c.gen]
    BY <1>1, <1>3, <2>3, Zenon DEF OnDisk
  <2>5. OnDisk(vfiles', c)
    BY <2>3, <2>4, Zenon DEF OnDisk
  <2> QED
    BY <2>3, <2>5, Zenon DEF c
<1>13. TablesPoint'
  BY <1>1, <1>12, Zenon DEF TablesPoint
<1> QED
  BY <1>6, <1>7, <1>8, <1>9, <1>11, <1>13 DEF ViewInv

\* wal-flushing.log goes; its records are in a table by now.
LEMMA OpenDropWalView ==
  ASSUME EngineInv, EngineInv', ViewInv, OpenDropWal
  PROVE  ViewInv'
<1>1. manifest.present /\ mode # "closed"
  BY Present, Zenon DEF OpenDropWal, ViewInv
<1>2. /\ mu.at = "drop_wal" /\ mu'.at = "open_done" /\ mu'.by = mu.by
      /\ UNCHANGED <<mode, memory, flusher, jobs, rd, tablefiles, ghost>>
  BY Zenon DEF OpenDropWal, EngineInv, TypeOK, MemoryType, LockType
<1> QED
  BY <1>1, <1>2, QuietStep, Zenon DEF memory, tablefiles, ghost

\* The constructor returns: what it recovered is what the store holds.
LEMMA OpenDoneView ==
  ASSUME EngineInv, EngineInv', ViewInv, OpenDone
  PROVE  ViewInv'
<1>1. /\ mode = "opening" /\ mode' = "open" /\ kv' = Visible
      /\ mu'.at = "free" /\ mu'.by = "none" /\ manifest'.present
      /\ UNCHANGED <<memtable, flushing_memtable, has_flushing, sstables, vlogs, current_gen,
                     flusher, jobs, rd, vfiles>>
  <2>1. manifest'.present
    BY Zenon DEF OpenDone, ManifestOf
  <2> QED
    BY <2>1, Zenon DEF OpenDone, memory, EngineInv, LockOK, Free
<1>2. /\ flusher.pc = "idle" /\ \A j \in Compactors : jobs[j].pc = "idle"
      /\ \A r \in Readers : rd[r].pc = "idle"
  BY <1>1, IdleHolds, Zenon DEF EngineInv, SlotOK
<1>3. MergerOK' /\ InputsOK'
  BY <1>1, <1>2, NoMerges, Zenon
<1>4. SnapshotsOK'
  BY <1>1, <1>2, Zenon DEF SnapshotsOK
<1>5. BuiltOK' /\ CommittedOK' /\ FirstOK' /\ UniqueOK'
  BY <1>1, <1>2, Zenon DEF BuiltOK, CommittedOK, FirstOK, UniqueOK, ViewInv
<1>6. TablesPoint'
  BY <1>1, Zenon DEF ViewInv, TablesPoint
<1>7. ViewOK'
  <2>1. Visible' = Visible
    BY <1>1, Zenon DEF Visible
  <2> QED
    BY <1>1, <2>1, Zenon DEF ViewOK
<1> QED
  BY <1>3, <1>4, <1>5, <1>6, <1>7 DEF ViewInv


=============================================================================
