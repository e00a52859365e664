--------------------------- MODULE LsmMergeProofs ---------------------------
(***************************************************************************)
(* The merges of one merger and the garbage collection of value logs       *)
(* preserve ViewInv and DurInv; the steps of a recovery preserve DurInv.   *)
(***************************************************************************)
EXTENDS LsmDurableProofs

\* A merge picks a run of tables as its inputs.
LEMMA StartMergeView ==
  ASSUME OneMerger, EngineInv, EngineInv', ViewInv, LockFree, NEW j \in Compactors,
         NEW R, R \subseteq DOMAIN sstables, R # {}, AgeContiguous(sstables, R),
         NEW drop \in BOOLEAN, drop => \A s \in DOMAIN sstables \ R, a \in R : a < s,
         StartMerge(j, R, drop)
  PROVE  ViewInv'
<1>1. /\ mode = "open" /\ mu.at = "free" /\ mu.by = "none" /\ manifest.present
      /\ compacting' = TRUE
      /\ UNCHANGED <<mode, mu, sstables, current_gen, memtable, flushing_memtable,
                     has_flushing, kv, vfiles, flusher, rd, manifest>>
  <2>1. mode = "open" /\ mu.at = "free" /\ manifest.present
    BY Present, Zenon DEF LockFree, ViewInv
  <2> QED
    BY <2>1, Zenon DEF StartMerge, SetCompacting, tablefiles, ghost, EngineInv, LockOK
<1>2. UniqueOK' /\ TablesPoint' /\ BuiltOK' /\ CommittedOK' /\ ViewOK'
  BY <1>1, LogsSame, StoreKept
<1>3. MergerOK'
  BY <1>1, Zenon DEF MergerOK
<1>4. InputsOK'
  <2> DEFINE in == Restrict(sstables, R)
  <2>1. DOMAIN in = R /\ \A s \in R : in[s] = sstables[s]
    BY Zenon DEF Restrict
  <2>2. /\ jobs'[j].inputs = in /\ jobs'[j].drop = drop /\ jobs'[j].pc = "picked"
    BY Zenon DEF StartMerge, EngineInv, TypeOK, ThreadsType
  <2> HIDE DEF in
  <2>3. StillListed(sstables, in, drop)
    BY <2>1, Zenon DEF StillListed
  <2>4. \A i \in Compactors : i = j
    BY Zenon DEF OneMerger
  <2> QED
    BY <1>1, <2>1, <2>2, <2>3, <2>4 DEF InputsOK
<1>5. SnapshotsOK'
  BY <1>1, SnapshotsSame DEF ViewInv
<1>6. FirstOK'
  BY <1>1, Zenon DEF FirstOK
<1> QED
  BY <1>2, <1>3, <1>4, <1>5, <1>6 DEF ViewInv

\* pick_compaction returns such a run.
LEMMA DoSizeTieredCompactionView ==
  ASSUME OneMerger, EngineInv, EngineInv', ViewInv, DoSizeTieredCompaction
  PROVE  ViewInv'
<1>1. PICK R \in PickCompaction(sstables) :
        StartMerge("compactor", R, ReachesOldest(sstables, R))
  BY Zenon DEF DoSizeTieredCompaction
<1>2. R \subseteq DOMAIN sstables /\ R # {} /\ AgeContiguous(sstables, R)
  BY <1>1, Zenon DEF PickCompaction, Tiers, IsRun
<1>3. DOMAIN sstables \subseteq Int /\ Bounded(DOMAIN sstables)
  BY Typed, Zenon DEF Types, IsList
<1>4. /\ ReachesOldest(sstables, R) \in BOOLEAN
      /\ ReachesOldest(sstables, R) => \A s \in DOMAIN sstables \ R, a \in R : a < s
  BY <1>2, <1>3, OldestUnder DEF ReachesOldest
<1> QED
  BY <1>1, <1>2, <1>4, StartMergeView DEF DoSizeTieredCompaction

\* A merge writes its table.
LEMMA MergeBuildView ==
  ASSUME OneMerger, EngineInv, EngineInv', ViewInv, NEW j \in Compactors, MergeBuild(j)
  PROVE  ViewInv'
<1>1. /\ mode = "open" /\ manifest.present /\ jobs[j].pc = "picked"
      /\ UNCHANGED <<mode, mu, memory, flusher, rd, vfiles, manifest, kv>>
  BY Present, Zenon DEF MergeBuild, Open, ghost, ViewInv
<1>2. UNCHANGED <<sstables, current_gen, memtable, flushing_memtable, has_flushing, compacting>>
  BY <1>1, Zenon DEF memory
<1>3. UniqueOK' /\ TablesPoint' /\ BuiltOK' /\ CommittedOK' /\ ViewOK'
  BY <1>1, <1>2, LogsSame, StoreKept
<1>4. /\ jobs'[j].pc = "built" /\ jobs'[j].inputs = jobs[j].inputs
      /\ jobs'[j].drop = jobs[j].drop
      /\ jobs'[j].data = MergeRecords(jobs[j].inputs, jobs[j].drop)
  <2>1. DOMAIN jobs[j] = {"pc", "inputs", "drop", "seq", "data"} /\ j \in DOMAIN jobs
    BY Zenon DEF EngineInv, TypeOK, ThreadsType, IsJob
  <2> QED
    BY <2>1, Zenon DEF MergeBuild
<1>5. \A i \in Compactors : i = j
  BY Zenon DEF OneMerger
<1>6. MergerOK'
  BY <1>1, <1>2, <1>4, <1>5 DEF ViewInv, MergerOK
<1>7. InputsOK'
  BY <1>1, <1>2, <1>4, <1>5 DEF ViewInv, InputsOK
<1>8. SnapshotsOK'
  BY <1>1, <1>2, SnapshotsSame DEF ViewInv
<1>9. FirstOK'
  BY <1>1, Zenon DEF FirstOK
<1> QED
  BY <1>3, <1>6, <1>7, <1>8, <1>9 DEF ViewInv

\* What a merge puts in place of its inputs shows what they showed.
LEMMA MergeCommitShows ==
  ASSUME EngineInv, ViewInv, NEW j \in Compactors, MergeCommit(j), NEW k \in Keys
  PROVE  AsValue(ValueOf(vfiles', Lookup(sstables', k))) = AsValue(ValueOf(vfiles, Lookup(sstables, k)))
<1> DEFINE in == jobs[j].inputs
           drop == jobs[j].drop
           out == Table(jobs[j].seq, jobs[j].data)
           T == InstallMergeResult(sstables, TableIds(in), out)
<1>1. mu.at = "free" /\ jobs[j].pc = "built" /\ sstables' = T /\ vfiles' = vfiles
  BY Zenon DEF MergeCommit, LockFree
<1>2. out.data = jobs[j].data
  BY Zenon DEF Table
<1>3. /\ DOMAIN in # {} /\ jobs[j].data = MergeRecords(in, drop)
      /\ StillListed(sstables, in, drop)
  BY <1>1, Zenon DEF ViewInv, InputsOK
<1>4. IsList(sstables) /\ drop \in BOOLEAN /\ Distinct(sstables)
  BY Typed, Zenon DEF Types, EngineInv, TypeOK, ThreadsType, IsJob, ViewInv, UniqueOK
<1> HIDE DEF out, in, drop
<1>5. \/ Lookup(T, k) = Lookup(sstables, k)
      \/ Lookup(sstables, k) = Tomb /\ Lookup(T, k) = Absent
  BY <1>2, <1>3, <1>4, InstallShows
<1>6. Tomb \notin Ptr /\ Absent \notin Ptr
  BY TablesAssumption, Zenon DEF MemCell
<1>7. AsValue(ValueOf(vfiles, Tomb)) = AsValue(ValueOf(vfiles, Absent))
  BY <1>6, Zenon DEF AsValue, ValueOf
<1> HIDE DEF T
<1> QED
  BY <1>1, <1>5, <1>7

\* The output of a merge takes the place of its inputs: gets find the same.
LEMMA MergeCommitView ==
  ASSUME OneMerger, EngineInv, EngineInv', ViewInv, NEW j \in Compactors, MergeCommit(j)
  PROVE  ViewInv'
<1> DEFINE in == jobs[j].inputs
           drop == jobs[j].drop
           out == Table(jobs[j].seq, jobs[j].data)
<1>1. /\ mode = "open" /\ mu.at = "free" /\ jobs[j].pc = "built" /\ manifest'.present
      /\ mu'.at = "merge_committed" /\ mu'.by = j
      /\ sstables' = InstallMergeResult(sstables, TableIds(in), out)
      /\ UNCHANGED <<mode, current_gen, memtable, flushing_memtable, has_flushing, kv,
                     vfiles, flusher, jobs, compacting, rd>>
  BY Zenon DEF MergeCommit, LockFree, ghost, ManifestOf, Free
<1>2. /\ out.id = jobs[j].seq /\ out.data = jobs[j].data
  BY Zenon DEF Table
<1>3. /\ DOMAIN in # {} /\ jobs[j].data = MergeRecords(in, drop)
      /\ StillListed(sstables, in, drop)
  BY <1>1, Zenon DEF ViewInv, InputsOK
<1>4. IsList(sstables) /\ IsList(in) /\ drop \in BOOLEAN
  <2>1. IsJob(jobs[j]) /\ Bounded(DOMAIN in)
    BY Zenon DEF EngineInv, TypeOK, ThreadsType, BoundsOK
  <2>2. IsList(in) /\ drop \in BOOLEAN
    BY <2>1, Zenon DEF IsJob, IsTables, IsList
  <2> QED
    BY <2>2, Typed DEF Types
<1>5. jobs[j].seq \notin TableIds(sstables) /\ j # "gc"
  BY <1>1, LsmAssumption DEF EngineInv, IdsOK, Listed
<1>6. Distinct(sstables)
  BY Zenon DEF ViewInv, UniqueOK
<1>7. Hit(sstables, TableIds(in)) = DOMAIN in
  BY <1>3, <1>6, HitInputs
<1> HIDE DEF out, in, drop
<1>8. UniqueOK'
  <2>1. Distinct(InstallMergeResult(sstables, TableIds(in), out))
    BY <1>2, <1>4, <1>5, <1>6, InstallDistinct DEF IsList
  <2> QED
    BY <1>1, <2>1, Zenon DEF UniqueOK
<1>9. TablesPoint'
  <2>1. \A s \in DOMAIN sstables : PointsInto(vfiles, current_gen, sstables[s].data)
    BY <1>1, Zenon DEF ViewInv, TablesPoint
  <2>2. \A s \in DOMAIN in : PointsInto(vfiles, current_gen, in[s].data)
    BY <1>3, <2>1, Zenon DEF StillListed
  <2>3. PointsInto(vfiles, current_gen, out.data)
    <3>1. ASSUME NEW k \in Keys
          PROVE  out.data[k] \in Ptr => out.data[k].gen = current_gen /\ OnDisk(vfiles, out.data[k])
      <4>1. MergeRecords(in, drop)[k] \in Ptr =>
              /\ MergeRecords(in, drop)[k].gen = current_gen
              /\ OnDisk(vfiles, MergeRecords(in, drop)[k])
        BY <1>4, <2>2, MergePoints, Zenon
      <4> QED
        BY <1>2, <1>3, <4>1, Zenon
    <3> QED
      BY <3>1, Zenon DEF PointsInto
  <2>4. \A s \in DOMAIN sstables' :
          sstables'[s] = out \/ (s \in DOMAIN sstables /\ sstables'[s] = sstables[s])
    <3> DEFINE T == InstallMergeResult(sstables, TableIds(in), out)
    <3>1. \A s \in DOMAIN T : T[s] = out \/ (s \in DOMAIN sstables /\ T[s] = sstables[s])
      BY <1>4, InstallAny DEF IsList
    <3> QED
      BY <1>1, <3>1, Zenon
  <2> QED
    BY <1>1, <2>1, <2>3, <2>4 DEF TablesPoint
<1>10. MergerOK' /\ InputsOK'
  BY <1>1, <1>5, Zenon DEF ViewInv, MergerOK, InputsOK
<1>11. FirstOK' /\ CommittedOK' /\ BuiltOK'
  BY <1>1, Zenon DEF ViewInv, FirstOK, CommittedOK, BuiltOK
<1>12. SnapshotsOK'
  BY <1>1, SnapshotsSame, Zenon DEF ViewInv
<1>13. ViewOK'
  <2>1. ASSUME NEW k \in Keys
        PROVE  AsValue(ValueOf(vfiles', Lookup(sstables', k)))
                 = AsValue(ValueOf(vfiles, Lookup(sstables, k)))
    BY MergeCommitShows, Zenon
  <2>2. \A k \in Keys : Shown(k)' = Shown(k)
    BY <1>1, <2>1, Zenon DEF Shown
  <2> QED
    BY <1>1, <1>9, <2>2, ViewKept, Zenon DEF ViewInv
<1> QED
  BY <1>8, <1>9, <1>10, <1>11, <1>12, <1>13, Zenon DEF ViewInv

\* A merge releases its inputs.
LEMMA MergeFinishView ==
  ASSUME OneMerger, EngineInv, EngineInv', ViewInv, NEW j \in Compactors, MergeFinish(j)
  PROVE  ViewInv'
<1>1. /\ mu.at = "merge_committed" /\ mode = "open" /\ manifest.present
      /\ mu' = Free /\ jobs' = [jobs EXCEPT ![j] = IdleJob]
      /\ UNCHANGED <<mode, current_gen, memtable, flushing_memtable, has_flushing,
                     sstables, vlogs, kv, flusher, rd, manifest>>
  <2>1. mu.at = "merge_committed" /\ mu.by = j
    BY Zenon DEF MergeFinish, FinishMerge
  <2>2. jobs[j].pc = "built"
    BY <2>1, Zenon DEF EngineInv, LockOK
  <2>3. mode = "open"
    BY <2>2, IdleHolds DEF EngineInv, SlotOK
  <2>4. manifest.present
    BY <2>3, Present DEF ViewInv
  <2> QED
    BY <2>1, <2>3, <2>4 DEF MergeFinish, FinishMerge, ghost
<1>2. Unlink(obsolete \cup TableIds(jobs[j].inputs), obsolete_gens, sstables, vlogs',
             flusher', jobs', rd', locals')
  BY <1>1, Zenon DEF MergeFinish, FinishMerge
<1>3. current_gen \in vlogs'
  BY <1>1, Typed DEF Types
<1>4. FileKept(vfiles, vfiles', current_gen) /\ SnapshotsOK'
  BY <1>1, <1>2, <1>3, UnlinkLogs DEF ViewInv
<1>5. mu'.at = "free" /\ mu'.by = "none"
  BY <1>1, Zenon DEF Free
<1>6. UniqueOK' /\ TablesPoint' /\ BuiltOK' /\ CommittedOK' /\ ViewOK'
  BY <1>1, <1>4, <1>5, StoreKept
<1>7. \A i \in Compactors : jobs'[i].pc = "idle"
  <2>1. jobs'[j] = IdleJob /\ \A i \in Compactors : i = j
    BY <1>1, Zenon DEF OneMerger, EngineInv, TypeOK, ThreadsType
  <2> QED
    BY <2>1, IdleHolds, Zenon
<1>8. MergerOK' /\ InputsOK'
  BY <1>7, Zenon DEF MergerOK, InputsOK
<1>9. FirstOK'
  BY <1>1, Zenon DEF FirstOK
<1> QED
  BY <1>4, <1>6, <1>8, <1>9 DEF ViewInv

-----------------------------------------------------------------------------
\* The store is open, and nothing merges or flushes, while garbage is collected.
LEMMA Collecting ==
  ASSUME EngineInv, ViewInv, mu.by = "gc", mu.at # "free"
  PROVE  /\ mode = "open" /\ manifest.present /\ flusher.pc = "idle"
         /\ \A j \in Compactors : jobs[j].pc = "idle"
<1>1. mode \in {"closed", "opening", "open"}
  BY Zenon DEF EngineInv, TypeOK, MemoryType
<1>2. mode = "open"
  BY <1>1, Zenon DEF EngineInv, LockOK
<1>3. manifest.present
  BY <1>2, Present, Zenon DEF ViewInv
<1>4. flusher.pc = "idle"
  BY SlotFree, Zenon DEF EngineInv, SlotOK
<1>5. \A j \in Compactors : jobs[j].pc = "idle"
  BY Zenon DEF ViewInv, MergerOK
<1> QED
  BY <1>2, <1>3, <1>4, <1>5

\* gc_value_log takes the lock when no merge is under way.
LEMMA GcValueLogView ==
  ASSUME EngineInv, EngineInv', ViewInv, GcValueLog
  PROVE  ViewInv'
<1>1. /\ mode = "open" /\ mu.at = "free" /\ manifest.present /\ ~compacting
      /\ mu'.at = "flush" /\ mu'.by = "gc"
      /\ UNCHANGED <<mode, memtable, flushing_memtable, has_flushing, sstables, current_gen,
                     vfiles, flusher, jobs, rd, manifest, kv>>
  BY Present, Zenon DEF GcValueLog, LockFree, GcMayRun, ViewInv, Free, tablefiles, ghost
<1>2. UniqueOK' /\ TablesPoint' /\ BuiltOK' /\ CommittedOK' /\ ViewOK'
  BY <1>1, LogsSame, StoreKept
<1>3. MergerOK' /\ InputsOK'
  BY <1>1, NoMerges, Zenon DEF ViewInv, MergerOK
<1>4. SnapshotsOK'
  BY <1>1, SnapshotsSame, Zenon DEF ViewInv
<1>5. FirstOK'
  BY <1>1, Zenon DEF FirstOK
<1> QED
  BY <1>2, <1>3, <1>4, <1>5 DEF ViewInv

\* A collection finds no table.
LEMMA GcNothingView ==
  ASSUME EngineInv, EngineInv', ViewInv, GcNothing
  PROVE  ViewInv'
<1>1. /\ mu.at = "gc" /\ mu'.at = "free" /\ mu'.by = "none"
      /\ UNCHANGED <<mode, memtable, flushing_memtable, has_flushing, sstables, current_gen,
                     vfiles, flusher, jobs, rd, manifest, kv>>
  BY Zenon DEF GcNothing, Free, tablefiles, ghost
<1>2. /\ mode = "open" /\ manifest.present /\ \A j \in Compactors : jobs[j].pc = "idle"
  BY <1>1, Collecting DEF EngineInv, LockOK
<1>3. UniqueOK' /\ TablesPoint' /\ BuiltOK' /\ CommittedOK' /\ ViewOK'
  BY <1>1, <1>2, LogsSame, StoreKept
<1>4. MergerOK' /\ InputsOK'
  BY <1>1, <1>2, NoMerges
<1>5. SnapshotsOK'
  BY <1>1, SnapshotsSame, Zenon DEF ViewInv
<1>6. FirstOK'
  BY <1>1, <1>2, Zenon DEF FirstOK
<1> QED
  BY <1>3, <1>4, <1>5, <1>6 DEF ViewInv

(* A value log with one synced batch holds that batch at offset 1. *)
LEMMA OneBatch ==
  ASSUME NEW b, NEW f, f = [data |-> <<b>>, synced |-> 1]
  PROVE  f.data[1] = b /\ 1 \in 1 .. f.synced
OBVIOUS

\* The values copied to the new generation are those the tables held.
LEMMA RelocatedValues ==
  ASSUME EngineInv, TablesPoint, mode # "closed", NEW live, live = MergeRecords(sstables, TRUE),
         NEW g \in Nat,
         NEW log, log = IF \A k \in Keys : live[k] \notin Ptr THEN NewLog
                        ELSE [data |-> <<Relocated(live)>>, synced |-> 1],
         NEW files, g \in DOMAIN files, files[g] = log
  PROVE  /\ PointsInto(files, g, Repointed(live, g))
         /\ \A k \in Keys : ValueOf(files, Repointed(live, g)[k]) = ValueOf(vfiles, live[k])
<1> SUFFICES ASSUME NEW k \in Keys
             PROVE  /\ Repointed(live, g)[k] \in Ptr =>
                         Repointed(live, g)[k].gen = g /\ OnDisk(files, Repointed(live, g)[k])
                    /\ ValueOf(files, Repointed(live, g)[k]) = ValueOf(vfiles, live[k])
  BY Zenon DEF PointsInto
<1>1. CASE live[k] \in Ptr
  <2>1. live[k].gen = current_gen /\ OnDisk(vfiles, live[k])
    <3>1. \A s \in DOMAIN sstables : PointsInto(vfiles, current_gen, sstables[s].data)
      BY Zenon DEF TablesPoint
    <3>2. IsList(sstables)
      BY Typed, Zenon DEF Types
    <3>3. MergeRecords(sstables, TRUE)[k] \in Ptr =>
            /\ MergeRecords(sstables, TRUE)[k].gen = current_gen
            /\ OnDisk(vfiles, MergeRecords(sstables, TRUE)[k])
      BY <3>1, <3>2, MergePoints, Zenon
    <3> QED
      BY <1>1, <3>3, Zenon
  <2>2. ReadCell(vfiles, vlogs, live[k]) = ValueOf(vfiles, live[k])
    BY <2>1, Typed, ReadOnDisk, Zenon DEF Types
  <2>3. ValueOf(vfiles, live[k]) \in Values
    BY <1>1, <2>1, Zenon DEF OnDisk, ValueOf
  <2>4. Relocated(live)[k] = ReadCell(vfiles, vlogs, live[k])
    BY <1>1, Zenon DEF Relocated
  <2>5. /\ files[g].data[1] = Relocated(live)
        /\ 1 \in 1 .. files[g].synced
    <3>1. files[g] = [data |-> <<Relocated(live)>>, synced |-> 1]
      BY <1>1, Zenon
    <3> QED
      BY <3>1, OneBatch, Zenon
  <2> DEFINE c == Repointed(live, g)[k]
  <2>6. c \in Ptr /\ c.gen = g /\ c.batch = 1 /\ c.key = k
    BY <1>1, Zenon DEF Repointed, Ptr
  <2>7. files[g].data[1][k] = ValueOf(vfiles, live[k])
    BY <2>2, <2>4, <2>5, Zenon
  <2> HIDE DEF c
  <2>8. ValueOf(files, c) = ValueOf(vfiles, live[k])
    BY <2>6, <2>7, Zenon DEF ValueOf
  <2>9. OnDisk(files, c)
    BY <2>3, <2>5, <2>6, <2>7, Zenon DEF OnDisk
  <2> QED
    BY <2>6, <2>8, <2>9, Zenon DEF c
<1>2. CASE live[k] \notin Ptr
  <2>1. Repointed(live, g)[k] = live[k]
    BY <1>2, Zenon DEF Repointed
  <2> QED
    BY <1>2, <2>1, Zenon DEF ValueOf
<1> QED
  BY <1>1, <1>2, Zenon

\* Merging all tables and dropping tombstones changes no answer.
LEMMA MergedValues ==
  ASSUME NEW tables, NEW files, NEW k \in Keys
  PROVE  AsValue(ValueOf(files, MergeRecords(tables, TRUE)[k])) = AsValue(ValueOf(files, Lookup(tables, k)))
<1>1. \/ MergeRecords(tables, TRUE)[k] = Lookup(tables, k)
      \/ MergeRecords(tables, TRUE)[k] = Absent /\ Lookup(tables, k) = Tomb
  BY Zenon DEF MergeRecords
<1>2. Tomb \notin Ptr /\ Absent \notin Ptr
  BY TablesAssumption, Zenon DEF MemCell
<1>3. AsValue(ValueOf(files, Tomb)) = AsValue(ValueOf(files, Absent))
  BY <1>2, Zenon DEF AsValue, ValueOf
<1> QED
  BY <1>1, <1>3

\* A collection writes a new generation and leaves the others alone.
LEMMA GcBuildKeeps ==
  ASSUME EngineInv, mode # "closed", GcBuild
  PROVE  \A h \in DOMAIN vfiles : h # current_gen + 1 => FileKept(vfiles, vfiles', h)
<1>1. PICK log : vfiles' = WithFile(vfiles, current_gen + 1, log)
  BY Zenon DEF GcBuild
<1>2. \A h \in DOMAIN vfiles : IsValueLog(vfiles[h])
  BY Typed, Zenon DEF Types
<1>3. \A h \in DOMAIN vfiles : h # current_gen + 1 => h \in DOMAIN vfiles' /\ vfiles'[h] = vfiles[h]
  BY <1>1, Zenon DEF WithFile
<1> QED
  BY <1>2, <1>3, SameFile

\* A collection writes the new generation and the one table that points to it.
LEMMA GcBuildView ==
  ASSUME EngineInv, EngineInv', ViewInv, GcBuild
  PROVE  ViewInv'
<1> DEFINE live == MergeRecords(sstables, TRUE)
           g == current_gen + 1
           log == IF \A k \in Keys : live[k] \notin Ptr THEN NewLog
                  ELSE [data |-> <<Relocated(live)>>, synced |-> 1]
           out == Repointed(live, g)
<1>1. /\ mu.at = "gc" /\ vfiles' = WithFile(vfiles, g, log)
      /\ mu' = [mu EXCEPT !.at = "gc_built", !.seq = next_seq, !.data = out]
      /\ UNCHANGED <<mode, memtable, flushing_memtable, has_flushing, sstables, current_gen,
                     compacting, flusher, jobs, rd, manifest, kv>>
  BY Zenon DEF GcBuild, ghost
<1>2. /\ mode = "open" /\ manifest.present /\ \A j \in Compactors : jobs[j].pc = "idle"
      /\ flusher.pc = "idle"
  BY <1>1, Collecting DEF EngineInv, LockOK
<1>3. mu'.at = "gc_built" /\ mu'.data = out
  BY <1>1, Zenon DEF EngineInv, TypeOK, MemoryType, LockType
<1>4. /\ current_gen \in DOMAIN vfiles /\ current_gen \in Nat /\ DOMAIN vfiles \subseteq Nat
      /\ \A h \in DOMAIN vfiles : IsValueLog(vfiles[h])
  BY <1>2, Typed, Zenon DEF Types
<1> HIDE DEF log, out
<1>5. g \in Nat /\ g \in DOMAIN vfiles' /\ vfiles'[g] = log
  BY <1>1, <1>4 DEF WithFile
<1>6. \A h \in DOMAIN vfiles : h # g => FileKept(vfiles, vfiles', h)
  BY <1>2, GcBuildKeeps, Zenon
<1>7. FileKept(vfiles, vfiles', current_gen)
  BY <1>4, <1>6
<1>8. /\ TablesPoint'
      /\ \A k \in Keys : ValueOf(vfiles', Lookup(sstables, k)) = ValueOf(vfiles, Lookup(sstables, k))
  BY <1>1, <1>2, <1>7, PointKept DEF ViewInv
<1>9. BuiltOK'
  <2>1. TablesPoint /\ mode # "closed"
    BY <1>2, Zenon DEF ViewInv
  <2>2. /\ PointsInto(vfiles', g, out)
        /\ \A k \in Keys : ValueOf(vfiles', out[k]) = ValueOf(vfiles, live[k])
    BY <1>5, <2>1, RelocatedValues DEF log, out
  <2>3. ASSUME NEW k \in Keys
        PROVE  AsValue(ValueOf(vfiles', out[k])) = AsValue(ValueOf(vfiles', Lookup(sstables, k)))
    BY <1>8, <2>2, MergedValues
  <2>4. \A k \in Keys : AsValue(ValueOf(vfiles', mu'.data[k]))
                          = AsValue(ValueOf(vfiles', Lookup(sstables', k)))
    BY <1>1, <1>3, <2>3, Zenon
  <2> QED
    BY <1>1, <1>2, <1>3, <2>2, <2>4 DEF BuiltOK
<1>10. SnapshotsOK'
  <2>1. \A r \in Readers : rd'[r].pc = "reading" => \A h \in rd[r].gens : FileKept(vfiles, vfiles', h)
    <3> SUFFICES ASSUME NEW r \in Readers, rd[r].pc = "reading", NEW h \in rd[r].gens
                 PROVE  FileKept(vfiles, vfiles', h)
      BY <1>1, Zenon
    <3>1. h \in DOMAIN vfiles /\ h <= current_gen
      BY Zenon DEF EngineInv, HeldOK, ViewInv, SnapshotsOK
    <3>2. h # g
      BY <1>4, <3>1
    <3> QED
      BY <1>6, <3>1, <3>2
  <2>2. current_gen <= current_gen' /\ rd' = rd
    BY <1>1, <1>4
  <2> QED
    BY <2>1, <2>2, SnapshotsKept DEF ViewInv
<1>11. UniqueOK' /\ FirstOK' /\ CommittedOK'
  BY <1>1, <1>2, <1>3 DEF ViewInv, UniqueOK, FirstOK, CommittedOK
<1>12. MergerOK' /\ InputsOK'
  BY <1>1, <1>2, NoMerges
<1>13. ViewOK'
  <2>1. \A k \in Keys : Shown(k)' = Shown(k)
    BY <1>1, <1>8, Zenon DEF Shown
  <2> QED
    BY <1>1, <1>2, <1>8, <2>1, ViewKept DEF ViewInv
<1> QED
  BY <1>8, <1>9, <1>10, <1>11, <1>12, <1>13 DEF ViewInv

\* What a collection leaves shows what there was.
LEMMA GcCommitShows ==
  ASSUME EngineInv, ViewInv, GcCommit, NEW k \in Keys
  PROVE  AsValue(ValueOf(vfiles', Lookup(sstables', k))) = AsValue(ValueOf(vfiles, Lookup(sstables, k)))
<1> DEFINE t == Table(mu.seq, mu.data)
<1>1. mu.at = "gc_built" /\ sstables' = PushNewest(NoTables, t) /\ vfiles' = vfiles
  BY Zenon DEF GcCommit
<1>2. mu.data \in Content /\ t.data = mu.data
  BY Zenon DEF EngineInv, TypeOK, MemoryType, LockType, Table
<1>3. DOMAIN NoTables = {}
  BY Zenon DEF NoTables
<1>4. IsList(NoTables)
  BY <1>3, BoundedEmpty, Zenon DEF IsList
<1> HIDE DEF t
<1>5. Lookup(NoTables, k) = Absent
  BY <1>3, LookupNone, Zenon
<1>6. Lookup(PushNewest(NoTables, t), k) = IF t.data[k] # Absent THEN t.data[k] ELSE Lookup(NoTables, k)
  BY <1>2, <1>4, PushNewestLookup
<1>7. AsValue(ValueOf(vfiles, mu.data[k])) = AsValue(ValueOf(vfiles, Lookup(sstables, k)))
  BY <1>1, Zenon DEF ViewInv, BuiltOK
<1> QED
  BY <1>1, <1>2, <1>5, <1>6, <1>7

\* The new table and generation replace all others: gets find the same.
LEMMA GcCommitView ==
  ASSUME EngineInv, EngineInv', ViewInv, GcCommit
  PROVE  ViewInv'
<1> DEFINE t == Table(mu.seq, mu.data)
<1>1. /\ mu.at = "gc_built" /\ manifest'.present
      /\ sstables' = PushNewest(NoTables, t) /\ current_gen' = current_gen + 1
      /\ mu' = [mu EXCEPT !.at = "gc_committed", !.ids = TableIds(sstables)]
      /\ UNCHANGED <<mode, memtable, flushing_memtable, has_flushing, vfiles,
                     compacting, flusher, jobs, rd, kv>>
  BY Zenon DEF GcCommit, ghost, ManifestOf
<1>2. /\ mode = "open" /\ \A j \in Compactors : jobs[j].pc = "idle" /\ flusher.pc = "idle"
  BY <1>1, Collecting DEF EngineInv, LockOK
<1>3. mu'.at = "gc_committed" /\ mu.data \in Content /\ t.data = mu.data
  BY <1>1, Zenon DEF EngineInv, TypeOK, MemoryType, LockType, Table
<1>4. DOMAIN NoTables = {}
  BY Zenon DEF NoTables
<1>5. IsList(NoTables)
  BY <1>4, BoundedEmpty, Zenon DEF IsList
<1> HIDE DEF t
<1>6. /\ DOMAIN sstables' = {Top(NoTables)} /\ sstables'[Top(NoTables)] = t
  <2>1. /\ DOMAIN PushNewest(NoTables, t) = DOMAIN NoTables \cup {Top(NoTables)}
        /\ PushNewest(NoTables, t)[Top(NoTables)] = t
    BY <1>5, PushNewestSlot, Zenon DEF IsList
  <2> QED
    BY <1>1, <1>4, <2>1
<1>7. PointsInto(vfiles, current_gen + 1, mu.data)
  BY <1>1, Zenon DEF ViewInv, BuiltOK
<1>8. TablesPoint'
  BY <1>1, <1>2, <1>3, <1>6, <1>7 DEF TablesPoint
<1>9. ASSUME NEW k \in Keys
      PROVE  AsValue(ValueOf(vfiles', Lookup(sstables', k))) = AsValue(ValueOf(vfiles, Lookup(sstables, k)))
  BY GcCommitShows, Zenon
<1>10. ViewOK'
  <2>1. \A k \in Keys : Shown(k)' = Shown(k)
    BY <1>1, <1>9, Zenon DEF Shown
  <2> QED
    BY <1>1, <1>2, <1>8, <2>1, ViewKept DEF ViewInv
<1>11. SnapshotsOK'
  <2>1. /\ \A g \in DOMAIN vfiles : IsValueLog(vfiles[g])
        /\ current_gen <= current_gen'
    BY <1>1, Typed DEF Types
  <2>2. \A r \in Readers : rd[r].gens \subseteq DOMAIN vfiles
    BY Zenon DEF EngineInv, HeldOK
  <2>3. \A r \in Readers : \A g \in rd[r].gens : FileKept(vfiles, vfiles', g)
    BY <1>1, <2>1, <2>2, SameFile
  <2> QED
    BY <1>1, <2>1, <2>3, SnapshotsKept DEF ViewInv
<1>12. UniqueOK'
  <2>1. Distinct(sstables')
    BY <1>6, Zenon DEF Distinct
  <2> QED
    BY <1>1, <1>2, <2>1 DEF UniqueOK
<1>13. FirstOK' /\ CommittedOK' /\ BuiltOK'
  BY <1>1, <1>2, <1>3, SlotFree DEF FirstOK, CommittedOK, BuiltOK, EngineInv, SlotOK, LockOK
<1>14. MergerOK' /\ InputsOK'
  BY <1>1, <1>2, NoMerges
<1> QED
  BY <1>8, <1>10, <1>11, <1>12, <1>13, <1>14 DEF ViewInv

\* The old tables and generations go, those of snapshots excepted.
LEMMA GcFinishView ==
  ASSUME EngineInv, EngineInv', ViewInv, GcFinish
  PROVE  ViewInv'
<1>1. /\ mu.at = "gc_committed" /\ vlogs' = {current_gen}
      /\ mu'.at = "free" /\ mu'.by = "none"
      /\ UNCHANGED <<mode, memtable, flushing_memtable, has_flushing, sstables, current_gen,
                     flusher, jobs, rd, locals, manifest, kv>>
  BY Zenon DEF GcFinish, ghost, Free
<1>2. /\ mode = "open" /\ manifest.present /\ \A j \in Compactors : jobs[j].pc = "idle"
  BY <1>1, Collecting, Zenon DEF EngineInv, LockOK
<1>3. Unlink(obsolete \cup mu.ids, obsolete_gens \cup (vlogs \ {current_gen}), sstables,
             vlogs', flusher', jobs', rd', locals')
  BY <1>1, Zenon DEF GcFinish
<1>4. FileKept(vfiles, vfiles', current_gen) /\ SnapshotsOK'
  BY <1>1, <1>2, <1>3, UnlinkLogs DEF ViewInv
<1>5. UniqueOK' /\ TablesPoint' /\ BuiltOK' /\ CommittedOK' /\ ViewOK'
  BY <1>1, <1>2, <1>4, StoreKept
<1>6. MergerOK' /\ InputsOK'
  BY <1>1, <1>2, NoMerges, Zenon
<1>7. FirstOK'
  BY <1>1, <1>2, Zenon DEF FirstOK
<1> QED
  BY <1>4, <1>5, <1>6, <1>7 DEF ViewInv

-----------------------------------------------------------------------------
\* What merges, collections and reads leave on disk.

\* While the store is open, a step that touches neither logs nor memtables, and
\* leaves what the tables show.
LEMMA DurableTables ==
  ASSUME Invs, mode = "open", \A k \in Keys : Base(k)' = Base(k),
         UNCHANGED <<mode, memtable, flushing_memtable, has_flushing, logfiles, ghost>>,
         pending' = pending \/ pending' = NothingPending
  PROVE  DurInv'
<1>1. UNCHANGED <<kv, allowed, lost>>
  BY Zenon DEF ghost
<1>2. mu.at # "drop_wal" /\ mu'.at # "drop_wal" /\ mu'.at # "open_done"
  <2>1. mode' = "open"
    BY Zenon
  <2> QED
    BY <2>1, Zenon DEF Invs, EngineInv, LockOK
<1> QED
  BY <1>1, <1>2, DurableQuiet

\* A merge picks its inputs, or builds its table.
LEMMA MergeStartDurable ==
  ASSUME Invs, \/ DoSizeTieredCompaction \/ CompactAll
               \/ \E j \in Compactors : MergeBuild(j)
  PROVE  DurInv'
<1>1. ASSUME NEW j, NEW R, NEW drop, LockFree, StartMerge(j, R, drop) PROVE DurInv'
  <2>1. /\ mode = "open" /\ UNCHANGED <<mode, sstables, vfiles, pending>>
        /\ UNCHANGED <<memtable, flushing_memtable, has_flushing, logfiles, ghost>>
    BY <1>1, Zenon DEF StartMerge, LockFree, tablefiles
  <2>2. \A k \in Keys : Base(k)' = Base(k)
    BY <2>1, BaseSame, Zenon
  <2> QED
    BY <2>1, <2>2, DurableTables, Zenon
<1>2. ASSUME NEW j, MergeBuild(j) PROVE DurInv'
  <2>1. /\ mode = "open" /\ UNCHANGED <<mode, sstables, vfiles>> /\ pending' = NothingPending
        /\ UNCHANGED <<memtable, flushing_memtable, has_flushing, logfiles, ghost>>
    BY <1>2, Zenon DEF MergeBuild, Open, memory
  <2>2. \A k \in Keys : Base(k)' = Base(k)
    BY <2>1, BaseSame, Zenon
  <2> QED
    BY <2>1, <2>2, DurableTables
<1> QED
  BY <1>1, <1>2, Zenon DEF DoSizeTieredCompaction, CompactAll

\* The output of a merge takes the place of its inputs.
LEMMA MergeCommitDurable ==
  ASSUME Invs, NEW j \in Compactors, MergeCommit(j)
  PROVE  DurInv'
<1>1. /\ mode = "open" /\ mode' = mode /\ pending' = NothingPending
      /\ UNCHANGED <<memtable, flushing_memtable, has_flushing, logfiles, ghost>>
  BY Zenon DEF MergeCommit, LockFree
<1>2. \A k \in Keys : AsValue(ValueOf(vfiles', Lookup(sstables', k)))
                        = AsValue(ValueOf(vfiles, Lookup(sstables, k)))
  BY MergeCommitShows, Zenon DEF Invs
<1>3. \A k \in Keys : Base(k)' = Base(k)
  BY <1>1, <1>2, Zenon DEF Base, DiskTables
<1> QED
  BY <1>1, <1>3, DurableTables

\* A merge, a collection or a read releases its files.
LEMMA ReleaseDurable ==
  ASSUME Invs, mode = "open", NEW obs, NEW obsg,
         Unlink(obs, obsg, sstables, vlogs', flusher', jobs', rd', locals'), current_gen \in vlogs',
         \A r \in Readers : rd'[r] = rd[r] \/ rd'[r] = IdleRead,
         UNCHANGED <<mode, memtable, flushing_memtable, has_flushing, sstables, current_gen,
                     logfiles, ghost, pending>>
  PROVE  DurInv'
<1>1. FileKept(vfiles, vfiles', current_gen)
  BY UnlinkLogs, Zenon DEF Invs, ViewInv
<1>2. \A k \in Keys : Base(k)' = Base(k)
  BY <1>1, BaseKept, Zenon
<1> QED
  BY <1>2, DurableTables

\* The inputs of a merge go.
LEMMA MergeFinishDurable ==
  ASSUME Invs, NEW j \in Compactors, MergeFinish(j)
  PROVE  DurInv'
<1>1. /\ mu.at = "merge_committed" /\ mu.by = j
      /\ UNCHANGED <<mode, memtable, flushing_memtable, has_flushing, sstables, current_gen,
                     vlogs, flusher, rd, logfiles, ghost, pending>>
  BY Zenon DEF MergeFinish, FinishMerge
<1>2. jobs[j].pc = "built"
  BY <1>1, Zenon DEF Invs, EngineInv, LockOK
<1>3. mode = "open"
  BY <1>2, IdleHolds DEF Invs, EngineInv, SlotOK
<1>4. current_gen \in vlogs'
  BY <1>1, <1>3, Typed DEF Types, Invs
<1>5. Unlink(obsolete \cup TableIds(jobs[j].inputs), obsolete_gens, sstables, vlogs',
             flusher', jobs', rd', locals')
  BY <1>1, Zenon DEF MergeFinish, FinishMerge
<1> QED
  BY <1>1, <1>3, <1>4, <1>5, ReleaseDurable

\* A read ends.
LEMMA EndReadDurable ==
  ASSUME Invs, NEW r \in Readers, EndRead(r)
  PROVE  DurInv'
<1>1. /\ mode = "open" /\ rd' = [rd EXCEPT ![r] = IdleRead]
      /\ UNCHANGED <<mode, memtable, flushing_memtable, has_flushing, sstables, current_gen,
                     vlogs, flusher, jobs, locals, logfiles, ghost, pending>>
  BY Zenon DEF EndRead, Open
<1>2. \A q \in Readers : rd'[q] = rd[q] \/ rd'[q] = IdleRead
  <2>1. rd = [q \in Readers |-> rd[q]]
    BY Zenon DEF Invs, EngineInv, TypeOK, ThreadsType
  <2> QED
    BY <1>1, <2>1, Zenon
<1>3. current_gen \in vlogs'
  BY <1>1, Typed, Zenon DEF Types, Invs
<1>4. Unlink(obsolete, obsolete_gens, sstables, vlogs', flusher', jobs', rd', locals')
  BY <1>1, Zenon DEF EndRead
<1> QED
  BY <1>1, <1>2, <1>3, <1>4, ReleaseDurable

\* The locals of a thread go out of scope.
LEMMA EndScopeDurable ==
  ASSUME Invs, NEW t \in Threads, EndScope(t)
  PROVE  DurInv'
<1>1. /\ mode = "open" /\ rd' = rd
      /\ UNCHANGED <<mode, memtable, flushing_memtable, has_flushing, sstables, current_gen,
                     vlogs, flusher, jobs, logfiles, ghost, pending>>
  BY Zenon DEF EndScope, Open
<1>2. current_gen \in vlogs'
  BY <1>1, Typed, Zenon DEF Types, Invs
<1>3. Unlink(obsolete, obsolete_gens, sstables, vlogs', flusher', jobs', rd', locals')
  BY <1>1, Zenon DEF EndScope
<1> QED
  BY <1>1, <1>2, <1>3, ReleaseDurable

\* A read begins.
LEMMA SnapshotDurable ==
  ASSUME Invs, LockFree, NEW r, NEW keys, NEW mem, Snapshot(r, keys, mem)
  PROVE  DurInv'
<1>1. /\ mode = "open"
      /\ UNCHANGED <<mode, memtable, flushing_memtable, has_flushing, logfiles, ghost, pending,
                     sstables, vfiles>>
  BY Zenon DEF LockFree, Snapshot, memory, tablefiles
<1>2. \A k \in Keys : Base(k)' = Base(k)
  BY <1>1, BaseSame, Zenon
<1> QED
  BY <1>1, <1>2, DurableTables

\* A collection begins, or finds nothing.
LEMMA GcQuietDurable ==
  ASSUME Invs, GcValueLog \/ GcNothing
  PROVE  DurInv'
<1>1. UNCHANGED <<mode, memtable, flushing_memtable, has_flushing, logfiles, ghost, pending,
                  sstables, vfiles>>
  BY Zenon DEF GcValueLog, GcNothing, tablefiles
<1>2. mode = "open"
  <2>1. CASE GcValueLog
    BY <2>1, Zenon DEF GcValueLog, LockFree
  <2>2. CASE GcNothing
    <3>1. mu.at = "gc" /\ mu.by = "gc"
      BY <2>2, Zenon DEF GcNothing, Invs, EngineInv, LockOK
    <3> QED
      BY <3>1, Collecting, Zenon DEF Invs
  <2> QED
    BY <2>1, <2>2, Zenon
<1>3. \A k \in Keys : Base(k)' = Base(k)
  BY <1>1, <1>2, BaseSame
<1> QED
  BY <1>1, <1>2, <1>3, DurableTables

\* A collection writes its generation and its table.
LEMMA GcBuildDurable ==
  ASSUME Invs, GcBuild
  PROVE  DurInv'
<1>1. /\ mu.at = "gc" /\ pending' = NothingPending
      /\ UNCHANGED <<mode, memtable, flushing_memtable, has_flushing, logfiles, ghost,
                     sstables, current_gen>>
  BY Zenon DEF GcBuild
<1>2. mode = "open"
  BY <1>1, Collecting DEF Invs, EngineInv, LockOK
<1>3. current_gen \in DOMAIN vfiles /\ current_gen # current_gen + 1
  BY <1>2, Typed DEF Types, Invs
<1>4. FileKept(vfiles, vfiles', current_gen)
  BY <1>2, <1>3, GcBuildKeeps DEF Invs
<1>5. \A k \in Keys : Base(k)' = Base(k)
  BY <1>1, <1>2, <1>4, BaseKept
<1> QED
  BY <1>1, <1>2, <1>5, DurableTables

\* Its table and generation take the place of all others.
LEMMA GcCommitDurable ==
  ASSUME Invs, GcCommit
  PROVE  DurInv'
<1>1. /\ mu.at = "gc_built" /\ pending' = NothingPending /\ mode' = mode
      /\ UNCHANGED <<memtable, flushing_memtable, has_flushing, logfiles, ghost>>
  BY Zenon DEF GcCommit
<1>2. mode = "open"
  BY <1>1, Collecting DEF Invs, EngineInv, LockOK
<1>3. \A k \in Keys : AsValue(ValueOf(vfiles', Lookup(sstables', k)))
                        = AsValue(ValueOf(vfiles, Lookup(sstables, k)))
  BY GcCommitShows, Zenon DEF Invs
<1>4. \A k \in Keys : Base(k)' = Base(k)
  BY <1>1, <1>2, <1>3 DEF Base, DiskTables
<1> QED
  BY <1>1, <1>2, <1>4, DurableTables

\* The others go.
LEMMA GcFinishDurable ==
  ASSUME Invs, GcFinish
  PROVE  DurInv'
<1>1. /\ mu.at = "gc_committed" /\ vlogs' = {current_gen}
      /\ UNCHANGED <<mode, memtable, flushing_memtable, has_flushing, sstables, current_gen,
                     flusher, jobs, rd, locals, logfiles, ghost, pending>>
  BY Zenon DEF GcFinish
<1>2. mode = "open"
  BY <1>1, Collecting DEF Invs, EngineInv, LockOK
<1>3. Unlink(obsolete \cup mu.ids, obsolete_gens \cup (vlogs \ {current_gen}), sstables,
             vlogs', flusher', jobs', rd', locals')
  BY <1>1, Zenon DEF GcFinish
<1> QED
  BY <1>1, <1>2, <1>3, ReleaseDurable

-----------------------------------------------------------------------------
\* The constructor loads the tables and replays the logs.
LEMMA OpenDBDurable ==
  ASSUME Invs, OpenDB
  PROVE  DurInv'
<1> DEFINE db == Recovered
<1>1. /\ mode = "closed" /\ mode' = "opening" /\ sstables' = db.tables
      /\ vfiles' = [g \in db.gens |-> IF g \in DOMAIN vfiles THEN vfiles[g] ELSE NewLog]
      /\ memtable' = Replay(flushing_wal \o wal)
      /\ UNCHANGED <<wal, wal_synced, flushing_wal, pending, kv, allowed, lost>>
  BY Zenon DEF OpenDB, CleanupOrphans, logfiles, ghost
<1>2. mu'.at = (IF flushing_wal # <<>> THEN "flush" ELSE "open_done")
  BY Zenon DEF OpenDB, Free
<1>3. mu.at = "free"
  BY <1>1, Zenon DEF Invs, EngineInv, LockOK
<1>4. FlushingLog = flushing_wal /\ FlushingLog' = flushing_wal
  BY <1>1, <1>2, <1>3 DEF FlushingLog
<1>5. db.gen \in db.gens
  BY RecoveredTables, Zenon DEF Invs
<1>6. DiskTables = db.tables /\ DiskTables' = db.tables
  BY <1>1, Zenon DEF DiskTables
<1>7. /\ \A g \in DOMAIN vfiles : IsValueLog(vfiles[g])
      /\ \A g \in DOMAIN vfiles' : IsValueLog(vfiles'[g])
  <2>1. Types /\ Types'
    BY Typed, PTL DEF Invs
  <2> QED
    BY <2>1, Zenon DEF Types
<1>8. ASSUME NEW k \in Keys PROVE Base(k)' = Base(k)
  <2> DEFINE c == Lookup(DiskTables, k)
  <2>1. c \in Ptr => OnDisk(vfiles, c) /\ c.gen = db.gen
    BY <1>1, DiskPoints, Zenon DEF Invs
  <2> HIDE DEF c, db
  <2>2. c \in Ptr => c.gen \in DOMAIN vfiles /\ c.gen \in DOMAIN vfiles'
                     /\ vfiles'[c.gen] = vfiles[c.gen]
    BY <1>1, <1>5, <2>1 DEF OnDisk
  <2>3. c \in Ptr => OnDisk(vfiles, c) /\ FileKept(vfiles, vfiles', c.gen)
    BY <1>7, <2>1, <2>2, SameFile
  <2>4. ValueOf(vfiles', c) = ValueOf(vfiles, c)
    BY <1>7, <2>3, OnDiskKept
  <2> QED
    BY <1>6, <2>4, Zenon DEF Base, c
<1> HIDE DEF db
<1>9. \A log : \A k \in Keys : Recovers(log, k)' = Recovers(log, k)
  BY <1>8, Zenon DEF Recovers
<1>10. LogsOK'
  BY <1>1, <1>2, <1>4 DEF LogsOK
<1>11. KilledOK'
  BY <1>1, <1>4, <1>9, Zenon DEF Invs, DurInv, KilledOK
<1>12. PrefixOK'
  BY <1>1, <1>4, <1>9, Zenon DEF Invs, DurInv, PrefixOK
<1>13. PendingOK'
  BY <1>1, <1>3, <1>8 DEF Invs, DurInv, PendingOK
<1>14. SyncedOK' /\ ShownType'
  BY <1>1, Zenon DEF Invs, DurInv, SyncedOK, ShownType
<1> QED
  BY <1>10, <1>11, <1>12, <1>13, <1>14 DEF DurInv

\* wal-flushing.log goes, its records are in a table.
LEMMA OpenDropWalDurable ==
  ASSUME Invs, OpenDropWal
  PROVE  DurInv'
<1>1. /\ mu.at = "drop_wal" /\ flushing_wal' = <<>> /\ pending' = NothingPending
      /\ UNCHANGED <<mode, memtable, wal, wal_synced, kv, allowed, lost, sstables, vfiles>>
  BY Zenon DEF OpenDropWal, memory, tablefiles, ghost
<1>2. mode = "opening"
  BY <1>1, Zenon DEF Invs, EngineInv, LockOK
<1>3. \A k \in Keys : Base(k)' = Base(k)
  BY <1>1, <1>2, BaseSame
<1>4. FlushingLog = <<>> /\ FlushingLog' = <<>> /\ pending'.op = "none"
  BY <1>1, Zenon DEF FlushingLog, NothingPending
<1>5. \A k \in Keys : Replay(FlushingLog)[k] = Absent
  BY <1>4, ReplayEmpty, Zenon DEF Empty
<1> QED
  BY <1>1, <1>2, <1>3, <1>4, <1>5, DroppedLog

\* When the store opens, a recovery and a get find the same.
LEMMA OpenedShows ==
  ASSUME EngineInv, ViewInv, LogsOK, mode = "opening", mu.at = "open_done"
  PROVE  /\ FlushingLog = <<>> /\ flushing_wal = <<>> /\ memtable = Replay(wal)
         /\ \A k \in Keys : Visible[k] = Recovers(FlushingLog \o wal, k)
<1>1. FlushingLog = <<>> /\ flushing_wal = <<>>
  BY Zenon DEF LogsOK, FlushingLog
<1>2. <<>> \o wal = wal
  BY LogTypes, Prefixes, Zenon
<1>3. memtable = Replay(wal)
  BY <1>1, <1>2, Zenon DEF LogsOK
<1>4. ~has_flushing
  BY Zenon DEF EngineInv, SlotOK
<1>5. Visible = [k \in Keys |-> Shown(k)]
  BY VisibleIs, Zenon DEF ViewInv
<1>6. ASSUME NEW k \in Keys PROVE Shown(k) = Recovers(wal, k)
  <2>1. Base(k) = AsValue(ValueOf(vfiles, Lookup(sstables, k)))
    BY Zenon DEF Base, DiskTables
  <2> QED
    BY <1>3, <1>4, <2>1, Zenon DEF Shown, Recovers
<1> QED
  BY <1>1, <1>2, <1>3, <1>5, <1>6

\* The store is open.
LEMMA OpenDoneDurable ==
  ASSUME Invs, OpenDone
  PROVE  DurInv'
<1>1. /\ mu.at = "open_done" /\ mode' = "open" /\ mu'.at = "free" /\ kv' = Visible
      /\ allowed' = (IF wal_synced = Len(wal) THEN Settled(kv') ELSE allowed) /\ lost' = FALSE
      /\ UNCHANGED <<memtable, flushing_memtable, has_flushing, wal, wal_synced, flushing_wal,
                     pending, sstables, vfiles>>
  BY Zenon DEF OpenDone, memory, logfiles, Free
<1>2. mode = "opening" /\ ~has_flushing
  BY <1>1, Zenon DEF Invs, EngineInv, LockOK, SlotOK
<1>3. /\ FlushingLog = <<>> /\ flushing_wal = <<>> /\ memtable = Replay(wal)
      /\ \A k \in Keys : Visible[k] = Recovers(FlushingLog \o wal, k)
  BY <1>1, <1>2, OpenedShows DEF Invs, DurInv
<1>4. kv' \in [Keys -> Values \cup {Absent}]
  <2>1. ASSUME NEW k \in Keys PROVE kv'[k] \in Values \cup {Absent}
    <3>1. kv'[k] \in IF lost THEN allowed[k] ELSE {kv[k]}
      BY <1>1, <1>2, <1>3 DEF Invs, DurInv, KilledOK
    <3> QED
      BY <3>1, Zenon DEF Invs, DurInv, ShownType
  <2>2. kv' = [k \in Keys |-> kv'[k]]
    BY <1>1, Zenon DEF Visible
  <2> QED
    BY <2>1, <2>2, Zenon
<1>5. \A k \in Keys : Base(k)' = Base(k)
  BY <1>1, <1>2, BaseSame
<1>6. LogsOK'
  BY <1>1, <1>2, <1>3 DEF LogsOK
<1>7. PendingOK'
  BY <1>1, <1>5, Zenon DEF Invs, DurInv, PendingOK
<1>8. SyncedOK'
  BY <1>1, Zenon DEF Invs, DurInv, SyncedOK
<1>9. CASE wal_synced = Len(wal)
  <2>1. allowed' = Settled(kv)'
    BY <1>1, <1>9, Zenon DEF Settled
  <2>2. SyncModes \subseteq {TRUE} => (pending.op = "truncate" => pending.synced = Len(pending.log))'
    BY <1>8, Zenon DEF SyncedOK
  <2> QED
    BY <1>1, <1>4, <1>6, <1>7, <1>9, <2>1, <2>2, AllSynced
<1>10. CASE wal_synced # Len(wal)
  <2>1. allowed' = allowed
    BY <1>1, <1>10, Zenon
  <2>2. FlushingLog' = FlushingLog
    BY <1>1, <1>3, Zenon DEF FlushingLog
  <2>3. \A log : \A k \in Keys : Recovers(log, k)' = Recovers(log, k)
    BY <1>5, Zenon DEF Recovers
  <2>4. PrefixOK'
    BY <1>1, <2>1, <2>2, <2>3, Zenon DEF Invs, DurInv, PrefixOK
  <2>5. KilledOK'
    BY <1>1, Zenon DEF KilledOK
  <2>6. ShownType'
    BY <1>4, <2>1, Zenon DEF Invs, DurInv, ShownType
  <2> QED
    BY <1>6, <1>7, <1>8, <2>4, <2>5, <2>6 DEF DurInv
<1> QED
  BY <1>9, <1>10, Zenon

\* A store never opened.
LEMMA InitDurable == Init => DurInv
<1> SUFFICES ASSUME Init PROVE DurInv
  BY Zenon
<1>1. /\ mode = "closed" /\ mu.at = "free" /\ wal = <<>> /\ wal_synced = 0 /\ flushing_wal = <<>>
      /\ pending.op = "none" /\ lost = FALSE /\ kv = Empty /\ allowed = Settled(kv)
      /\ manifest.present = FALSE /\ ssts = NoTables
  BY Zenon DEF Init, Free, NothingPending
<1>2. FlushingLog = <<>> /\ Len(<<>>) = 0 /\ <<>> \o <<>> = <<>> /\ SubSeq(<<>>, 1, 0) = <<>>
  BY <1>1 DEF FlushingLog
<1>3. ASSUME NEW k \in Keys PROVE Recovers(<<>>, k) = Absent
  <2>1. Recovers(<<>>, k) = Base(k)
    BY RecoversNothing, Zenon
  <2>2. DOMAIN DiskTables = {}
    BY <1>1, Zenon DEF DiskTables, Recovered, LoadDirectory, NoTables
  <2>3. Lookup(DiskTables, k) = Absent
    BY <2>2, LookupNone, Zenon
  <2>4. Absent \notin Ptr
    BY TablesAssumption, Zenon DEF MemCell
  <2>5. AsValue(ValueOf(vfiles, Absent)) = Absent
    BY <2>4, Zenon DEF AsValue, ValueOf
  <2> QED
    BY <2>1, <2>3, <2>5 DEF Base
<1>4. \A k \in Keys : kv[k] = Absent
  BY <1>1, Zenon DEF Empty
<1>5. LogsOK /\ PendingOK /\ SyncedOK
  BY <1>1, <1>2, Zenon DEF LogsOK, PendingOK, SyncedOK
<1>6. KilledOK
  BY <1>1, <1>2, <1>3, <1>4 DEF KilledOK
<1>7. PrefixOK
  <2> SUFFICES ASSUME NEW n \in wal_synced .. Len(wal), NEW k \in Keys
               PROVE  Recovers(FlushingLog \o SubSeq(wal, 1, n), k) \in allowed[k]
    BY Zenon DEF PrefixOK
  <2>1. n = 0
    BY <1>1, <1>2
  <2>2. FlushingLog \o SubSeq(wal, 1, n) = <<>>
    BY <1>1, <1>2, <2>1
  <2> QED
    BY <1>1, <1>3, <1>4, <2>2 DEF Settled
<1>8. ShownType
  BY <1>1, Zenon DEF ShownType, Empty, Settled
<1> QED
  BY <1>5, <1>6, <1>7, <1>8 DEF DurInv

\* What DurInv says of a closed store.
LEMMA DurableRecovery == EngineInv /\ ViewInv /\ DurInv => DurableOK
<1> SUFFICES ASSUME EngineInv, ViewInv, DurInv, mode = "closed", NEW k \in Keys
             PROVE  RecoveredView[k] \in IF lost THEN allowed[k] ELSE {kv[k]}
  BY Zenon DEF DurableOK
<1> DEFINE db == Recovered
           c  == Lookup(db.tables, k)
           mem == Replay(flushing_wal \o wal)
<1>1. RecoveredView[k] = AsValue(IF mem[k] # Absent THEN mem[k] ELSE ReadCell(vfiles, db.gens, c))
  BY Zenon DEF RecoveredView
<1>2. db.gen \in db.gens
  BY RecoveredTables, Zenon
<1>3. DiskTables = db.tables /\ FlushingLog = flushing_wal
  BY FlushingLogIs, Zenon DEF DiskTables
<1>4. c \in Ptr => OnDisk(vfiles, c) /\ c.gen = db.gen
  BY <1>3, DiskPoints, Zenon
<1>5. \A g \in DOMAIN vfiles : IsValueLog(vfiles[g])
  BY Typed, Zenon DEF Types
<1>6. Base(k) = AsValue(ValueOf(vfiles, c))
  BY <1>3, Zenon DEF Base
<1> HIDE DEF c, db
<1>7. ReadCell(vfiles, db.gens, c) = ValueOf(vfiles, c)
  BY <1>2, <1>4, <1>5, ReadOnDisk
<1>8. RecoveredView[k] = Recovers(flushing_wal \o wal, k)
  BY <1>1, <1>6, <1>7, Zenon DEF Recovers
<1> QED
  BY <1>3, <1>8, Zenon DEF DurInv, KilledOK

-----------------------------------------------------------------------------
=============================================================================
