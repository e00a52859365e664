---------------------------- MODULE LsmDBProofs -----------------------------
(***************************************************************************)
(* The theorems about LsmDB.  ViewInv holds in a store with one merger;    *)
(* DurInv if, moreover, crashes fall where recovery handles them; and then  *)
(* every step of the engine is a step of KVStore, or invisible.            *)
(***************************************************************************)
EXTENDS LsmCompactProofs, LsmMergeProofs, FiniteSetTheorems

\* A store never opened.
LEMMA InitView == Init => ViewInv
<1> SUFFICES ASSUME Init PROVE ViewInv
  BY Zenon
<1>1. EngineInv
  BY InitInv, Zenon
<1>2. mode = "closed" /\ sstables = NoTables /\ ~manifest.present
  BY Zenon DEF Init
<1>3. FirstOK
  BY Zenon DEF Init, FirstOK, NoTables, NothingPending, Free
<1> QED
  BY <1>1, <1>2, <1>3, ClosedView

\* A step of nobody.
LEMMA StutterView ==
  ASSUME EngineInv, EngineInv', ViewInv, UNCHANGED vars
  PROVE  ViewInv'
<1>1. UNCHANGED <<mode, mu, memtable, flushing_memtable, has_flushing, sstables, vlogs,
                  current_gen, compacting, flusher, jobs, rd, flushing_wal, pending,
                  manifest, ssts, vfiles, kv>>
  BY Zenon DEF vars, memory, logfiles, tablefiles, ghost
<1>2. MergerOK' /\ InputsOK'
  BY <1>1, MergesKept
<1>3. SnapshotsOK'
  BY <1>1, SnapshotsSame DEF ViewInv
<1>4. UniqueOK' /\ FirstOK'
  BY <1>1, Zenon DEF ViewInv, UniqueOK, FirstOK
<1>5. TablesPoint'
  BY <1>1, Zenon DEF ViewInv, TablesPoint
<1>6. BuiltOK' /\ CommittedOK'
  BY <1>1, Zenon DEF ViewInv, BuiltOK, CommittedOK, Covered
<1>7. ViewOK'
  BY <1>1, Zenon DEF ViewInv, ViewOK, Open, Visible
<1> QED
  BY <1>2, <1>3, <1>4, <1>5, <1>6, <1>7 DEF ViewInv

\* compact_all takes all tables.
LEMMA CompactAllView ==
  ASSUME OneMerger, EngineInv, EngineInv', ViewInv, CompactAll
  PROVE  ViewInv'
<1>1. DOMAIN sstables # {}
  <2>1. Cardinality(DOMAIN sstables) > 1
    BY Zenon DEF CompactAll
  <2>2. Cardinality({}) = 0
    BY FS_EmptySet, Zenon
  <2> QED
    BY <2>1, <2>2
<1>2. AgeContiguous(sstables, DOMAIN sstables)
  BY Zenon DEF AgeContiguous
<1> QED
  BY <1>1, <1>2, StartMergeView DEF CompactAll

\* With one merger, every step of every thread preserves the invariant.
LEMMA NextView ==
  ASSUME OneMerger, EngineInv, ViewInv, [Next]_vars
  PROVE  ViewInv'
<1>0. EngineInv'
  BY NextInv
<1>1. CASE ClientStep
  <2>1. ASSUME NEW c \in Clients, NEW k \in Keys, NEW sync \in SyncModes,
               NEW v \in Values, Put(c, k, v, sync)
        PROVE  ViewInv'
    BY <1>0, <2>1, WriteRecordView DEF Put
  <2>2. ASSUME NEW c \in Clients, NEW k \in Keys, NEW sync \in SyncModes, Del(c, k, sync)
        PROVE  ViewInv'
    BY <1>0, <2>2, WriteRecordView DEF Del
  <2>3. ASSUME NEW c \in Clients, MaybeSeal(c) PROVE ViewInv'
    BY <1>0, <2>3, MaybeSealView
  <2>4. CASE Sync
    BY <1>0, <2>4, SyncView
  <2>5. CASE Flush
    BY <1>0, <2>5, FlushView
  <2>6. CASE GcValueLog
    BY <1>0, <2>6, GcValueLogView
  <2>7. CASE CompactAll
    BY <1>0, <2>7, CompactAllView
  <2> QED
    BY <1>1, <2>1, <2>2, <2>3, <2>4, <2>5, <2>6, <2>7 DEF ClientStep
<1>2. CASE ReadStep
  <2>1. PICK r \in Readers :
          \/ \E k \in Keys : Get(r, k)
          \/ \E from, to : Scan(r, from, to)
          \/ EndRead(r)
    BY <1>2, Zenon DEF ReadStep
  <2> QED
    BY <1>0, <2>1, GetView, ScanView, EndReadView
<1>3. CASE FlusherStep
  BY <1>0, <1>3, FlusherTakeView, FlusherBuildView, FlusherCommitView, FlusherFinishView,
     EndScopeView
  DEF FlusherStep, Threads
<1>4. CASE DoSizeTieredCompaction
  BY <1>0, <1>4, DoSizeTieredCompactionView
<1>5. ASSUME NEW j \in Compactors, MergeStep(j) PROVE ViewInv'
  BY <1>0, <1>5, MergeBuildView, MergeCommitView, MergeFinishView, EndScopeView
  DEF MergeStep, Threads
<1>6. CASE FlushLockedStep
  BY <1>0, <1>6, FlushBuildView, FlushCommitView, FlushTruncateView DEF FlushLockedStep
<1>7. CASE GcStep
  BY <1>0, <1>7, GcNothingView, GcBuildView, GcCommitView, GcFinishView DEF GcStep
<1>8. CASE OpenStep
  BY <1>0, <1>8, OpenDBView, OpenDropWalView, OpenDoneView DEF OpenStep
<1>9. CASE Exit
  BY <1>0, <1>9, ExitView
<1>10. CASE PowerLoss
  BY <1>0, <1>10, PowerLossView
<1>11. CASE UNCHANGED vars
  BY <1>0, <1>11, StutterView
<1> QED
  BY <1>1, <1>2, <1>3, <1>4, <1>5, <1>6, <1>7, <1>8, <1>9, <1>10, <1>11 DEF Next

\* If compact_all and the background compactor do not overlap, ViewInv holds in
\* every state the store can reach, through any number of crashes.
THEOREM ViewInvariant == ASSUME OneMerger PROVE Spec => []ViewInv
<1>1. EngineInv /\ ViewInv /\ [Next]_vars => ViewInv'
  BY NextView
<1> QED
  BY <1>1, InitView, EngineInvariant, PTL DEF Spec

\* Then no flush, merge or collection changes what a get returns: memtables and
\* tables together hold what clients wrote, at every step of every thread.
THEOREM ViewCorrect == ASSUME OneMerger PROVE Spec => []ViewOK
<1>1. ViewInv => ViewOK
  BY Zenon DEF ViewInv
<1> QED
  BY <1>1, ViewInvariant, PTL

\* And get and scan, which search their snapshot without the lock, return what
\* the store held when they took it.
THEOREM ReadsCorrect == ASSUME OneMerger PROVE Spec => []ReadOK
<1>1. ViewInv => ReadOK
  BY Zenon DEF ViewInv, SnapshotsOK, ReadOK
<1> QED
  BY <1>1, ViewInvariant, PTL

\* A value on disk is one a pointer resolves to.
LEMMA OnDiskResolves ==
  ASSUME EngineInv, NEW c, OnDisk(vfiles, c)
  PROVE  Resolves(vfiles, c) /\ c.batch <= vfiles[c.gen].synced
<1>1. IsValueLog(vfiles[c.gen])
  BY Typed DEF Types, OnDisk
<1> QED
  BY <1>1 DEF IsValueLog, OnDisk, Resolves

\* No merge brings back a pointer into a generation that was collected: what a
\* listed table points to is in the value log that is in use.
THEOREM PointersLead == ASSUME OneMerger PROVE Spec => []PointersOK
<1>1. EngineInv /\ ViewInv => PointersOK
  <2> SUFFICES ASSUME EngineInv, ViewInv, mode = "open", NEW s \in DOMAIN sstables, NEW k \in Keys,
                      sstables[s].data[k] \in Ptr
               PROVE  /\ sstables[s].data[k].gen \in vlogs
                      /\ Resolves(vfiles, sstables[s].data[k])
    BY Zenon DEF PointersOK, Open
  <2>1. current_gen \in vlogs
    BY Typed DEF Types
  <2>2. /\ sstables[s].data[k].gen = current_gen
        /\ OnDisk(vfiles, sstables[s].data[k])
    BY Zenon DEF ViewInv, TablesPoint, PointsInto
  <2> QED
    BY <2>1, <2>2, OnDiskResolves, Zenon
<1> QED
  BY <1>1, EngineInvariant, ViewInvariant, PTL

\* MANIFEST names files that exist, and their pointers lead to values that are
\* on disk: a crash at this moment leaves a store that can be opened and read.
THEOREM ManifestCorrect == ASSUME OneMerger PROVE Spec => []ManifestOK
<1>1. EngineInv /\ ViewInv => ManifestOK
  <2> SUFFICES ASSUME EngineInv, ViewInv, manifest.present, NEW s \in DOMAIN manifest.tables
               PROVE  /\ manifest.tables[s] \in DOMAIN ssts
                      /\ \A k \in Keys :
                           LET c == ssts[manifest.tables[s]][k]
                           IN  c \in Ptr => /\ c.gen = manifest.gen
                                            /\ Resolves(vfiles, c)
                                            /\ c.batch <= vfiles[c.gen].synced
    BY Zenon DEF ManifestOK
  <2>1. manifest.tables[s] \in DOMAIN ssts
    BY Zenon DEF EngineInv, CommitOK
  <2>2. PointsInto(vfiles, manifest.gen, ssts[manifest.tables[s]])
    BY ManifestNames, Zenon DEF Named
  <2> QED
    BY <2>1, <2>2, OnDiskResolves, Zenon DEF PointsInto
<1> QED
  BY <1>1, EngineInvariant, ViewInvariant, PTL

\* When wait_for_idle sees compacting_ cleared, no merge is running.
THEOREM IdleIsIdle == ASSUME OneMerger PROVE Spec => []WaitForIdleOK
<1>1. ViewInv => WaitForIdleOK
  BY Zenon DEF ViewInv, MergerOK, WaitForIdleOK
<1> QED
  BY <1>1, ViewInvariant, PTL

-----------------------------------------------------------------------------
\* Every step of every thread keeps what a recovery needs.
LEMMA DurableStep ==
  ASSUME CrashesHandled, Invs, [Next]_vars
  PROVE  DurInv'
<1>1. CASE ClientStep
  <2>1. ASSUME NEW c \in Clients, NEW k \in Keys, NEW sync \in SyncModes,
               NEW v \in Values, Put(c, k, v, sync)
        PROVE  DurInv'
    BY <2>1, WriteRecordDurable DEF Put
  <2>2. ASSUME NEW c \in Clients, NEW k \in Keys, NEW sync \in SyncModes, Del(c, k, sync)
        PROVE  DurInv'
    BY <2>2, WriteRecordDurable DEF Del
  <2>3. ASSUME NEW c \in Clients, MaybeSeal(c) PROVE DurInv'
    BY <2>3, MaybeSealDurable
  <2>4. CASE Sync \/ Flush \/ GcValueLog \/ CompactAll
    BY <2>4, SyncDurable, FlushDurable, GcQuietDurable, MergeStartDurable
  <2> QED
    BY <1>1, <2>1, <2>2, <2>3, <2>4 DEF ClientStep
<1>2. CASE ReadStep
  <2>1. ASSUME NEW r \in Readers, NEW k \in Keys, Get(r, k) PROVE DurInv'
    BY <2>1, SnapshotDurable DEF Get
  <2>2. ASSUME NEW r \in Readers, NEW from, NEW to, Scan(r, from, to) PROVE DurInv'
    BY <2>2, SnapshotDurable, Zenon DEF Scan
  <2> QED
    BY <1>2, <2>1, <2>2, EndReadDurable DEF ReadStep
<1>3. CASE FlusherStep
  BY <1>3, FlusherTakeDurable, FlusherBuildDurable, FlusherCommitDurable, FlusherFinishDurable,
     EndScopeDurable
  DEF FlusherStep, Threads
<1>4. CASE DoSizeTieredCompaction
  BY <1>4, MergeStartDurable
<1>5. ASSUME NEW j \in Compactors, MergeStep(j) PROVE DurInv'
  BY <1>5, MergeStartDurable, MergeCommitDurable, MergeFinishDurable, EndScopeDurable
  DEF MergeStep, Threads
<1>6. CASE FlushLockedStep
  BY <1>6, FlushBuildDurable, FlushCommitDurable, FlushTruncateDurable DEF FlushLockedStep
<1>7. CASE GcStep
  BY <1>7, GcQuietDurable, GcBuildDurable, GcCommitDurable, GcFinishDurable DEF GcStep
<1>8. CASE OpenStep
  BY <1>8, OpenDBDurable, OpenDropWalDurable, OpenDoneDurable DEF OpenStep
<1>9. CASE Exit \/ PowerLoss
  BY <1>9, ExitDurable, PowerLossDurable
<1>10. CASE UNCHANGED vars
  <2>1. UNCHANGED <<mode, mu, memtable, flushing_memtable, has_flushing, wal, wal_synced,
                    flushing_wal, pending, sstables, vfiles, manifest, ssts, kv, allowed, lost>>
    BY <1>10 DEF vars, memory, logfiles, tablefiles, ghost
  <2>2. FlushingLog' = FlushingLog /\ Recovered' = Recovered
    BY <2>1, Zenon DEF FlushingLog, Recovered, LoadManifest, LoadDirectory
  <2>3. \A k \in Keys : Base(k)' = Base(k)
    BY <2>1, <2>2 DEF Base, DiskTables
  <2>4. \A log : \A k \in Keys : Recovers(log, k)' = Recovers(log, k)
    BY <2>3 DEF Recovers
  <2>5. LogsOK' /\ PendingOK' /\ SyncedOK' /\ ShownType'
    BY <2>1, <2>2, <2>3, Zenon DEF Invs, DurInv, LogsOK, PendingOK, SyncedOK, ShownType
  <2>6. KilledOK'
    BY <2>1, <2>2, <2>4, Zenon DEF Invs, DurInv, KilledOK
  <2>7. PrefixOK'
    BY <2>1, <2>2, <2>4, Zenon DEF Invs, DurInv, PrefixOK
  <2> QED
    BY <2>5, <2>6, <2>7 DEF DurInv
<1> QED
  BY <1>1, <1>2, <1>3, <1>4, <1>5, <1>6, <1>7, <1>8, <1>9, <1>10 DEF Next

-----------------------------------------------------------------------------
\* The steps of the abstract map, in terms of kv, allowed, mode and lost.

MapWrite(k, v) ==
  /\ Open /\ Open' /\ kv' = [kv EXCEPT ![k] = v]
  /\ allowed' \in {[allowed EXCEPT ![k] = @ \cup {v}], Settled(kv')}

MapSettle == Open /\ Open' /\ kv' = kv /\ allowed' = Settled(kv)

MapEnd ==
  /\ ~Open' /\ UNCHANGED <<kv, allowed>>
  /\ lost' \/ (Open /\ ~lost')

MapRecover ==
  /\ ~Open /\ Open' /\ kv' \in [Keys -> Values \cup {Absent}]
  /\ \A k \in Keys : kv'[k] \in IF lost THEN allowed[k] ELSE {kv[k]}
  /\ allowed' \in {allowed, Settled(kv')}

MapStutter == UNCHANGED <<kv, allowed, lost>> /\ Open' = Open

MapStep ==
  \/ \E k \in Keys, v \in Values \cup {Absent} : MapWrite(k, v)
  \/ MapSettle \/ MapEnd \/ MapRecover \/ MapStutter

\* They are the steps of KVStore, as clients see exactly kv.
LEMMA MapStepRefines ==
  ASSUME ViewOK, ViewOK', MapStep
  PROVE  [KV!KVNext]_(KV!kvvars)
<1> DEFINE shown == IF Open THEN Visible ELSE kv
           state == IF Open THEN "up" ELSE IF lost THEN "lost" ELSE "exited"
<1>1. shown = kv /\ shown' = kv'
  BY Zenon DEF ViewOK
<1>2. /\ Open => state = "up"
      /\ ~Open => state = IF lost THEN "lost" ELSE "exited"
      /\ Open' => state' = "up"
      /\ ~Open' => state' = IF lost' THEN "lost" ELSE "exited"
  BY Zenon
<1> HIDE DEF shown, state
<1>3. ASSUME NEW k \in Keys, NEW v \in Values \cup {Absent}, MapWrite(k, v) PROVE KV!KVNext
  <2>1. state = "up" /\ state' = "up"
    BY <1>2, <1>3 DEF MapWrite
  <2>2. /\ shown' = [shown EXCEPT ![k] = v]
        /\ allowed' \in {[allowed EXCEPT ![k] = @ \cup {v}], [x \in Keys |-> {shown'[x]}]}
    BY <1>1, <1>3 DEF MapWrite, Settled
  <2>3. KV!Write(k, v)
    BY <2>1, <2>2, Zenon DEF KV!Write, KV!Settled, shown, state
  <2> QED
    BY <2>3, Zenon DEF KV!KVNext
<1>4. CASE MapSettle
  <2>1. state = "up" /\ state' = "up"
    BY <1>2, <1>4 DEF MapSettle
  <2>2. shown' = shown /\ allowed' = [x \in Keys |-> {shown[x]}]
    BY <1>1, <1>4 DEF MapSettle, Settled
  <2>3. KV!MakeDurable
    BY <2>1, <2>2, Zenon DEF KV!MakeDurable, KV!Settled, shown, state
  <2> QED
    BY <2>3, Zenon DEF KV!KVNext
<1>5. CASE MapEnd
  <2>1. shown' = shown /\ allowed' = allowed
    BY <1>1, <1>5 DEF MapEnd
  <2>2. \/ state' = "lost"
        \/ state = "up" /\ state' = "exited"
    BY <1>2, <1>5, Zenon DEF MapEnd
  <2>3. CASE state' = "lost"
    <3>1. KV!KVPowerLoss
      BY <2>1, <2>3, Zenon DEF KV!KVPowerLoss, shown, state
    <3> QED
      BY <3>1, Zenon DEF KV!KVNext
  <2>4. CASE state = "up" /\ state' = "exited"
    <3>1. KV!KVExit
      BY <2>1, <2>4, Zenon DEF KV!KVExit, shown, state
    <3> QED
      BY <3>1, Zenon DEF KV!KVNext
  <2> QED
    BY <2>2, <2>3, <2>4
<1>6. CASE MapRecover
  <2>1. state' = "up" /\ (state = "lost" <=> lost) /\ state # "up"
    BY <1>2, <1>6 DEF MapRecover
  <2>2. /\ shown' \in [Keys -> Values \cup {Absent}]
        /\ \A k \in Keys : shown'[k] \in IF lost THEN allowed[k] ELSE {shown[k]}
        /\ allowed' \in {allowed, [x \in Keys |-> {shown'[x]}]}
    BY <1>1, <1>6 DEF MapRecover, Settled
  <2>3. \A k \in Keys : shown'[k] \in IF state = "lost" THEN allowed[k] ELSE {shown[k]}
    BY <2>1, <2>2
  <2>4. KV!Recover
    BY <2>1, <2>2, <2>3, Zenon DEF KV!Recover, KV!Settled, shown, state
  <2> QED
    BY <2>4, Zenon DEF KV!KVNext
<1>7. CASE MapStutter
  <2>1. shown' = shown /\ allowed' = allowed /\ state' = state
    BY <1>1, <1>7, Zenon DEF MapStutter, state
  <2> QED
    BY <2>1, Zenon DEF KV!kvvars, shown, state
<1> QED
  BY <1>3, <1>4, <1>5, <1>6, <1>7 DEF MapStep

\* Each step of the engine is one of them.
LEMMA NextMapStep ==
  ASSUME Invs, DurInv', [Next]_vars
  PROVE  MapStep
<1>1. ASSUME UNCHANGED <<mode, kv, allowed, lost>> PROVE MapStep
  BY <1>1, Zenon DEF MapStep, MapStutter, Open
<1>2. ASSUME NEW c, NEW k \in Keys, NEW cell \in Values \cup {Tomb}, NEW sync,
             WriteRecord(c, k, cell, sync)
      PROVE  MapStep
  <2>1. AsValue(cell) \in Values \cup {Absent}
    BY ReadsAsValue, Zenon
  <2>2. Open /\ Open' /\ kv' = [kv EXCEPT ![k] = AsValue(cell)]
    BY <1>2 DEF WriteRecord, LockFree, Open
  <2>3. \/ allowed' = Settled(kv')
        \/ allowed' = [allowed EXCEPT ![k] = @ \cup {AsValue(cell)}]
    BY <1>2, Zenon DEF WriteRecord
  <2>4. MapWrite(k, AsValue(cell))
    BY <2>2, <2>3 DEF MapWrite
  <2> QED
    BY <2>1, <2>4 DEF MapStep
<1>3. CASE ClientStep
  <2>1. ASSUME NEW c, MaybeSeal(c) PROVE MapStep
    <3>1. Open /\ Open' /\ mode' = mode /\ kv' = kv /\ lost' = lost
          /\ (allowed' = allowed \/ allowed' = Settled(kv))
      BY <2>1 DEF MaybeSeal, LockFree, Open
    <3> QED
      BY <1>1, <3>1 DEF MapStep, MapSettle
  <2>2. CASE Sync
    BY <2>2 DEF Sync, LockFree, Open, MapStep, MapSettle
  <2>3. CASE Flush \/ GcValueLog \/ CompactAll
    BY <1>1, <2>3, Zenon DEF Flush, GcValueLog, CompactAll, StartMerge, ghost
  <2> QED
    BY <1>2, <1>3, <2>1, <2>2, <2>3 DEF ClientStep, Put, Del
<1>4. CASE ReadStep
  BY <1>1, <1>4, Zenon DEF ReadStep, Get, Scan, Snapshot, EndRead, ghost
<1>5. CASE FlusherStep
  BY <1>1, <1>5, Zenon DEF FlusherStep, FlusherTake, FlusherBuild, FlusherCommit,
                           FlusherFinish, EndScope, ghost
<1>6. CASE DoSizeTieredCompaction
  BY <1>1, <1>6, Zenon DEF DoSizeTieredCompaction, StartMerge, ghost
<1>7. ASSUME NEW j \in Compactors, MergeStep(j) PROVE MapStep
  BY <1>1, <1>7, Zenon DEF MergeStep, MergeBuild, MergeCommit, MergeFinish, FinishMerge,
                           EndScope, ghost
<1>8. CASE FlushLockedStep
  <2>1. CASE FlushBuild \/ FlushCommit
    BY <1>1, <2>1, Zenon DEF FlushBuild, FlushCommit, ghost
  <2>2. CASE FlushTruncate
    <3>1. mode' = mode /\ kv' = kv /\ lost' = lost /\ allowed' = IF Open THEN Settled(kv) ELSE allowed
      BY <2>2 DEF FlushTruncate
    <3>2. CASE Open
      BY <3>1, <3>2 DEF MapStep, MapSettle, Open
    <3>3. CASE ~Open
      BY <1>1, <3>1, <3>3
    <3> QED
      BY <3>2, <3>3
  <2> QED
    BY <1>8, <2>1, <2>2 DEF FlushLockedStep
<1>9. CASE GcStep
  BY <1>1, <1>9, Zenon DEF GcStep, GcNothing, GcBuild, GcCommit, GcFinish, ghost
<1>10. CASE OpenStep
  <2>1. CASE OpenDB
    BY <2>1, Zenon DEF OpenDB, ghost, Open, MapStep, MapStutter
  <2>2. CASE OpenDropWal
    BY <1>1, <2>2 DEF OpenDropWal, ghost
  <2>3. CASE OpenDone
    <3>1. /\ mu.at = "open_done" /\ Open' /\ kv' = Visible
          /\ allowed' = (IF wal_synced = Len(wal) THEN Settled(kv') ELSE allowed)
      BY <2>3 DEF OpenDone, Open
    <3>2. mode = "opening"
      BY <3>1 DEF Invs, EngineInv, LockOK
    <3>3. \A k \in Keys : kv'[k] = Recovers(FlushingLog \o wal, k)
      BY <3>1, <3>2, OpenedShows DEF Invs, DurInv
    <3>4. \A k \in Keys : kv'[k] \in IF lost THEN allowed[k] ELSE {kv[k]}
      BY <3>2, <3>3 DEF Invs, DurInv, KilledOK
    <3>5. kv' \in [Keys -> Values \cup {Absent}]
      BY Zenon DEF DurInv, ShownType
    <3>6. MapRecover
      BY <3>1, <3>2, <3>4, <3>5 DEF MapRecover, Open
    <3> QED
      BY <3>6 DEF MapStep
  <2> QED
    BY <1>10, <2>1, <2>2, <2>3 DEF OpenStep
<1>11. CASE Exit
  <2>1. mode # "closed" /\ mode' = "closed" /\ UNCHANGED <<kv, allowed, lost>>
    BY <1>11 DEF Exit, MemoryLost
  <2>2. Open => ~lost
    BY Zenon DEF Invs, DurInv, LogsOK, Open
  <2>3. CASE Open
    BY <2>1, <2>2, <2>3 DEF MapStep, MapEnd, Open
  <2>4. CASE ~Open
    BY <2>1, <2>4 DEF MapStep, MapStutter, Open
  <2> QED
    BY <2>3, <2>4
<1>12. CASE PowerLoss
  BY <1>12 DEF PowerLoss, MemoryLost, MapStep, MapEnd, Open
<1>13. CASE UNCHANGED vars
  BY <1>1, <1>13 DEF vars, ghost
<1> QED
  BY <1>3, <1>4, <1>5, <1>6, <1>7, <1>8, <1>9, <1>10, <1>11, <1>12, <1>13 DEF Next

-----------------------------------------------------------------------------
\* If moreover no crash falls between the flush of a recovery and the removal of
\* wal-flushing.log, and clients sync every write where a truncation may be lost,
\* DurInv holds in every state the store can reach: at any time, what is on disk
\* is enough to recover what clients may rely on.
THEOREM DurableInvariant == ASSUME OneMerger, CrashesHandled PROVE Spec => []DurInv
<1>1. EngineInv /\ ViewInv /\ DurInv /\ [Next]_vars => DurInv'
  <2> SUFFICES ASSUME EngineInv, ViewInv, DurInv, [Next]_vars PROVE DurInv'
    BY Zenon
  <2>1. EngineInv' /\ ViewInv'
    BY NextInv, NextView
  <2> QED
    BY <2>1, DurableStep DEF Invs
<1> QED
  BY <1>1, InitDurable, EngineInvariant, ViewInvariant, PTL DEF Spec

\* Then the end of the process loses no write, and a power loss none that was
\* synced, sealed or flushed, whatever thread was doing what at the time.
THEOREM RecoveryDurable == ASSUME OneMerger, CrashesHandled PROVE Spec => []DurableOK
BY DurableRecovery, EngineInvariant, ViewInvariant, DurableInvariant, PTL

\* And the engine implements the abstract map: what clients see changes by their
\* writes and, after a crash, to what KVStore allows; all else is invisible.
THEOREM Refinement == ASSUME OneMerger, CrashesHandled PROVE Spec => KVSpec
<1>1. Init => KV!KVInit
  <2> SUFFICES ASSUME Init PROVE KV!KVInit
    BY Zenon
  <2>1. ~Open /\ lost = FALSE /\ kv = [k \in Keys |-> Absent] /\ allowed = [k \in Keys |-> {kv[k]}]
    BY Zenon DEF Init, Open, Empty, Settled
  <2> QED
    BY <2>1, Zenon DEF KV!KVInit, KV!Settled
<1>2. /\ EngineInv /\ ViewInv /\ DurInv /\ EngineInv' /\ ViewInv' /\ DurInv' /\ [Next]_vars
      => [KV!KVNext]_(KV!kvvars)
  <2> SUFFICES ASSUME EngineInv, ViewInv, DurInv, EngineInv', ViewInv', DurInv', [Next]_vars
               PROVE  [KV!KVNext]_(KV!kvvars)
    BY Zenon
  <2>1. MapStep
    BY NextMapStep DEF Invs
  <2>2. ViewOK /\ ViewOK'
    BY Zenon DEF ViewInv
  <2> QED
    BY <2>1, <2>2, MapStepRefines
<1> QED
  BY <1>1, <1>2, EngineInvariant, ViewInvariant, DurableInvariant, PTL
  DEF Spec, KVSpec, KV!KVSpec

=============================================================================
