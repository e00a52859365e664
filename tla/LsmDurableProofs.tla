------------------------- MODULE LsmDurableProofs ---------------------------
(***************************************************************************)
(* What the directory of LsmDB holds: at any time a recovery finds in it   *)
(* what clients may rely on.  Writes, flushes and the end of the process   *)
(* preserve that.                                                          *)
(***************************************************************************)
EXTENDS LsmViewProofs

\* Outside what RecoveryCrash and LostTruncate find: no crash comes between the
\* flush of a recovery and the removal of wal-flushing.log, and if the truncation
\* of wal.log may be lost, clients sync every write.
CrashesHandled ==
  /\ "drop_wal" \notin CrashAt
  /\ "truncate" \in LostOps => SyncModes \subseteq {TRUE}

\* The tables a recovery starts from.
DiskTables == IF mode = "closed" THEN Recovered.tables ELSE sstables

\* What they hold for k.
Base(k) == AsValue(ValueOf(vfiles, Lookup(DiskTables, k)))

\* What a recovery that replays log over them shows.
Recovers(log, k) ==
  IF Replay(log)[k] # Absent THEN AsValue(Replay(log)[k]) ELSE Base(k)

\* wal-flushing.log, unless a recovery is done with it and about to remove it.
FlushingLog == IF mu.at = "drop_wal" THEN <<>> ELSE flushing_wal

\* The memtables are what the logs replay to.
LogsOK ==
  /\ mode = "open" => /\ memtable = Replay(wal) /\ ~lost
                      /\ has_flushing => flushing_memtable = Replay(flushing_wal)
                      /\ ~has_flushing => flushing_wal = <<>>
  /\ mode = "opening" => memtable = Replay(FlushingLog \o wal)
  /\ mu.at = "open_done" => flushing_wal = <<>>

\* A recovery finds what clients may rely on, if all of wal.log survives ...
KilledOK ==
  mode # "open" => \A k \in Keys :
    Recovers(FlushingLog \o wal, k) \in IF lost THEN allowed[k] ELSE {kv[k]}

\* ... and if only a prefix does that holds what was synced.
PrefixOK ==
  \A n \in wal_synced .. Len(wal), k \in Keys :
    Recovers(FlushingLog \o SubSeq(wal, 1, n), k) \in allowed[k]

\* A log whose truncation or removal may be undone says nothing new.
PendingOK ==
  pending.op # "none" /\ mu.at # "drop_wal" =>
    /\ flushing_wal = <<>>
    /\ \A k \in Keys : Replay(pending.log)[k] # Absent =>
         AsValue(Replay(pending.log)[k]) = Base(k)
    /\ pending.op = "truncate" => wal_synced = 0

\* When every write is synced, so is the whole log, at any time.
SyncedOK ==
  SyncModes \subseteq {TRUE} =>
    /\ wal_synced = Len(wal)
    /\ pending.op = "truncate" => pending.synced = Len(pending.log)

\* Clients see values.
ShownType ==
  /\ kv \in [Keys -> Values \cup {Absent}]
  /\ \A k \in Keys : allowed[k] \subseteq Values \cup {Absent}

\* The inductive invariant, on top of EngineInv and ViewInv.
DurInv ==
  /\ LogsOK /\ KilledOK /\ PrefixOK /\ PendingOK /\ SyncedOK /\ ShownType

-----------------------------------------------------------------------------
\* The logs are sequences of records.
LEMMA LogTypes ==
  EngineInv => /\ wal \in Seq(LogRecord) /\ flushing_wal \in Seq(LogRecord)
               /\ FlushingLog \in Seq(LogRecord) /\ wal_synced \in 0 .. Len(wal)
               /\ pending.log \in Seq(LogRecord) /\ pending.synced \in 0 .. Len(pending.log)
<1> SUFFICES ASSUME EngineInv
             PROVE  /\ wal \in Seq(LogRecord) /\ flushing_wal \in Seq(LogRecord)
                    /\ FlushingLog \in Seq(LogRecord) /\ wal_synced \in 0 .. Len(wal)
                    /\ pending.log \in Seq(LogRecord)
                    /\ pending.synced \in 0 .. Len(pending.log)
  BY Zenon
<1>1. /\ wal \in Seq(LogRecord) /\ flushing_wal \in Seq(LogRecord)
      /\ wal_synced \in 0 .. Len(wal) /\ pending.log \in Seq(LogRecord)
      /\ pending.synced \in 0 .. Len(pending.log)
  BY Zenon DEF EngineInv, TypeOK, LogsType, IsPending
<1>2. <<>> \in Seq(LogRecord)
  OBVIOUS
<1> QED
  BY <1>1, <1>2, Zenon DEF FlushingLog

\* Of two logs the second counts first.
LEMMA RecoversConcat ==
  ASSUME NEW a \in Seq(LogRecord), NEW b \in Seq(LogRecord), NEW k \in Keys
  PROVE  Recovers(a \o b, k) = IF Replay(b)[k] # Absent THEN AsValue(Replay(b)[k])
                               ELSE Recovers(a, k)
BY ReplayConcat, Zenon DEF Recovers

\* Without a log, the tables count.
LEMMA RecoversNothing ==
  ASSUME NEW k \in Keys
  PROVE  Recovers(<<>>, k) = Base(k)
<1>1. Replay(<<>>)[k] = Absent
  BY ReplayEmpty, Zenon DEF Empty
<1> QED
  BY <1>1, Zenon DEF Recovers

\* While the store is open, wal-flushing.log is there or empty.
LEMMA FlushingLogIs ==
  EngineInv /\ mode # "opening" => FlushingLog = flushing_wal /\ mu.at # "drop_wal"
BY Zenon DEF EngineInv, LockOK, FlushingLog

\* While the store is open, a recovery would find what clients see.
LEMMA OpenRecovers ==
  EngineInv /\ ViewInv /\ LogsOK /\ mode = "open"
    => \A k \in Keys : Recovers(FlushingLog \o wal, k) = kv[k]
<1> SUFFICES ASSUME EngineInv, ViewInv, LogsOK, mode = "open", NEW k \in Keys
             PROVE  Recovers(FlushingLog \o wal, k) = kv[k]
  BY Zenon
<1>1. Shown(k) = kv[k]
  BY ViewShown, Zenon
<1>2. FlushingLog = flushing_wal
  BY FlushingLogIs, Zenon
<1>3. Recovers(FlushingLog \o wal, k) =
        IF Replay(wal)[k] # Absent THEN AsValue(Replay(wal)[k]) ELSE Recovers(flushing_wal, k)
  BY <1>2, LogTypes, RecoversConcat
<1>4. memtable = Replay(wal) /\ Base(k) = AsValue(ValueOf(vfiles, Lookup(sstables, k)))
  BY Zenon DEF LogsOK, Base, DiskTables
<1>5. CASE has_flushing
  <2>1. flushing_memtable = Replay(flushing_wal)
    BY <1>5, Zenon DEF LogsOK
  <2> QED
    BY <1>1, <1>3, <1>4, <1>5, <2>1, Zenon DEF Shown, Recovers
<1>6. CASE ~has_flushing
  <2>1. Recovers(flushing_wal, k) = Base(k)
    BY <1>6, RecoversNothing, Zenon DEF LogsOK
  <2> QED
    BY <1>1, <1>3, <1>4, <1>6, <2>1, Zenon DEF Shown
<1> QED
  BY <1>5, <1>6, Zenon

\* When all is synced, that is all a power loss can leave.
LEMMA SettledPrefix ==
  EngineInv /\ ViewInv /\ LogsOK /\ mode = "open" /\ wal_synced = Len(wal) /\ allowed = Settled(kv)
    => PrefixOK
<1> SUFFICES ASSUME EngineInv, ViewInv, LogsOK, mode = "open", wal_synced = Len(wal),
                    allowed = Settled(kv), NEW n \in wal_synced .. Len(wal), NEW k \in Keys
             PROVE  Recovers(FlushingLog \o SubSeq(wal, 1, n), k) \in allowed[k]
  BY Zenon DEF PrefixOK
<1>1. wal \in Seq(LogRecord)
  BY LogTypes, Zenon
<1>2. n = Len(wal)
  BY <1>1
<1>3. SubSeq(wal, 1, n) = wal
  BY <1>1, <1>2, Prefixes, Zenon
<1>4. Recovers(FlushingLog \o wal, k) = kv[k]
  BY OpenRecovers, Zenon
<1> QED
  BY <1>3, <1>4 DEF Settled

\* The hypotheses of the steps below.
Invs == EngineInv /\ EngineInv' /\ ViewInv /\ ViewInv' /\ DurInv

\* A step that leaves logs and client state alone and what the tables show.
LEMMA DurableQuiet ==
  ASSUME Invs, \A k \in Keys : Base(k)' = Base(k),
         UNCHANGED <<mode, memtable, flushing_memtable, has_flushing, logfiles, kv, allowed, lost>>,
         pending' = pending \/ pending' = NothingPending,
         mu.at # "drop_wal", mu'.at # "drop_wal", mu'.at = "open_done" => mu.at = "open_done"
  PROVE  DurInv'
<1>1. FlushingLog' = FlushingLog
  BY Zenon DEF FlushingLog, logfiles
<1>2. \A log : \A k \in Keys : Recovers(log, k)' = Recovers(log, k)
  BY Zenon DEF Recovers
<1>3. LogsOK'
  BY <1>1, Zenon DEF Invs, DurInv, LogsOK, logfiles
<1>4. KilledOK'
  BY <1>1, <1>2, Zenon DEF Invs, DurInv, KilledOK, logfiles
<1>5. PrefixOK'
  BY <1>1, <1>2, Zenon DEF Invs, DurInv, PrefixOK, logfiles
<1>6. PendingOK' /\ SyncedOK'
  <2>1. NothingPending.op = "none"
    BY Zenon DEF NothingPending
  <2>2. CASE pending' = NothingPending
    BY <2>1, <2>2, Zenon DEF Invs, DurInv, PendingOK, SyncedOK, logfiles
  <2>3. CASE pending' = pending
    BY <2>3, Zenon DEF Invs, DurInv, PendingOK, SyncedOK, logfiles
  <2> QED
    BY <2>2, <2>3, Zenon
<1>7. ShownType'
  BY Zenon DEF Invs, DurInv, ShownType
<1> QED
  BY <1>3, <1>4, <1>5, <1>6, <1>7 DEF DurInv

\* The tables show the same if the current value log is kept.
LEMMA BaseKept ==
  ASSUME Invs, mode # "closed", UNCHANGED <<mode, sstables, current_gen>>,
         FileKept(vfiles, vfiles', current_gen)
  PROVE  \A k \in Keys : Base(k)' = Base(k)
<1>1. \A k \in Keys : ValueOf(vfiles', Lookup(sstables, k)) = ValueOf(vfiles, Lookup(sstables, k))
  BY PointKept, Zenon DEF Invs, ViewInv
<1> QED
  BY <1>1, Zenon DEF Base, DiskTables

\* A step that leaves the tables alone shows the same of them.
LEMMA BaseSame ==
  ASSUME UNCHANGED <<sstables, vfiles>>, mode # "closed", mode' # "closed"
  PROVE  \A k \in Keys : Base(k)' = Base(k)
BY Zenon DEF Base, DiskTables

-----------------------------------------------------------------------------
\* Writes.

\* The parts of DurInv that hold whenever everything written is on disk.
LEMMA AllSynced ==
  ASSUME Invs, mode' = "open", LogsOK', wal_synced' = Len(wal'), allowed' = Settled(kv)',
         kv' \in [Keys -> Values \cup {Absent}],
         pending'.op # "none" => PendingOK' /\ (SyncModes \subseteq {TRUE} =>
                                   (pending.op = "truncate" => pending.synced = Len(pending.log))')
  PROVE  DurInv'
<1>1. PrefixOK'
  <2>1. (/\ EngineInv /\ ViewInv /\ LogsOK /\ mode = "open" /\ wal_synced = Len(wal)
         /\ allowed = Settled(kv))'
    BY Zenon DEF Invs
  <2> QED
    BY <2>1, SettledPrefix, PTL
<1>2. KilledOK'
  BY Zenon DEF KilledOK
<1>3. PendingOK' /\ SyncedOK'
  BY Zenon DEF PendingOK, SyncedOK
<1>4. ShownType'
  BY Zenon DEF ShownType, Settled
<1> QED
  BY <1>1, <1>2, <1>3, <1>4 DEF DurInv

\* A value or a tombstone reads as a value or nothing.
LEMMA ReadsAsValue ==
  ASSUME NEW cell \in Values \cup {Tomb}
  PROVE  AsValue(cell) \in Values \cup {Absent}
BY Zenon DEF AsValue

\* Sealing moves the records of memtable and log to the flushing slot.
LEMMA SealedLogs ==
  ASSUME EngineInv, mode' = "open", mu' = mu, mode = "open", NEW m, NEW log \in Seq(LogRecord),
         m = Replay(log), SealLocked(m, log), ~lost'
  PROVE  /\ LogsOK' /\ wal_synced' = Len(wal') /\ pending'.op = "none"
<1>1. /\ flushing_wal' = log /\ wal' = <<>> /\ wal_synced' = 0 /\ pending' = NothingPending
      /\ flushing_memtable' = m /\ memtable' = Empty /\ has_flushing' = TRUE
  BY Zenon DEF SealLocked
<1>2. mu.at # "open_done"
  BY Zenon DEF EngineInv, LockOK
<1>3. LogsOK'
  BY <1>1, <1>2, ReplayEmpty, Zenon DEF LogsOK
<1>4. Len(<<>>) = 0 /\ NothingPending.op = "none"
  BY Zenon DEF NothingPending
<1> QED
  BY <1>1, <1>3, <1>4, Zenon

\* put and del.
LEMMA WriteRecordDurable ==
  ASSUME Invs, NEW c, NEW k \in Keys, NEW cell \in Values \cup {Tomb}, NEW sync \in SyncModes,
         WriteRecord(c, k, cell, sync)
  PROVE  DurInv'
<1> DEFINE m   == MemPut(memtable, k, cell)
           r   == [key |-> k, cell |-> cell]
           log == Append(wal, r)
           full == SizeBytes(m) >= Threshold
<1>1. /\ mode = "open" /\ mode' = "open" /\ mu' = mu /\ mu.at = "free" /\ lost' = lost
      /\ kv' = [kv EXCEPT ![k] = AsValue(cell)]
      /\ UNCHANGED <<sstables, vfiles>>
  BY Zenon DEF WriteRecord, LockFree, tablefiles
<1>2. /\ wal \in Seq(LogRecord) /\ wal_synced \in 0 .. Len(wal) /\ r \in LogRecord
      /\ flushing_wal \in Seq(LogRecord)
  BY LogTypes, Zenon DEF Invs, LogRecord
<1>3. log \in Seq(LogRecord) /\ Len(log) = Len(wal) + 1
  BY <1>2
<1>4. m = Replay(log)
  BY <1>1, <1>2, ReplayAppend DEF Invs, DurInv, LogsOK
<1>5. ~lost /\ ~lost'
  BY <1>1, Zenon DEF Invs, DurInv, LogsOK
<1>6. AsValue(cell) \in Values \cup {Absent}
  BY ReadsAsValue, Zenon
<1>7. kv' \in [Keys -> Values \cup {Absent}]
  BY <1>1, <1>6, Zenon DEF Invs, DurInv, ShownType
<1> HIDE DEF r
<1>8. CASE full /\ SealMayRun /\ SealLocked(m, log) /\ allowed' = Settled(kv')
  <2>1. LogsOK' /\ wal_synced' = Len(wal') /\ pending'.op = "none"
    BY <1>1, <1>3, <1>4, <1>5, <1>8, SealedLogs DEF Invs
  <2> QED
    BY <1>1, <1>7, <1>8, <2>1, AllSynced DEF Settled
<1>9. CASE /\ memtable' = m /\ wal' = log
           /\ wal_synced' = (IF sync THEN Len(log) ELSE wal_synced)
           /\ pending' = (IF sync THEN NothingPending ELSE pending)
           /\ allowed' = (IF sync THEN Settled(kv')
                          ELSE [allowed EXCEPT ![k] = @ \cup {AsValue(cell)}])
           /\ UNCHANGED <<flushing_wal, flushing_memtable, has_flushing>>
  <2>1. LogsOK'
    <3>1. memtable' = Replay(wal')
      BY <1>4, <1>9, Zenon
    <3> QED
      BY <1>1, <1>5, <1>9, <3>1 DEF Invs, DurInv, LogsOK
  <2>2. CASE sync
    <3>1. wal_synced' = Len(wal') /\ pending'.op = "none" /\ allowed' = Settled(kv')
      BY <1>9, <2>2, Zenon DEF NothingPending
    <3> QED
      BY <1>1, <1>7, <2>1, <3>1, AllSynced DEF Settled
  <2>3. CASE ~sync
    <3>1. /\ wal_synced' = wal_synced /\ pending' = pending
          /\ allowed' = [allowed EXCEPT ![k] = @ \cup {AsValue(cell)}]
      BY <1>9, <2>3, Zenon
    <3>2. \A x \in Keys : Base(x)' = Base(x)
      BY <1>1, BaseSame, Zenon
    <3>3. FlushingLog' = FlushingLog /\ FlushingLog = flushing_wal
      BY <1>1, <1>9, Zenon DEF FlushingLog
    <3>4. \A l : \A x \in Keys : Recovers(l, x)' = Recovers(l, x)
      BY <3>2, Zenon DEF Recovers
    <3>5. allowed \in [Keys -> SUBSET Cell]
      BY Zenon DEF Invs, EngineInv, TypeOK, GhostType
    <3>6. \A x \in Keys : allowed[x] \subseteq allowed'[x]
      BY <3>1, <3>5, Zenon
    <3>7. AsValue(cell) \in allowed'[k]
      BY <3>1, <3>5, Zenon
    <3>8. PrefixOK'
      <4> SUFFICES ASSUME NEW n \in wal_synced' .. Len(wal'), NEW x \in Keys
                   PROVE  Recovers(flushing_wal \o SubSeq(log, 1, n), x) \in allowed'[x]
        BY <1>9, <3>3, <3>4, Zenon DEF PrefixOK
      <4>1. CASE n \in wal_synced .. Len(wal)
        <5>1. SubSeq(log, 1, n) = SubSeq(wal, 1, n)
          BY <1>2, <4>1, Prefixes
        <5>2. Recovers(flushing_wal \o SubSeq(wal, 1, n), x) \in allowed[x]
          BY <3>3, <4>1, Zenon DEF Invs, DurInv, PrefixOK
        <5> QED
          BY <3>6, <5>1, <5>2, Zenon
      <4>2. CASE n = Len(log)
        <5>1. SubSeq(log, 1, n) = log
          BY <1>3, <4>2, Prefixes, Zenon
        <5>2. Recovers(flushing_wal \o log, x) =
                IF m[x] # Absent THEN AsValue(m[x]) ELSE Recovers(flushing_wal, x)
          <6> HIDE DEF m, log
          <6> QED
            BY <1>2, <1>3, <1>4, RecoversConcat
        <5>3. memtable \in MemContent /\ memtable = Replay(wal) /\ cell # Absent
          BY <1>1, TablesAssumption DEF Invs, EngineInv, TypeOK, MemoryType, DurInv, LogsOK
        <5>4. CASE x = k
          <6>1. m[x] = cell
            BY <5>3, <5>4 DEF MemPut, MemContent
          <6> QED
            BY <3>7, <5>1, <5>2, <5>3, <5>4, <6>1
        <5>5. CASE x # k
          <6>1. m[x] = Replay(wal)[x]
            BY <5>3, <5>5, Zenon DEF MemPut, MemContent
          <6>2. Recovers(flushing_wal \o log, x) = Recovers(flushing_wal \o wal, x)
            BY <1>2, <5>2, <6>1, RecoversConcat
          <6>3. SubSeq(wal, 1, Len(wal)) = wal /\ Len(wal) \in wal_synced .. Len(wal)
            BY <1>2, Prefixes
          <6>4. Recovers(flushing_wal \o wal, x) \in allowed[x]
            BY <3>3, <6>3, Zenon DEF Invs, DurInv, PrefixOK
          <6> QED
            BY <3>6, <5>1, <6>2, <6>4
        <5> QED
          BY <5>4, <5>5, Zenon
      <4> QED
        BY <1>2, <1>3, <1>9, <3>1, <4>1, <4>2
    <3>9. KilledOK'
      BY <1>1, Zenon DEF KilledOK
    <3>10. PendingOK'
      BY <1>1, <1>9, <3>1, <3>2 DEF Invs, DurInv, PendingOK
    <3>11. SyncedOK'
      BY <2>3, Zenon DEF SyncedOK
    <3>12. ShownType'
      BY <1>6, <1>7, <3>1, <3>5 DEF Invs, DurInv, ShownType
    <3> QED
      BY <2>1, <3>8, <3>9, <3>10, <3>11, <3>12 DEF DurInv
  <2> QED
    BY <2>2, <2>3, Zenon
<1> QED
  BY <1>8, <1>9, Zenon DEF WriteRecord, r

\* A writer that waited seals.
LEMMA MaybeSealDurable ==
  ASSUME Invs, NEW c, MaybeSeal(c)
  PROVE  DurInv'
<1>1. /\ mode = "open" /\ mode' = mode /\ mu' = mu /\ mu.at = "free"
      /\ UNCHANGED <<sstables, vfiles, kv, lost>>
  BY Zenon DEF MaybeSeal, LockFree, tablefiles
<1>2. CASE memtable = Empty
  <2>1. UNCHANGED <<memtable, flushing_memtable, has_flushing, logfiles, pending, allowed>>
    BY <1>2, Zenon DEF MaybeSeal
  <2>2. \A k \in Keys : Base(k)' = Base(k)
    BY <1>1, BaseSame, Zenon
  <2> QED
    BY <1>1, <2>1, <2>2, DurableQuiet
<1>3. CASE memtable # Empty
  <2>1. SealLocked(memtable, wal) /\ allowed' = Settled(kv)
    BY <1>3, Zenon DEF MaybeSeal
  <2>2. memtable = Replay(wal) /\ ~lost' /\ kv' \in [Keys -> Values \cup {Absent}]
    BY <1>1, Zenon DEF Invs, DurInv, LogsOK, ShownType
  <2>3. LogsOK' /\ wal_synced' = Len(wal') /\ pending'.op = "none"
    BY <1>1, <2>1, <2>2, LogTypes, SealedLogs DEF Invs
  <2> QED
    BY <1>1, <2>1, <2>2, <2>3, AllSynced DEF Settled
<1> QED
  BY <1>2, <1>3, Zenon

\* sync.
LEMMA SyncDurable ==
  ASSUME Invs, Sync
  PROVE  DurInv'
<1>1. /\ mode = "open" /\ mode' = mode /\ mu' = mu /\ UNCHANGED <<kv, lost, wal, flushing_wal>>
      /\ UNCHANGED <<memtable, flushing_memtable, has_flushing>>
      /\ wal_synced' = Len(wal') /\ allowed' = Settled(kv) /\ pending' = NothingPending
  BY Zenon DEF Sync, LockFree, memory
<1>2. LogsOK'
  BY <1>1, Zenon DEF Invs, DurInv, LogsOK
<1>3. pending'.op = "none" /\ kv' \in [Keys -> Values \cup {Absent}]
  BY <1>1, Zenon DEF NothingPending, Invs, DurInv, ShownType
<1> QED
  BY <1>1, <1>2, <1>3, AllSynced DEF Settled

-----------------------------------------------------------------------------
\* Flushes.

\* flush() takes the lock.
LEMMA FlushDurable ==
  ASSUME Invs, Flush
  PROVE  DurInv'
<1>1. /\ mode = "open" /\ mu.at = "free" /\ mu'.at = "flush"
      /\ UNCHANGED <<mode, memtable, flushing_memtable, has_flushing, logfiles, kv, allowed,
                     lost, sstables, vfiles, pending>>
  BY Zenon DEF Flush, LockFree, Free, memory, tablefiles, ghost
<1>2. \A k \in Keys : Base(k)' = Base(k)
  BY <1>1, BaseSame, Zenon
<1> QED
  BY <1>1, <1>2, DurableQuiet, Zenon

\* A replay gives every key something.
LEMMA ReplayIsMap ==
  ASSUME NEW log
  PROVE  Replay(log) = [k \in Keys |-> Replay(log)[k]]
BY DEF Replay

\* During recovery, a log without effect can go.
LEMMA DroppedLog ==
  ASSUME Invs, mode = "opening", mode' = mode, \A k \in Keys : Base(k)' = Base(k),
         UNCHANGED <<memtable, wal, wal_synced, kv, allowed, lost>>,
         FlushingLog' = <<>>, \A k \in Keys : Replay(FlushingLog)[k] = Absent,
         mu'.at = "open_done" => flushing_wal' = <<>>,
         mu'.at # "drop_wal" => pending'.op = "none",
         pending'.op = "truncate" => pending' = pending
  PROVE  DurInv'
<1>1. wal \in Seq(LogRecord) /\ wal_synced \in 0 .. Len(wal) /\ FlushingLog \in Seq(LogRecord)
  BY LogTypes, Zenon DEF Invs
<1>2. ASSUME NEW b \in Seq(LogRecord), NEW k \in Keys
      PROVE  Recovers(<<>> \o b, k)' = Recovers(FlushingLog \o b, k)
  <2>1. Recovers(FlushingLog \o b, k) =
          IF Replay(b)[k] # Absent THEN AsValue(Replay(b)[k]) ELSE Recovers(FlushingLog, k)
    BY <1>1, RecoversConcat, Zenon
  <2>2. Recovers(FlushingLog, k) = Base(k)
    BY Zenon DEF Recovers
  <2>3. <<>> \o b = b
    BY Prefixes, Zenon
  <2>4. Recovers(<<>> \o b, k)' = IF Replay(b)[k] # Absent THEN AsValue(Replay(b)[k]) ELSE Base(k)
    BY <2>3, Zenon DEF Recovers
  <2> QED
    BY <2>1, <2>2, <2>4, Zenon
<1>3. LogsOK'
  <2>1. Replay(<<>> \o wal) = Replay(FlushingLog \o wal)
    <3>1. ASSUME NEW k \in Keys PROVE Replay(FlushingLog \o wal)[k] = Replay(wal)[k]
      <4>1. Replay(FlushingLog \o wal)[k] = IF Replay(wal)[k] # Absent THEN Replay(wal)[k]
                                            ELSE Replay(FlushingLog)[k]
        BY <1>1, ReplayConcat, Zenon
      <4> QED
        BY <4>1, Zenon
    <3>2. <<>> \o wal = wal
      BY <1>1, Prefixes, Zenon
    <3>3. /\ Replay(wal) = [k \in Keys |-> Replay(wal)[k]]
          /\ Replay(FlushingLog \o wal) = [k \in Keys |-> Replay(FlushingLog \o wal)[k]]
      BY ReplayIsMap, Zenon
    <3> QED
      BY <3>1, <3>2, <3>3, Zenon
  <2> QED
    BY <2>1, Zenon DEF Invs, DurInv, LogsOK
<1>4. KilledOK'
  BY <1>1, <1>2, Zenon DEF Invs, DurInv, KilledOK
<1>5. PrefixOK'
  <2> SUFFICES ASSUME NEW n \in wal_synced .. Len(wal), NEW k \in Keys
               PROVE  Recovers(<<>> \o SubSeq(wal, 1, n), k)' \in allowed[k]
    BY Zenon DEF PrefixOK
  <2>1. SubSeq(wal, 1, n) \in Seq(LogRecord)
    BY <1>1
  <2>2. Recovers(FlushingLog \o SubSeq(wal, 1, n), k) \in allowed[k]
    BY Zenon DEF Invs, DurInv, PrefixOK
  <2> QED
    BY <1>2, <2>1, <2>2
<1>6. PendingOK'
  BY Zenon DEF PendingOK
<1>7. SyncedOK' /\ ShownType'
  BY Zenon DEF Invs, DurInv, SyncedOK, ShownType
<1> QED
  BY <1>3, <1>4, <1>5, <1>6, <1>7, Zenon DEF DurInv

\* flush_locked builds the table.
LEMMA FlushBuildDurable ==
  ASSUME Invs, FlushBuild
  PROVE  DurInv'
<1>1. /\ mu.at = "flush" /\ mode # "closed"
      /\ UNCHANGED <<mode, memtable, flushing_memtable, has_flushing, logfiles, kv, allowed,
                     lost, sstables, current_gen>>
  <2>1. mu.at = "flush"
    BY Zenon DEF FlushBuild
  <2>2. mode # "closed"
    BY <2>1, Present, Zenon DEF Invs, ViewInv
  <2> QED
    BY <2>1, <2>2, Zenon DEF FlushBuild, ghost
<1>2. mu.by \in {"flush", "gc", "open"} /\ (mu.by = "open" <=> mode = "opening")
  BY <1>1, Zenon DEF Invs, EngineInv, LockOK
<1>3. CASE memtable = Empty /\ mu' = AfterFlush(mu.by) /\ vfiles' = vfiles /\ pending' = pending
  <2>1. \A k \in Keys : Base(k)' = Base(k)
    BY <1>1, <1>3, BaseSame, Zenon
  <2>2. CASE mu.by # "open"
    <3>1. mu'.at \in {"free", "gc"}
      BY <1>2, <1>3, <2>2, Zenon DEF AfterFlush, Free
    <3> QED
      BY <1>1, <1>3, <2>1, <3>1, DurableQuiet
  <2>3. CASE mu.by = "open"
    <3>1. mu'.at = "drop_wal"
      BY <1>3, <2>3, Zenon DEF AfterFlush, Free
    <3>2. FlushingLog' = <<>>
      BY <3>1, Zenon DEF FlushingLog
    <3>3. FlushingLog \in Seq(LogRecord) /\ wal \in Seq(LogRecord)
      BY LogTypes, Zenon DEF Invs
    <3>4. ASSUME NEW k \in Keys PROVE Replay(FlushingLog)[k] = Absent
      <4>1. Replay(FlushingLog \o wal)[k] = Absent
        BY <1>2, <1>3, <2>3, Zenon DEF Invs, DurInv, LogsOK, Empty
      <4>2. Replay(FlushingLog \o wal)[k] = IF Replay(wal)[k] # Absent THEN Replay(wal)[k]
                                            ELSE Replay(FlushingLog)[k]
        BY <3>3, ReplayConcat, Zenon
      <4> QED
        BY <4>1, <4>2, Zenon
    <3> QED
      BY <1>1, <1>2, <1>3, <2>1, <2>3, <3>1, <3>2, <3>4, DroppedLog DEF logfiles
  <2> QED
    BY <2>2, <2>3, Zenon
<1>4. CASE /\ vfiles' = [vfiles EXCEPT ![current_gen] = AppendSynced(vfiles[current_gen], memtable)]
           /\ mu'.at = "flush_built" /\ pending' = NothingPending
  <2>1. memtable \in MemContent /\ current_gen \in DOMAIN vfiles
    BY <1>1, Typed, Zenon DEF Types, Invs
  <2>2. FileKept(vfiles, vfiles', current_gen)
    BY <1>1, <1>4, <2>1, AppendStep DEF Invs
  <2>3. \A k \in Keys : Base(k)' = Base(k)
    BY <1>1, <2>2, BaseKept, Zenon
  <2> QED
    BY <1>1, <1>4, <2>3, DurableQuiet
<1>5. mu \in LockType
  BY Zenon DEF Invs, EngineInv, TypeOK, MemoryType
<1>6. memtable # Empty => mu'.at = "flush_built"
  BY <1>5, Zenon DEF FlushBuild, LockType
<1> QED
  BY <1>3, <1>4, <1>6, Zenon DEF FlushBuild

\* A table is listed: a recovery finds what it found, or what the whole log holds.
LEMMA DurableListed ==
  ASSUME Invs, mode # "closed", mu.at # "drop_wal", mu'.at # "drop_wal", mu'.at # "open_done",
         UNCHANGED <<mode, memtable, flushing_memtable, has_flushing, logfiles, kv, allowed, lost>>,
         pending' = NothingPending,
         \A n \in wal_synced .. Len(wal), k \in Keys :
            \/ Recovers(FlushingLog \o SubSeq(wal, 1, n), k)'
                 = Recovers(FlushingLog \o SubSeq(wal, 1, n), k)
            \/ Recovers(FlushingLog \o SubSeq(wal, 1, n), k)' = Recovers(FlushingLog \o wal, k)
  PROVE  DurInv'
<1>1. FlushingLog' = FlushingLog /\ UNCHANGED <<wal, wal_synced, flushing_wal>>
  BY Zenon DEF FlushingLog, logfiles
<1>2. wal \in Seq(LogRecord) /\ wal_synced \in 0 .. Len(wal)
  BY LogTypes, Zenon DEF Invs
<1>3. Len(wal) \in wal_synced .. Len(wal) /\ SubSeq(wal, 1, Len(wal)) = wal
  BY <1>2, Prefixes
<1>4. \A k \in Keys : Recovers(FlushingLog \o wal, k)' = Recovers(FlushingLog \o wal, k)
  BY <1>1, <1>3, Zenon
<1>5. \A k \in Keys : Recovers(FlushingLog \o wal, k) \in allowed[k]
  BY <1>3, Zenon DEF Invs, DurInv, PrefixOK
<1>6. LogsOK'
  BY <1>1, Zenon DEF Invs, DurInv, LogsOK
<1>7. KilledOK'
  BY <1>1, <1>4, Zenon DEF Invs, DurInv, KilledOK
<1>8. PrefixOK'
  BY <1>1, <1>5 DEF Invs, DurInv, PrefixOK
<1>9. PendingOK' /\ SyncedOK'
  BY <1>1, Zenon DEF Invs, DurInv, PendingOK, SyncedOK, NothingPending
<1>10. ShownType'
  BY Zenon DEF Invs, DurInv, ShownType
<1> QED
  BY <1>6, <1>7, <1>8, <1>9, <1>10 DEF DurInv

\* What the memtable of flush_locked holds: the records of the logs.
LEMMA FlushedRecords ==
  ASSUME EngineInv, LogsOK, mode # "closed", ~has_flushing
  PROVE  memtable = Replay(FlushingLog \o wal) /\ (mode = "open" => FlushingLog = <<>>)
<1>1. CASE mode = "opening"
  BY <1>1, Zenon DEF LogsOK
<1>2. CASE mode = "open"
  <2>1. FlushingLog = <<>>
    BY <1>2, Zenon DEF LogsOK, FlushingLog
  <2>2. <<>> \o wal = wal
    BY LogTypes, Prefixes, Zenon
  <2> QED
    BY <1>2, <2>1, <2>2 DEF LogsOK
<1>3. mode \in {"closed", "opening", "open"}
  BY Zenon DEF EngineInv, TypeOK, MemoryType
<1> QED
  BY <1>1, <1>2, <1>3, Zenon

\* flush_locked lists the table.
LEMMA FlushCommitDurable ==
  ASSUME Invs, FlushCommit
  PROVE  DurInv'
<1>1. /\ mu.at = "flush_built" /\ mode # "closed" /\ pending' = NothingPending
      /\ sstables' = PushNewest(sstables, Table(mu.seq, mu.data))
      /\ UNCHANGED <<mode, memtable, flushing_memtable, has_flushing, logfiles, kv, allowed,
                     lost, current_gen, vfiles>>
  <2>1. mu.at = "flush_built"
    BY Zenon DEF FlushCommit
  <2>2. mode # "closed"
    BY <2>1, Present, Zenon DEF Invs, ViewInv
  <2> QED
    BY <2>1, <2>2, Zenon DEF FlushCommit, ghost
<1>2. mu.data \in Content /\ mu'.at = "flush_committed" /\ ~has_flushing
  BY <1>1, Zenon
  DEF Invs, FlushCommit, EngineInv, TypeOK, MemoryType, LockType, LockOK, SlotOK
<1>3. memtable \in MemContent /\ Written(vfiles, current_gen, mu.data, memtable)
  BY <1>1, Typed, Zenon DEF Types, Invs, ViewInv, BuiltOK
<1>4. /\ \A k \in Keys : memtable[k] # Absent => ValueOf(vfiles', Lookup(sstables', k)) = memtable[k]
      /\ \A k \in Keys : memtable[k] = Absent => Lookup(sstables', k) = Lookup(sstables, k)
  BY <1>1, <1>2, <1>3, PushWritten DEF Invs, ViewInv
<1>5. memtable = Replay(FlushingLog \o wal)
  BY <1>1, <1>2, FlushedRecords DEF Invs, DurInv
<1>6. ASSUME NEW k \in Keys
      PROVE  IF memtable[k] # Absent THEN Base(k)' = AsValue(memtable[k]) ELSE Base(k)' = Base(k)
  BY <1>1, <1>4, Zenon DEF Base, DiskTables
<1>8. FlushingLog' = FlushingLog /\ wal' = wal
  BY <1>1, <1>2, Zenon DEF FlushingLog, logfiles
<1>9. ASSUME NEW n \in wal_synced .. Len(wal), NEW k \in Keys
      PROVE  \/ Recovers(FlushingLog \o SubSeq(wal, 1, n), k)'
                  = Recovers(FlushingLog \o SubSeq(wal, 1, n), k)
             \/ Recovers(FlushingLog \o SubSeq(wal, 1, n), k)' = Recovers(FlushingLog \o wal, k)
  <2> DEFINE log == FlushingLog \o SubSeq(wal, 1, n)
  <2>1. log' = log
    BY <1>8, Zenon
  <2>2. Recovers(log, k)' = IF Replay(log)[k] # Absent THEN AsValue(Replay(log)[k]) ELSE Base(k)'
    BY <2>1, Zenon DEF Recovers
  <2>3. memtable[k] # Absent => Recovers(FlushingLog \o wal, k) = AsValue(memtable[k])
    BY <1>5, Zenon DEF Recovers
  <2> HIDE DEF log
  <2>4. Recovers(log, k)' \in {Recovers(log, k), Recovers(FlushingLog \o wal, k)}
    BY <1>6, <2>2, <2>3, Zenon DEF Recovers
  <2> QED
    BY <2>4, Zenon DEF log
<1> QED
  BY <1>1, <1>2, <1>9, DurableListed

\* flush_locked truncates wal.log: its records are in a table.
LEMMA FlushTruncateDurable ==
  ASSUME Invs, FlushTruncate
  PROVE  DurInv'
<1>1. /\ mu.at = "flush_committed" /\ mode # "closed" /\ mu' = AfterFlush(mu.by)
      /\ memtable' = Empty /\ wal' = <<>> /\ wal_synced' = 0
      /\ pending' = [op |-> "truncate", log |-> wal, synced |-> wal_synced]
      /\ allowed' = IF Open THEN Settled(kv) ELSE allowed
      /\ UNCHANGED <<mode, flushing_memtable, has_flushing, flushing_wal, kv, lost, sstables,
                     vfiles>>
  <2>1. mu.at = "flush_committed"
    BY Zenon DEF FlushTruncate
  <2>2. mode # "closed"
    BY <2>1, Present, Zenon DEF Invs, ViewInv
  <2> QED
    BY <2>1, <2>2, Zenon DEF FlushTruncate, tablefiles
<1>2. /\ ~has_flushing /\ mu.by \in {"flush", "gc", "open"}
      /\ mu.by = "open" <=> mode = "opening"
  BY <1>1, Zenon DEF Invs, EngineInv, LockOK, SlotOK
<1>3. memtable = Replay(FlushingLog \o wal) /\ (mode = "open" => FlushingLog = <<>>)
  BY <1>1, <1>2, FlushedRecords, Zenon DEF Invs, DurInv
<1>4. wal \in Seq(LogRecord) /\ wal_synced \in 0 .. Len(wal) /\ <<>> \o wal = wal
  BY LogTypes, Prefixes, Zenon DEF Invs
<1>5. \A k \in Keys : Base(k)' = Base(k)
  BY <1>1, BaseSame, Zenon
<1>6. ASSUME NEW k \in Keys, memtable[k] # Absent PROVE AsValue(memtable[k]) = Base(k)
  <2>1. ValueOf(vfiles, Lookup(sstables, k)) = memtable[k]
    BY <1>1, <1>6, Zenon DEF Invs, ViewInv, CommittedOK, Covered
  <2> QED
    BY <1>1, <2>1, Zenon DEF Base, DiskTables
<1>7. SyncModes \subseteq {TRUE} => wal_synced = Len(wal)
  BY Zenon DEF Invs, DurInv, SyncedOK
<1>8. Replay(<<>>) = Empty /\ Len(<<>>) = 0
  BY ReplayEmpty, Zenon
<1>9. CASE mode = "open"
  <2>1. LogsOK'
    <3>1. mu'.at \in {"free", "gc"}
      BY <1>1, <1>2, <1>9, Zenon DEF AfterFlush, Free
    <3> QED
      BY <1>1, <1>2, <1>8, <1>9, <3>1 DEF Invs, DurInv, LogsOK
  <2>2. flushing_wal = <<>> /\ memtable = Replay(wal)
    BY <1>2, <1>3, <1>4, <1>9 DEF Invs, DurInv, LogsOK
  <2>3. PendingOK'
    BY <1>1, <1>5, <1>6, <2>2 DEF PendingOK
  <2>4. kv' \in [Keys -> Values \cup {Absent}] /\ allowed' = Settled(kv)'
    BY <1>1, <1>9, Zenon DEF Open, Invs, DurInv, ShownType, Settled
  <2>5. pending'.synced = wal_synced /\ pending'.log = wal
    BY <1>1, Zenon
  <2> QED
    BY <1>1, <1>7, <1>8, <1>9, <2>1, <2>3, <2>4, <2>5, AllSynced
<1>10. CASE mode = "opening"
  <2>1. mu'.at = "drop_wal" /\ allowed' = allowed
    BY <1>1, <1>2, <1>10 DEF AfterFlush, Free, Open
  <2>2. FlushingLog' = <<>> /\ <<>> \o <<>> = <<>> /\ SubSeq(<<>>, 1, 0) = <<>>
    BY <2>1 DEF FlushingLog
  <2>3. ASSUME NEW k \in Keys PROVE Recovers(<<>>, k)' = Recovers(FlushingLog \o wal, k)
    <3>1. Recovers(FlushingLog \o wal, k) = Base(k)
      BY <1>3, <1>6, Zenon DEF Recovers
    <3>2. Recovers(<<>>, k)' = Base(k)'
      <4>1. Replay(<<>>)[k] = Absent
        BY <1>8, Zenon DEF Empty
      <4> QED
        BY <4>1, Zenon DEF Recovers
    <3> QED
      BY <1>5, <3>1, <3>2
  <2>4. LogsOK'
    BY <1>1, <1>8, <1>10, <2>1, <2>2 DEF LogsOK
  <2>5. KilledOK'
    <3>1. FlushingLog' \o wal' = <<>>
      BY <1>1, <2>2, Zenon
    <3> QED
      BY <1>1, <1>10, <2>1, <2>3, <3>1, Zenon DEF Invs, DurInv, KilledOK
  <2>6. PrefixOK'
    <3> SUFFICES ASSUME NEW n \in wal_synced' .. Len(wal'), NEW k \in Keys
                 PROVE  Recovers(FlushingLog \o SubSeq(wal, 1, n), k)' \in allowed'[k]
      BY Zenon DEF PrefixOK
    <3>1. n = 0
      BY <1>1, <1>8
    <3>2. (FlushingLog \o SubSeq(wal, 1, n))' = <<>>
      BY <1>1, <2>2, <3>1
    <3>3. SubSeq(wal, 1, Len(wal)) = wal /\ Len(wal) \in wal_synced .. Len(wal)
      BY <1>4, Prefixes
    <3>4. Recovers(FlushingLog \o wal, k) \in allowed[k]
      BY <3>3, Zenon DEF Invs, DurInv, PrefixOK
    <3>5. Recovers(FlushingLog \o SubSeq(wal, 1, n), k)' = Recovers(<<>>, k)'
      BY <3>2, Zenon DEF Recovers
    <3> QED
      BY <2>1, <2>3, <3>4, <3>5
  <2>7. PendingOK'
    BY <2>1, Zenon DEF PendingOK
  <2>8. SyncedOK'
    BY <1>1, <1>7, <1>8, Zenon DEF SyncedOK
  <2>9. ShownType'
    BY <1>1, <2>1, Zenon DEF Invs, DurInv, ShownType
  <2> QED
    BY <2>4, <2>5, <2>6, <2>7, <2>8, <2>9 DEF DurInv
<1>11. mode \in {"closed", "opening", "open"}
  BY Zenon DEF Invs, EngineInv, TypeOK, MemoryType
<1> QED
  BY <1>1, <1>9, <1>10, <1>11

\* The flusher takes the sealed memtable.
LEMMA FlusherTakeDurable ==
  ASSUME Invs, FlusherTake
  PROVE  DurInv'
<1>1. /\ mode = "open" /\ mu.at = "free"
      /\ UNCHANGED <<mode, mu, memtable, flushing_memtable, has_flushing, logfiles, kv, allowed,
                     lost, sstables, vfiles, pending>>
  BY Zenon DEF FlusherTake, LockFree, memory, tablefiles, ghost
<1>2. \A k \in Keys : Base(k)' = Base(k)
  BY <1>1, BaseSame, Zenon
<1> QED
  BY <1>1, <1>2, DurableQuiet, Zenon

\* The flusher builds a table.
LEMMA FlusherBuildDurable ==
  ASSUME Invs, FlusherBuild
  PROVE  DurInv'
<1>1. /\ mode = "open" /\ flusher.pc = "taken" /\ pending' = NothingPending
      /\ UNCHANGED <<mode, mu, memtable, flushing_memtable, has_flushing, logfiles, kv, allowed,
                     lost, sstables, current_gen>>
  BY Zenon DEF FlusherBuild, Open, memory, ghost
<1>2. /\ flusher.gen = current_gen /\ flusher.data = flushing_memtable
      /\ flushing_memtable \in MemContent /\ current_gen \in DOMAIN vfiles
  BY <1>1, Typed DEF Invs, EngineInv, SlotOK, Types
<1>3. vfiles' = [vfiles EXCEPT ![current_gen] = AppendSynced(vfiles[current_gen], flushing_memtable)]
  BY <1>2, Zenon DEF FlusherBuild
<1>4. FileKept(vfiles, vfiles', current_gen)
  BY <1>1, <1>2, <1>3, AppendStep DEF Invs
<1>5. \A k \in Keys : Base(k)' = Base(k)
  BY <1>1, <1>4, BaseKept
<1>6. mu.at # "drop_wal"
  BY <1>1, FlushingLogIs, Zenon DEF Invs
<1> QED
  BY <1>1, <1>5, <1>6, DurableQuiet

\* The flusher lists its table.
LEMMA FlusherCommitDurable ==
  ASSUME Invs, FlusherCommit
  PROVE  DurInv'
<1>1. /\ mu.at = "free" /\ mode = "open" /\ flusher.pc = "built" /\ pending' = NothingPending
      /\ sstables' = PushNewest(sstables, Table(flusher.seq, flusher.data))
      /\ UNCHANGED <<mode, memtable, flushing_memtable, has_flushing, logfiles, kv, allowed,
                     lost, current_gen, vfiles>>
  BY Zenon DEF FlusherCommit, LockFree, ghost
<1>2. flusher.data \in Content /\ mu'.at = "flusher_committed" /\ has_flushing
  BY <1>1, Zenon DEF FlusherCommit, Free, Invs, EngineInv, TypeOK, ThreadsType, SlotOK
<1>3. /\ flushing_memtable \in MemContent
      /\ Written(vfiles, current_gen, flusher.data, flushing_memtable)
  BY <1>1, Typed, Zenon DEF Types, Invs, ViewInv, BuiltOK
<1> DEFINE m == flushing_memtable
<1>4. /\ \A k \in Keys : m[k] # Absent => ValueOf(vfiles', Lookup(sstables', k)) = m[k]
      /\ \A k \in Keys : m[k] = Absent => Lookup(sstables', k) = Lookup(sstables, k)
  BY <1>1, <1>2, <1>3, PushWritten DEF Invs, ViewInv
<1>5. ASSUME NEW k \in Keys, m[k] = Absent PROVE Base(k)' = Base(k)
  BY <1>1, <1>4, <1>5, Zenon DEF Base, DiskTables
<1>6. FlushingLog' = FlushingLog /\ wal' = wal /\ FlushingLog = flushing_wal
  BY <1>1, <1>2, Zenon DEF FlushingLog, logfiles
<1>7. m = Replay(flushing_wal)
  BY <1>1, <1>2, Zenon DEF Invs, DurInv, LogsOK
<1>8. wal \in Seq(LogRecord) /\ flushing_wal \in Seq(LogRecord) /\ wal_synced \in Nat
  BY LogTypes DEF Invs
<1>9. ASSUME NEW n \in wal_synced .. Len(wal), NEW k \in Keys
      PROVE  Recovers(FlushingLog \o SubSeq(wal, 1, n), k)'
               = Recovers(FlushingLog \o SubSeq(wal, 1, n), k)
  <2> DEFINE p == SubSeq(wal, 1, n)
             log == flushing_wal \o p
  <2>1. p \in Seq(LogRecord)
    BY <1>8
  <2>2. (FlushingLog \o SubSeq(wal, 1, n))' = log /\ FlushingLog \o SubSeq(wal, 1, n) = log
    BY <1>6, Zenon
  <2> HIDE DEF p
  <2>3. Replay(log)[k] = IF Replay(p)[k] # Absent THEN Replay(p)[k] ELSE m[k]
    BY <1>7, <1>8, <2>1, ReplayConcat
  <2> HIDE DEF log
  <2>4. Recovers(FlushingLog \o SubSeq(wal, 1, n), k)'
          = IF Replay(log)[k] # Absent THEN AsValue(Replay(log)[k]) ELSE Base(k)'
    BY <2>2, Zenon DEF Recovers
  <2>5. Recovers(FlushingLog \o SubSeq(wal, 1, n), k)
          = IF Replay(log)[k] # Absent THEN AsValue(Replay(log)[k]) ELSE Base(k)
    BY <2>2, Zenon DEF Recovers
  <2> QED
    BY <1>5, <2>3, <2>4, <2>5
<1> QED
  BY <1>1, <1>2, <1>9, DurableListed

\* The flusher removes wal-flushing.log: its records are in a table.
LEMMA FlusherFinishDurable ==
  ASSUME Invs, FlusherFinish
  PROVE  DurInv'
<1>1. /\ mu.at = "flusher_committed" /\ mode = "open" /\ has_flushing
      /\ has_flushing' = FALSE /\ mu' = Free /\ flushing_wal' = <<>>
      /\ pending' = [op |-> "remove", log |-> flushing_wal, synced |-> 0]
      /\ UNCHANGED <<mode, memtable, wal, wal_synced, kv, allowed, lost, sstables, current_gen,
                     vlogs, jobs, rd>>
  <2>1. mu.at = "flusher_committed"
    BY Zenon DEF FlusherFinish
  <2>2. flusher.pc = "built"
    BY <2>1, Zenon DEF Invs, EngineInv, LockOK
  <2>3. mode = "open" /\ has_flushing
    BY <2>2, Zenon DEF Invs, EngineInv, SlotOK
  <2> QED
    BY <2>1, <2>3 DEF FlusherFinish, ghost
<1>2. Unlink(obsolete, obsolete_gens, sstables, vlogs', flusher', jobs', rd', locals')
  BY <1>1, Zenon DEF FlusherFinish
<1>3. current_gen \in vlogs'
  BY <1>1, Typed DEF Types, Invs
<1>4. FileKept(vfiles, vfiles', current_gen)
  BY <1>1, <1>2, <1>3, UnlinkLogs DEF Invs, ViewInv
<1>5. \A k \in Keys : Base(k)' = Base(k)
  BY <1>1, <1>4, BaseKept
<1>6. flushing_memtable = Replay(flushing_wal)
  BY <1>1, Zenon DEF Invs, DurInv, LogsOK
<1>7. ASSUME NEW k \in Keys, Replay(flushing_wal)[k] # Absent
      PROVE  AsValue(Replay(flushing_wal)[k]) = Base(k)
  <2>1. ValueOf(vfiles, Lookup(sstables, k)) = flushing_memtable[k]
    BY <1>1, <1>6, <1>7 DEF Invs, ViewInv, CommittedOK, Covered
  <2> QED
    BY <1>1, <1>6, <2>1 DEF Base, DiskTables
<1>8. mu'.at = "free" /\ FlushingLog' = <<>> /\ FlushingLog = flushing_wal
  BY <1>1, Zenon DEF Free, FlushingLog
<1>9. /\ wal \in Seq(LogRecord) /\ flushing_wal \in Seq(LogRecord) /\ wal_synced \in Nat
  BY LogTypes DEF Invs
<1>10. LogsOK'
  BY <1>1, <1>8, Zenon DEF Invs, DurInv, LogsOK
<1>11. KilledOK'
  BY <1>1, Zenon DEF KilledOK
<1>12. PrefixOK'
  <2> SUFFICES ASSUME NEW n \in wal_synced .. Len(wal), NEW k \in Keys
               PROVE  Recovers(FlushingLog \o SubSeq(wal, 1, n), k)' \in allowed[k]
    BY <1>1, Zenon DEF PrefixOK
  <2> DEFINE p == SubSeq(wal, 1, n)
  <2>1. p \in Seq(LogRecord)
    BY <1>9
  <2>2. <<>> \o p = p
    BY <2>1, Prefixes, Zenon
  <2>3. (FlushingLog \o SubSeq(wal, 1, n))' = p
    BY <1>1, <1>8, <2>2
  <2>4. Recovers(flushing_wal \o p, k) \in allowed[k]
    BY <1>8, Zenon DEF Invs, DurInv, PrefixOK
  <2> HIDE DEF p
  <2>5. Recovers(flushing_wal \o p, k) =
          IF Replay(p)[k] # Absent THEN AsValue(Replay(p)[k]) ELSE Recovers(flushing_wal, k)
    BY <1>9, <2>1, RecoversConcat
  <2>6. Recovers(flushing_wal, k) = Base(k)
    BY <1>7, Zenon DEF Recovers
  <2>7. Recovers(FlushingLog \o SubSeq(wal, 1, n), k)'
          = IF Replay(p)[k] # Absent THEN AsValue(Replay(p)[k]) ELSE Base(k)
    BY <1>5, <2>3, Zenon DEF Recovers
  <2> QED
    BY <2>4, <2>5, <2>6, <2>7
<1>13. PendingOK'
  BY <1>1, <1>5, <1>7, Zenon DEF PendingOK
<1>14. SyncedOK' /\ ShownType'
  BY <1>1, Zenon DEF Invs, DurInv, SyncedOK, ShownType
<1> QED
  BY <1>10, <1>11, <1>12, <1>13, <1>14 DEF DurInv

-----------------------------------------------------------------------------
\* A recovery finds the tables that are listed.
LEMMA RecoveredIs ==
  ASSUME EngineInv, ViewInv, mode # "closed"
  PROVE  Recovered.tables = sstables
<1>1. sstables = [s \in DOMAIN sstables |-> sstables[s]]
  BY Typed, Zenon DEF Types
<1>2. \A s \in DOMAIN sstables : /\ sstables[s] \in [id : Nat, data : Content]
                                 /\ sstables[s].id \in DOMAIN ssts
                                 /\ ssts[sstables[s].id] = sstables[s].data
  BY Zenon DEF EngineInv, TypeOK, MemoryType, IsTables, FilesOK
<1>3. CASE manifest.present
  <2>1. manifest.tables = [s \in DOMAIN sstables |-> sstables[s].id]
    BY <1>3, Zenon DEF EngineInv, CommitOK
  <2>2. Recovered.tables = [s \in DOMAIN sstables |->
                              Table(manifest.tables[s], ssts[manifest.tables[s]])]
    BY <1>3, <2>1, Zenon DEF Recovered, LoadManifest
  <2>3. \A s \in DOMAIN sstables : Table(manifest.tables[s], ssts[manifest.tables[s]]) = sstables[s]
    BY <1>2, <2>1, Zenon DEF Table
  <2> QED
    BY <1>1, <2>2, <2>3
<1>4. CASE ~manifest.present
  <2>1. DOMAIN ssts = {}
    BY <1>4, Zenon DEF ViewInv, FirstOK
  <2>2. DOMAIN sstables = {}
    BY <1>2, <2>1, Zenon
  <2>3. Recovered.tables = [s \in DOMAIN ssts |-> Table(s, ssts[s])]
    BY <1>4, Zenon DEF Recovered, LoadDirectory
  <2> QED
    BY <1>1, <2>1, <2>2, <2>3
<1> QED
  BY <1>3, <1>4, Zenon

\* The tables on disk point to values on disk.
LEMMA DiskPoints ==
  ASSUME EngineInv, ViewInv, NEW k \in Keys, Lookup(DiskTables, k) \in Ptr
  PROVE  /\ OnDisk(vfiles, Lookup(DiskTables, k))
         /\ mode = "closed" => Lookup(DiskTables, k).gen = Recovered.gen
<1>1. CASE mode # "closed"
  BY <1>1, LookupPoints, Zenon DEF DiskTables, ViewInv
<1>2. CASE mode = "closed"
  <2> DEFINE db == Recovered
  <2>1. /\ IsTables(db.tables) /\ Bounded(DOMAIN db.tables)
        /\ \A s \in DOMAIN db.tables : /\ db.tables[s].id \in DOMAIN ssts
                                       /\ ssts[db.tables[s].id] = db.tables[s].data
        /\ manifest.present => /\ manifest.tables = [s \in DOMAIN db.tables |-> db.tables[s].id]
                               /\ manifest.gen = db.gen
    BY RecoveredTables, Zenon
  <2>2. DiskTables = db.tables
    BY <1>2, Zenon DEF DiskTables
  <2> HIDE DEF db
  <2>3. IsList(db.tables)
    BY <2>1, Zenon DEF IsTables, IsList
  <2>4. Absent \notin Ptr
    BY TablesAssumption, Zenon DEF MemCell
  <2>5. manifest.present
    <3> SUFFICES ASSUME ~manifest.present PROVE FALSE
      BY Zenon
    <3>1. DOMAIN db.tables = {}
      BY <2>1, Zenon DEF ViewInv, FirstOK
    <3>2. Lookup(db.tables, k) = Absent
      BY <3>1, LookupNone, Zenon
    <3> QED
      BY <2>2, <2>4, <3>2, Zenon
  <2>6. ASSUME NEW s \in DOMAIN db.tables PROVE PointsInto(vfiles, db.gen, db.tables[s].data)
    <3>1. s \in DOMAIN manifest.tables /\ manifest.tables[s] = db.tables[s].id
      BY <2>1, <2>5, Zenon
    <3>2. PointsInto(vfiles, manifest.gen, ssts[manifest.tables[s]])
      BY <1>2, <2>5, <3>1, Zenon DEF ViewInv, TablesPoint
    <3> QED
      BY <2>1, <2>5, <3>1, <3>2
  <2>7. /\ Lookup(db.tables, k).gen = db.gen
        /\ OnDisk(vfiles, Lookup(db.tables, k))
    BY <2>2, <2>3, <2>6, MergePoints
  <2> QED
    BY <2>2, <2>7, Zenon DEF db
<1> QED
  BY <1>1, <1>2

\* The end of the process leaves what the tables show.
LEMMA BaseSurvives ==
  ASSUME Invs, MemoryLost, UNCHANGED <<manifest, ssts>>,
         \A g \in DOMAIN vfiles : FileKept(vfiles, vfiles', g)
  PROVE  \A k \in Keys : Base(k)' = Base(k)
<1>1. mode' = "closed"
  BY Zenon DEF MemoryLost
<1>2. Recovered'.tables = Recovered.tables
  BY Zenon DEF Recovered, LoadManifest, LoadDirectory
<1>3. DiskTables' = DiskTables
  <2>1. CASE mode = "closed"
    BY <1>1, <1>2, <2>1 DEF DiskTables
  <2>2. CASE mode # "closed"
    BY <1>1, <1>2, <2>2, RecoveredIs DEF DiskTables, Invs
  <2> QED
    BY <2>1, <2>2, Zenon
<1>4. /\ \A g \in DOMAIN vfiles : IsValueLog(vfiles[g])
      /\ \A g \in DOMAIN vfiles' : IsValueLog(vfiles'[g])
  <2>1. Types /\ Types'
    BY Typed, PTL DEF Invs
  <2> QED
    BY <2>1, Zenon DEF Types
<1>5. ASSUME NEW k \in Keys
      PROVE  ValueOf(vfiles', Lookup(DiskTables, k)) = ValueOf(vfiles, Lookup(DiskTables, k))
  <2> DEFINE c == Lookup(DiskTables, k)
  <2>1. c \in Ptr => OnDisk(vfiles, c)
    BY DiskPoints, Zenon DEF Invs
  <2> HIDE DEF c
  <2>2. c \in Ptr => OnDisk(vfiles, c) /\ FileKept(vfiles, vfiles', c.gen)
    BY <2>1, Zenon DEF OnDisk
  <2> QED
    BY <1>4, <2>2, OnDiskKept DEF c
<1> QED
  BY <1>3, <1>5, Zenon DEF Base

\* The process ends; what the kernel was given stays.
LEMMA ExitDurable ==
  ASSUME CrashesHandled, Invs, Exit
  PROVE  DurInv'
<1>1. /\ MemoryLost /\ UNCHANGED <<logfiles, pending, tablefiles, kv, allowed, lost>>
      /\ mu.at \in CrashAt /\ mode # "closed"
  BY Zenon DEF Exit, MayCrash
<1>2. mu.at # "drop_wal" /\ mu'.at = "free" /\ mode' = "closed"
  BY <1>1, Zenon DEF CrashesHandled, MemoryLost, Free
<1>3. FlushingLog' = flushing_wal /\ FlushingLog = flushing_wal
  BY <1>1, <1>2, Zenon DEF FlushingLog, logfiles
<1>4. \A g \in DOMAIN vfiles : FileKept(vfiles, vfiles', g)
  <2>1. \A g \in DOMAIN vfiles : IsValueLog(vfiles[g])
    BY Typed, Zenon DEF Types, Invs
  <2> QED
    BY <1>1, <2>1, SameFile DEF tablefiles
<1>5. \A k \in Keys : Base(k)' = Base(k)
  BY <1>1, <1>4, BaseSurvives, Zenon DEF tablefiles
<1>6. \A log : \A k \in Keys : Recovers(log, k)' = Recovers(log, k)
  BY <1>5, Zenon DEF Recovers
<1>7. LogsOK'
  BY <1>2, Zenon DEF LogsOK
<1>8. KilledOK'
  <2>1. ASSUME NEW k \in Keys
        PROVE  Recovers(FlushingLog \o wal, k) \in IF lost THEN allowed[k] ELSE {kv[k]}
    <3>1. CASE mode = "open"
      BY <3>1, OpenRecovers, Zenon DEF Invs, DurInv, LogsOK
    <3>2. CASE mode # "open"
      BY <3>2, Zenon DEF Invs, DurInv, KilledOK
    <3> QED
      BY <3>1, <3>2, Zenon
  <2> QED
    BY <1>1, <1>3, <1>6, <2>1, Zenon DEF KilledOK, logfiles
<1>9. PrefixOK'
  BY <1>1, <1>3, <1>6, Zenon DEF Invs, DurInv, PrefixOK, logfiles
<1>10. PendingOK'
  BY <1>1, <1>2, <1>5, Zenon DEF Invs, DurInv, PendingOK, logfiles
<1>11. SyncedOK' /\ ShownType'
  BY <1>1, Zenon DEF Invs, DurInv, SyncedOK, ShownType, logfiles
<1> QED
  BY <1>7, <1>8, <1>9, <1>10, <1>11 DEF DurInv

\* The machine stops: a prefix of wal.log is left, and the last unsynced
\* operation on the directory may be undone.
LEMMA PowerLossDurable ==
  ASSUME CrashesHandled, Invs, PowerLoss
  PROVE  DurInv'
<1>1. /\ MemoryLost /\ UNCHANGED <<manifest, ssts, kv, allowed>> /\ lost' = TRUE
      /\ pending' = NothingPending /\ mu.at \in CrashAt
  BY Zenon DEF PowerLoss, MayCrash
<1>2. mu.at # "drop_wal" /\ mu'.at = "free" /\ mode' = "closed" /\ pending'.op = "none"
  BY <1>1, Zenon DEF CrashesHandled, MemoryLost, Free, NothingPending
<1>3. FlushingLog' = flushing_wal' /\ FlushingLog = flushing_wal
  BY <1>2, Zenon DEF FlushingLog
<1>4. \A k \in Keys : Base(k)' = Base(k)
  BY <1>1, PowerLossKeeps, BaseSurvives, Zenon DEF Invs
<1>5. /\ wal \in Seq(LogRecord) /\ wal_synced \in 0 .. Len(wal)
      /\ flushing_wal \in Seq(LogRecord)
      /\ pending.log \in Seq(LogRecord) /\ pending.synced \in 0 .. Len(pending.log)
  BY LogTypes, Zenon DEF Invs
<1>7. ASSUME NEW n \in wal_synced .. Len(wal), NEW k \in Keys
      PROVE  IF Replay(SubSeq(wal, 1, n))[k] # Absent
             THEN AsValue(Replay(SubSeq(wal, 1, n))[k]) \in allowed[k]
             ELSE Recovers(flushing_wal, k) \in allowed[k]
  <2> DEFINE p == SubSeq(wal, 1, n)
  <2>1. p \in Seq(LogRecord)
    BY <1>5
  <2>2. Recovers(flushing_wal \o p, k) \in allowed[k]
    BY <1>3, Zenon DEF Invs, DurInv, PrefixOK
  <2> HIDE DEF p
  <2>3. Recovers(flushing_wal \o p, k) =
          IF Replay(p)[k] # Absent THEN AsValue(Replay(p)[k]) ELSE Recovers(flushing_wal, k)
    BY <1>5, <2>1, RecoversConcat
  <2>4. IF Replay(p)[k] # Absent THEN AsValue(Replay(p)[k]) \in allowed[k]
        ELSE Recovers(flushing_wal, k) \in allowed[k]
    BY <2>2, <2>3, Zenon
  <2> QED
    BY <2>4, Zenon DEF p
<1>8. ASSUME pending.op # "none", NEW k \in Keys
      PROVE  flushing_wal = <<>> /\ Recovers(pending.log, k) = Recovers(flushing_wal, k)
  <2>1. /\ flushing_wal = <<>>
        /\ Replay(pending.log)[k] # Absent => AsValue(Replay(pending.log)[k]) = Base(k)
    BY <1>2, <1>8, Zenon DEF Invs, DurInv, PendingOK
  <2>2. Recovers(flushing_wal, k) = Base(k)
    BY <2>1, RecoversNothing, Zenon
  <2> QED
    BY <2>1, <2>2, Zenon DEF Recovers
<1>9. /\ wal' \in Seq(LogRecord) /\ wal_synced' = Len(wal') /\ flushing_wal' \in Seq(LogRecord)
      /\ \A k \in Keys : IF Replay(wal')[k] # Absent THEN AsValue(Replay(wal')[k]) \in allowed[k]
                         ELSE Recovers(flushing_wal', k) \in allowed[k]
  <2>1. PICK undo \in BOOLEAN :
          LET untruncate == undo /\ pending.op = "truncate"
              log  == IF untruncate THEN pending.log ELSE wal
              kept == IF untruncate THEN pending.synced ELSE wal_synced
          IN  /\ undo => pending.op \in LostOps
              /\ \E n \in kept .. Len(log) : wal' = SubSeq(log, 1, n) /\ wal_synced' = n
              /\ flushing_wal' = IF undo /\ pending.op = "remove" THEN pending.log
                                 ELSE flushing_wal
    BY Zenon DEF PowerLoss
  <2>2. CASE undo /\ pending.op = "truncate"
    <3>1. SyncModes \subseteq {TRUE}
      BY <2>1, <2>2, Zenon DEF CrashesHandled
    <3>2. pending.synced = Len(pending.log) /\ wal_synced = 0
      BY <1>2, <2>2, <3>1 DEF Invs, DurInv, SyncedOK, PendingOK
    <3>3. PICK n \in pending.synced .. Len(pending.log) :
            wal' = SubSeq(pending.log, 1, n) /\ wal_synced' = n
      BY <2>1, <2>2, Zenon
    <3>4. n = Len(pending.log)
      BY <1>5, <3>2
    <3>5. wal' = pending.log
      BY <1>5, <3>3, <3>4, Prefixes
    <3>6. flushing_wal' = flushing_wal
      BY <2>1, <2>2, Zenon
    <3>7. ASSUME NEW k \in Keys PROVE Recovers(flushing_wal, k) \in allowed[k]
      <4>1. 0 \in wal_synced .. Len(wal) /\ SubSeq(wal, 1, 0) = <<>>
        BY <1>5, <3>2, Prefixes
      <4>2. Replay(<<>>)[k] = Absent
        BY ReplayEmpty, Zenon DEF Empty
      <4> QED
        BY <1>7, <4>1, <4>2
    <3>8. ASSUME NEW k \in Keys, Replay(pending.log)[k] # Absent
          PROVE  AsValue(Replay(pending.log)[k]) \in allowed[k]
      <4>1. Recovers(pending.log, k) = AsValue(Replay(pending.log)[k])
        BY <3>8, Zenon DEF Recovers
      <4>2. Recovers(pending.log, k) = Recovers(flushing_wal, k)
        BY <1>8, <2>2, Zenon
      <4> QED
        BY <3>7, <4>1, <4>2
    <3> QED
      BY <1>5, <3>3, <3>4, <3>5, <3>6, <3>7, <3>8
  <2>3. CASE ~(undo /\ pending.op = "truncate")
    <3>1. PICK n \in wal_synced .. Len(wal) : wal' = SubSeq(wal, 1, n) /\ wal_synced' = n
      BY <2>1, <2>3, Zenon
    <3>2. wal' \in Seq(LogRecord) /\ wal_synced' = Len(wal')
      BY <1>5, <3>1
    <3>3. \/ flushing_wal' = flushing_wal
          \/ flushing_wal' = pending.log /\ pending.op # "none"
      BY <2>1, Zenon
    <3>4. \A k \in Keys : Recovers(flushing_wal', k) = Recovers(flushing_wal, k)
      BY <1>8, <3>3, Zenon
    <3> QED
      BY <1>5, <1>7, <3>1, <3>2, <3>3, <3>4
  <2> QED
    BY <2>2, <2>3, Zenon
<1>10. ASSUME NEW k \in Keys PROVE Recovers(FlushingLog \o wal, k)' \in allowed'[k]
  <2> DEFINE a == flushing_wal'
             b == wal'
  <2>1. (FlushingLog \o wal)' = a \o b
    BY <1>3, Zenon
  <2>2. Recovers(FlushingLog \o wal, k)' = Recovers(a \o b, k)
    BY <1>4, <2>1, Zenon DEF Recovers
  <2>3. a \in Seq(LogRecord) /\ b \in Seq(LogRecord)
    BY <1>9, Zenon
  <2>4. IF Replay(b)[k] # Absent THEN AsValue(Replay(b)[k]) \in allowed[k]
        ELSE Recovers(a, k) \in allowed[k]
    BY <1>9, Zenon
  <2> HIDE DEF a, b
  <2>5. Recovers(a \o b, k) = IF Replay(b)[k] # Absent THEN AsValue(Replay(b)[k])
                              ELSE Recovers(a, k)
    BY <2>3, RecoversConcat, Zenon
  <2> QED
    BY <1>1, <2>2, <2>4, <2>5
<1>11. LogsOK' /\ PendingOK'
  BY <1>2, Zenon DEF LogsOK, PendingOK
<1>12. KilledOK'
  BY <1>1, <1>10, Zenon DEF KilledOK
<1>13. PrefixOK'
  <2> SUFFICES ASSUME NEW n \in wal_synced' .. Len(wal'), NEW k \in Keys
               PROVE  Recovers(FlushingLog \o SubSeq(wal, 1, n), k)' \in allowed'[k]
    BY Zenon DEF PrefixOK
  <2>1. n = Len(wal') /\ SubSeq(wal', 1, Len(wal')) = wal'
    <3>1. wal' \in Seq(LogRecord) /\ wal_synced' = Len(wal')
      BY <1>9, Zenon
    <3>2. n = Len(wal')
      BY <3>1
    <3>3. SubSeq(wal', 1, Len(wal')) = wal'
      BY <3>1
    <3> QED
      BY <3>2, <3>3, Zenon
  <2>2. (FlushingLog \o SubSeq(wal, 1, n))' = (FlushingLog \o wal)'
    BY <2>1, Zenon
  <2>3. Recovers(FlushingLog \o SubSeq(wal, 1, n), k)' = Recovers(FlushingLog \o wal, k)'
    BY <2>2, Zenon DEF Recovers
  <2> QED
    BY <1>10, <2>3, Zenon
<1>14. SyncedOK' /\ ShownType'
  BY <1>1, <1>2, <1>9, Zenon DEF Invs, DurInv, SyncedOK, ShownType
<1> QED
  BY <1>11, <1>12, <1>13, <1>14 DEF DurInv
=============================================================================
