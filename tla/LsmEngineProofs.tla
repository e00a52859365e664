-------------------------- MODULE LsmEngineProofs ---------------------------
(***************************************************************************)
(* The calls of clients that write and read, the flushes, opening and the  *)
(* end of the process preserve EngineInv.                                  *)
(* Every step preserves GenLeakInv, about the value-log files that a       *)
(* collection leaves behind.                                               *)
(***************************************************************************)
EXTENDS LsmDB, LsmStateProofs

\* sync preserves the invariant.
LEMMA SyncInv ==
  ASSUME EngineInv, Sync
  PROVE  EngineInv'
<1>1. MemoryType' /\ ThreadsType'
  BY Zenon DEF EngineInv, TypeOK, MemoryType, ThreadsType, Sync, memory, IsTables
<1>2. LogsType' /\ FilesType' /\ GhostType'
  BY NothingIsPending DEF EngineInv, TypeOK, LogsType, FilesType, GhostType, Sync, tablefiles, NothingPending, Settled, Content
<1>3. LockOK' /\ SlotOK' /\ GensOK' /\ BoundsOK'
  BY Zenon DEF EngineInv, LockOK, SlotOK, GensOK, BoundsOK, Sync, memory, tablefiles
<1>4. FilesOK' /\ FreshOK' /\ CommitOK' /\ HeldOK'
  BY Zenon DEF EngineInv, FilesOK, FreshOK, CommitOK, HeldOK, Sync, memory, tablefiles
<1>5. IdsOK'
  <2>1. Listed' = Listed /\ Old' = Old
    BY Zenon DEF Listed, Old, Sync, memory
  <2> QED
    BY <2>1, Zenon DEF EngineInv, IdsOK, Sync, memory
<1> QED
  BY <1>1, <1>2, <1>3, <1>4, <1>5, Zenon DEF EngineInv, TypeOK

\* Sealing, or not, leaves everything but the slot and the logs alone.
LEMMA SealKeeps ==
  ASSUME EngineInv, LockFree,
         UNCHANGED <<mode, mu, sstables, vlogs, current_gen, compacting, obsolete, obsolete_gens,
                     flusher, jobs, rd, locals, tablefiles>>,
         \/ UNCHANGED <<has_flushing, flushing_seq, next_seq, flushing_memtable>>
         \/ /\ ~has_flushing /\ has_flushing' = TRUE
            /\ flushing_seq' = next_seq /\ next_seq' = next_seq + 1
  PROVE  /\ LockOK' /\ SlotOK' /\ GensOK' /\ BoundsOK'
         /\ IdsOK' /\ FilesOK' /\ FreshOK' /\ CommitOK' /\ HeldOK'
<1>1. LockOK' /\ SlotOK' /\ GensOK' /\ BoundsOK'
  BY Zenon DEF EngineInv, LockOK, SlotOK, GensOK, BoundsOK, LockFree, tablefiles
<1>2. next_seq \in Nat /\ flushing_seq \in Nat /\ \A j \in Compactors : jobs[j].seq \in Nat
  BY Zenon DEF EngineInv, TypeOK, MemoryType, ThreadsType, IsJob
<1>3. Listed' = Listed /\ Old' = Old
  BY Zenon DEF Listed, Old
<1>4. IdsOK'
  <2>1. \A i \in Listed : i < next_seq /\ i \in Nat
    BY ListedNat, Zenon
  <2>2. \A j \in Compactors : jobs[j].pc # "idle" => jobs[j].seq < next_seq
    BY Zenon DEF EngineInv, IdsOK
  <2>3. CASE UNCHANGED <<has_flushing, flushing_seq, next_seq>>
    BY <1>3, <2>3, Zenon DEF EngineInv, IdsOK
  <2>4. CASE has_flushing' = TRUE /\ flushing_seq' = next_seq /\ next_seq' = next_seq + 1
    <3>1. next_seq \notin Listed /\ next_seq \notin Old
      BY <1>2, <2>1, ListedNat
    <3>2. \A i \in Listed : i < next_seq'
      BY <1>2, <2>1, <2>4
    <3>3. \A j \in Compactors : jobs[j].pc # "idle" =>
            jobs[j].seq < next_seq' /\ jobs[j].seq # flushing_seq'
      BY <1>2, <2>2, <2>4
    <3>4. flushing_seq' < next_seq' /\ mu'.at = "free"
      BY <1>2, <2>4 DEF LockFree
    <3> QED
      BY <1>3, <2>4, <3>1, <3>2, <3>3, <3>4, Zenon DEF EngineInv, IdsOK
  <2> QED
    BY <2>3, <2>4, Zenon
<1>5. FilesOK' /\ CommitOK' /\ HeldOK'
  BY <1>2 DEF EngineInv, TypeOK, FilesType, IsManifest, FilesOK, CommitOK, HeldOK, LockFree, tablefiles
<1>6. FreshOK'
  BY <1>2 DEF EngineInv, TypeOK, FilesType, FreshOK, SlotOK, LockFree, tablefiles
<1> QED
  BY <1>1, <1>4, <1>5, <1>6, Zenon

\* put and del preserve the invariant, whether they seal, block or return.
LEMMA WriteRecordInv ==
  ASSUME EngineInv, NEW c \in Clients, NEW k \in Keys,
         NEW cell \in Values \cup {Tomb}, NEW sync \in BOOLEAN,
         WriteRecord(c, k, cell, sync)
  PROVE  EngineInv'
<1> DEFINE m == MemPut(memtable, k, cell)
           log == Append(wal, [key |-> k, cell |-> cell])
           Seals == SealMayRun /\ SealLocked(m, log) /\ allowed' = Settled(kv') /\ waiting' = waiting
           Keeps == /\ memtable' = m /\ wal' = log
                    /\ wal_synced' \in {Len(log), wal_synced}
                    /\ pending' \in {NothingPending, pending}
                    /\ allowed' \in {Settled(kv'), [allowed EXCEPT ![k] = @ \cup {AsValue(cell)}]}
                    /\ waiting' \in {waiting, waiting \cup {c}}
                    /\ UNCHANGED <<flushing_wal, flushing_seq, next_seq, flushing_memtable, has_flushing>>
<1>0. Seals \/ Keeps
  BY Zenon DEF WriteRecord
<1>1. /\ LockFree
      /\ kv' = [kv EXCEPT ![k] = AsValue(cell)] /\ writes' = writes + 1
      /\ UNCHANGED <<mode, mu, sstables, vlogs, current_gen, compacting, obsolete, obsolete_gens,
                     flusher, jobs, rd, locals, tablefiles, crashes, lost>>
  BY Zenon DEF WriteRecord
<1> HIDE DEF m, log
<1>2. MemoryType' /\ ThreadsType'
  <2>1. Empty \in MemContent
    BY Zenon DEF Empty, MemContent, MemCell
  <2>2. m \in MemContent
    BY Zenon DEF m, EngineInv, TypeOK, MemoryType, MemPut, MemContent, MemCell
  <2>3. memtable' \in MemContent /\ flushing_memtable' \in MemContent
    BY <1>0, <2>1, <2>2, Zenon DEF EngineInv, TypeOK, MemoryType, SealLocked
  <2>4. flushing_seq' \in Nat /\ next_seq' \in Nat
    BY <1>0 DEF EngineInv, TypeOK, MemoryType, SealLocked
  <2>5. waiting' \subseteq Clients
    BY <1>0, Zenon DEF EngineInv, TypeOK, ThreadsType
  <2>6. has_flushing' \in BOOLEAN
    BY <1>0, Zenon DEF EngineInv, TypeOK, MemoryType, SealLocked
  <2> QED
    BY <1>1, <2>3, <2>4, <2>5, <2>6, Zenon
    DEF EngineInv, TypeOK, MemoryType, ThreadsType, IsTables
<1>3. LogsType'
  <2>1. [key |-> k, cell |-> cell] \in LogRecord
    BY Zenon DEF LogRecord
  <2>2. /\ log \in Seq(LogRecord) /\ Len(log) = Len(wal) + 1
    BY <2>1 DEF log, EngineInv, TypeOK, LogsType
  <2>4. <<>> \in Seq(LogRecord) /\ Len(<<>>) = 0
    OBVIOUS
  <2>5. /\ wal' \in Seq(LogRecord) /\ flushing_wal' \in Seq(LogRecord)
        /\ wal_synced' \in 0 .. Len(wal')
    <3>1. CASE Seals
      BY <2>2, <2>4, <3>1 DEF SealLocked
    <3>2. CASE Keeps
      BY <2>2, <3>2 DEF EngineInv, TypeOK, LogsType
    <3> QED
      BY <1>0, <3>1, <3>2, Zenon
  <2>6. pending' \in {NothingPending, pending}
    BY <1>0, Zenon DEF SealLocked
  <2>7. IsPending(pending')
    BY <2>6, NothingIsPending, Zenon DEF EngineInv, TypeOK, LogsType
  <2> QED
    BY <2>5, <2>7, Zenon DEF LogsType
<1>4. FilesType'
  BY Zenon DEF EngineInv, TypeOK, FilesType, WriteRecord, tablefiles
<1>5. GhostType'
  <2>1. AsValue(cell) \in Cell /\ kv' \in Content
    BY Zenon DEF EngineInv, TypeOK, GhostType, WriteRecord, AsValue, Content, Cell, MemCell
  <2>2. Settled(kv') \in [Keys -> SUBSET Cell]
    BY <2>1, Zenon DEF Settled, Content
  <2>3. allowed' \in [Keys -> SUBSET Cell]
    BY <1>0, <2>1, <2>2 DEF EngineInv, TypeOK, GhostType
  <2> QED
    BY <1>1, <2>1, <2>3 DEF EngineInv, TypeOK, GhostType
<1>6. /\ LockOK' /\ SlotOK' /\ GensOK' /\ BoundsOK'
      /\ IdsOK' /\ FilesOK' /\ FreshOK' /\ CommitOK' /\ HeldOK'
  <2>1. \/ UNCHANGED <<has_flushing, flushing_seq, next_seq, flushing_memtable>>
        \/ /\ ~has_flushing /\ has_flushing' = TRUE
           /\ flushing_seq' = next_seq /\ next_seq' = next_seq + 1
    BY <1>0, Zenon DEF SealLocked, SealMayRun
  <2>2. LockFree /\ UNCHANGED <<mode, mu, sstables, vlogs, current_gen, compacting, obsolete,
                                obsolete_gens, flusher, jobs, rd, locals, tablefiles>>
    BY <1>1, Zenon
  <2> QED
    BY <2>1, <2>2, SealKeeps, Zenon
<1> QED
  BY <1>2, <1>3, <1>5, <1>6, <1>4, Zenon DEF EngineInv, TypeOK

\* A writer woken in maybe_seal preserves the invariant.
LEMMA MaybeSealInv ==
  ASSUME EngineInv, NEW c \in Clients, MaybeSeal(c)
  PROVE  EngineInv'
<1> DEFINE Seals == SealLocked(memtable, wal) /\ allowed' = Settled(kv)
           Keeps == UNCHANGED <<memtable, flushing_memtable, has_flushing, flushing_seq,
                                next_seq, logfiles, pending, allowed>>
<1>0. Seals \/ Keeps
  BY Zenon DEF MaybeSeal
<1>1. /\ LockFree /\ ~has_flushing /\ waiting' = waiting \ {c}
      /\ UNCHANGED <<mode, mu, sstables, vlogs, current_gen, compacting, obsolete, obsolete_gens,
                     flusher, jobs, rd, locals, tablefiles, kv, writes, crashes, lost>>
  BY Zenon DEF MaybeSeal, SealMayRun
<1>2. MemoryType' /\ ThreadsType'
  <2>1. Empty \in MemContent
    BY Zenon DEF Empty, MemContent, MemCell
  <2>2. memtable' \in MemContent /\ flushing_memtable' \in MemContent
    BY <1>0, <2>1, Zenon DEF EngineInv, TypeOK, MemoryType, SealLocked
  <2>3. flushing_seq' \in Nat /\ next_seq' \in Nat
    BY <1>0 DEF EngineInv, TypeOK, MemoryType, SealLocked
  <2>4. has_flushing' \in BOOLEAN
    BY <1>0, Zenon DEF EngineInv, TypeOK, MemoryType, SealLocked
  <2> QED
    BY <1>1, <2>2, <2>3, <2>4, Zenon
    DEF EngineInv, TypeOK, MemoryType, ThreadsType, IsTables
<1>3. LogsType'
  <2>1. CASE Seals
    BY <2>1, NothingIsPending DEF EngineInv, TypeOK, LogsType, SealLocked
  <2>2. CASE Keeps
    BY <2>2, Zenon DEF EngineInv, TypeOK, LogsType, logfiles
  <2> QED
    BY <1>0, <2>1, <2>2, Zenon
<1>4. FilesType' /\ GhostType'
  <2>1. Settled(kv) \in [Keys -> SUBSET Cell]
    BY Zenon DEF EngineInv, TypeOK, GhostType, Settled, Content
  <2>2. allowed' \in [Keys -> SUBSET Cell]
    BY <1>0, <2>1, Zenon DEF EngineInv, TypeOK, GhostType
  <2> QED
    BY <1>1, <2>2, Zenon DEF EngineInv, TypeOK, FilesType, GhostType, tablefiles
<1>5. /\ LockOK' /\ SlotOK' /\ GensOK' /\ BoundsOK'
      /\ IdsOK' /\ FilesOK' /\ FreshOK' /\ CommitOK' /\ HeldOK'
  <2>1. \/ UNCHANGED <<has_flushing, flushing_seq, next_seq, flushing_memtable>>
        \/ /\ ~has_flushing /\ has_flushing' = TRUE
           /\ flushing_seq' = next_seq /\ next_seq' = next_seq + 1
    BY <1>0, <1>1, Zenon DEF SealLocked
  <2> QED
    BY <1>1, <2>1, SealKeeps, Zenon
<1> QED
  BY <1>2, <1>3, <1>4, <1>5, Zenon DEF EngineInv, TypeOK

\* A read takes its snapshot: get and scan under the shared lock.
LEMMA SnapshotInv ==
  ASSUME EngineInv, LockFree, NEW r \in Readers, NEW keys, keys \subseteq Keys,
         NEW mem \in MemContent, Snapshot(r, keys, mem)
  PROVE  EngineInv'
<1>1. mode = "open"
  BY Zenon DEF LockFree
<1>2. UNCHANGED <<mode, mu, memory, flusher, jobs, waiting, locals, logfiles, pending,
                  tablefiles, ghost>>
  BY Zenon DEF Snapshot
<1> DEFINE read == [pc |-> "reading", keys |-> keys, mem |-> mem,
                    tables |-> sstables, gens |-> vlogs, want |-> kv]
<1>3. rd' = [rd EXCEPT ![r] = read]
  BY Zenon DEF Snapshot
<1>4. /\ IsRead(read) /\ read.tables = sstables /\ read.gens = vlogs
  BY Zenon DEF IsRead, EngineInv, TypeOK, MemoryType, GhostType
<1> HIDE DEF read
<1>5. /\ rd' = [q \in Readers |-> rd'[q]]
      /\ \A q \in Readers : rd'[q] = rd[q] \/ rd'[q] = read
  BY <1>3, Zenon DEF EngineInv, TypeOK, ThreadsType
<1>6. TypeOK'
  <2>1. ThreadsType'
    BY <1>2, <1>4, <1>5, Zenon DEF EngineInv, TypeOK, ThreadsType
  <2>2. MemoryType'
    BY <1>2, Zenon DEF EngineInv, TypeOK, MemoryType, memory
  <2> QED
    BY <1>2, <2>1, <2>2, TypeFrame, Zenon DEF TypeOK
<1>7. LockOK' /\ GensOK' /\ BoundsOK' /\ FilesOK' /\ FreshOK' /\ CommitOK'
  BY <1>2, ZenonT(40) DEF EngineInv, LockOK, GensOK, BoundsOK, FilesOK, FreshOK, CommitOK,
              memory, tablefiles
<1>8. SlotOK'
  BY <1>1, <1>2, Zenon DEF EngineInv, SlotOK, memory
<1>9. IdsOK'
  <2>1. Listed' = Listed /\ Old' = Old
    BY <1>2, Zenon DEF Listed, Old, memory
  <2> QED
    BY <1>2, <2>1, Zenon DEF EngineInv, IdsOK, memory
<1>10. HeldOK'
  <2>1. TableIds(sstables) \subseteq DOMAIN ssts /\ vlogs \subseteq DOMAIN vfiles
    BY Zenon DEF EngineInv, FilesOK, GensOK, TableIds
  <2> QED
    BY <1>2, <1>4, <1>5, <2>1, Zenon DEF EngineInv, HeldOK, tablefiles
<1> QED
  BY <1>6, <1>7, <1>8, <1>9, <1>10, Zenon DEF EngineInv

\* What get and scan find in memory is the content of a memtable.
LEMMA InMemoryContent ==
  ASSUME EngineInv
  PROVE  InMemory \in MemContent
BY Zenon DEF InMemory, EngineInv, TypeOK, MemoryType, MemContent

\* get preserves the invariant.
LEMMA GetInv ==
  ASSUME EngineInv, NEW r \in Readers, NEW k \in Keys, Get(r, k)
  PROVE  EngineInv'
<1>1. Empty \in MemContent
  BY Zenon DEF Empty, MemContent, MemCell
<1> QED
  BY <1>1, SnapshotInv, Zenon DEF Get

\* scan preserves the invariant.
LEMMA ScanInv ==
  ASSUME EngineInv, NEW r \in Readers, NEW from, NEW to, Scan(r, from, to)
  PROVE  EngineInv'
<1> DEFINE range == {k \in Keys : from <= k /\ k < to}
           mem == [k \in Keys |-> IF k \in range THEN InMemory[k] ELSE Absent]
<1>1. LockFree /\ Snapshot(r, range, mem)
  BY Zenon DEF Scan
<1>2. range \subseteq Keys
  BY Zenon
<1> HIDE DEF range
<1>3. mem \in MemContent
  BY InMemoryContent, Zenon DEF MemContent, MemCell
<1> HIDE DEF mem
<1> QED
  BY <1>1, <1>2, <1>3, SnapshotInv, Zenon

\* A read returns and drops its snapshot.
LEMMA EndReadInv ==
  ASSUME EngineInv, NEW r \in Readers, EndRead(r)
  PROVE  EngineInv'
<1>1. mode = "open"
  BY Zenon DEF EndRead, Open
<1>2. UNCHANGED <<mode, mu, memtable, flushing_memtable, has_flushing,
                  flushing_seq, sstables, vlogs, current_gen, next_seq,
                  compacting, flusher, jobs, waiting, locals, logfiles, pending,
                  manifest, ghost>>
  BY Zenon DEF EndRead
<1>3. rd' = [rd EXCEPT ![r] = IdleRead]
  BY Zenon DEF EndRead
<1>4. Unlink(obsolete, obsolete_gens, sstables, vlogs', flusher', jobs', rd', locals')
  BY <1>2, Zenon DEF EndRead
<1>5. /\ rd' = [q \in Readers |-> rd'[q]]
      /\ \A q \in Readers : rd'[q] = rd[q] \/ rd'[q] = IdleRead
  BY <1>3, Zenon DEF EngineInv, TypeOK, ThreadsType
<1>6. obsolete \subseteq Old /\ current_gen \in vlogs
      /\ \A g \in obsolete_gens : g \in Nat /\ g < current_gen
  BY <1>1, Zenon DEF EngineInv, TypeOK, MemoryType, GensOK, Old
<1>7. /\ FilesType' /\ obsolete' \subseteq Nat /\ obsolete_gens' \subseteq Nat
      /\ GensOK' /\ BoundsOK'
      /\ IdsOK' /\ FilesOK' /\ FreshOK' /\ CommitOK' /\ HeldOK'
  BY <1>1, <1>2, <1>4, <1>5, <1>6, UnlinkInv, Zenon
<1>8. TypeOK'
  <2>1. MemoryType'
    BY <1>2, <1>7, Zenon DEF EngineInv, TypeOK, MemoryType
  <2>2. ThreadsType'
    BY <1>2, <1>5, IdleHolds, Zenon DEF EngineInv, TypeOK, ThreadsType
  <2> QED
    BY <1>2, <1>7, <2>1, <2>2, TypeFrame, Zenon DEF TypeOK
<1>9. LockOK'
  BY <1>1, <1>2, Zenon DEF EngineInv, LockOK
<1>10. SlotOK'
  BY <1>1, <1>2, Zenon DEF EngineInv, SlotOK
<1> QED
  BY <1>7, <1>8, <1>9, <1>10, Zenon DEF EngineInv

\* A thread's locals go out of scope after it has released the lock.
LEMMA EndScopeInv ==
  ASSUME EngineInv, NEW t \in Threads, EndScope(t)
  PROVE  EngineInv'
<1>1. mode = "open"
  BY Zenon DEF EndScope, Open
<1>2. UNCHANGED <<mode, mu, memtable, flushing_memtable, has_flushing, flushing_seq, sstables,
                  vlogs, current_gen, next_seq, compacting, flusher, jobs, waiting, rd, logfiles,
                  pending, manifest, ghost>>
  BY Zenon DEF EndScope
<1>3. Unlink(obsolete, obsolete_gens, sstables, vlogs', flusher', jobs', rd', locals')
  BY <1>2, Zenon DEF EndScope
<1>4. obsolete \subseteq Old /\ current_gen \in vlogs
      /\ \A g \in obsolete_gens : g \in Nat /\ g < current_gen
  BY <1>1, Zenon DEF EngineInv, TypeOK, MemoryType, GensOK, Old
<1>5. /\ FilesType' /\ obsolete' \subseteq Nat /\ obsolete_gens' \subseteq Nat
      /\ GensOK' /\ BoundsOK'
      /\ IdsOK' /\ FilesOK' /\ FreshOK' /\ CommitOK' /\ HeldOK'
  BY <1>1, <1>2, <1>3, <1>4, UnlinkInv, Zenon
<1>6. TypeOK'
  <2>1. MemoryType'
    BY <1>2, <1>5, Zenon DEF EngineInv, TypeOK, MemoryType
  <2>2. locals' \in [Threads -> RefsType]
    BY NoRefsType, LocalsSet, Zenon DEF EngineInv, TypeOK, EndScope
  <2>3. ThreadsType'
    BY <1>2, <2>2, Zenon DEF EngineInv, TypeOK, ThreadsType
  <2> QED
    BY <1>2, <1>5, <2>1, <2>3, TypeFrame, Zenon DEF TypeOK
<1>7. LockOK'
  BY <1>1, <1>2, Zenon DEF EngineInv, LockOK
<1>8. SlotOK'
  BY <1>1, <1>2, Zenon DEF EngineInv, SlotOK
<1> QED
  BY <1>5, <1>6, <1>7, <1>8, Zenon DEF EngineInv

-----------------------------------------------------------------------------
\* flush_locked returns to its caller, or releases the lock.
LEMMA AfterFlushLock ==
  ASSUME NEW by \in {"flush", "gc", "open"}
  PROVE  LET m == AfterFlush(by)
         IN  /\ m \in LockType /\ m.ids = {}
             /\ by = "flush" => m.at = "free" /\ m.by = "none"
             /\ by = "gc" => m.at = "gc" /\ m.by = "gc"
             /\ by = "open" => m.at = "drop_wal" /\ m.by = "open"
<1>1. CASE by = "flush"
  <2>1. AfterFlush(by) = Free
    BY <1>1, Zenon DEF AfterFlush
  <2> QED
    BY <1>1, <2>1, FreeLock, Zenon
<1>2. CASE by = "gc"
  <2>1. AfterFlush(by) = [Free EXCEPT !.at = "gc", !.by = "gc"]
    BY <1>2, Zenon DEF AfterFlush
  <2> QED
    BY <1>2, <2>1, FreeLock, Zenon DEF LockType, LockPoints
<1>3. CASE by = "open"
  <2>1. AfterFlush(by) = [Free EXCEPT !.at = "drop_wal", !.by = "open"]
    BY <1>3, Zenon DEF AfterFlush
  <2> QED
    BY <1>3, <2>1, FreeLock, Zenon DEF LockType, LockPoints
<1> QED
  BY <1>1, <1>2, <1>3, Zenon

\* flush preserves the invariant as it takes the lock.
LEMMA FlushInv ==
  ASSUME EngineInv, Flush
  PROVE  EngineInv'
<1>1. mu' \in LockType /\ mu'.at = "flush" /\ mu'.by = "flush" /\ mu'.ids = {}
  BY LockAt, Zenon DEF Flush, LockPoints
<1>2. mode = "open" /\ mu.at = "free" /\ ~has_flushing
  BY Zenon DEF Flush, LockFree, FlushMayRun
<1>3. UNCHANGED <<mode, memory, flusher, jobs, waiting, rd, locals, logfiles, pending, tablefiles,
                  ghost>>
  BY Zenon DEF Flush
<1>4. MemoryType'
  BY <1>1, <1>3, Zenon DEF EngineInv, TypeOK, MemoryType, memory
<1>7. TypeOK'
  BY <1>3, <1>4, TypeFrame, Zenon DEF TypeOK
<1>5. LockOK' /\ SlotOK'
  BY <1>1, <1>2, <1>3, Zenon DEF EngineInv, LockOK, SlotOK, memory
<1>6. GensOK' /\ BoundsOK' /\ IdsOK' /\ FilesOK' /\ FreshOK' /\ CommitOK' /\ HeldOK'
  BY <1>1, <1>2, <1>3, <1>5, MuMoves, Zenon DEF memory
<1> QED
  BY <1>5, <1>6, <1>7, Zenon DEF EngineInv

\* flush_locked preserves the invariant as it writes its table file.
LEMMA FlushBuildInv ==
  ASSUME EngineInv, FlushBuild
  PROVE  EngineInv'
<1>1. /\ mu.at = "flush" /\ mu.by \in {"flush", "gc", "open"} /\ mu \in LockType
      /\ mode # "closed" /\ ~has_flushing
  BY Zenon DEF EngineInv, TypeOK, MemoryType, LockOK, SlotOK, FlushBuild
<1>2. UNCHANGED <<mode, memtable, flushing_memtable, has_flushing, flushing_seq, sstables, vlogs,
                  current_gen, compacting, obsolete, obsolete_gens, flusher, jobs, waiting, rd,
                  locals, logfiles, manifest, ghost>>
  BY Zenon DEF FlushBuild
<1>3. CASE mu' = AfterFlush(mu.by) /\ UNCHANGED <<next_seq, ssts, vfiles, pending>>
  <2>1. /\ mu' \in LockType /\ mu'.ids = {}
        /\ mu.by = "flush" => mu'.at = "free" /\ mu'.by = "none"
        /\ mu.by = "gc" => mu'.at = "gc" /\ mu'.by = "gc"
        /\ mu.by = "open" => mu'.at = "drop_wal" /\ mu'.by = "open"
    BY <1>1, <1>3, AfterFlushLock, Zenon
  <2>2. MemoryType'
    BY <1>2, <1>3, <2>1, Zenon DEF EngineInv, TypeOK, MemoryType
  <2>3. TypeOK'
    BY <1>2, <1>3, <2>2, TypeFrame, Zenon DEF TypeOK, tablefiles
  <2>4. LockOK' /\ SlotOK'
    BY <1>1, <1>2, <2>1, Zenon DEF EngineInv, LockOK, SlotOK
  <2>5. GensOK' /\ BoundsOK' /\ IdsOK' /\ FilesOK' /\ FreshOK' /\ CommitOK' /\ HeldOK'
    BY <1>1, <1>2, <1>3, <2>1, <2>4, MuMoves, Zenon DEF tablefiles
  <2> QED
    BY <2>3, <2>4, <2>5, Zenon DEF EngineInv
<1>4. CASE memtable # Empty
  <2> DEFINE out == Separated(memtable, current_gen, Len(vfiles[current_gen].data) + 1)
  <2>1. /\ vfiles' = [vfiles EXCEPT ![current_gen] = AppendSynced(vfiles[current_gen], memtable)]
        /\ ssts' = WithFile(ssts, next_seq, out)
        /\ mu' = [mu EXCEPT !.at = "flush_built", !.seq = next_seq, !.data = out]
        /\ next_seq' = next_seq + 1 /\ pending' = NothingPending
    BY <1>4, Zenon DEF FlushBuild
  <2>2. memtable \in Content /\ current_gen \in DOMAIN vfiles /\ current_gen \in Nat /\ next_seq \in Nat
    BY <1>1, MemIsContent, Zenon DEF EngineInv, TypeOK, MemoryType, GensOK
  <2>3. out \in Content
    BY <2>1, <2>2, AppendType, SeparatedContent, Zenon
  <2> HIDE DEF out
  <2>4. /\ mu' \in LockType /\ mu'.at = "flush_built" /\ mu'.by = mu.by
        /\ mu'.seq = next_seq /\ mu'.data = out /\ mu'.ids = mu.ids
    BY <1>1, <2>1, <2>2, <2>3, Zenon DEF LockType, LockPoints
  <2>5. next_seq \notin DOMAIN ssts
    <3>1. \A i \in DOMAIN ssts : i < next_seq
      BY <1>1, Zenon DEF EngineInv, FreshOK
    <3> QED
      BY <2>2, <3>1
  <2>6. /\ DOMAIN ssts' = DOMAIN ssts \cup {next_seq} /\ ssts'[next_seq] = out
        /\ \A i \in DOMAIN ssts : ssts'[i] = ssts[i]
    BY <2>1, <2>5, Zenon DEF WithFile
  <2>7. DOMAIN vfiles' = DOMAIN vfiles /\ \A h \in DOMAIN vfiles' : IsValueLog(vfiles'[h])
    BY <2>1, <2>2, AppendType, Zenon
  <2>8. MemoryType' /\ LogsType' /\ FilesType'
    <3>1. MemoryType'
      BY <1>2, <2>1, <2>2, <2>4 DEF EngineInv, TypeOK, MemoryType
    <3>2. LogsType'
      BY <1>2, <2>1, NothingIsPending, Zenon DEF EngineInv, TypeOK, LogsType, logfiles
    <3>3. FilesType'
      BY <1>2, <2>2, <2>3, <2>6, <2>7, Zenon DEF EngineInv, TypeOK, FilesType
    <3> QED
      BY <3>1, <3>2, <3>3, Zenon
  <2>9. TypeOK'
    BY <1>2, <2>8, TypeFrame, Zenon DEF TypeOK
  <2>10. LockOK' /\ SlotOK' /\ GensOK'
    <3>1. LockOK'
      BY <1>1, <1>2, <2>4, Zenon DEF EngineInv, LockOK
    <3>2. SlotOK' /\ GensOK'
      BY <1>1, <1>2, <2>4, <2>7, Zenon DEF EngineInv, SlotOK, GensOK
    <3> QED
      BY <3>1, <3>2, Zenon
  <2>11. BoundsOK'
    <3>1. Bounded(DOMAIN ssts \cup {next_seq})
      <4>1. FilesType /\ BoundsOK
        BY Zenon DEF EngineInv, TypeOK
      <4>2. DOMAIN ssts \subseteq Int /\ Bounded(DOMAIN ssts)
        <5>1. DOMAIN ssts \subseteq Nat /\ Bounded(DOMAIN ssts)
          BY <4>1, Zenon DEF FilesType, BoundsOK
        <5> QED
          BY <5>1
      <4>3. next_seq \in Int
        BY <2>2
      <4> QED
        BY <4>2, <4>3, BoundedAdd, Zenon
    <3> QED
      BY <1>2, <2>6, <2>7, <3>1, Zenon DEF EngineInv, BoundsOK
  <2>12. IdsOK'
    <3>1. Listed' = Listed /\ Old' = Old
      BY <1>2, <2>4, Zenon DEF Listed, Old
    <3>2. \A i \in Listed : i \in Nat /\ i < next_seq
      BY ListedNat, Zenon
    <3>3. \A j \in Compactors : jobs[j].pc # "idle" => jobs[j].seq \in Nat /\ jobs[j].seq < next_seq
      BY Zenon DEF EngineInv, IdsOK, TypeOK, ThreadsType, IsJob
    <3> QED
      BY <1>1, <1>2, <2>1, <2>2, <2>4, <3>1, <3>2, <3>3 DEF EngineInv, IdsOK
  <2>13. FilesOK' /\ HeldOK'
    BY <1>1, <1>2, <2>4, <2>6, <2>7, Zenon DEF EngineInv, FilesOK, HeldOK
  <2>14. FreshOK'
    BY <1>1, <1>2, <2>1, <2>2, <2>5, <2>6 DEF EngineInv, TypeOK, FilesType, ThreadsType, IsJob, FreshOK, IdsOK
  <2>15. CommitOK'
    BY <1>1, <1>2, <2>1, <2>2, <2>6 DEF EngineInv, TypeOK, FilesType, IsManifest, CommitOK
  <2> QED
    BY <2>9, <2>10, <2>11, <2>12, <2>13, <2>14, <2>15 DEF EngineInv
<1> QED
  BY <1>3, <1>4, Zenon DEF FlushBuild

\* flush_locked preserves the invariant as it lists and commits its table.
LEMMA FlushCommitInv ==
  ASSUME EngineInv, FlushCommit
  PROVE  EngineInv'
<1>1. /\ mu.at = "flush_built" /\ mu.by \in {"flush", "gc", "open"} /\ mu \in LockType
      /\ mode # "closed" /\ ~has_flushing
  BY Zenon DEF EngineInv, TypeOK, MemoryType, LockOK, SlotOK, FlushCommit
<1>2. UNCHANGED <<mode, memtable, flushing_memtable, has_flushing, flushing_seq, vlogs,
                  current_gen, next_seq, compacting, obsolete, obsolete_gens, flusher, jobs,
                  waiting, rd, locals, logfiles, ssts, vfiles, ghost>>
  BY Zenon DEF FlushCommit
<1>3. /\ sstables' = PushNewest(sstables, Table(mu.seq, mu.data))
      /\ manifest' = ManifestOf(sstables', next_seq, current_gen)
      /\ pending' = NothingPending
  BY Zenon DEF FlushCommit
<1>4. /\ mu' \in LockType /\ mu'.at = "flush_committed" /\ mu'.by = mu.by
      /\ mu'.ids = mu.ids
  BY <1>1, Zenon DEF FlushCommit, LockType, LockPoints
<1>5. /\ mu.seq \in Nat /\ mu.data \in Content
      /\ mu.seq \in DOMAIN ssts /\ ssts[mu.seq] = mu.data /\ mu.seq < next_seq
      /\ \A j \in Compactors : jobs[j].pc # "idle" => jobs[j].seq # mu.seq
  BY <1>1, Zenon DEF EngineInv, LockType, FilesOK, IdsOK
<1>6. /\ IsTables(sstables') /\ Bounded(DOMAIN sstables')
      /\ \A s \in DOMAIN sstables' :
           \/ sstables'[s].id = mu.seq /\ sstables'[s].data = mu.data
           \/ s \in DOMAIN sstables /\ sstables'[s] = sstables[s]
      /\ TableIds(sstables') = TableIds(sstables) \cup {mu.seq}
  <2>1. IsTables(sstables) /\ Bounded(DOMAIN sstables)
    BY Zenon DEF EngineInv, TypeOK, MemoryType, BoundsOK
  <2>2. mu.seq \in Nat /\ mu.data \in Content
    BY <1>5, Zenon
  <2>3. sstables' = PushNewest(sstables, Table(mu.seq, mu.data))
    BY <1>3, Zenon
  <2> QED
    BY <2>1, <2>2, <2>3, PushFinished
<1>7. \A s \in DOMAIN sstables : sstables[s].id \in Nat /\ sstables[s].id < next_seq
  BY Zenon DEF EngineInv, TypeOK, MemoryType, IsTables, IdsOK, Listed, TableIds
<1>8. \A s \in DOMAIN sstables' : /\ sstables'[s].id \in DOMAIN ssts
                                  /\ sstables'[s].id < next_seq
                                  /\ ssts[sstables'[s].id] = sstables'[s].data
  BY <1>5, <1>6, <1>7, Zenon DEF EngineInv, FilesOK
<1>9. IsManifest(manifest') /\ CommitOK' /\ Bounded(DOMAIN manifest'.tables)
  BY <1>2, <1>3, <1>6, <1>8, CommitList, Zenon DEF EngineInv, TypeOK, MemoryType
<1>10. TypeOK'
  <2>1. MemoryType'
    BY <1>2, <1>4, <1>6, Zenon DEF EngineInv, TypeOK, MemoryType
  <2>2. LogsType'
    BY <1>2, <1>3, NothingIsPending, Zenon DEF EngineInv, TypeOK, LogsType, logfiles
  <2>3. FilesType'
    BY <1>2, <1>9, Zenon DEF EngineInv, TypeOK, FilesType
  <2> QED
    BY <1>2, <2>1, <2>2, <2>3, TypeFrame, Zenon DEF TypeOK
<1>11. LockOK'
  BY <1>1, <1>2, <1>4, Zenon DEF EngineInv, LockOK
<1>12. SlotOK' /\ GensOK' /\ HeldOK'
  BY <1>1, <1>2, <1>4, Zenon DEF EngineInv, SlotOK, GensOK, HeldOK
<1>13. BoundsOK'
  BY <1>2, <1>6, <1>9, Zenon DEF EngineInv, BoundsOK
<1>14. IdsOK'
  <2>1. Listed' = Listed \cup {mu.seq} /\ Old' = Old
    BY <1>2, <1>4, <1>5, <1>6, Zenon DEF Listed, Old
  <2> QED
    BY <1>1, <1>2, <1>4, <1>5, <2>1, Zenon DEF EngineInv, IdsOK
<1>15. FilesOK' /\ FreshOK'
  BY <1>1, <1>2, <1>4, <1>8, Zenon DEF EngineInv, FilesOK, FreshOK
<1> QED
  BY <1>9, <1>10, <1>11, <1>12, <1>13, <1>14, <1>15, Zenon DEF EngineInv

\* flush_locked preserves the invariant as it truncates wal.log.
LEMMA FlushTruncateInv ==
  ASSUME EngineInv, FlushTruncate
  PROVE  EngineInv'
<1>1. /\ mu.at = "flush_committed" /\ mu.by \in {"flush", "gc", "open"}
      /\ mode # "closed" /\ ~has_flushing
  BY Zenon DEF EngineInv, LockOK, SlotOK, FlushTruncate
<1>2. UNCHANGED <<mode, flushing_memtable, has_flushing, flushing_seq, sstables, vlogs,
                  current_gen, next_seq, compacting, obsolete, obsolete_gens, flusher, jobs,
                  waiting, rd, locals, flushing_wal, tablefiles, kv, writes, crashes, lost>>
  BY Zenon DEF FlushTruncate
<1>3. /\ mu' \in LockType /\ mu'.ids = {}
      /\ mu.by = "flush" => mu'.at = "free" /\ mu'.by = "none"
      /\ mu.by = "gc" => mu'.at = "gc" /\ mu'.by = "gc"
      /\ mu.by = "open" => mu'.at = "drop_wal" /\ mu'.by = "open"
  BY <1>1, AfterFlushLock, Zenon DEF FlushTruncate
<1>4. TypeOK'
  <2>1. Empty \in MemContent
    BY Zenon DEF Empty, MemContent, MemCell
  <2>2. MemoryType'
    BY <1>2, <1>3, <2>1, Zenon DEF EngineInv, TypeOK, MemoryType, FlushTruncate
  <2>3. LogsType'
    <3>1. IsPending([op |-> "truncate", log |-> wal, synced |-> wal_synced])
      BY Zenon DEF IsPending, EngineInv, TypeOK, LogsType
    <3> QED
      BY <3>1 DEF EngineInv, TypeOK, LogsType, FlushTruncate
  <2>4. GhostType'
    <3>1. Settled(kv) \in [Keys -> SUBSET Cell]
      BY Zenon DEF EngineInv, TypeOK, GhostType, Settled, Content
    <3>2. allowed' \in {Settled(kv), allowed}
      BY Zenon DEF FlushTruncate
    <3> QED
      BY <1>2, <3>1, <3>2, Zenon DEF EngineInv, TypeOK, GhostType
  <2> QED
    BY <1>2, <2>2, <2>3, <2>4, TypeFrame, Zenon DEF TypeOK
<1>5. LockOK'
  BY <1>1, <1>2, <1>3, Zenon DEF EngineInv, LockOK
<1>6. SlotOK'
  BY <1>1, <1>2, <1>3, Zenon DEF EngineInv, SlotOK
<1>7. GensOK' /\ BoundsOK' /\ IdsOK' /\ FilesOK' /\ FreshOK' /\ CommitOK' /\ HeldOK'
  BY <1>1, <1>2, <1>3, <1>5, <1>6, MuMoves
<1> QED
  BY <1>4, <1>5, <1>6, <1>7, Zenon DEF EngineInv

\* flush_loop.
LEMMA FlusherTakeInv ==
  ASSUME EngineInv, FlusherTake
  PROVE  EngineInv'
<1>1. mode = "open" /\ mu.at = "free" /\ flusher.pc = "idle" /\ has_flushing
  BY Zenon DEF FlusherTake, LockFree
<1>2. UNCHANGED <<mode, mu, memory, jobs, waiting, rd, locals, logfiles, pending, tablefiles,
                  ghost>>
  BY Zenon DEF FlusherTake
<1>3. /\ flusher' = [pc |-> "taken", data |-> flushing_memtable, gen |-> current_gen,
                     seq |-> flushing_seq]
  BY Zenon DEF FlusherTake
<1>4. TypeOK'
  <2>1. flushing_memtable \in Content
    BY MemIsContent, Zenon DEF EngineInv, TypeOK, MemoryType
  <2>2. ThreadsType'
    BY <1>2, <1>3, <2>1, Zenon DEF EngineInv, TypeOK, MemoryType, ThreadsType
  <2>3. MemoryType'
    BY <1>2, Zenon DEF EngineInv, TypeOK, MemoryType, memory
  <2> QED
    BY <1>2, <2>2, <2>3, TypeFrame, Zenon DEF TypeOK
<1>5. LockOK' /\ GensOK' /\ BoundsOK' /\ CommitOK' /\ HeldOK'
  BY <1>1, <1>2, Zenon DEF EngineInv, LockOK, GensOK, BoundsOK, CommitOK, HeldOK, memory, tablefiles
<1>6. SlotOK' /\ FilesOK' /\ FreshOK'
  BY <1>1, <1>2, <1>3, Zenon DEF EngineInv, LockOK, SlotOK, FilesOK, FreshOK, memory, tablefiles
<1>7. IdsOK'
  <2>1. Listed' = Listed /\ Old' = Old
    BY <1>2, Zenon DEF Listed, Old, memory
  <2> QED
    BY <1>2, <2>1, Zenon DEF EngineInv, IdsOK, memory
<1> QED
  BY <1>4, <1>5, <1>6, <1>7, Zenon DEF EngineInv

\* flush_loop preserves the invariant as it writes its table without the lock.
LEMMA FlusherBuildInv ==
  ASSUME EngineInv, FlusherBuild
  PROVE  EngineInv'
<1> DEFINE out == Separated(flusher.data, flusher.gen, Len(vfiles[flusher.gen].data) + 1)
<1>1. /\ mode = "open" /\ flusher.pc = "taken" /\ has_flushing
      /\ flusher.gen = current_gen /\ flusher.seq = flushing_seq
  BY Zenon DEF FlusherBuild, Open, EngineInv, SlotOK
<1>2. UNCHANGED <<mode, mu, memory, jobs, waiting, rd, locals, logfiles, manifest, ghost>>
  BY Zenon DEF FlusherBuild
<1>3. /\ vfiles' = [vfiles EXCEPT ![flusher.gen] = AppendSynced(vfiles[flusher.gen], flusher.data)]
      /\ ssts' = WithFile(ssts, flusher.seq, out)
      /\ flusher' = [flusher EXCEPT !.pc = "built", !.data = out]
      /\ pending' = NothingPending
  BY Zenon DEF FlusherBuild
<1>4. /\ flusher \in [pc : {"idle", "taken", "built"}, data : Content, gen : Nat, seq : Nat]
      /\ flusher.gen \in DOMAIN vfiles
  BY <1>1, Zenon DEF EngineInv, TypeOK, ThreadsType, GensOK
<1>5. out \in Content
  BY <1>3, <1>4, AppendType, SeparatedContent, Zenon
<1> HIDE DEF out
<1>6. /\ flusher' \in [pc : {"idle", "taken", "built"}, data : Content, gen : Nat, seq : Nat]
      /\ flusher'.pc = "built" /\ flusher'.data = out
      /\ flusher'.gen = flusher.gen /\ flusher'.seq = flusher.seq
  BY <1>3, <1>4, <1>5, Zenon
<1>7. flusher.seq \notin DOMAIN ssts /\ flusher.seq < next_seq /\ flusher.seq \in Nat
  BY <1>1, <1>4, Zenon DEF EngineInv, FreshOK, IdsOK
<1>8. /\ DOMAIN ssts' = DOMAIN ssts \cup {flusher.seq} /\ ssts'[flusher.seq] = out
      /\ \A i \in DOMAIN ssts : ssts'[i] = ssts[i]
  BY <1>3, <1>7, Zenon DEF WithFile
<1>9. DOMAIN vfiles' = DOMAIN vfiles /\ \A h \in DOMAIN vfiles' : IsValueLog(vfiles'[h])
  BY <1>3, <1>4, AppendType, Zenon
<1>10. TypeOK'
  <2>1. MemoryType'
    BY <1>2, Zenon DEF EngineInv, TypeOK, MemoryType, memory
  <2>2. ThreadsType'
    BY <1>2, <1>6, Zenon DEF EngineInv, TypeOK, ThreadsType
  <2>3. LogsType'
    BY <1>2, <1>3, NothingIsPending, Zenon DEF EngineInv, TypeOK, LogsType, logfiles
  <2>4. FilesType'
    BY <1>2, <1>5, <1>7, <1>8, <1>9, Zenon DEF EngineInv, TypeOK, FilesType
  <2> QED
    BY <1>2, <2>1, <2>2, <2>3, <2>4, TypeFrame, Zenon DEF TypeOK
<1>11. LockOK'
  BY <1>2, <1>6, Zenon DEF EngineInv, LockOK, memory
<1>12. SlotOK' /\ GensOK'
  BY <1>1, <1>2, <1>6, <1>9, Zenon DEF EngineInv, SlotOK, GensOK, memory
<1>13. BoundsOK'
  <2>1. Bounded(DOMAIN ssts \cup {flusher.seq})
    <3>1. DOMAIN ssts \subseteq Int /\ Bounded(DOMAIN ssts) /\ flusher.seq \in Int
      BY <1>7 DEF EngineInv, TypeOK, FilesType, BoundsOK
    <3> QED
      BY <3>1, BoundedAdd, Zenon
  <2> QED
    BY <1>2, <1>8, <1>9, <2>1, Zenon DEF EngineInv, BoundsOK, memory
<1>14. IdsOK'
  <2>1. Listed' = Listed /\ Old' = Old
    BY <1>2, Zenon DEF Listed, Old, memory
  <2> QED
    BY <1>2, <2>1, Zenon DEF EngineInv, IdsOK, memory
<1>15. FilesOK' /\ HeldOK'
  BY <1>2, <1>6, <1>8, <1>9, ZenonT(40) DEF EngineInv, FilesOK, HeldOK, memory
<1>16. FreshOK'
  BY <1>1, <1>2, <1>6, <1>7, <1>8, Zenon DEF EngineInv, FreshOK, IdsOK, memory
<1>17. CommitOK'
  BY <1>2, <1>8, Zenon DEF EngineInv, CommitOK, memory
<1> QED
  BY <1>10, <1>11, <1>12, <1>13, <1>14, <1>15, <1>16, <1>17 DEF EngineInv

\* flush_loop preserves the invariant as it lists and commits its table.
LEMMA FlusherCommitInv ==
  ASSUME EngineInv, FlusherCommit
  PROVE  EngineInv'
<1>1. /\ mode = "open" /\ mu.at = "free" /\ mu.by = "none" /\ flusher.pc = "built"
      /\ has_flushing /\ flusher.seq = flushing_seq
  BY Zenon DEF FlusherCommit, LockFree, EngineInv, LockOK, SlotOK
<1>2. UNCHANGED <<mode, memtable, flushing_memtable, has_flushing, flushing_seq, vlogs,
                  current_gen, next_seq, compacting, obsolete, obsolete_gens, flusher, jobs,
                  waiting, rd, locals, logfiles, ssts, vfiles, ghost>>
  BY Zenon DEF FlusherCommit
<1>3. /\ sstables' = PushNewest(sstables, Table(flusher.seq, flusher.data))
      /\ manifest' = ManifestOf(sstables', next_seq, current_gen)
      /\ pending' = NothingPending
  BY Zenon DEF FlusherCommit
<1>4. /\ mu' \in LockType /\ mu'.at = "flusher_committed" /\ mu'.by = "flusher"
      /\ mu'.ids = {}
  <2>1. mu' = [Free EXCEPT !.at = "flusher_committed", !.by = "flusher"]
    BY Zenon DEF FlusherCommit
  <2>2. "flusher_committed" \in LockPoints
    BY Zenon DEF LockPoints
  <2> QED
    BY <2>1, <2>2, LockAt, Zenon
<1>5. /\ flusher.seq \in Nat /\ flusher.data \in Content
      /\ flusher.seq \in DOMAIN ssts /\ ssts[flusher.seq] = flusher.data
      /\ flusher.seq < next_seq
      /\ \A j \in Compactors : jobs[j].pc # "idle" => jobs[j].seq # flusher.seq
  BY <1>1, Zenon DEF EngineInv, TypeOK, ThreadsType, FilesOK, IdsOK
<1>6. /\ IsTables(sstables') /\ Bounded(DOMAIN sstables')
      /\ \A s \in DOMAIN sstables' :
           \/ sstables'[s].id = flusher.seq /\ sstables'[s].data = flusher.data
           \/ s \in DOMAIN sstables /\ sstables'[s] = sstables[s]
      /\ TableIds(sstables') = TableIds(sstables) \cup {flusher.seq}
  <2>1. IsTables(sstables) /\ Bounded(DOMAIN sstables)
    BY Zenon DEF EngineInv, TypeOK, MemoryType, BoundsOK
  <2>2. flusher.seq \in Nat /\ flusher.data \in Content
    BY <1>5, Zenon
  <2>3. sstables' = PushNewest(sstables, Table(flusher.seq, flusher.data))
    BY <1>3, Zenon
  <2> QED
    BY <2>1, <2>2, <2>3, PushFinished
<1>7. \A s \in DOMAIN sstables : sstables[s].id \in Nat /\ sstables[s].id < next_seq
  BY Zenon DEF EngineInv, TypeOK, MemoryType, IsTables, IdsOK, Listed, TableIds
<1>8. \A s \in DOMAIN sstables' : /\ sstables'[s].id \in DOMAIN ssts
                                  /\ sstables'[s].id < next_seq
                                  /\ ssts[sstables'[s].id] = sstables'[s].data
  BY <1>5, <1>6, <1>7, Zenon DEF EngineInv, FilesOK
<1>9. IsManifest(manifest') /\ CommitOK' /\ Bounded(DOMAIN manifest'.tables)
  BY <1>2, <1>3, <1>6, <1>8, CommitList, Zenon DEF EngineInv, TypeOK, MemoryType
<1>10. TypeOK'
  <2>1. MemoryType'
    BY <1>2, <1>4, <1>6, Zenon DEF EngineInv, TypeOK, MemoryType
  <2>2. LogsType'
    BY <1>2, <1>3, NothingIsPending, Zenon DEF EngineInv, TypeOK, LogsType, logfiles
  <2>3. FilesType'
    BY <1>2, <1>9, Zenon DEF EngineInv, TypeOK, FilesType
  <2> QED
    BY <1>2, <2>1, <2>2, <2>3, TypeFrame DEF TypeOK
<1>11. LockOK'
  BY <1>1, <1>2, <1>4, Zenon DEF EngineInv, LockOK
<1>12. SlotOK' /\ GensOK' /\ HeldOK'
  BY <1>1, <1>2, <1>4, Zenon DEF EngineInv, SlotOK, GensOK, HeldOK
<1>13. BoundsOK'
  BY <1>2, <1>6, <1>9, Zenon DEF EngineInv, BoundsOK
<1>14. IdsOK'
  <2>1. Listed' \subseteq Listed \cup {flusher.seq} /\ Old' \subseteq Old
    BY <1>2, <1>4, <1>6, Zenon DEF Listed, Old
  <2> QED
    BY <1>1, <1>2, <1>4, <1>5, <2>1, Zenon DEF EngineInv, IdsOK
<1>15. FilesOK' /\ FreshOK'
  BY <1>1, <1>2, <1>4, <1>8, Zenon DEF EngineInv, FilesOK, FreshOK
<1> QED
  BY <1>9, <1>10, <1>11, <1>12, <1>13, <1>14, <1>15 DEF EngineInv

\* flush_loop preserves the invariant as it frees the flushing slot.
LEMMA FlusherFinishInv ==
  ASSUME EngineInv, FlusherFinish
  PROVE  EngineInv'
<1>1. mu.at = "flusher_committed" /\ mode = "open"
  BY Zenon DEF FlusherFinish, EngineInv, TypeOK, MemoryType, LockOK
<1>2. UNCHANGED <<mode, memtable, flushing_seq, sstables, vlogs, current_gen, next_seq, compacting,
                  jobs, waiting, rd, wal, wal_synced, manifest, ghost>>
  BY Zenon DEF FlusherFinish
<1>3. /\ mu' \in LockType /\ mu'.at = "free" /\ mu'.by = "none" /\ mu'.ids = {} /\ mu' = Free
  BY FreeLock, Zenon DEF FlusherFinish
<1>4. /\ flushing_memtable' = Empty /\ has_flushing' = FALSE /\ flushing_wal' = <<>>
      /\ pending' = [op |-> "remove", log |-> flushing_wal, synced |-> 0]
      /\ flusher' = IdleFlusher
  BY Zenon DEF FlusherFinish
<1>5. flusher'.pc = "idle"
  BY <1>4, Zenon DEF IdleFlusher
<1>6. Unlink(obsolete, obsolete_gens, sstables, vlogs', flusher', jobs', rd', locals')
  BY <1>2, Zenon DEF FlusherFinish
<1>7. obsolete \subseteq Old /\ current_gen \in vlogs
      /\ \A g \in obsolete_gens : g \in Nat /\ g < current_gen
  <2>1. obsolete \subseteq Nat /\ obsolete_gens \subseteq Nat /\ GensOK
    BY Zenon DEF EngineInv, TypeOK, MemoryType
  <2> QED
    BY <1>1, <2>1, Zenon DEF GensOK, Old
<1>8. /\ FilesType' /\ obsolete' \subseteq Nat /\ obsolete_gens' \subseteq Nat
      /\ GensOK' /\ BoundsOK'
      /\ IdsOK' /\ FilesOK' /\ FreshOK' /\ CommitOK' /\ HeldOK'
  BY <1>1, <1>2, <1>3, <1>4, <1>5, <1>6, <1>7, UnlinkInv, Zenon
<1>9. TypeOK'
  <2>1. Empty \in MemContent /\ Empty \in Content
    BY Zenon DEF Empty, MemContent, Content, MemCell, Cell
  <2>2. MemoryType'
    BY <1>2, <1>3, <1>4, <1>8, <2>1, Zenon DEF EngineInv, TypeOK, MemoryType
  <2>3. ThreadsType'
    <3>1. [tables |-> {flusher.seq}, gens |-> {flusher.gen}] \in RefsType
      BY Zenon DEF EngineInv, TypeOK, ThreadsType, RefsType
    <3>2. locals' \in [Threads -> RefsType]
      BY <3>1, LocalsSet, Zenon DEF EngineInv, TypeOK, FlusherFinish, Threads
    <3> QED
      BY <1>2, <1>4, <2>1, <3>2, Zenon DEF EngineInv, TypeOK, ThreadsType, IdleFlusher
  <2>4. IsPending(pending')
    BY <1>4 DEF IsPending, EngineInv, TypeOK, LogsType
  <2>5. LogsType'
    BY <1>2, <1>4, <2>4 DEF EngineInv, TypeOK, LogsType
  <2> QED
    BY <1>2, <1>8, <2>2, <2>3, <2>5, TypeFrame, Zenon DEF TypeOK
<1>10. LockOK'
  BY <1>1, <1>2, <1>3, Zenon DEF EngineInv, LockOK
<1>11. SlotOK'
  BY <1>1, <1>2, <1>3, <1>4, <1>5, Zenon DEF EngineInv, SlotOK
<1> QED
  BY <1>8, <1>9, <1>10, <1>11, Zenon DEF EngineInv

-----------------------------------------------------------------------------
\* The constructor loads the committed state, removes orphans and replays the logs.
LEMMA OpenDBInv ==
  ASSUME EngineInv, OpenDB
  PROVE  EngineInv'
<1> DEFINE db == Recovered
<1>1. /\ mode = "closed" /\ mode' = "opening"
      /\ sstables' = db.tables /\ next_seq' = db.next_seq /\ current_gen' = db.gen
      /\ vlogs' = db.gens
      /\ ssts' = Restrict(ssts, TableIds(db.tables))
      /\ vfiles' = [g \in db.gens |-> IF g \in DOMAIN vfiles THEN vfiles[g] ELSE NewLog]
      /\ memtable' = Replay(flushing_wal \o wal)
  BY Zenon DEF OpenDB, CleanupOrphans
<1>2. UNCHANGED <<flushing_memtable, has_flushing, flushing_seq, compacting, obsolete,
                  obsolete_gens, flusher, jobs, waiting, rd, locals, logfiles, pending, manifest,
                  ghost>>
  BY Zenon DEF OpenDB
<1>3. /\ mu' \in LockType /\ mu'.at \in {"flush", "open_done"} /\ mu'.by = "open"
      /\ mu'.ids = {}
  <2>1. Empty \in Content
    BY Zenon DEF Empty, Content, Cell, MemCell
  <2>2. mu' = [Free EXCEPT !.at = IF flushing_wal # <<>> THEN "flush" ELSE "open_done",
                           !.by = "open"]
    BY Zenon DEF OpenDB
  <2> QED
    BY <2>1, <2>2, Zenon DEF Free, LockType, LockPoints
<1>4. /\ ~has_flushing /\ flusher.pc = "idle" /\ obsolete = {} /\ obsolete_gens = {}
      /\ \A j \in Compactors : jobs[j] = IdleJob
      /\ \A r \in Readers : rd[r] = IdleRead
  BY <1>1, Zenon DEF EngineInv, SlotOK
<1>5. /\ IsTables(db.tables) /\ Bounded(DOMAIN db.tables)
      /\ \A s \in DOMAIN db.tables : /\ db.tables[s].id \in DOMAIN ssts
                                     /\ ssts[db.tables[s].id] = db.tables[s].data
                                     /\ db.tables[s].id < db.next_seq
      /\ db.next_seq \in Nat /\ db.gen \in Nat
      /\ db.gens \subseteq Nat /\ Bounded(db.gens)
      /\ db.gen \in db.gens /\ \A g \in db.gens : g <= db.gen
      /\ manifest.present =>
           /\ manifest.tables = [s \in DOMAIN db.tables |-> db.tables[s].id]
           /\ manifest.gen = db.gen /\ manifest.next_seq = db.next_seq
  BY RecoveredTables, Zenon
<1> HIDE DEF db
<1>6. /\ DOMAIN ssts' = TableIds(db.tables) /\ DOMAIN ssts' \subseteq DOMAIN ssts
      /\ \A i \in DOMAIN ssts' : ssts'[i] = ssts[i] /\ i < db.next_seq
      /\ \A s \in DOMAIN db.tables : db.tables[s].id \in DOMAIN ssts'
  BY <1>1, <1>5, Zenon DEF Restrict, TableIds
<1>7. DOMAIN vfiles' = db.gens /\ \A g \in DOMAIN vfiles' : IsValueLog(vfiles'[g])
  <2>1. IsValueLog(NewLog)
    BY DEF IsValueLog, NewLog
  <2>2. \A g \in DOMAIN vfiles : IsValueLog(vfiles[g])
    BY Zenon DEF EngineInv, TypeOK, FilesType
  <2> QED
    BY <1>1, <2>1, <2>2, Zenon
<1>8. TypeOK'
  <2>1. memtable' \in MemContent
    <3>1. flushing_wal \o wal \in Seq(LogRecord)
      BY TwoLogs, Zenon DEF EngineInv, TypeOK, LogsType
    <3> QED
      BY <1>1, <3>1, ReplayContent, Zenon
  <2>2. MemoryType'
    BY <1>1, <1>2, <1>3, <1>5, <2>1 DEF EngineInv, TypeOK, MemoryType
  <2>3. FilesType'
    BY <1>2, <1>5, <1>6, <1>7, Zenon DEF EngineInv, TypeOK, FilesType
  <2> QED
    BY <1>2, <2>2, <2>3, TypeFrame, Zenon DEF TypeOK
<1>9. LockOK'
  BY <1>1, <1>2, <1>3, Zenon DEF LockOK
<1>10. SlotOK'
  BY <1>1, <1>2, <1>4, Zenon DEF SlotOK
<1>11. GensOK'
  BY <1>1, <1>2, <1>3, <1>4, <1>5, <1>7 DEF GensOK
<1>12. BoundsOK'
  <2>1. Bounded(DOMAIN ssts')
    BY <1>6, BoundedSubset, Zenon DEF EngineInv, BoundsOK
  <2> QED
    BY <1>1, <1>2, <1>5, <1>7, <2>1, Zenon DEF EngineInv, BoundsOK
<1>13. IdsOK'
  <2>1. Listed' = TableIds(db.tables)
    BY <1>1, <1>2, <1>3, <1>4, IdleHolds, Zenon DEF Listed, Old
  <2>2. \A i \in TableIds(db.tables) : i < db.next_seq
    BY <1>5, Zenon DEF TableIds
  <2> QED
    BY <1>1, <1>2, <1>3, <1>4, <2>1, <2>2, IdleHolds DEF IdsOK
<1>14. FilesOK'
  BY <1>1, <1>2, <1>3, <1>4, <1>5, <1>6, IdleHolds, Zenon DEF FilesOK
<1>15. FreshOK'
  BY <1>1, <1>2, <1>4, <1>6, IdleHolds DEF FreshOK
<1>16. CommitOK'
  <2>1. ASSUME manifest.present, NEW s \in DOMAIN manifest.tables
        PROVE  s \in DOMAIN db.tables /\ manifest.tables[s] = db.tables[s].id
    BY <1>5, <2>1
  <2>2. \A s \in DOMAIN db.tables : db.tables[s].id \in DOMAIN ssts' /\ db.tables[s].id < db.next_seq
    BY <1>5, <1>6, Zenon
  <2>3. manifest'.present => \A s \in DOMAIN manifest'.tables :
          manifest'.tables[s] \in DOMAIN ssts' /\ manifest'.tables[s] < manifest'.next_seq
    BY <1>2, <1>5, <2>1, <2>2, Zenon
  <2>4. manifest'.present =>
          /\ manifest'.tables = [s \in DOMAIN sstables' |-> sstables'[s].id]
          /\ manifest'.gen = current_gen' /\ manifest'.next_seq <= next_seq'
    <3>1. db.next_seq <= db.next_seq
      BY <1>5
    <3> QED
      BY <1>1, <1>2, <1>5, <3>1, Zenon
  <2> QED
    BY <1>1, <2>3, <2>4, Zenon DEF CommitOK
<1>17. HeldOK'
  BY <1>2, <1>4, IdleHolds, Zenon DEF HeldOK
<1> QED
  BY <1>8, <1>9, <1>10, <1>11, <1>12, <1>13, <1>14, <1>15, <1>16, <1>17 DEF EngineInv

\* What a get would return is a cell.
LEMMA VisibleContent ==
  ASSUME EngineInv
  PROVE  Visible \in Content
<1> SUFFICES ASSUME NEW k \in Keys PROVE Visible[k] \in Cell
  BY Zenon DEF Visible, Content
<1>1. memtable[k] \in Cell /\ flushing_memtable[k] \in Cell
  BY Zenon DEF EngineInv, TypeOK, MemoryType, MemContent, Cell
<1>2. IsList(sstables)
  BY Zenon DEF IsList, IsTables, EngineInv, TypeOK, MemoryType, BoundsOK
<1>3. ReadCell(vfiles, vlogs, Lookup(sstables, k)) \in Cell
  BY <1>2, LookupCell, ReadCellCell, Zenon
<1>4. \A c \in Cell : AsValue(c) \in Cell
  BY Zenon DEF AsValue, Cell, MemCell
<1> QED
  BY <1>1, <1>3, <1>4, Zenon DEF Visible

\* Removing wal-flushing.log after recovery preserves the invariant.
LEMMA OpenDropWalInv ==
  ASSUME EngineInv, OpenDropWal
  PROVE  EngineInv'
<1>1. mu' \in LockType /\ mu'.at = "open_done" /\ mu'.by = mu.by /\ mu'.ids = mu.ids
  BY Zenon DEF OpenDropWal, LockType, LockPoints, EngineInv, TypeOK, MemoryType
<1>2. mu.at = "drop_wal" /\ flushing_wal' = <<>> /\ pending' = NothingPending
  BY Zenon DEF OpenDropWal
<1>3. UNCHANGED <<mode, memory, flusher, jobs, waiting, rd, locals, wal, wal_synced, tablefiles,
                  ghost>>
  BY Zenon DEF OpenDropWal
<1>4. MemoryType'
  BY <1>1, <1>3, Zenon DEF EngineInv, TypeOK, MemoryType, memory
<1>8. LogsType'
  BY <1>2, <1>3, NothingIsPending DEF EngineInv, TypeOK, LogsType
<1>7. TypeOK'
  BY <1>3, <1>4, <1>8, TypeFrame, Zenon DEF TypeOK
<1>5. LockOK' /\ SlotOK'
  BY <1>1, <1>2, <1>3, Zenon DEF EngineInv, LockOK, SlotOK, memory
<1>6. GensOK' /\ BoundsOK' /\ IdsOK' /\ FilesOK' /\ FreshOK' /\ CommitOK' /\ HeldOK'
  BY <1>1, <1>2, <1>3, <1>5, MuMoves, Zenon DEF memory, EngineInv, LockOK
<1> QED
  BY <1>5, <1>6, <1>7, Zenon DEF EngineInv

\* The constructor returns.
LEMMA OpenDoneInv ==
  ASSUME EngineInv, OpenDone
  PROVE  EngineInv'
<1>1. mu.at = "open_done" /\ mode = "opening" /\ mode' = "open"
  BY Zenon DEF OpenDone, EngineInv, LockOK
<1>2. UNCHANGED <<memory, flusher, jobs, waiting, rd, locals, logfiles, pending, ssts, vfiles,
                  writes, crashes>>
  BY Zenon DEF OpenDone
<1>3. mu' \in LockType /\ mu'.at = "free" /\ mu'.by = "none" /\ mu'.ids = {}
  BY FreeLock, Zenon DEF OpenDone, Free
<1>4. UNCHANGED <<memtable, flushing_memtable, has_flushing, flushing_seq, sstables,
                  vlogs, current_gen, next_seq, compacting, obsolete, obsolete_gens>>
  BY <1>2, Zenon DEF memory
<1>5. /\ manifest' = IF manifest.present THEN manifest
                     ELSE ManifestOf(sstables, next_seq, current_gen)
      /\ kv' = Visible /\ lost' = FALSE
      /\ allowed' = IF wal_synced = Len(wal) THEN Settled(kv') ELSE allowed
  BY Zenon DEF OpenDone
<1>6. IsManifest(manifest') /\ CommitOK' /\ Bounded(DOMAIN manifest'.tables)
  <2>1. CASE manifest.present
    <3>1. manifest' = manifest
      BY <1>5, <2>1, Zenon
    <3> QED
      BY <1>1, <1>2, <1>4, <2>1, <3>1
     , Zenon DEF EngineInv, TypeOK, FilesType, BoundsOK, CommitOK
  <2>2. CASE ~manifest.present
    <3>1. manifest' = ManifestOf(sstables', next_seq, current_gen')
      BY <1>4, <1>5, <2>2, Zenon
    <3>2. IsTables(sstables') /\ Bounded(DOMAIN sstables') /\ current_gen' \in Nat
      BY <1>4, Zenon DEF EngineInv, TypeOK, MemoryType, BoundsOK
    <3>3. \A s \in DOMAIN sstables' : /\ sstables'[s].id \in DOMAIN ssts
                                      /\ sstables'[s].id < next_seq
      BY <1>1, <1>4, Zenon DEF EngineInv, FilesOK, FreshOK
    <3> QED
      BY <1>2, <1>4, <3>1, <3>2, <3>3, CommitList, Zenon
  <2> QED
    BY <2>1, <2>2, Zenon
<1>7. TypeOK'
  <2>1. MemoryType'
    BY <1>1, <1>3, <1>4, Zenon DEF EngineInv, TypeOK, MemoryType
  <2>2. FilesType'
    BY <1>2, <1>6, Zenon DEF EngineInv, TypeOK, FilesType
  <2>3. GhostType'
    <3>1. kv' \in Content
      BY <1>5, VisibleContent, Zenon
    <3>2. Settled(kv') \in [Keys -> SUBSET Cell]
      BY <3>1, Zenon DEF Settled, Content
    <3> QED
      BY <1>2, <1>5, <3>1, <3>2, Zenon DEF EngineInv, TypeOK, GhostType
  <2> QED
    BY <1>2, <2>1, <2>2, <2>3, TypeFrame, Zenon DEF TypeOK
<1>8. LockOK'
  BY <1>1, <1>3, Zenon DEF LockOK
<1>9. SlotOK'
  BY <1>1, <1>2, <1>3, <1>4, Zenon DEF EngineInv, SlotOK
<1>10. GensOK' /\ BoundsOK'
  BY <1>1, <1>2, <1>3, <1>4, <1>6, Zenon DEF EngineInv, GensOK, BoundsOK
<1>11. ~has_flushing /\ \A j \in Compactors : jobs[j].pc = "idle"
  BY <1>1, IdleHolds, Zenon DEF EngineInv, SlotOK
<1>12. IdsOK'
  <2>1. Listed' \subseteq Listed
    BY <1>2, <1>3, <1>4, Zenon DEF Listed, Old
  <2> QED
    BY <1>2, <1>3, <1>4, <1>11, <2>1, Zenon DEF EngineInv, IdsOK
<1>13. FilesOK' /\ FreshOK' /\ HeldOK'
  BY <1>1, <1>2, <1>3, <1>4, <1>11, Zenon DEF EngineInv, FilesOK, FreshOK, HeldOK
<1> QED
  BY <1>6, <1>7, <1>8, <1>9, <1>10, <1>12, <1>13, Zenon DEF EngineInv

\* A store that is not open: nothing in memory, and files of the right types in
\* which MANIFEST names tables that exist.
Closed ==
  /\ mode = "closed" /\ mu = Free
  /\ memtable = Empty /\ flushing_memtable = Empty
  /\ has_flushing = FALSE /\ flushing_seq = 0
  /\ sstables = NoTables /\ vlogs = {} /\ current_gen = 0 /\ next_seq = 0
  /\ compacting = FALSE /\ obsolete = {} /\ obsolete_gens = {}
  /\ flusher = IdleFlusher /\ jobs = [j \in Compactors |-> IdleJob]
  /\ waiting = {} /\ rd = [r \in Readers |-> IdleRead]
  /\ locals = [t \in Threads |-> NoRefs]
  /\ LogsType /\ FilesType /\ GhostType
  /\ Bounded(DOMAIN manifest.tables) /\ Bounded(DOMAIN ssts) /\ Bounded(DOMAIN vfiles)
  /\ manifest.present => \A s \in DOMAIN manifest.tables :
       manifest.tables[s] \in DOMAIN ssts /\ manifest.tables[s] < manifest.next_seq

\* Such a store satisfies the invariant: at first, and when the process ended.
LEMMA ClosedInv == Closed => EngineInv
<1> SUFFICES ASSUME Closed PROVE EngineInv
  BY ZenonT(40)
<1>0. /\ mode = "closed" /\ mu = Free
      /\ memtable = Empty /\ flushing_memtable = Empty
      /\ has_flushing = FALSE /\ flushing_seq = 0
      /\ sstables = NoTables /\ vlogs = {} /\ current_gen = 0 /\ next_seq = 0
      /\ compacting = FALSE /\ obsolete = {} /\ obsolete_gens = {}
      /\ flusher = IdleFlusher /\ waiting = {}
  BY ZenonT(40) DEF Closed
<1>1. Empty \in MemContent /\ Empty \in Content
  BY Zenon DEF Empty, MemContent, Content, MemCell, Cell
<1>2. DOMAIN NoTables = {} /\ IsTables(NoTables) /\ TableIds(NoTables) = {}
  <2>1. DOMAIN NoTables = {} /\ NoTables = [s \in DOMAIN NoTables |-> NoTables[s]]
    BY Zenon DEF NoTables
  <2> QED
    BY <2>1, Zenon DEF IsTables, TableIds
<1>3. mu \in LockType /\ mu.at = "free" /\ mu.by = "none" /\ mu.ids = {}
  BY <1>0, FreeLock, Zenon DEF Free
<1>4. flusher.pc = "idle"
  BY <1>0, Zenon DEF IdleFlusher
<1>5. /\ jobs = [j \in Compactors |-> jobs[j]] /\ \A j \in Compactors : jobs[j] = IdleJob
      /\ rd = [r \in Readers |-> rd[r]] /\ \A r \in Readers : rd[r] = IdleRead
  BY Zenon DEF Closed
<1>6. TypeOK
  <2>1. MemoryType
    BY <1>0, <1>1, <1>2, <1>3, Zenon DEF MemoryType
  <2>2. ThreadsType
    <3>1. locals \in [Threads -> RefsType]
      BY NoRefsType, Zenon DEF Closed
    <3> QED
      BY <1>0, <1>1, <1>5, <3>1, IdleHolds, Zenon DEF ThreadsType, IdleFlusher
  <2> QED
    BY <2>1, <2>2, Zenon DEF TypeOK, Closed
<1>7. LockOK
  BY <1>0, <1>3, Zenon DEF LockOK
<1>8. SlotOK
  BY <1>0, <1>3, <1>4, <1>5, Zenon DEF SlotOK
<1>9. GensOK
  BY <1>0, <1>3, Zenon DEF GensOK
<1>10. BoundsOK
  BY <1>0, <1>2, <1>5, IdleHolds, BoundedEmpty, Zenon DEF BoundsOK, Closed
<1>11. IdsOK
  <2>1. Listed = {}
    BY <1>0, <1>2, <1>3, <1>5, IdleHolds, Zenon DEF Listed, Old
  <2> QED
    BY <1>0, <1>3, <1>5, <2>1, IdleHolds, Zenon DEF IdsOK
<1>12. FilesOK
  BY <1>0, <1>2, <1>3, <1>4, <1>5, IdleHolds, Zenon DEF FilesOK
<1>13. FreshOK /\ CommitOK
  BY <1>0, Zenon DEF FreshOK, CommitOK, Closed
<1>14. HeldOK
  BY <1>5, IdleHolds, Zenon DEF HeldOK
<1> QED
  BY <1>6, <1>7, <1>8, <1>9, <1>10, <1>11, <1>12, <1>13, <1>14 DEF EngineInv

\* The same of the state a step leads to.
LEMMA ClosedNext == Closed' => EngineInv'
BY ClosedInv, PTL

\* The empty directory of a store never opened satisfies the invariant.
LEMMA InitInv == Init => EngineInv
<1> SUFFICES ASSUME Init PROVE Closed
  BY ClosedInv, Zenon
<1>1. DOMAIN NoTables = {} /\ NoTables = [s \in DOMAIN NoTables |-> NoTables[s]]
  BY Zenon DEF NoTables
<1>2. LogsType
  BY NothingIsPending DEF Init, LogsType
<1>3. FilesType
  BY <1>1, Zenon DEF Init, FilesType, IsManifest
<1>4. GhostType
  <2>1. Empty \in Content /\ Settled(Empty) \in [Keys -> SUBSET Cell]
    BY Zenon DEF Empty, Settled, Content, Cell, MemCell
  <2> QED
    BY <2>1, Zenon DEF Init, GhostType
<1>5. /\ Bounded(DOMAIN manifest.tables) /\ Bounded(DOMAIN ssts) /\ Bounded(DOMAIN vfiles)
      /\ ~manifest.present
  BY <1>1, BoundedEmpty, Zenon DEF Init
<1> QED
  BY <1>2, <1>3, <1>4, <1>5, Zenon DEF Init, Closed

\* ~DB, or the process is killed.
LEMMA ExitInv ==
  ASSUME EngineInv, Exit
  PROVE  EngineInv'
<1>1. UNCHANGED <<logfiles, pending, tablefiles, kv, allowed, writes, lost>>
      /\ crashes' = crashes + 1
  BY Zenon DEF Exit, MayCrash
<1>2. LogsType' /\ FilesType'
  BY <1>1, TypeFrame, Zenon
<1>3. GhostType'
  BY <1>1 DEF EngineInv, TypeOK, GhostType
<1>4. /\ Bounded(DOMAIN manifest'.tables) /\ Bounded(DOMAIN ssts')
      /\ Bounded(DOMAIN vfiles')
  BY <1>1, Zenon DEF EngineInv, BoundsOK, tablefiles
<1>5. manifest'.present => \A s \in DOMAIN manifest'.tables :
         manifest'.tables[s] \in DOMAIN ssts' /\ manifest'.tables[s] < manifest'.next_seq
  BY <1>1, Zenon DEF EngineInv, CommitOK, tablefiles
<1> QED
  BY <1>2, <1>3, <1>4, <1>5, ClosedNext, Zenon DEF Closed, Exit, MemoryLost

\* The machine stops.
LEMMA PowerLossInv ==
  ASSUME EngineInv, PowerLoss
  PROVE  EngineInv'
<1>1. /\ UNCHANGED <<manifest, ssts, kv, allowed, writes>> /\ lost' = TRUE
      /\ crashes' = crashes + 1 /\ pending' = NothingPending
      /\ vfiles' = [g \in DOMAIN vfiles |->
                     [vfiles[g] EXCEPT !.data = SubSeq(@, 1, vfiles[g].synced)]]
  BY Zenon DEF PowerLoss, MayCrash
<1>2. wal' \in Seq(LogRecord) /\ wal_synced' \in 0 .. Len(wal')
  <2>1. PICK undo \in BOOLEAN, n \in Int :
          /\ n \in (IF undo /\ pending.op = "truncate" THEN pending.synced ELSE wal_synced)
                   .. Len(IF undo /\ pending.op = "truncate" THEN pending.log ELSE wal)
          /\ wal' = SubSeq(IF undo /\ pending.op = "truncate" THEN pending.log ELSE wal, 1, n)
          /\ wal_synced' = n
    BY DEF PowerLoss
  <2> DEFINE log == IF undo /\ pending.op = "truncate" THEN pending.log ELSE wal
  <2>2. /\ wal \in Seq(LogRecord) /\ wal_synced \in 0 .. Len(wal)
        /\ pending.log \in Seq(LogRecord) /\ pending.synced \in 0 .. Len(pending.log)
    BY Zenon DEF EngineInv, TypeOK, LogsType, IsPending
  <2>3. log \in Seq(LogRecord) /\ n \in 0 .. Len(log)
    BY <2>1, <2>2
  <2>4. wal' = SubSeq(log, 1, n) /\ wal_synced' = n
    BY <2>1, Zenon
  <2> HIDE DEF log
  <2> QED
    BY <2>3, <2>4, PrefixOfLog
<1>3. flushing_wal' \in Seq(LogRecord)
  BY Zenon DEF PowerLoss, EngineInv, TypeOK, LogsType, IsPending
<1>4. LogsType'
  BY <1>1, <1>2, <1>3, NothingIsPending, Zenon DEF LogsType
<1>5. DOMAIN vfiles' = DOMAIN vfiles /\ \A g \in DOMAIN vfiles' : IsValueLog(vfiles'[g])
  <2>1. DOMAIN vfiles' = DOMAIN vfiles
    BY <1>1, Zenon
  <2>2. ASSUME NEW g \in DOMAIN vfiles PROVE IsValueLog(vfiles'[g])
    <3>1. /\ vfiles[g] \in [data : Seq(Content), synced : Nat]
          /\ vfiles[g].synced \in 0 .. Len(vfiles[g].data)
      BY DEF EngineInv, TypeOK, FilesType, IsValueLog
    <3> DEFINE kept == SubSeq(vfiles[g].data, 1, vfiles[g].synced)
    <3>2. vfiles'[g] = [vfiles[g] EXCEPT !.data = kept]
      BY <1>1, Zenon
    <3>3. kept \in Seq(Content) /\ Len(kept) = vfiles[g].synced
      BY <3>1, PrefixOfLog, Zenon
    <3> HIDE DEF kept
    <3> QED
      BY <3>1, <3>2, <3>3 DEF IsValueLog
  <2> QED
    BY <2>1, <2>2, Zenon
<1>6. FilesType'
  BY <1>1, <1>5, Zenon DEF EngineInv, TypeOK, FilesType
<1>7. GhostType'
  BY <1>1 DEF EngineInv, TypeOK, GhostType
<1>8. /\ Bounded(DOMAIN manifest'.tables) /\ Bounded(DOMAIN ssts')
      /\ Bounded(DOMAIN vfiles')
  BY <1>1, <1>5, Zenon DEF EngineInv, BoundsOK
<1>9. manifest'.present => \A s \in DOMAIN manifest'.tables :
         manifest'.tables[s] \in DOMAIN ssts' /\ manifest'.tables[s] < manifest'.next_seq
  BY <1>1, Zenon DEF EngineInv, CommitOK
<1> QED
  BY <1>4, <1>6, <1>7, <1>8, <1>9, ClosedNext, Zenon DEF Closed, PowerLoss, MemoryLost

-----------------------------------------------------------------------------
\* Value-log files and why they are still there.

\* vlogs_ lists the generation; the flusher appends to it; a reader has it in its
\* snapshot, or a thread that released the lock in its locals.
GenHeld(g) ==
  \/ g \in vlogs
  \/ flusher.pc # "idle" /\ g = flusher.gen
  \/ \E r \in Readers : g \in rd[r].gens
  \/ \E t \in Threads : g \in locals[t].gens

\* Every value-log file is listed, marked, or the one a collection is filling.
GensWanted ==
  mode # "closed" =>
    \A g \in DOMAIN vfiles : \/ g \in vlogs \/ g \in obsolete_gens
                             \/ mu.at = "gc_built" /\ g = current_gen + 1

\* One that is marked is left only to those who still refer to it, and a reader
\* that is not reading refers to none.
OldGensWanted ==
  /\ \A g \in obsolete_gens : GenHeld(g)
  /\ \A r \in Readers : rd[r].pc = "idle" => rd[r].gens = {}

GenLeakInv == GensWanted /\ OldGensWanted

\* A step that marks nothing and drops no reference.
LEMMA GensGrow ==
  ASSUME GenLeakInv, mode # "closed", obsolete_gens' = obsolete_gens, vlogs \subseteq vlogs',
         \A g \in DOMAIN vfiles' : \/ g \in DOMAIN vfiles
                                   \/ mu'.at = "gc_built" /\ g = current_gen' + 1,
         mu.at = "gc_built" => \/ current_gen + 1 \in vlogs'
                               \/ mu'.at = "gc_built" /\ current_gen' = current_gen,
         \A g : GenHeld(g) => GenHeld(g)',
         \A r \in Readers : rd'[r].pc = "idle" => rd'[r].gens = {}
  PROVE  GenLeakInv'
<1>1. GensWanted'
  BY Zenon DEF GenLeakInv, GensWanted
<1>2. OldGensWanted'
  BY Zenon DEF GenLeakInv, OldGensWanted
<1> QED
  BY <1>1, <1>2, Zenon DEF GenLeakInv

\* A step that touches neither the lists nor which files there are.
LEMMA GensSame ==
  ASSUME GenLeakInv, mode # "closed", DOMAIN vfiles' = DOMAIN vfiles,
         UNCHANGED <<vlogs, obsolete_gens, current_gen, rd, locals>>,
         mu.at # "gc_built" \/ mu' = mu,
         flusher.pc # "idle" => flusher'.pc # "idle" /\ flusher'.gen = flusher.gen
  PROVE  GenLeakInv'
<1>1. \A g : GenHeld(g) => GenHeld(g)'
  BY Zenon DEF GenHeld
<1>2. \A r \in Readers : rd'[r].pc = "idle" => rd'[r].gens = {}
  BY Zenon DEF GenLeakInv, OldGensWanted
<1> QED
  BY <1>1, <1>2, GensGrow, Zenon

\* A step that unlinks: what stays marked is still referred to.
LEMMA GensUnlink ==
  ASSUME GenLeakInv, mode # "closed", NEW obs, NEW obsg, NEW tbls,
         Unlink(obs, obsg, tbls, vlogs', flusher', jobs', rd', locals'),
         obsolete_gens \subseteq obsg, vlogs \subseteq vlogs' \cup obsg,
         mu.at # "gc_built" \/ mu' = mu, current_gen' = current_gen,
         \A r \in Readers : rd'[r].pc = "idle" => rd'[r].gens = {}
  PROVE  GenLeakInv'
<1> DEFINE t == UnheldGens(obsg, vlogs', flusher', rd', locals')
<1>1. DOMAIN vfiles' \subseteq DOMAIN vfiles /\ \A g \in DOMAIN vfiles' : g \notin t
  BY Zenon DEF Unlink, Restrict
<1>2. obsolete_gens' = obsg \ t
  BY Zenon DEF Unlink
<1>3. \A g \in obsg : g \notin t => GenHeld(g)'
  BY Zenon DEF UnheldGens, GenHeld
<1> HIDE DEF t
<1>4. GensWanted'
  BY <1>1, <1>2, Zenon DEF GenLeakInv, GensWanted
<1>5. OldGensWanted'
  BY <1>2, <1>3, Zenon DEF OldGensWanted
<1> QED
  BY <1>4, <1>5, Zenon DEF GenLeakInv

\* Clients and readers.
LEMMA ClientGens ==
  ASSUME EngineInv, GenLeakInv, ClientStep \/ ReadStep
  PROVE  GenLeakInv'
<1>1. ASSUME LockFree,
             UNCHANGED <<vlogs, obsolete_gens, current_gen, flusher, rd, locals, vfiles>>
      PROVE  GenLeakInv'
  BY <1>1, GensSame, Zenon DEF LockFree
<1>2. ASSUME NEW c, NEW k, NEW cell, NEW sync, WriteRecord(c, k, cell, sync)
      PROVE  GenLeakInv'
  BY <1>1, <1>2, Zenon DEF WriteRecord, tablefiles
<1>3. ASSUME NEW c, MaybeSeal(c) PROVE GenLeakInv'
  BY <1>1, <1>3, Zenon DEF MaybeSeal, tablefiles
<1>4. CASE Sync \/ Flush
  BY <1>1, <1>4, Zenon DEF Sync, Flush, memory, tablefiles
<1>5. CASE GcValueLog
  BY <1>1, <1>5, Zenon DEF GcValueLog, tablefiles
<1>6. CASE CompactAll
  BY <1>1, <1>6, Zenon DEF CompactAll, StartMerge, tablefiles
<1>7. ASSUME NEW r \in Readers, LockFree, rd[r].pc = "idle", NEW keys, NEW mem,
             Snapshot(r, keys, mem)
      PROVE  GenLeakInv'
  <2>1. mode # "closed" /\ mu.at # "gc_built"
    BY <1>7, Zenon DEF LockFree
  <2>2. UNCHANGED <<mu, vlogs, obsolete_gens, current_gen, flusher, locals, vfiles>>
    BY <1>7, Zenon DEF Snapshot, memory, tablefiles
  <2>3. rd'[r].pc = "reading" /\ \A q \in Readers : q # r => rd'[q] = rd[q]
    BY <1>7, Zenon DEF Snapshot, EngineInv, TypeOK, ThreadsType
  <2>4. \A q \in Readers : rd[q].pc = "idle" => rd[q].gens = {}
    BY Zenon DEF GenLeakInv, OldGensWanted
  <2>5. \A q \in Readers : rd'[q].pc = "idle" => rd'[q].gens = {}
    BY <2>3, <2>4, Zenon
  <2>6. \A g, q : q \in Readers /\ g \in rd[q].gens => g \in rd'[q].gens
    BY <1>7, <2>3, <2>4, Zenon
  <2>7. \A g : GenHeld(g) => GenHeld(g)'
    BY <2>2, <2>6, Zenon DEF GenHeld
  <2> QED
    BY <2>1, <2>2, <2>5, <2>7, GensGrow, Zenon
<1>8. ASSUME NEW r \in Readers, EndRead(r) PROVE GenLeakInv'
  <2>1. mode # "closed" /\ UNCHANGED <<mu, vlogs, current_gen, flusher, jobs, locals>>
    BY <1>8, Zenon DEF EndRead, Open
  <2>2. rd'[r] = IdleRead /\ \A q \in Readers : q # r => rd'[q] = rd[q]
    BY <1>8, Zenon DEF EndRead, EngineInv, TypeOK, ThreadsType
  <2>3. \A q \in Readers : rd'[q].pc = "idle" => rd'[q].gens = {}
    BY <2>2, IdleHolds, Zenon DEF GenLeakInv, OldGensWanted
  <2>4. Unlink(obsolete, obsolete_gens, sstables, vlogs', flusher', jobs', rd', locals')
    BY <1>8, <2>1, Zenon DEF EndRead
  <2> QED
    BY <2>1, <2>3, <2>4, GensUnlink, Zenon
<1> QED
  BY <1>2, <1>3, <1>4, <1>5, <1>6, <1>7, <1>8, Zenon
  DEF ClientStep, ReadStep, Put, Del, Get, Scan

\* The locals of a thread go out of scope.
LEMMA EndScopeGens ==
  ASSUME GenLeakInv, NEW t \in Threads, EndScope(t)
  PROVE  GenLeakInv'
<1>1. mode # "closed" /\ UNCHANGED <<mu, vlogs, current_gen, flusher, jobs, rd>>
  BY Zenon DEF EndScope, Open
<1>2. \A q \in Readers : rd'[q].pc = "idle" => rd'[q].gens = {}
  BY <1>1, Zenon DEF GenLeakInv, OldGensWanted
<1>3. Unlink(obsolete, obsolete_gens, sstables, vlogs', flusher', jobs', rd', locals')
  BY <1>1, Zenon DEF EndScope
<1> QED
  BY <1>1, <1>2, <1>3, GensUnlink, Zenon

\* The flusher, which keeps its generation until its locals are gone.
LEMMA FlusherGens ==
  ASSUME EngineInv, GenLeakInv, FlusherStep
  PROVE  GenLeakInv'
<1>1. CASE FlusherTake
  <2>1. /\ mode # "closed" /\ mu.at # "gc_built" /\ flusher.pc = "idle"
        /\ UNCHANGED <<vlogs, obsolete_gens, current_gen, rd, locals, vfiles>>
    BY <1>1, Zenon DEF FlusherTake, LockFree, memory, tablefiles
  <2> QED
    BY <2>1, GensSame, Zenon
<1>2. CASE FlusherBuild
  <2>1. mode # "closed" /\ UNCHANGED <<mu, vlogs, obsolete_gens, current_gen, rd, locals>>
    BY <1>2, Zenon DEF FlusherBuild, Open, memory
  <2>2. flusher'.pc = "built" /\ flusher'.gen = flusher.gen
    BY <1>2, Zenon DEF FlusherBuild, EngineInv, TypeOK, ThreadsType
  <2>3. DOMAIN vfiles' = DOMAIN vfiles
    BY <1>2, Zenon DEF FlusherBuild
  <2> QED
    BY <2>1, <2>2, <2>3, GensSame, Zenon
<1>3. CASE FlusherCommit
  <2>1. /\ mode # "closed" /\ mu.at # "gc_built"
        /\ UNCHANGED <<vlogs, obsolete_gens, current_gen, flusher, rd, locals, vfiles>>
    BY <1>3, Zenon DEF FlusherCommit, LockFree
  <2> QED
    BY <2>1, GensSame, Zenon
<1>4. CASE FlusherFinish
  <2>1. mu.at = "flusher_committed" /\ UNCHANGED <<vlogs, current_gen, jobs, rd>>
    BY <1>4, Zenon DEF FlusherFinish
  <2>2. mode # "closed"
    BY <2>1, Zenon DEF EngineInv, LockOK, TypeOK, MemoryType, LockType
  <2>3. \A q \in Readers : rd'[q].pc = "idle" => rd'[q].gens = {}
    BY <2>1, Zenon DEF GenLeakInv, OldGensWanted
  <2>4. Unlink(obsolete, obsolete_gens, sstables, vlogs', flusher', jobs', rd', locals')
    BY <1>4, <2>1, Zenon DEF FlusherFinish
  <2> QED
    BY <2>1, <2>2, <2>3, <2>4, GensUnlink, Zenon
<1> QED
  BY <1>1, <1>2, <1>3, <1>4, EndScopeGens, Zenon DEF FlusherStep, Threads

\* A merge reads pointers, never the value log.
LEMMA MergeGens ==
  ASSUME EngineInv, GenLeakInv,
         DoSizeTieredCompaction \/ \E j \in Compactors : MergeStep(j)
  PROVE  GenLeakInv'
<1>1. CASE DoSizeTieredCompaction
  <2>1. /\ mode # "closed" /\ mu.at # "gc_built"
        /\ UNCHANGED <<vlogs, obsolete_gens, current_gen, flusher, rd, locals, vfiles>>
    BY <1>1, Zenon DEF DoSizeTieredCompaction, StartMerge, LockFree, tablefiles
  <2> QED
    BY <2>1, GensSame, Zenon
<1>2. ASSUME NEW j \in Compactors, MergeBuild(j) PROVE GenLeakInv'
  <2>1. /\ mode # "closed"
        /\ UNCHANGED <<mu, vlogs, obsolete_gens, current_gen, flusher, rd, locals, vfiles>>
    BY <1>2, Zenon DEF MergeBuild, Open, memory
  <2> QED
    BY <2>1, GensSame, Zenon
<1>3. ASSUME NEW j \in Compactors, MergeCommit(j) PROVE GenLeakInv'
  <2>1. /\ mode # "closed" /\ mu.at # "gc_built"
        /\ UNCHANGED <<vlogs, obsolete_gens, current_gen, flusher, rd, locals, vfiles>>
    BY <1>3, Zenon DEF MergeCommit, LockFree
  <2> QED
    BY <2>1, GensSame, Zenon
<1>4. ASSUME NEW j \in Compactors, MergeFinish(j) PROVE GenLeakInv'
  <2>1. mu.at = "merge_committed" /\ UNCHANGED <<vlogs, current_gen, flusher, rd>>
    BY <1>4, Zenon DEF MergeFinish, FinishMerge
  <2>2. mode # "closed"
    BY <2>1, Zenon DEF EngineInv, LockOK, TypeOK, MemoryType, LockType
  <2>3. \A q \in Readers : rd'[q].pc = "idle" => rd'[q].gens = {}
    BY <2>1, Zenon DEF GenLeakInv, OldGensWanted
  <2>4. PICK obs : Unlink(obs, obsolete_gens, sstables, vlogs', flusher', jobs', rd', locals')
    BY <1>4, <2>1, Zenon DEF MergeFinish, FinishMerge
  <2> QED
    BY <2>1, <2>2, <2>3, <2>4, GensUnlink, Zenon
<1> QED
  BY <1>1, <1>2, <1>3, <1>4, EndScopeGens, Zenon DEF MergeStep, Threads

\* flush_locked and the collection: the new generation is listed with its table,
\* the old ones are marked when they leave the list.
LEMMA LockedGens ==
  ASSUME EngineInv, GenLeakInv, FlushLockedStep \/ GcStep
  PROVE  GenLeakInv'
<1>0. mu.at # "free" => mode # "closed"
  BY Zenon DEF EngineInv, LockOK, TypeOK, MemoryType, LockType
<1>1. ASSUME mu.at \notin {"free", "gc_built"}, DOMAIN vfiles' = DOMAIN vfiles,
             UNCHANGED <<vlogs, obsolete_gens, current_gen, flusher, rd, locals>>
      PROVE  GenLeakInv'
  BY <1>0, <1>1, GensSame, Zenon
<1>2. CASE FlushBuild
  <2>1. DOMAIN vfiles' = DOMAIN vfiles
    BY <1>2, Zenon DEF FlushBuild
  <2> QED
    BY <1>1, <1>2, <2>1, Zenon DEF FlushBuild
<1>3. CASE FlushCommit \/ FlushTruncate
  BY <1>1, <1>3, Zenon DEF FlushCommit, FlushTruncate, tablefiles
<1>4. CASE GcNothing
  BY <1>1, <1>4, Zenon DEF GcNothing, tablefiles
<1>5. \A q \in Readers : rd[q].pc = "idle" => rd[q].gens = {}
  BY Zenon DEF GenLeakInv, OldGensWanted
<1>6. CASE GcBuild
  <2>1. mu.at = "gc" /\ UNCHANGED <<vlogs, obsolete_gens, current_gen, flusher, rd, locals>>
    BY <1>6, Zenon DEF GcBuild
  <2>2. mu'.at = "gc_built"
    BY <1>6, Zenon DEF GcBuild, EngineInv, TypeOK, MemoryType, LockType
  <2>3. \A g \in DOMAIN vfiles' : g \in DOMAIN vfiles \/ g = current_gen + 1
    BY <1>6, Zenon DEF GcBuild, WithFile
  <2>4. \A g : GenHeld(g) => GenHeld(g)'
    BY <2>1, Zenon DEF GenHeld
  <2> QED
    BY <1>0, <1>5, <2>1, <2>2, <2>3, <2>4, GensGrow, Zenon
<1>7. CASE GcCommit
  <2>1. mu.at = "gc_built" /\ UNCHANGED <<obsolete_gens, flusher, rd, locals, vfiles>>
    BY <1>7, Zenon DEF GcCommit
  <2>2. current_gen + 1 \in vlogs' /\ vlogs \subseteq vlogs'
    BY <1>7, Zenon DEF GcCommit
  <2>3. \A g : GenHeld(g) => GenHeld(g)'
    BY <2>1, <2>2, Zenon DEF GenHeld
  <2> QED
    BY <1>0, <1>5, <2>1, <2>2, <2>3, GensGrow, Zenon
<1>8. CASE GcFinish
  <2>1. /\ mu.at = "gc_committed" /\ vlogs' = {current_gen}
        /\ UNCHANGED <<current_gen, flusher, jobs, rd, locals>>
    BY <1>8, Zenon DEF GcFinish
  <2> DEFINE obsg == obsolete_gens \cup (vlogs \ {current_gen})
  <2>2. PICK obs : Unlink(obs, obsg, sstables, vlogs', flusher', jobs', rd', locals')
    BY <1>8, <2>1, Zenon DEF GcFinish
  <2>3. obsolete_gens \subseteq obsg /\ vlogs \subseteq vlogs' \cup obsg
    BY <2>1, Zenon
  <2> HIDE DEF obsg
  <2> QED
    BY <1>0, <1>5, <2>1, <2>2, <2>3, GensUnlink, Zenon
<1> QED
  BY <1>2, <1>3, <1>4, <1>6, <1>7, <1>8, Zenon DEF FlushLockedStep, GcStep

\* A directory nobody has open.
LEMMA ClosedGens ==
  mode = "closed" /\ obsolete_gens = {} /\ rd = [r \in Readers |-> IdleRead] => GenLeakInv
BY IdleHolds, Zenon DEF GenLeakInv, GensWanted, OldGensWanted

\* Every step of every thread preserves the invariant.
LEMMA NextGens ==
  ASSUME EngineInv, GenLeakInv, [Next]_vars
  PROVE  GenLeakInv'
<1>1. CASE OpenDB
  <2>1. obsolete_gens' = {} /\ \A r \in Readers : rd'[r] = IdleRead
    BY <1>1, Zenon DEF OpenDB, EngineInv, SlotOK
  <2>2. DOMAIN vfiles' = vlogs'
    BY <1>1, Zenon DEF OpenDB, CleanupOrphans
  <2> QED
    BY <2>1, <2>2, IdleHolds, Zenon DEF GenLeakInv, GensWanted, OldGensWanted
<1>2. CASE OpenDropWal \/ OpenDone
  <2>1. mode # "closed" /\ mu.at # "gc_built"
    BY <1>2, Zenon DEF OpenDropWal, OpenDone, EngineInv, LockOK, TypeOK, MemoryType, LockType
  <2>2. UNCHANGED <<vlogs, obsolete_gens, current_gen, flusher, rd, locals, vfiles>>
    BY <1>2, Zenon DEF OpenDropWal, OpenDone, memory, tablefiles
  <2> QED
    BY <2>1, <2>2, GensSame, Zenon
<1>3. CASE Exit \/ PowerLoss
  <2>1. (mode = "closed" /\ obsolete_gens = {} /\ rd = [r \in Readers |-> IdleRead])'
    BY <1>3, Zenon DEF Exit, PowerLoss, MemoryLost, IdleRead, NoTables, Empty
  <2> QED
    BY <2>1, ClosedGens, PTL
<1>4. CASE UNCHANGED vars
  <2>1. UNCHANGED <<mode, mu, vlogs, obsolete_gens, current_gen, flusher, rd, locals, vfiles>>
    BY <1>4, Zenon DEF vars, memory, tablefiles
  <2> QED
    BY <2>1, Zenon DEF GenLeakInv, GensWanted, OldGensWanted, GenHeld
<1> QED
  BY <1>1, <1>2, <1>3, <1>4, ClientGens, FlusherGens, MergeGens, LockedGens, Zenon
  DEF Next, OpenStep
=============================================================================
