------------------------------ MODULE LsmFlush ------------------------------
(***************************************************************************)
(* Writes and what makes them tables: put, del, sync, maybe_seal, flush()  *)
(* and the flusher thread.                                                 *)
(***************************************************************************)
EXTENDS LsmState

-----------------------------------------------------------------------------
\* Client calls that write.

\* seal_locked on memtable m, whose records are in log.
SealLocked(m, log) ==
  /\ flushing_wal' = log
  /\ wal' = <<>> /\ wal_synced' = 0
  /\ pending' = NothingPending
  /\ flushing_seq' = next_seq
  /\ next_seq' = next_seq + 1
  /\ flushing_memtable' = m
  /\ memtable' = Empty
  /\ has_flushing' = TRUE

\* As SealMayRun, but the writer does not wait, or waits for the memtable to go,
\* too.
SealAtOnce == TRUE

SealWhenEmpty == ~has_flushing /\ memtable = Empty

\* What a writer waits for in maybe_seal.
SealMayRun == ~has_flushing

\* put and del up to the point where they return or block in maybe_seal.
WriteRecord(c, k, cell, sync) ==
  LET m   == MemPut(memtable, k, cell)
      log == Append(wal, [key |-> k, cell |-> cell])
      full == SizeBytes(m) >= Threshold
  IN
  /\ LockFree /\ c \notin waiting /\ writes < MaxWrites
  /\ kv' = [kv EXCEPT ![k] = AsValue(cell)]
  /\ writes' = writes + 1
  /\ \/ /\ full /\ SealMayRun
        /\ SealLocked(m, log)
        /\ allowed' = Settled(kv')
        /\ UNCHANGED waiting
     \/ /\ ~(full /\ SealMayRun)
        /\ memtable' = m
        /\ wal' = log
        /\ wal_synced' = IF sync THEN Len(log) ELSE wal_synced
        /\ pending' = IF sync THEN NothingPending ELSE pending
        /\ allowed' = IF sync THEN Settled(kv')
                      ELSE [allowed EXCEPT ![k] = @ \cup {AsValue(cell)}]
        /\ waiting' = IF full THEN waiting \cup {c} ELSE waiting
        /\ UNCHANGED <<flushing_wal, flushing_seq, next_seq, flushing_memtable,
                       has_flushing>>
  /\ UNCHANGED <<mode, mu, sstables, vlogs, current_gen, compacting, obsolete,
                 obsolete_gens, flusher, jobs, rd, locals, tablefiles, crashes,
                 lost>>

Put(c, k, v, sync) == WriteRecord(c, k, v, sync)
Del(c, k, sync)    == WriteRecord(c, k, Tomb, sync)

\* A client blocked in maybe_seal gets the slot: it seals whatever the
\* memtable holds by then, full or not.
MaybeSeal(c) ==
  /\ LockFree /\ c \in waiting /\ SealMayRun
  /\ waiting' = waiting \ {c}
  /\ IF memtable = Empty
     THEN UNCHANGED <<memtable, flushing_memtable, has_flushing, flushing_seq,
                      next_seq, logfiles, pending, allowed>>
     ELSE SealLocked(memtable, wal) /\ allowed' = Settled(kv)
  /\ UNCHANGED <<mode, mu, sstables, vlogs, current_gen, compacting, obsolete,
                 obsolete_gens, flusher, jobs, rd, locals, tablefiles, kv,
                 writes, crashes, lost>>

Sync ==
  /\ LockFree
  /\ wal_synced' = Len(wal)
  /\ pending' = NothingPending
  /\ allowed' = Settled(kv)
  /\ UNCHANGED <<mode, mu, memory, flusher, jobs, waiting, rd, locals, wal,
                 flushing_wal, tablefiles, kv, writes, crashes, lost>>

-----------------------------------------------------------------------------
\* flush_locked, run under mu_ by flush(), by garbage collection (by = "gc")
\* and by the constructor (by = "open").

\* As FlushMayRun, but flush() does not wait.
FlushAtOnce == TRUE

\* flush() waits for the flushing slot to be free.
FlushMayRun == ~has_flushing

Flush ==
  /\ LockFree /\ FlushMayRun
  /\ mu' = [Free EXCEPT !.at = "flush", !.by = "flush"]
  /\ UNCHANGED <<mode, memory, flusher, jobs, waiting, rd, locals, logfiles,
                 pending, tablefiles, ghost>>

\* Where the caller of flush_locked goes on.
AfterFlush(by) ==
  CASE by = "flush" -> Free
    [] by = "gc"    -> [Free EXCEPT !.at = "gc", !.by = by]
    [] by = "open"  -> [Free EXCEPT !.at = "drop_wal", !.by = by]

\* Nothing to flush, or: separate and sync the large values, build the table,
\* rename it into place, sync the directory.
FlushBuild ==
  /\ mu.at = "flush"
  /\ \/ /\ memtable = Empty
        /\ mu' = AfterFlush(mu.by)
        /\ UNCHANGED <<next_seq, ssts, vfiles, pending>>
     \/ /\ memtable # Empty
        /\ LET log == vfiles[current_gen]
               out == Separated(memtable, current_gen, Len(log.data) + 1)
           IN  /\ vfiles' = [vfiles EXCEPT ![current_gen] =
                                AppendSynced(log, memtable)]
               /\ ssts' = WithFile(ssts, next_seq, out)
               /\ mu' = [mu EXCEPT !.at = "flush_built", !.seq = next_seq,
                                   !.data = out]
        /\ next_seq' = next_seq + 1
        /\ pending' = NothingPending
  /\ UNCHANGED <<mode, memtable, flushing_memtable, has_flushing, flushing_seq,
                 sstables, vlogs, current_gen, compacting, obsolete,
                 obsolete_gens, flusher, jobs, waiting, rd, locals, logfiles,
                 manifest, ghost>>

\* The table becomes the newest and MANIFEST names it.
FlushCommit ==
  /\ mu.at = "flush_built"
  /\ sstables' = PushNewest(sstables, Table(mu.seq, mu.data))
  /\ manifest' = ManifestOf(sstables', next_seq, current_gen)
  /\ mu' = [mu EXCEPT !.at = "flush_committed"]
  /\ pending' = NothingPending
  /\ UNCHANGED <<mode, memtable, flushing_memtable, has_flushing, flushing_seq,
                 vlogs, current_gen, next_seq, compacting, obsolete,
                 obsolete_gens, flusher, jobs, waiting, rd, locals, logfiles,
                 ssts, vfiles, ghost>>

\* The memtable starts afresh and wal.log is truncated, without a sync.
FlushTruncate ==
  /\ mu.at = "flush_committed"
  /\ memtable' = Empty
  /\ wal' = <<>> /\ wal_synced' = 0
  /\ pending' = [op |-> "truncate", log |-> wal, synced |-> wal_synced]
  /\ mu' = AfterFlush(mu.by)
  /\ allowed' = IF Open THEN Settled(kv) ELSE allowed
  /\ UNCHANGED <<mode, flushing_memtable, has_flushing, flushing_seq, sstables,
                 vlogs, current_gen, next_seq, compacting, obsolete,
                 obsolete_gens, flusher, jobs, waiting, rd, locals,
                 flushing_wal, tablefiles, kv, writes, crashes, lost>>

-----------------------------------------------------------------------------
\* flush_loop.

\* Under the lock: copy the sealed memtable and the current generation.
FlusherTake ==
  /\ LockFree /\ flusher.pc = "idle" /\ has_flushing
  /\ locals["flusher"] = NoRefs
  /\ flusher' = [pc |-> "taken", data |-> flushing_memtable,
                 gen |-> current_gen, seq |-> flushing_seq]
  /\ UNCHANGED <<mode, mu, memory, jobs, waiting, rd, locals, logfiles,
                 pending, tablefiles, ghost>>

\* As FlusherBuild, but large values are separated in the sealed memtable itself
\* and not in a copy of its records.
FlusherBuildInPlace ==
  /\ Open /\ flusher.pc = "taken"
  /\ LET log == vfiles[flusher.gen]
         out == Separated(flusher.data, flusher.gen, Len(log.data) + 1)
     IN  /\ vfiles' = [vfiles EXCEPT ![flusher.gen] =
                          AppendSynced(log, flusher.data)]
         /\ ssts' = WithFile(ssts, flusher.seq, out)
         /\ flusher' = [flusher EXCEPT !.pc = "built", !.data = out]
         /\ flushing_memtable' = out
  /\ pending' = NothingPending
  /\ UNCHANGED <<mode, mu, memtable, has_flushing, flushing_seq, sstables, vlogs,
                 current_gen, next_seq, compacting, obsolete, obsolete_gens,
                 jobs, waiting, rd, locals, logfiles, manifest, ghost>>

\* Without the lock: value log, table file, rename, directory sync.
FlusherBuild ==
  /\ Open /\ flusher.pc = "taken"
  /\ LET log == vfiles[flusher.gen]
         out == Separated(flusher.data, flusher.gen, Len(log.data) + 1)
     IN  /\ vfiles' = [vfiles EXCEPT ![flusher.gen] =
                          AppendSynced(log, flusher.data)]
         /\ ssts' = WithFile(ssts, flusher.seq, out)
         /\ flusher' = [flusher EXCEPT !.pc = "built", !.data = out]
  /\ pending' = NothingPending
  /\ UNCHANGED <<mode, mu, memory, jobs, waiting, rd, locals, logfiles,
                 manifest, ghost>>

\* Under the lock again: list the table first and commit the list.
FlusherCommit ==
  /\ LockFree /\ flusher.pc = "built"
  /\ sstables' = PushNewest(sstables, Table(flusher.seq, flusher.data))
  /\ manifest' = ManifestOf(sstables', next_seq, current_gen)
  /\ mu' = [Free EXCEPT !.at = "flusher_committed", !.by = "flusher"]
  /\ pending' = NothingPending
  /\ UNCHANGED <<mode, memtable, flushing_memtable, has_flushing, flushing_seq,
                 vlogs, current_gen, next_seq, compacting, obsolete,
                 obsolete_gens, flusher, jobs, waiting, rd, locals, logfiles,
                 ssts, vfiles, ghost>>

\* Still under it: free the slot and remove wal-flushing.log, without a sync.
\* output and gen_log live on until the end of the loop body.
FlusherFinish ==
  /\ mu.at = "flusher_committed"
  /\ flushing_memtable' = Empty
  /\ has_flushing' = FALSE
  /\ flushing_wal' = <<>>
  /\ pending' = [op |-> "remove", log |-> flushing_wal, synced |-> 0]
  /\ flusher' = IdleFlusher
  /\ locals' = [locals EXCEPT !["flusher"] = [tables |-> {flusher.seq},
                                              gens |-> {flusher.gen}]]
  /\ mu' = Free
  /\ Unlink(obsolete, obsolete_gens, sstables, vlogs, flusher', jobs, rd, locals')
  /\ UNCHANGED <<mode, memtable, flushing_seq, sstables, vlogs, current_gen,
                 next_seq, compacting, jobs, waiting, rd, wal,
                 wal_synced, manifest, ghost>>

FlusherStep ==
  FlusherTake \/ FlusherBuild \/ FlusherCommit \/ FlusherFinish
  \/ EndScope("flusher")

FlushLockedStep == FlushBuild \/ FlushCommit \/ FlushTruncate
=============================================================================
