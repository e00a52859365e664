----------------------------- MODULE LsmCompact -----------------------------
(***************************************************************************)
(* What rewrites tables: the compactor thread (size-tiered), compact_all,  *)
(* and the garbage collection of value logs.                               *)
(***************************************************************************)
EXTENDS LsmState

-----------------------------------------------------------------------------
\* Merges: do_size_tiered_compaction and compact_all.

\* As SetCompacting, but the flag is never set, or never cleared.
CompactingUnset(b) == compacting' = FALSE

CompactingSticky(b) == compacting' = (compacting \/ b)

\* compacting_ is one flag for all: a merge sets it when it starts and clears
\* it when it ends, whoever else is merging.
SetCompacting(b) == compacting' = b

StartMerge(j, R, drop) ==
  /\ jobs' = [jobs EXCEPT ![j] =
                [pc |-> "picked", inputs |-> Restrict(sstables, R),
                 drop |-> drop, seq |-> next_seq, data |-> Empty]]
  /\ next_seq' = next_seq + 1
  /\ SetCompacting(TRUE)
  /\ UNCHANGED <<mode, mu, memtable, flushing_memtable, has_flushing,
                 flushing_seq, sstables, vlogs, current_gen, obsolete,
                 obsolete_gens, flusher, waiting, rd, locals, logfiles,
                 pending, tablefiles, ghost>>

\* The compactor wakes, and picks under the lock; when nothing is to be merged
\* any more it goes back to waiting.
DoSizeTieredCompaction ==
  /\ LockFree /\ "compactor" \in Compactors /\ jobs["compactor"].pc = "idle"
  /\ locals["compactor"] = NoRefs
  /\ \E R \in PickCompaction(sstables) :
        StartMerge("compactor", R, ReachesOldest(sstables, R))

CompactAll ==
  /\ LockFree /\ "compact_all" \in Compactors /\ jobs["compact_all"].pc = "idle"
  /\ locals["compact_all"] = NoRefs
  /\ Cardinality(DOMAIN sstables) > 1
  /\ StartMerge("compact_all", DOMAIN sstables, TRUE)

\* Without the lock: merge, build, rename, sync the directory.
MergeBuild(j) ==
  /\ Open /\ jobs[j].pc = "picked"
  /\ LET out == MergeRecords(jobs[j].inputs, jobs[j].drop)
     IN  /\ ssts' = WithFile(ssts, jobs[j].seq, out)
         /\ jobs' = [jobs EXCEPT ![j].pc = "built", ![j].data = out]
  /\ pending' = NothingPending
  /\ UNCHANGED <<mode, mu, memory, flusher, waiting, rd, locals, logfiles,
                 manifest, vfiles, ghost>>

\* Under the lock: swap the list and commit it.
MergeCommit(j) ==
  /\ LockFree /\ jobs[j].pc = "built"
  /\ sstables' = InstallMergeResult(sstables, TableIds(jobs[j].inputs),
                                    Table(jobs[j].seq, jobs[j].data))
  /\ manifest' = ManifestOf(sstables', next_seq, current_gen)
  /\ mu' = [Free EXCEPT !.at = "merge_committed", !.by = j]
  /\ pending' = NothingPending
  /\ UNCHANGED <<mode, memtable, flushing_memtable, has_flushing, flushing_seq,
                 vlogs, current_gen, next_seq, compacting, obsolete,
                 obsolete_gens, flusher, jobs, waiting, rd, locals, logfiles,
                 ssts, vfiles, ghost>>

\* Still under it: the inputs become obsolete and are released.  What the merge
\* built is still referred to when it returns.
FinishMerge(j, outputs) ==
  /\ mu.at = "merge_committed" /\ mu.by = j
  /\ jobs' = [jobs EXCEPT ![j] = IdleJob]
  /\ locals' = [locals EXCEPT ![j] = [NoRefs EXCEPT !.tables = outputs]]
  /\ SetCompacting(FALSE)
  /\ mu' = Free
  /\ Unlink(obsolete \cup TableIds(jobs[j].inputs), obsolete_gens, sstables,
            vlogs, flusher, jobs', rd, locals')
  /\ UNCHANGED <<mode, memtable, flushing_memtable, has_flushing, flushing_seq,
                 sstables, vlogs, current_gen, next_seq, flusher, waiting, rd,
                 logfiles, pending, manifest, ghost>>

MergeFinish(j) == FinishMerge(j, {jobs[j].seq})

-----------------------------------------------------------------------------
\* gc_value_log.  The lock is held from beginning to end.

\* As GcMayRun, but a merge in flight is not waited for.
GcAtOnce == ~has_flushing

GcMayRun == ~compacting /\ ~has_flushing

\* Wait out merges and flushes, bar new ones, and flush the memtable.
GcValueLog ==
  /\ LockFree /\ GcMayRun /\ current_gen < MaxGens
  /\ SetCompacting(TRUE)
  /\ mu' = [Free EXCEPT !.at = "flush", !.by = "gc"]
  /\ UNCHANGED <<mode, memtable, flushing_memtable, has_flushing, flushing_seq,
                 sstables, vlogs, current_gen, next_seq, obsolete,
                 obsolete_gens, flusher, jobs, waiting, rd, locals, logfiles,
                 pending, tablefiles, ghost>>

GcNothing ==
  /\ mu.at = "gc" /\ DOMAIN sstables = {}
  /\ SetCompacting(FALSE)
  /\ mu' = Free
  /\ UNCHANGED <<mode, memtable, flushing_memtable, has_flushing, flushing_seq,
                 sstables, vlogs, current_gen, next_seq, obsolete,
                 obsolete_gens, flusher, jobs, waiting, rd, locals, logfiles,
                 pending, tablefiles, ghost>>

\* The values the surviving pointers lead to, read from their old logs.
Relocated(content) ==
  [k \in Keys |-> IF content[k] \in Ptr THEN ReadCell(vfiles, vlogs, content[k])
                  ELSE Absent]

Repointed(content, g) ==
  [k \in Keys |-> IF content[k] \in Ptr
                  THEN [gen |-> g, batch |-> 1, key |-> k]
                  ELSE content[k]]

\* Merge everything, copy the live values to a new generation and sync it,
\* build the one table that is left.
GcBuild ==
  /\ mu.at = "gc" /\ DOMAIN sstables # {}
  /\ LET live == MergeRecords(sstables, TRUE)
         g    == current_gen + 1
         out  == Repointed(live, g)
         log  == IF \A k \in Keys : live[k] \notin Ptr THEN NewLog
                 ELSE [data |-> <<Relocated(live)>>, synced |-> 1]
     IN  /\ vfiles' = WithFile(vfiles, g, log)
         /\ ssts' = WithFile(ssts, next_seq, out)
         /\ mu' = [mu EXCEPT !.at = "gc_built", !.seq = next_seq, !.data = out]
  /\ next_seq' = next_seq + 1
  /\ pending' = NothingPending
  /\ UNCHANGED <<mode, memtable, flushing_memtable, has_flushing, flushing_seq,
                 sstables, vlogs, current_gen, compacting, obsolete,
                 obsolete_gens, flusher, jobs, waiting, rd, locals, logfiles,
                 manifest, ghost>>

\* The new table and generation replace the old ones, and MANIFEST says so.
GcCommit ==
  /\ mu.at = "gc_built"
  /\ sstables' = PushNewest(NoTables, Table(mu.seq, mu.data))
  /\ current_gen' = current_gen + 1
  /\ vlogs' = vlogs \cup {current_gen'}
  /\ manifest' = ManifestOf(sstables', next_seq, current_gen')
  /\ mu' = [mu EXCEPT !.at = "gc_committed", !.ids = TableIds(sstables)]
  /\ pending' = NothingPending
  /\ UNCHANGED <<mode, memtable, flushing_memtable, has_flushing, flushing_seq,
                 next_seq, compacting, obsolete, obsolete_gens, flusher, jobs,
                 waiting, rd, locals, logfiles, ssts, vfiles, ghost>>

\* Old tables and generations become obsolete.
GcFinish ==
  /\ mu.at = "gc_committed"
  /\ vlogs' = {current_gen}
  /\ SetCompacting(FALSE)
  /\ mu' = Free
  /\ Unlink(obsolete \cup mu.ids, obsolete_gens \cup (vlogs \ {current_gen}),
            sstables, vlogs', flusher, jobs, rd, locals)
  /\ UNCHANGED <<mode, memtable, flushing_memtable, has_flushing, flushing_seq,
                 sstables, current_gen, next_seq, flusher, jobs, waiting, rd,
                 locals, logfiles, pending, manifest, ghost>>

MergeStep(j) ==
  MergeBuild(j) \/ MergeCommit(j) \/ MergeFinish(j) \/ EndScope(j)

GcStep == GcNothing \/ GcBuild \/ GcCommit \/ GcFinish
=============================================================================
