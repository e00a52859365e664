----------------------------- MODULE LeveledDB ------------------------------
(***************************************************************************)
(* The engine with leveled compaction: LsmDB with the level of every table *)
(* added, and do_leveled_compaction in place of the size-tiered one.       *)
(*                                                                         *)
(* Flushes land in level 0, where key ranges overlap.  Below it the tables *)
(* of a level have disjoint key ranges; a compaction merges tables of one  *)
(* level with those of the next that overlap them, and splits the result.  *)
(* The steps of the other modules that change the list of tables are       *)
(* extended with what they do to the levels.  Left out are compact_all and *)
(* reads, whose snapshots know nothing of levels.                          *)
(***************************************************************************)
EXTENDS LsmDB, SequencesExt

CONSTANTS
  FileBytes(_),       \* SSTable::size_bytes
  RecordBytes(_, _),  \* what a key and its cell add to a group
  L1Bytes,            \* leveled_l1_bytes_
  SizeRatio,          \* size_ratio_
  TargetBytes         \* leveled_target_bytes_

ASSUME LeveledAssumption ==
  MinMerge >= 1 /\ L1Bytes \in Nat /\ SizeRatio \in Nat /\ TargetBytes \in Nat

VARIABLES
  level_of,         \* level_of_: table -> level
  manifest_levels,  \* the levels in MANIFEST
  leveled           \* locals of do_leveled_compaction beside its inputs

lvars == <<vars, level_of, manifest_levels, leveled>>

IdleLeveled == [pc |-> "idle", dest |-> 0, outputs |-> <<>>]
NoLevels    == [i \in {} |-> 0]

-----------------------------------------------------------------------------
\* Levels, key ranges and the order of the list.

At(l) == {s \in DOMAIN sstables : level_of[sstables[s].id] = l}

MaxLevel == Max({0} \cup {level_of[sstables[s].id] : s \in DOMAIN sstables})

HeldKeys(d) == {k \in Keys : d[k] # Absent}

\* min_key and max_key; those of a table without records are "", before all keys.
NoKey == Min(Keys) - 1
LeastKey(d)    == Min(HeldKeys(d) \cup IF HeldKeys(d) = {} THEN {NoKey} ELSE {})
GreatestKey(d) == Max(HeldKeys(d) \cup {NoKey})

LevelBudget(l) == L1Bytes * SizeRatio ^ (l - 1)

OverBudget ==
  {l \in 1 .. MaxLevel :
     MapThenSumSet(LAMBDA s : FileBytes(sstables[s].data), At(l)) > LevelBudget(l)}

\* leveled_pending_locked.
LeveledPending == Cardinality(At(0)) >= MinMerge \/ OverBudget # {}

\* A list given from its newest to its oldest table.
FromNewest(list) == [s \in 1 .. Len(list) |-> list[Len(list) + 1 - s]]
ToNewest(tables) ==
  LET slots == SetToSortSeq(DOMAIN tables, >)
  IN  [i \in 1 .. Len(slots) |-> tables[slots[i]]]

\* As Reorder, but the levels do not matter.
ReorderBySequence(list, levels) ==
  FromNewest(SortSeq(list, LAMBDA a, b : a.id > b.id))

\* reorder_sstables_locked: by level; level 0 by sequence number, newest first,
\* the others by key range; otherwise as listed.
Reorder(list, levels) ==
  LET Precedes(i, j) ==
        LET a == list[i]  b == list[j]
            la == levels[a.id]  lb == levels[b.id]
            ka == LeastKey(a.data)  kb == LeastKey(b.data)
        IN  IF la # lb THEN la < lb
            ELSE IF la = 0 THEN a.id > b.id
            ELSE ka < kb \/ (ka = kb /\ i < j)
      order == SetToSortSeq(DOMAIN list, Precedes)
  IN  FromNewest([i \in DOMAIN order |-> list[order[i]]])

\* The level write_manifest_locked records for every listed table.
ManifestLevels(tables, levels) ==
  [i \in TableIds(tables) |-> IF i \in DOMAIN levels THEN levels[i] ELSE 0]

-----------------------------------------------------------------------------
\* do_leveled_compaction.

\* Level 0 if it has too many tables, else the shallowest level over budget.
SourceLevel ==
  IF Cardinality(At(0)) >= MinMerge THEN 0 ELSE Min(OverBudget)

\* All of level 0, or the table with the lowest keys (the first of equals).
SourceTables(l) ==
  IF l = 0 THEN At(0)
  ELSE LET Least(s) == LeastKey(sstables[s].data)
       IN  {Max({s \in At(l) : \A t \in At(l) : Least(s) <= Least(t)})}

\* As DestTables, but a table that only shares an end with the range is missed.
DestTablesInside(src, l) ==
  LET lo == Min({LeastKey(sstables[s].data) : s \in src})
      hi == Max({GreatestKey(sstables[s].data) : s \in src})
  IN  {s \in At(l) : ~(\/ GreatestKey(sstables[s].data) <= lo
                       \/ LeastKey(sstables[s].data) >= hi)}

\* The tables of level l that overlap the combined key range of src.
DestTables(src, l) ==
  LET lo == Min({LeastKey(sstables[s].data) : s \in src})
      hi == Max({GreatestKey(sstables[s].data) : s \in src})
  IN  {s \in At(l) : ~(\/ GreatestKey(sstables[s].data) < lo
                       \/ LeastKey(sstables[s].data) > hi)}

\* As MayDrop, but only what the merge itself reads counts.
MayDropAlways(dest) == dest >= 1

\* Tombstones go if nothing lives below the destination.
MayDrop(dest) == dest >= MaxLevel

\* Pick under the lock; the source tables are newer than the destination's.
DoLeveledCompaction ==
  /\ LockFree /\ jobs["compactor"].pc = "idle" /\ locals["compactor"] = NoRefs
  /\ LeveledPending
  /\ LET dest == SourceLevel + 1
         src  == SourceTables(SourceLevel)
         list == ToNewest(Restrict(sstables, src))
                 \o ToNewest(Restrict(sstables, DestTables(src, dest)))
     IN  /\ jobs' = [jobs EXCEPT !["compactor"] =
                       [IdleJob EXCEPT !.pc = "picked", !.inputs = FromNewest(list),
                                       !.drop = MayDrop(dest)]]
         /\ leveled' = [IdleLeveled EXCEPT !.pc = "picked", !.dest = dest]
  /\ SetCompacting(TRUE)
  /\ UNCHANGED <<mode, mu, memtable, flushing_memtable, has_flushing,
                 flushing_seq, sstables, vlogs, current_gen, next_seq,
                 obsolete, obsolete_gens, flusher, waiting, rd, locals,
                 logfiles, pending, tablefiles, ghost, level_of,
                 manifest_levels>>

\* The keys of a merge in groups of at least TargetBytes, but for the last.
Groups(data) ==
  LET Add(g, k) ==
        LET cur   == g.cur \cup {k}
            bytes == g.bytes + RecordBytes(k, data[k])
        IN  IF bytes >= TargetBytes
            THEN [done |-> Append(g.done, cur), cur |-> {}, bytes |-> 0]
            ELSE [g EXCEPT !.cur = cur, !.bytes = bytes]
      g == FoldLeft(Add, [done |-> <<>>, cur |-> {}, bytes |-> 0],
                    SetToSortSeq(HeldKeys(data), <))
  IN  IF g.cur = {} THEN g.done ELSE Append(g.done, g.cur)

\* Merge and split without the lock, then take it to reserve a sequence number
\* for every group.  (The merge reads nothing that changes.)
LeveledReserve ==
  /\ LockFree /\ leveled.pc = "picked"
  /\ LET merged == MergeRecords(jobs["compactor"].inputs, jobs["compactor"].drop)
         groups == Groups(merged)
         Part(ks) == [k \in Keys |-> IF k \in ks THEN merged[k] ELSE Absent]
     IN  /\ leveled' = [leveled EXCEPT !.pc = "reserved", !.outputs =
                          [i \in DOMAIN groups |->
                             Table(next_seq + i - 1, Part(groups[i]))]]
         /\ next_seq' = next_seq + Len(groups)
  /\ UNCHANGED <<mode, mu, memtable, flushing_memtable, has_flushing,
                 flushing_seq, sstables, vlogs, current_gen, compacting,
                 obsolete, obsolete_gens, flusher, jobs, waiting, rd, locals,
                 logfiles, pending, tablefiles, ghost, level_of,
                 manifest_levels>>

\* Without the lock: build every table, rename it, sync the directory.
LeveledBuild ==
  /\ Open /\ leveled.pc = "reserved"
  /\ ssts' = FoldLeft(LAMBDA f, t : WithFile(f, t.id, t.data), ssts,
                      leveled.outputs)
  /\ pending' = NothingPending
  /\ leveled' = [leveled EXCEPT !.pc = "built"]
  /\ UNCHANGED <<mode, mu, memory, flusher, jobs, waiting, rd, locals,
                 logfiles, manifest, vfiles, ghost, level_of, manifest_levels>>

\* Under the lock: outputs for inputs in the list and the levels, and commit.
LeveledSwap ==
  LET gone == TableIds(jobs["compactor"].inputs)
      new  == {leveled.outputs[i].id : i \in DOMAIN leveled.outputs}
      left == SelectSeq(ToNewest(sstables), LAMBDA t : t.id \notin gone)
  IN  /\ LockFree /\ leveled.pc = "built"
      /\ level_of' = [i \in (DOMAIN level_of \ gone) \cup new |->
                        IF i \in new THEN leveled.dest ELSE level_of[i]]
      /\ sstables' = Reorder(left \o leveled.outputs, level_of')
      /\ mu' = [Free EXCEPT !.at = "merge_committed", !.by = "compactor"]
      /\ UNCHANGED <<mode, memtable, flushing_memtable, has_flushing,
                     flushing_seq, vlogs, current_gen, next_seq, compacting,
                     obsolete, obsolete_gens, flusher, jobs, waiting, rd,
                     locals, logfiles, ssts, vfiles, ghost, leveled>>

\* As LeveledCommit, but MANIFEST has the list before it was put in order.
LeveledCommitUnsorted ==
  LET kept == SelectSeq(ToNewest(sstables), LAMBDA t : t.id \in TableIds(sstables'))
  IN  /\ LeveledSwap
      /\ manifest' = ManifestOf(FromNewest(kept \o leveled.outputs), next_seq,
                                current_gen)
      /\ manifest_levels' = ManifestLevels(sstables', level_of')
      /\ pending' = NothingPending

LeveledCommit ==
  /\ LeveledSwap
  /\ manifest' = ManifestOf(sstables', next_seq, current_gen)
  /\ manifest_levels' = ManifestLevels(sstables', level_of')
  /\ pending' = NothingPending

\* Still under it: the inputs become obsolete and are released.
LeveledFinish ==
  /\ FinishMerge("compactor", {leveled.outputs[i].id : i \in DOMAIN leveled.outputs})
  /\ leveled' = IdleLeveled
  /\ UNCHANGED <<level_of, manifest_levels>>

LevelsUnchanged == UNCHANGED <<level_of, manifest_levels, leveled>>

LeveledStep ==
  \/ DoLeveledCompaction \/ LeveledReserve \/ LeveledBuild \/ LeveledCommit
  \/ LeveledFinish
  \/ EndScope("compactor") /\ LevelsUnchanged

-----------------------------------------------------------------------------
\* What the rest of the engine does to the levels.

\* A table that was just flushed is at level 0, and MANIFEST says so.
AtLevel0(id) ==
  /\ level_of' = WithFile(level_of, id, 0)
  /\ manifest_levels' = ManifestLevels(sstables', level_of')
  /\ UNCHANGED leveled

LeveledFlushCommit   == FlushCommit /\ AtLevel0(mu.seq)
LeveledFlusherCommit == FlusherCommit /\ AtLevel0(flusher.seq)

\* Collection leaves one table, at level 0.
LeveledGcCommit ==
  /\ GcCommit
  /\ level_of' = [i \in {mu.seq} |-> 0]
  /\ manifest_levels' = ManifestLevels(sstables', level_of')
  /\ UNCHANGED leveled

\* The levels come from MANIFEST; without one all tables are at level 0.
LeveledOpenDB ==
  /\ OpenDB
  /\ level_of' = IF manifest.present THEN manifest_levels
                 ELSE ManifestLevels(sstables', NoLevels)
  /\ UNCHANGED <<manifest_levels, leveled>>

LeveledOpenDone ==
  /\ OpenDone
  /\ manifest_levels' = IF manifest.present THEN manifest_levels
                        ELSE ManifestLevels(sstables, level_of)
  /\ UNCHANGED <<level_of, leveled>>

LeveledEnd ==
  /\ Exit \/ PowerLoss
  /\ level_of' = NoLevels
  /\ leveled' = IdleLeveled
  /\ UNCHANGED manifest_levels

LeveledClientStep ==
  /\ \/ \E c \in Clients, k \in Keys, sync \in SyncModes :
           (\E v \in Values : Put(c, k, v, sync)) \/ Del(c, k, sync)
     \/ Sync \/ Flush \/ GcValueLog
  /\ LevelsUnchanged

LeveledMaybeSeal(c) == MaybeSeal(c) /\ LevelsUnchanged

LeveledFlusherStep ==
  \/ /\ FlusherTake \/ FlusherBuild \/ FlusherFinish \/ EndScope("flusher")
     /\ LevelsUnchanged
  \/ LeveledFlusherCommit

LeveledFlushLockedStep ==
  \/ (FlushBuild \/ FlushTruncate) /\ LevelsUnchanged
  \/ LeveledFlushCommit

LeveledGcStep ==
  \/ (GcNothing \/ GcBuild \/ GcFinish) /\ LevelsUnchanged
  \/ LeveledGcCommit

LeveledOpenStep ==
  \/ OpenDropWal /\ LevelsUnchanged
  \/ LeveledOpenDB \/ LeveledOpenDone

LeveledInit ==
  Init /\ level_of = NoLevels /\ manifest_levels = NoLevels /\ leveled = IdleLeveled

LeveledNext ==
  \/ LeveledClientStep
  \/ \E c \in Clients : LeveledMaybeSeal(c)
  \/ LeveledFlusherStep
  \/ LeveledFlushLockedStep
  \/ LeveledStep
  \/ LeveledGcStep
  \/ LeveledOpenStep
  \/ LeveledEnd

LeveledSpec == LeveledInit /\ [][LeveledNext]_lvars

-----------------------------------------------------------------------------
\* Properties.  ViewOK and DurableOK of LsmDB are checked, too.

\* Below level 0 the key ranges of a level do not overlap, whatever was flushed
\* while a compaction ran without the lock (tests/leveled_test.cpp asserts it
\* for an idle store), in memory and in what a crash would recover.
LevelsDisjoint ==
  LET Disjoint(d, e) == GreatestKey(d) < LeastKey(e) \/ GreatestKey(e) < LeastKey(d)
  IN  /\ Open => \A l \in 1 .. MaxLevel : \A s, t \in At(l) :
                   s # t => Disjoint(sstables[s].data, sstables[t].data)
      /\ \A i, j \in DOMAIN manifest_levels :
           /\ i # j /\ manifest_levels[i] = manifest_levels[j]
           /\ manifest_levels[i] >= 1
           => Disjoint(ssts[i], ssts[j])

\* The list is in read order at all times, not only after reorder: shallower
\* levels first, and at level 0 the sequence numbers are the ages, as the
\* comment in reorder_sstables_locked has it.
ReadOrder ==
  Open => \A s, t \in DOMAIN sstables : s < t =>
    LET ls == level_of[sstables[s].id]  lt == level_of[sstables[t].id]
    IN  \/ lt < ls
        \/ lt = ls /\ ls > 0
        \/ lt = ls /\ ls = 0 /\ sstables[s].id < sstables[t].id
=============================================================================
