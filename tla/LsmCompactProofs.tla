-------------------------- MODULE LsmCompactProofs --------------------------
(***************************************************************************)
(* The merges of the compactor thread and of compact_all, and the garbage  *)
(* collection of value logs, preserve EngineInv.  So does every step; and  *)
(* so LeakInv, about the table files that merges and collections leave     *)
(* behind.  Both hold with any number of mergers.                          *)
(***************************************************************************)
EXTENDS LsmEngineProofs

\* A merge preserves the invariant as it picks its inputs and takes a number.
LEMMA StartMergeInv ==
  ASSUME EngineInv, LockFree, NEW j \in Compactors, jobs[j].pc = "idle",
         NEW R, R \subseteq DOMAIN sstables, NEW drop \in BOOLEAN,
         StartMerge(j, R, drop)
  PROVE  EngineInv'
<1> DEFINE job == [pc |-> "picked", inputs |-> Restrict(sstables, R),
                   drop |-> drop, seq |-> next_seq, data |-> Empty]
<1>1. mode = "open" /\ mu.at = "free"
  BY Zenon DEF LockFree
<1>2. UNCHANGED <<mode, mu, memtable, flushing_memtable, has_flushing, flushing_seq, sstables,
                  vlogs, current_gen, obsolete, obsolete_gens, flusher, waiting, rd, locals,
                  logfiles, pending, tablefiles, ghost>>
  BY Zenon DEF StartMerge
<1>3. jobs' = [jobs EXCEPT ![j] = job] /\ next_seq' = next_seq + 1 /\ compacting' = TRUE
  BY Zenon DEF StartMerge, SetCompacting
<1>4. next_seq \in Nat /\ IsTables(sstables) /\ Bounded(DOMAIN sstables)
      /\ jobs = [i \in Compactors |-> jobs[i]]
  BY Zenon DEF EngineInv, TypeOK, MemoryType, ThreadsType, BoundsOK
<1>5. /\ DOMAIN Restrict(sstables, R) = R
      /\ \A s \in R : Restrict(sstables, R)[s] = sstables[s]
      /\ IsTables(Restrict(sstables, R)) /\ Bounded(R)
      /\ TableIds(Restrict(sstables, R)) \subseteq TableIds(sstables)
  <2>1. DOMAIN Restrict(sstables, R) = R /\ \A s \in R : Restrict(sstables, R)[s] = sstables[s]
    BY Zenon DEF Restrict
  <2>2. Restrict(sstables, R) = [s \in DOMAIN Restrict(sstables, R) |-> Restrict(sstables, R)[s]]
    BY Zenon DEF Restrict
  <2>3. IsTables(Restrict(sstables, R))
    BY <1>4, <2>1, <2>2, Zenon DEF IsTables
  <2>4. TableIds(Restrict(sstables, R)) \subseteq TableIds(sstables)
    BY <2>1, Zenon DEF TableIds
  <2> QED
    BY <1>4, <2>1, <2>3, <2>4, BoundedSubset, Zenon
<1>6. /\ job.pc = "picked" /\ job.seq = next_seq /\ job.inputs = Restrict(sstables, R)
      /\ IsJob(job)
  <2>1. Empty \in Content
    BY Zenon DEF Empty, Content, MemCell, Cell
  <2> QED
    BY <1>4, <1>5, <2>1, Zenon DEF IsJob
<1> HIDE DEF job
<1>7. jobs'[j] = job /\ \A i \in Compactors : i # j => jobs'[i] = jobs[i]
  BY <1>3, <1>4, Zenon
<1>8. TypeOK'
  <2>1. MemoryType'
    BY <1>2, <1>3, <1>4 DEF EngineInv, TypeOK, MemoryType
  <2>2. ThreadsType'
    <3>1. jobs' = [i \in Compactors |-> jobs'[i]] /\ \A i \in Compactors : IsJob(jobs'[i])
      BY <1>3, <1>4, <1>6, <1>7, Zenon DEF EngineInv, TypeOK, ThreadsType
    <3> QED
      BY <1>2, <3>1, Zenon DEF EngineInv, TypeOK, ThreadsType
  <2> QED
    BY <1>2, <2>1, <2>2, TypeFrame, Zenon DEF TypeOK
<1>9. LockOK' /\ GensOK'
  BY <1>1, <1>2, Zenon DEF EngineInv, LockOK, GensOK, tablefiles
<1>10. SlotOK'
  BY <1>1, <1>2, Zenon DEF EngineInv, SlotOK
<1>11. BoundsOK'
  BY <1>2, <1>5, <1>6, <1>7, Zenon DEF EngineInv, BoundsOK, tablefiles
<1>12. IdsOK'
  <2>1. Old' \subseteq Listed /\ Listed' \subseteq Listed
    BY <1>2, <1>5, <1>6, <1>7, Zenon DEF Old, Listed
  <2>2. \A i \in Listed : i \in Nat /\ i < next_seq
    BY ListedNat, Zenon
  <2>3. next_seq \notin Listed' /\ next_seq \notin Old'
    BY <1>4, <2>1, <2>2
  <2>4. \A i \in Listed' : i < next_seq'
    BY <1>3, <1>4, <2>1, <2>2
  <2>5. has_flushing => flushing_seq \in Nat /\ flushing_seq < next_seq /\ flushing_seq \notin Listed
    BY <1>1, Zenon DEF EngineInv, TypeOK, MemoryType, IdsOK
  <2>6. \A i \in Compactors : jobs[i].pc # "idle" =>
          jobs[i].seq \in Nat /\ jobs[i].seq < next_seq /\ jobs[i].seq \notin Listed
    BY <1>1, Zenon DEF EngineInv, TypeOK, ThreadsType, IsJob, IdsOK
  <2>7. ASSUME NEW i \in Compactors, jobs'[i].pc # "idle"
        PROVE  /\ jobs'[i].seq < next_seq' /\ jobs'[i].seq \notin Old' /\ jobs'[i].seq \notin Listed'
               /\ has_flushing' => jobs'[i].seq # flushing_seq'
               /\ \A h \in Compactors : h # i /\ jobs'[h].pc # "idle" => jobs'[h].seq # jobs'[i].seq
    <3>1. CASE i = j
      BY <1>2, <1>3, <1>4, <1>6, <1>7, <2>3, <2>5, <2>6, <3>1
    <3>2. CASE i # j
      BY <1>2, <1>3, <1>4, <1>6, <1>7, <2>1, <2>6, <2>7, <3>2 DEF EngineInv, IdsOK
    <3> QED
      BY <3>1, <3>2, Zenon
  <2>8. has_flushing' => flushing_seq' < next_seq' /\ flushing_seq' \notin Old' /\ flushing_seq' \notin Listed'
    BY <1>2, <1>3, <1>4, <2>1, <2>5
  <2> QED
    BY <1>1, <1>2, <2>4, <2>7, <2>8, Zenon DEF IdsOK
<1>13. FilesOK' /\ CommitOK'
  <2>1. FilesOK'
    BY <1>1, <1>2, <1>3, <1>4, <1>6, <1>7, Zenon DEF EngineInv, FilesOK, tablefiles
  <2>2. CommitOK'
    BY <1>1, <1>2, <1>3, <1>4
    DEF EngineInv, TypeOK, FilesType, IsManifest, CommitOK, tablefiles
  <2> QED
    BY <2>1, <2>2, Zenon
<1>14. FreshOK'
  <2>1. \A i \in DOMAIN ssts : i \in Nat /\ i < next_seq
    BY <1>1, Zenon DEF EngineInv, TypeOK, FilesType, FreshOK
  <2>2. next_seq \notin DOMAIN ssts /\ \A i \in DOMAIN ssts : i < next_seq'
    BY <1>3, <1>4, <2>1
  <2> QED
    BY <1>1, <1>2, <1>6, <1>7, <2>2, Zenon DEF EngineInv, FreshOK, tablefiles
<1>15. HeldOK'
  <2>1. TableIds(sstables) \subseteq DOMAIN ssts
    BY Zenon DEF EngineInv, FilesOK, TableIds
  <2> QED
    BY <1>2, <1>5, <1>6, <1>7, <2>1, Zenon DEF EngineInv, HeldOK, tablefiles
<1> QED
  BY <1>8, <1>9, <1>10, <1>11, <1>12, <1>13, <1>14, <1>15 DEF EngineInv

\* So does the background compactor.
LEMMA DoSizeTieredCompactionInv ==
  ASSUME EngineInv, DoSizeTieredCompaction
  PROVE  EngineInv'
<1>1. PICK R \in PickCompaction(sstables) :
        StartMerge("compactor", R, ReachesOldest(sstables, R))
  BY Zenon DEF DoSizeTieredCompaction
<1>2. R \subseteq DOMAIN sstables
  BY <1>1, Zenon DEF PickCompaction, Tiers
<1>3. ReachesOldest(sstables, R) \in BOOLEAN
  BY DEF ReachesOldest
<1>4. LockFree /\ "compactor" \in Compactors /\ jobs["compactor"].pc = "idle"
  BY Zenon DEF DoSizeTieredCompaction
<1> QED
  BY <1>1, <1>2, <1>3, <1>4, StartMergeInv, Zenon

\* So does compact_all.
LEMMA CompactAllInv ==
  ASSUME EngineInv, CompactAll
  PROVE  EngineInv'
BY StartMergeInv, Zenon DEF CompactAll

\* A merge preserves the invariant as it writes its table without the lock.
LEMMA MergeBuildInv ==
  ASSUME EngineInv, NEW j \in Compactors, MergeBuild(j)
  PROVE  EngineInv'
<1> DEFINE out == MergeRecords(jobs[j].inputs, jobs[j].drop)
<1>1. mode = "open" /\ jobs[j].pc = "picked"
  BY Zenon DEF MergeBuild, Open
<1>2. UNCHANGED <<mode, mu, memory, flusher, waiting, rd, locals, logfiles, manifest, vfiles,
                  ghost>>
  BY Zenon DEF MergeBuild
<1>3. /\ ssts' = WithFile(ssts, jobs[j].seq, out)
      /\ jobs' = [jobs EXCEPT ![j].pc = "built", ![j].data = out]
      /\ pending' = NothingPending
  BY Zenon DEF MergeBuild
<1>4. IsJob(jobs[j]) /\ jobs = [i \in Compactors |-> jobs[i]]
  BY Zenon DEF EngineInv, TypeOK, ThreadsType
<1>5. out \in Content
  <2>1. IsList(jobs[j].inputs)
    BY <1>4, Zenon DEF IsJob, IsTables, IsList, EngineInv, BoundsOK
  <2> QED
    BY <2>1, MergeContent, Zenon
<1> HIDE DEF out
<1>6. /\ jobs'[j].pc = "built" /\ jobs'[j].data = out /\ jobs'[j].seq = jobs[j].seq
      /\ jobs'[j].inputs = jobs[j].inputs /\ jobs'[j].drop = jobs[j].drop
      /\ \A i \in Compactors : i # j => jobs'[i] = jobs[i]
      /\ jobs' = [i \in Compactors |-> jobs'[i]]
      /\ DOMAIN jobs'[j] = DOMAIN jobs[j] /\ jobs'[j] = [f \in DOMAIN jobs'[j] |-> jobs'[j][f]]
  BY <1>3, <1>4, Zenon DEF IsJob
<1>7. IsJob(jobs'[j])
  BY <1>4, <1>5, <1>6, Zenon DEF IsJob
<1>8. /\ jobs[j].seq \notin DOMAIN ssts /\ jobs[j].seq \in Nat /\ jobs[j].seq < next_seq
  BY <1>1, <1>4, Zenon DEF EngineInv, FreshOK, IdsOK, IsJob
<1>9. /\ DOMAIN ssts' = DOMAIN ssts \cup {jobs[j].seq} /\ ssts'[jobs[j].seq] = out
      /\ \A i \in DOMAIN ssts : ssts'[i] = ssts[i]
  BY <1>3, <1>8, Zenon DEF WithFile
<1>10. TypeOK'
  <2>1. MemoryType'
    BY <1>2, Zenon DEF EngineInv, TypeOK, MemoryType, memory
  <2>2. ThreadsType'
    BY <1>2, <1>6, <1>7, Zenon DEF EngineInv, TypeOK, ThreadsType
  <2>3. LogsType'
    BY <1>2, <1>3, NothingIsPending, Zenon DEF EngineInv, TypeOK, LogsType, logfiles
  <2>4. FilesType'
    BY <1>2, <1>5, <1>8, <1>9, Zenon DEF EngineInv, TypeOK, FilesType
  <2> QED
    BY <1>2, <2>1, <2>2, <2>3, <2>4, TypeFrame, Zenon DEF TypeOK
<1>11. LockOK'
  <2>1. \A i \in Compactors : jobs[i].pc = "built" => jobs'[i].pc = "built"
    BY <1>1, <1>6, Zenon
  <2> QED
    BY <1>2, <2>1, Zenon DEF EngineInv, LockOK
<1>12. SlotOK' /\ GensOK'
  BY <1>1, <1>2, Zenon DEF EngineInv, SlotOK, GensOK, memory
<1>13. BoundsOK'
  <2>1. Bounded(DOMAIN ssts \cup {jobs[j].seq})
    BY <1>8, BoundedAdd DEF EngineInv, TypeOK, FilesType, BoundsOK
  <2> QED
    BY <1>2, <1>6, <1>9, <2>1, Zenon DEF EngineInv, BoundsOK, memory
<1>14. IdsOK'
  <2>1. \A i \in Compactors : /\ jobs'[i].inputs = jobs[i].inputs /\ jobs'[i].seq = jobs[i].seq
                              /\ jobs'[i].pc # "idle" => jobs[i].pc # "idle"
    BY <1>1, <1>6, Zenon
  <2>2. Listed' = Listed /\ Old' = Old
    BY <1>2, <2>1 DEF Listed, Old, memory
  <2> QED
    BY <1>2, <2>1, <2>2 DEF EngineInv, IdsOK, memory
<1>15. FilesOK' /\ HeldOK'
  BY <1>2, <1>6, <1>9, SMTT(30) DEF EngineInv, FilesOK, HeldOK, memory
<1>16. FreshOK'
  BY <1>1, <1>2, <1>6, <1>8, <1>9 DEF EngineInv, FreshOK, IdsOK, memory
<1>17. CommitOK'
  BY <1>2, <1>9, Zenon DEF EngineInv, CommitOK, memory
<1> QED
  BY <1>10, <1>11, <1>12, <1>13, <1>14, <1>15, <1>16, <1>17 DEF EngineInv

\* install_merge_result preserves the invariant, whatever is left of the inputs.
LEMMA MergeCommitInv ==
  ASSUME EngineInv, NEW j \in Compactors, MergeCommit(j)
  PROVE  EngineInv'
<1>1. /\ mode = "open" /\ mu.at = "free" /\ mu.by = "none" /\ jobs[j].pc = "built"
  BY Zenon DEF MergeCommit, LockFree, EngineInv, LockOK
<1>2. UNCHANGED <<mode, memtable, flushing_memtable, has_flushing, flushing_seq, vlogs,
                  current_gen, next_seq, compacting, obsolete, obsolete_gens, flusher, jobs,
                  waiting, rd, locals, logfiles, ssts, vfiles, ghost>>
  BY Zenon DEF MergeCommit
<1>3. /\ sstables' = InstallMergeResult(sstables, TableIds(jobs[j].inputs),
                                        Table(jobs[j].seq, jobs[j].data))
      /\ manifest' = ManifestOf(sstables', next_seq, current_gen)
      /\ pending' = NothingPending
  BY Zenon DEF MergeCommit
<1>4. mu' \in LockType /\ mu'.at = "merge_committed" /\ mu'.by = j /\ mu'.ids = {}
  <2>1. mu' = [Free EXCEPT !.at = "merge_committed", !.by = j]
    BY Zenon DEF MergeCommit
  <2>2. "merge_committed" \in LockPoints
    BY Zenon DEF LockPoints
  <2> QED
    BY <2>1, <2>2, LockAt, Zenon, Zenon
<1>5. /\ jobs[j].seq \in Nat /\ jobs[j].data \in Content
      /\ jobs[j].seq \in DOMAIN ssts /\ ssts[jobs[j].seq] = jobs[j].data
      /\ jobs[j].seq < next_seq
      /\ has_flushing => flushing_seq # jobs[j].seq
      /\ \A i \in Compactors : i # j /\ jobs[i].pc # "idle" => jobs[i].seq # jobs[j].seq
  BY <1>1, Zenon DEF EngineInv, TypeOK, ThreadsType, IsJob, FilesOK, IdsOK
<1>6. /\ IsTables(sstables') /\ Bounded(DOMAIN sstables')
      /\ \A s \in DOMAIN sstables' :
           \/ sstables'[s].id = jobs[j].seq /\ sstables'[s].data = jobs[j].data
           \/ s \in DOMAIN sstables /\ sstables'[s] = sstables[s]
  <2> DEFINE t == Table(jobs[j].seq, jobs[j].data)
  <2>1. t.id = jobs[j].seq /\ t.data = jobs[j].data /\ t \in [id : Nat, data : Content]
    BY <1>5, Zenon DEF Table
  <2>2. IsTables(sstables) /\ Bounded(DOMAIN sstables)
    BY Zenon DEF EngineInv, TypeOK, MemoryType, BoundsOK
  <2>3. sstables' = InstallMergeResult(sstables, TableIds(jobs[j].inputs), t)
    BY <1>3, Zenon
  <2> HIDE DEF t
  <2>4. /\ sstables' = [s \in DOMAIN sstables' |-> sstables'[s]]
        /\ DOMAIN sstables' \subseteq Int /\ Bounded(DOMAIN sstables')
        /\ \A s \in DOMAIN sstables' :
             sstables'[s] = t \/ (s \in DOMAIN sstables /\ sstables'[s] = sstables[s])
    <3>1. DOMAIN sstables \subseteq Int
      BY <2>2, Zenon DEF IsTables
    <3> QED
      BY <2>2, <2>3, <3>1, InstallAny
  <2> QED
    BY <2>1, <2>2, <2>4, Zenon DEF IsTables
<1>7. \A s \in DOMAIN sstables : sstables[s].id \in Nat /\ sstables[s].id < next_seq
  BY Zenon DEF EngineInv, TypeOK, MemoryType, IsTables, IdsOK, Listed, TableIds
<1>8. \A s \in DOMAIN sstables' : /\ sstables'[s].id \in DOMAIN ssts
                                  /\ sstables'[s].id < next_seq
                                  /\ ssts[sstables'[s].id] = sstables'[s].data
  BY <1>5, <1>6, <1>7, Zenon DEF EngineInv, FilesOK
<1>9. IsManifest(manifest') /\ CommitOK' /\ Bounded(DOMAIN manifest'.tables)
  BY <1>2, <1>3, <1>6, <1>8, CommitList, Zenon DEF EngineInv, TypeOK, MemoryType
<1>10. TypeOK'
  <2>1. MemoryType'
    BY <1>2, <1>4, <1>6, Zenon DEF EngineInv, TypeOK, MemoryType
  <2>2. LogsType'
    BY <1>2, <1>3, NothingIsPending, Zenon DEF EngineInv, TypeOK, LogsType, logfiles
  <2>3. FilesType'
    BY <1>2, <1>9, Zenon DEF EngineInv, TypeOK, FilesType
  <2> QED
    BY <1>2, <2>1, <2>2, <2>3, TypeFrame, Zenon DEF TypeOK
<1>11. LockOK'
  <2>1. j \notin {"open", "flush", "gc", "flusher", "none"}
    BY LsmAssumption, Zenon
  <2> QED
    BY <1>1, <1>2, <1>4, <2>1, Zenon DEF EngineInv, LockOK
<1>12. SlotOK' /\ GensOK' /\ HeldOK'
  <2>1. j \notin {"open", "flush", "gc", "flusher", "none"}
    BY LsmAssumption, Zenon
  <2> QED
    BY <1>1, <1>2, <1>4, <2>1, Zenon DEF EngineInv, SlotOK, GensOK, HeldOK
<1>13. BoundsOK'
  BY <1>2, <1>6, <1>9, ZenonT(40) DEF EngineInv, BoundsOK
<1>14. IdsOK'
  <2>1. TableIds(sstables') \subseteq TableIds(sstables) \cup {jobs[j].seq}
    BY <1>6, Zenon DEF TableIds
  <2>2. Listed' \subseteq Listed \cup {jobs[j].seq} /\ Old' \subseteq Old
    BY <1>2, <1>4, <2>1, Zenon DEF Listed, Old
  <2> QED
    BY <1>1, <1>2, <1>4, <1>5, <2>2 DEF EngineInv, IdsOK
<1>15. FilesOK' /\ FreshOK'
  BY <1>1, <1>2, <1>4, <1>8, Zenon DEF EngineInv, FilesOK, FreshOK
<1> QED
  BY <1>9, <1>10, <1>11, <1>12, <1>13, <1>14, <1>15, Zenon DEF EngineInv

\* A merge preserves the invariant as it retires its inputs.
LEMMA MergeFinishInv ==
  ASSUME EngineInv, NEW j \in Compactors, MergeFinish(j)
  PROVE  EngineInv'
<1>1. mu.at = "merge_committed" /\ mu.by = j /\ mode = "open"
  <2>1. j # "open"
    BY LsmAssumption, Zenon
  <2> QED
    BY <2>1, Zenon DEF MergeFinish, FinishMerge, EngineInv, TypeOK, MemoryType, LockOK
<1>2. UNCHANGED <<mode, memtable, flushing_memtable, has_flushing, flushing_seq, sstables, vlogs,
                  current_gen, next_seq, flusher, waiting, rd, logfiles, pending, manifest,
                  ghost>>
  BY Zenon DEF MergeFinish, FinishMerge
<1>3. mu' \in LockType /\ mu'.at = "free" /\ mu'.by = "none" /\ mu' = Free
  BY FreeLock, Zenon DEF MergeFinish, FinishMerge
<1>4. jobs' = [jobs EXCEPT ![j] = IdleJob] /\ compacting' = FALSE
  BY Zenon DEF MergeFinish, FinishMerge, SetCompacting
<1>5. /\ jobs'[j] = IdleJob /\ \A i \in Compactors : i # j => jobs'[i] = jobs[i]
      /\ jobs' = [i \in Compactors |-> jobs'[i]]
  BY <1>4, Zenon DEF EngineInv, TypeOK, ThreadsType
<1>6. Unlink(obsolete \cup TableIds(jobs[j].inputs), obsolete_gens, sstables, vlogs',
             flusher', jobs', rd', locals')
  BY <1>2, Zenon DEF MergeFinish, FinishMerge
<1>7. /\ obsolete \cup TableIds(jobs[j].inputs) \subseteq Old /\ current_gen \in vlogs
      /\ \A g \in obsolete_gens : g \in Nat /\ g < current_gen
  <2>1. TableIds(jobs[j].inputs) \subseteq Nat
    <3>1. IsTables(jobs[j].inputs)
      BY Zenon DEF EngineInv, TypeOK, ThreadsType, IsJob
    <3> QED
      BY <3>1, Zenon DEF IsTables, TableIds
  <2> QED
    BY <1>1, <2>1, Zenon DEF EngineInv, TypeOK, MemoryType, GensOK, Old
<1>8. /\ FilesType' /\ obsolete' \subseteq Nat /\ obsolete_gens' \subseteq Nat
      /\ GensOK' /\ BoundsOK'
      /\ IdsOK' /\ FilesOK' /\ FreshOK' /\ CommitOK' /\ HeldOK'
  BY <1>1, <1>2, <1>3, <1>5, <1>6, <1>7, UnlinkInv
<1>9. TypeOK'
  <2>1. MemoryType'
    BY <1>2, <1>3, <1>4, <1>8, Zenon DEF EngineInv, TypeOK, MemoryType
  <2>2. ThreadsType'
    <3>1. jobs[j].seq \in Nat
      BY Zenon DEF EngineInv, TypeOK, ThreadsType, IsJob
    <3>2. [NoRefs EXCEPT !.tables = {jobs[j].seq}] \in RefsType
      BY <3>1, Zenon DEF NoRefs, RefsType
    <3>3. locals' \in [Threads -> RefsType]
      BY <3>2, LocalsSet, Zenon DEF EngineInv, TypeOK, MergeFinish, FinishMerge, Threads
    <3> QED
      BY <1>2, <1>5, <3>3, IdleHolds, Zenon DEF EngineInv, TypeOK, ThreadsType
  <2> QED
    BY <1>2, <1>8, <2>1, <2>2, TypeFrame DEF TypeOK
<1>10. LockOK'
  BY <1>1, <1>2, <1>3, Zenon DEF EngineInv, LockOK
<1>11. SlotOK'
  BY <1>1, <1>2, <1>3, Zenon DEF EngineInv, SlotOK
<1> QED
  BY <1>8, <1>9, <1>10, <1>11, Zenon DEF EngineInv

\* gc_value_log.

-----------------------------------------------------------------------------
\* gc_value_log preserves the invariant as it takes the lock.
LEMMA GcValueLogInv ==
  ASSUME EngineInv, GcValueLog
  PROVE  EngineInv'
<1>1. mu' \in LockType /\ mu'.at = "flush" /\ mu'.by = "gc" /\ mu'.ids = {}
  <2>1. mu' = [Free EXCEPT !.at = "flush", !.by = "gc"]
    BY Zenon DEF GcValueLog
  <2>2. "flush" \in LockPoints
    BY Zenon DEF LockPoints
  <2> QED
    BY <2>1, <2>2, LockAt, Zenon, Zenon
<1>2. mode = "open" /\ mu.at = "free" /\ ~has_flushing /\ compacting' = TRUE
  BY Zenon DEF GcValueLog, LockFree, GcMayRun, SetCompacting
<1>3. UNCHANGED <<mode, memtable, flushing_memtable, has_flushing, flushing_seq, sstables, vlogs,
                  current_gen, next_seq, obsolete, obsolete_gens, flusher, jobs, waiting, rd,
                  locals, logfiles, pending, tablefiles, ghost>>
  BY Zenon DEF GcValueLog
<1>4. MemoryType'
  BY <1>1, <1>2, <1>3, Zenon DEF EngineInv, TypeOK, MemoryType
<1>7. TypeOK'
  BY <1>3, <1>4, TypeFrame, Zenon DEF TypeOK
<1>5. LockOK' /\ SlotOK'
  BY <1>1, <1>2, <1>3, Zenon DEF EngineInv, LockOK, SlotOK
<1>6. GensOK' /\ BoundsOK' /\ IdsOK' /\ FilesOK' /\ FreshOK' /\ CommitOK' /\ HeldOK'
  BY <1>1, <1>2, <1>3, <1>5, MuMoves, Zenon
<1> QED
  BY <1>5, <1>6, <1>7, Zenon DEF EngineInv

\* A collection that finds no table preserves the invariant.
LEMMA GcNothingInv ==
  ASSUME EngineInv, GcNothing
  PROVE  EngineInv'
<1>1. mu' \in LockType /\ mu'.at = "free" /\ mu'.by = "none" /\ mu'.ids = {}
  BY FreeLock, Zenon DEF GcNothing
<1>2. mu.at = "gc" /\ compacting' = FALSE
  BY Zenon DEF GcNothing, SetCompacting
<1>3. UNCHANGED <<mode, memtable, flushing_memtable, has_flushing, flushing_seq, sstables, vlogs,
                  current_gen, next_seq, obsolete, obsolete_gens, flusher, jobs, waiting, rd,
                  locals, logfiles, pending, tablefiles, ghost>>
  BY Zenon DEF GcNothing
<1>4. MemoryType'
  BY <1>1, <1>2, <1>3, Zenon DEF EngineInv, TypeOK, MemoryType
<1>7. TypeOK'
  BY <1>3, <1>4, TypeFrame, Zenon DEF TypeOK
<1>5. LockOK' /\ SlotOK'
  BY <1>1, <1>2, <1>3, Zenon DEF EngineInv, LockOK, SlotOK
<1>6. GensOK' /\ BoundsOK' /\ IdsOK' /\ FilesOK' /\ FreshOK' /\ CommitOK' /\ HeldOK'
  BY <1>1, <1>2, <1>3, <1>5, MuMoves, Zenon
<1> QED
  BY <1>5, <1>6, <1>7, Zenon DEF EngineInv

\* The table and the value log a collection writes have their types.
LEMMA GcLog ==
  ASSUME NEW live \in Content, NEW g \in Nat
  PROVE  /\ Repointed(live, g) \in Content
         /\ IsValueLog(IF \A k \in Keys : live[k] \notin Ptr THEN NewLog
                       ELSE [data |-> <<Relocated(live)>>, synced |-> 1])
<1>1. Repointed(live, g) \in Content
  BY Zenon DEF Repointed, Content, Cell, Ptr
<1>2. \A k \in Keys : live[k] \in Cell
  BY Zenon DEF Content
<1>3. Relocated(live) \in Content
  BY <1>2, ReadCellCell, Zenon DEF Relocated, Content, Cell, MemCell
<1>4. IsValueLog(NewLog)
  BY DEF IsValueLog, NewLog
<1>5. IsValueLog([data |-> <<Relocated(live)>>, synced |-> 1])
  BY <1>3 DEF IsValueLog
<1> QED
  BY <1>1, <1>4, <1>5, Zenon

\* gc_value_log preserves the invariant as it writes the new generation.
LEMMA GcBuildInv ==
  ASSUME EngineInv, GcBuild
  PROVE  EngineInv'
<1> DEFINE live == MergeRecords(sstables, TRUE)
           g    == current_gen + 1
           out  == Repointed(live, g)
           log  == IF \A k \in Keys : live[k] \notin Ptr THEN NewLog
                   ELSE [data |-> <<Relocated(live)>>, synced |-> 1]
<1>1. /\ mu.at = "gc" /\ mu.by = "gc" /\ mu \in LockType
      /\ mode = "open" /\ ~has_flushing
  BY Zenon DEF EngineInv, TypeOK, MemoryType, LockOK, SlotOK, GcBuild
<1>2. UNCHANGED <<mode, memtable, flushing_memtable, has_flushing, flushing_seq, sstables, vlogs,
                  current_gen, compacting, obsolete, obsolete_gens, flusher, jobs, waiting, rd,
                  locals, logfiles, manifest, ghost>>
  BY Zenon DEF GcBuild
<1>3. /\ vfiles' = WithFile(vfiles, g, log)
      /\ ssts' = WithFile(ssts, next_seq, out)
      /\ mu' = [mu EXCEPT !.at = "gc_built", !.seq = next_seq, !.data = out]
      /\ next_seq' = next_seq + 1 /\ pending' = NothingPending
  BY Zenon DEF GcBuild
<1>4. next_seq \in Nat /\ g \in Nat
  BY DEF EngineInv, TypeOK, MemoryType
<1>5. out \in Content /\ IsValueLog(log)
  <2>1. IsList(sstables)
    BY Zenon DEF IsList, IsTables, EngineInv, TypeOK, MemoryType, BoundsOK
  <2>2. live \in Content
    BY <2>1, MergeContent, Zenon
  <2> HIDE DEF live, g
  <2> QED
    BY <1>4, <2>2, GcLog, Zenon
<1>6. g = current_gen + 1
  BY Zenon
<1> HIDE DEF live, g, out, log
<1>7. /\ mu' \in LockType /\ mu'.at = "gc_built" /\ mu'.by = mu.by
      /\ mu'.seq = next_seq /\ mu'.data = out /\ mu'.ids = mu.ids
  BY <1>1, <1>3, <1>4, <1>5, Zenon DEF LockType, LockPoints
<1>8. \A i \in DOMAIN ssts : i \in Nat /\ i < next_seq
  BY <1>1, Zenon DEF EngineInv, TypeOK, FilesType, FreshOK
<1>9. next_seq \notin DOMAIN ssts
  BY <1>4, <1>8
<1>10. /\ DOMAIN ssts' = DOMAIN ssts \cup {next_seq} /\ ssts'[next_seq] = out
       /\ \A i \in DOMAIN ssts : ssts'[i] = ssts[i]
  BY <1>3, <1>9, Zenon DEF WithFile
<1>11. /\ DOMAIN vfiles' = DOMAIN vfiles \cup {g}
       /\ \A h \in DOMAIN vfiles' : IsValueLog(vfiles'[h])
  BY <1>3, <1>5, Zenon DEF WithFile, EngineInv, TypeOK, FilesType
<1>12. TypeOK'
  <2>1. MemoryType'
    BY <1>2, <1>3, <1>4, <1>7 DEF EngineInv, TypeOK, MemoryType
  <2>2. LogsType'
    BY <1>2, <1>3, NothingIsPending, Zenon DEF EngineInv, TypeOK, LogsType, logfiles
  <2>3. FilesType'
    BY <1>2, <1>4, <1>5, <1>10, <1>11, Zenon DEF EngineInv, TypeOK, FilesType
  <2> QED
    BY <1>2, <2>1, <2>2, <2>3, TypeFrame DEF TypeOK
<1>13. LockOK'
  BY <1>1, <1>2, <1>7, Zenon DEF EngineInv, LockOK
<1>14. SlotOK' /\ GensOK'
  BY <1>1, <1>2, <1>6, <1>7, <1>11, Zenon DEF EngineInv, SlotOK, GensOK
<1>15. BoundsOK'
  <2>1. /\ Bounded(DOMAIN ssts) /\ DOMAIN ssts \subseteq Int /\ next_seq \in Int
        /\ Bounded(DOMAIN vfiles) /\ DOMAIN vfiles \subseteq Int /\ g \in Int
    <3>1. /\ DOMAIN ssts \subseteq Nat /\ DOMAIN vfiles \subseteq Nat
          /\ Bounded(DOMAIN ssts) /\ Bounded(DOMAIN vfiles)
      BY Zenon DEF EngineInv, TypeOK, FilesType, BoundsOK
    <3> QED
      BY <1>4, <3>1
  <2>2. Bounded(DOMAIN ssts \cup {next_seq}) /\ Bounded(DOMAIN vfiles \cup {g})
    BY <2>1, BoundedAdd, Zenon
  <2> QED
    BY <1>2, <1>10, <1>11, <2>2 DEF EngineInv, BoundsOK
<1>16. IdsOK'
  <2>1. Listed' = Listed /\ Old' = Old
    BY <1>2, <1>7, Zenon DEF Listed, Old
  <2>2. \A i \in Listed : i \in Nat /\ i < next_seq
    BY ListedNat, Zenon
  <2>3. \A j \in Compactors : jobs[j].pc # "idle" => jobs[j].seq \in Nat /\ jobs[j].seq < next_seq
    BY Zenon DEF EngineInv, IdsOK, TypeOK, ThreadsType, IsJob
  <2> QED
    BY <1>1, <1>2, <1>3, <1>4, <1>7, <2>1, <2>2, <2>3 DEF EngineInv, IdsOK
<1>17. FilesOK' /\ HeldOK'
  BY <1>1, <1>2, <1>7, <1>10, <1>11 DEF EngineInv, FilesOK, HeldOK
<1>18. FreshOK'
  <2>1. \A j \in Compactors : jobs[j].pc # "idle" => jobs[j].seq \in Nat /\ jobs[j].seq < next_seq
    BY Zenon DEF EngineInv, IdsOK, TypeOK, ThreadsType, IsJob
  <2> QED
    BY <1>1, <1>2, <1>3, <1>4, <1>8, <1>10, <2>1 DEF EngineInv, FreshOK
<1>19. CommitOK'
  BY <1>1, <1>2, <1>3, <1>4, <1>10 DEF EngineInv, TypeOK, FilesType, IsManifest, CommitOK
<1> QED
  BY <1>12, <1>13, <1>14, <1>15, <1>16, <1>17, <1>18, <1>19 DEF EngineInv

\* gc_value_log preserves the invariant as it swaps tables and generations.
LEMMA GcCommitInv ==
  ASSUME EngineInv, GcCommit
  PROVE  EngineInv'
<1>1. /\ mu.at = "gc_built" /\ mu.by = "gc" /\ mu \in LockType
      /\ mode = "open" /\ ~has_flushing /\ flusher.pc = "idle"
  BY Zenon DEF EngineInv, TypeOK, MemoryType, ThreadsType, LockOK, SlotOK, GcCommit
<1>2. UNCHANGED <<mode, memtable, flushing_memtable, has_flushing, flushing_seq, next_seq,
                  compacting, obsolete, obsolete_gens, flusher, jobs, waiting, rd, locals,
                  logfiles, ssts, vfiles, ghost>>
  BY Zenon DEF GcCommit
<1>3. /\ sstables' = PushNewest(NoTables, Table(mu.seq, mu.data))
      /\ manifest' = ManifestOf(sstables', next_seq, current_gen')
      /\ current_gen' = current_gen + 1 /\ vlogs' = vlogs \cup {current_gen + 1}
      /\ pending' = NothingPending
  BY Zenon DEF GcCommit
<1>4. current_gen \in Nat /\ vlogs \subseteq Nat /\ TableIds(sstables) \subseteq Nat
  BY Zenon DEF EngineInv, TypeOK, MemoryType, IsTables, TableIds
<1>5. /\ mu' \in LockType /\ mu'.at = "gc_committed" /\ mu'.by = mu.by
      /\ mu'.ids = TableIds(sstables)
  BY <1>1, <1>4, Zenon DEF GcCommit, LockType, LockPoints
<1>6. /\ mu.seq \in Nat /\ mu.data \in Content
      /\ mu.seq \in DOMAIN ssts /\ ssts[mu.seq] = mu.data /\ mu.seq < next_seq
      /\ \A j \in Compactors : jobs[j].pc # "idle" => jobs[j].seq # mu.seq
  BY <1>1, Zenon DEF EngineInv, LockType, FilesOK, IdsOK
<1>7. /\ IsTables(sstables') /\ Bounded(DOMAIN sstables')
      /\ \A s \in DOMAIN sstables' : sstables'[s].id = mu.seq /\ sstables'[s].data = mu.data
      /\ TableIds(sstables') = {mu.seq}
  <2>1. DOMAIN NoTables = {} /\ NoTables = [s \in DOMAIN NoTables |-> NoTables[s]]
    BY Zenon DEF NoTables
  <2>2. IsTables(NoTables) /\ Bounded(DOMAIN NoTables) /\ TableIds(NoTables) = {}
    BY <2>1, BoundedEmpty, Zenon DEF IsTables, TableIds
  <2> DEFINE none == NoTables
  <2>3. /\ IsTables(none) /\ Bounded(DOMAIN none)
        /\ mu.seq \in Nat /\ mu.data \in Content
        /\ sstables' = PushNewest(none, Table(mu.seq, mu.data))
    BY <1>3, <1>6, <2>2, Zenon
  <2>4. DOMAIN none = {} /\ TableIds(none) = {}
    BY <2>1, <2>2, Zenon
  <2> HIDE DEF none
  <2>5. /\ IsTables(sstables') /\ Bounded(DOMAIN sstables')
        /\ \A s \in DOMAIN sstables' : \/ sstables'[s].id = mu.seq /\ sstables'[s].data = mu.data
                                       \/ s \in DOMAIN none /\ sstables'[s] = none[s]
        /\ TableIds(sstables') = TableIds(none) \cup {mu.seq}
    BY <2>3, PushFinished
  <2> QED
    BY <2>4, <2>5, Zenon
<1>8. \A s \in DOMAIN sstables' : /\ sstables'[s].id \in DOMAIN ssts
                                  /\ sstables'[s].id < next_seq
                                  /\ ssts[sstables'[s].id] = sstables'[s].data
  BY <1>6, <1>7, Zenon
<1>9. IsManifest(manifest') /\ CommitOK' /\ Bounded(DOMAIN manifest'.tables)
  <2>1. current_gen' \in Nat
    BY <1>3, <1>4
  <2>2. UNCHANGED <<ssts, next_seq>>
    BY <1>2, Zenon
  <2> QED
    BY <1>3, <1>7, <1>8, <2>1, <2>2, CommitList, Zenon
<1>10. TypeOK'
  <2>1. MemoryType'
    <3>1. current_gen' \in Nat /\ vlogs' \subseteq Nat
      BY <1>3, <1>4
    <3> QED
      BY <1>2, <1>5, <1>7, <3>1, Zenon DEF EngineInv, TypeOK, MemoryType
  <2>2. LogsType'
    BY <1>2, <1>3, NothingIsPending, Zenon DEF EngineInv, TypeOK, LogsType, logfiles
  <2>3. FilesType'
    BY <1>2, <1>9, Zenon DEF EngineInv, TypeOK, FilesType
  <2> QED
    BY <1>2, <2>1, <2>2, <2>3, TypeFrame, Zenon DEF TypeOK
<1>11. LockOK'
  BY <1>1, <1>2, <1>5, Zenon DEF EngineInv, LockOK
<1>12. SlotOK' /\ HeldOK'
  BY <1>1, <1>2, <1>5, Zenon DEF EngineInv, SlotOK, HeldOK
<1>13. GensOK'
  <2>1. (current_gen + 1) \in DOMAIN vfiles /\ \A h \in vlogs : h <= current_gen
    BY <1>1, Zenon DEF EngineInv, GensOK
  <2>2. \A h \in obsolete_gens : h \in Nat /\ h < current_gen
    BY Zenon DEF EngineInv, GensOK, TypeOK, MemoryType
  <2> QED
    <3>1. /\ \A h \in vlogs' : h <= current_gen'
          /\ \A h \in obsolete_gens' : h < current_gen'
      BY <1>2, <1>3, <1>4, <2>1, <2>2
    <3>2. current_gen' \in vlogs' /\ vlogs' \subseteq DOMAIN vfiles'
      BY <1>2, <1>3, <2>1, Zenon DEF EngineInv, GensOK
    <3> QED
      BY <1>5, <3>1, <3>2, Zenon DEF GensOK
<1>14. BoundsOK'
  BY <1>2, <1>7, <1>9 DEF EngineInv, BoundsOK
<1>15. IdsOK'
  <2>1. Old' \subseteq Listed /\ Listed' \subseteq Listed \cup {mu.seq}
    BY <1>2, <1>5, <1>7, Zenon DEF Listed, Old
  <2>2. \A j \in Compactors : jobs[j].pc # "idle" => jobs[j].seq \notin Listed
    BY <1>1, Zenon DEF EngineInv, IdsOK
  <2> QED
    BY <1>1, <1>2, <1>5, <1>6, <2>1, <2>2 DEF EngineInv, IdsOK
<1>16. FilesOK' /\ FreshOK'
  BY <1>1, <1>2, <1>5, <1>8 DEF EngineInv, FilesOK, FreshOK
<1> QED
  BY <1>9, <1>10, <1>11, <1>12, <1>13, <1>14, <1>15, <1>16, Zenon DEF EngineInv

\* gc_value_log preserves the invariant as it retires the old files.
LEMMA GcFinishInv ==
  ASSUME EngineInv, GcFinish
  PROVE  EngineInv'
<1>1. mu.at = "gc_committed" /\ mu.by = "gc" /\ mode = "open"
  BY Zenon DEF GcFinish, EngineInv, TypeOK, MemoryType, LockOK
<1>2. UNCHANGED <<mode, memtable, flushing_memtable, has_flushing, flushing_seq, sstables,
                  current_gen, next_seq, flusher, jobs, waiting, rd, locals, logfiles, pending,
                  manifest, ghost>>
  BY Zenon DEF GcFinish
<1>3. mu' \in LockType /\ mu'.at = "free" /\ mu'.by = "none" /\ mu' = Free
  BY FreeLock, Zenon DEF GcFinish
<1>4. vlogs' = {current_gen} /\ compacting' = FALSE
  BY Zenon DEF GcFinish, SetCompacting
<1> DEFINE obs == obsolete \cup mu.ids
           obsg == obsolete_gens \cup (vlogs \ {current_gen})
<1>5. Unlink(obs, obsg, sstables, vlogs', flusher', jobs', rd', locals')
  BY <1>2, Zenon DEF GcFinish
<1>6. /\ obs \subseteq Old /\ current_gen \in vlogs /\ current_gen \in Nat
      /\ \A g \in obsg : g \in Nat /\ g < current_gen
  <2>1. mu.ids \subseteq Nat /\ obsolete \subseteq Nat
    BY Zenon DEF EngineInv, TypeOK, MemoryType, LockType
  <2>2. obs \subseteq Old
    BY <2>1, Zenon DEF Old
  <2>3. /\ current_gen \in Nat /\ vlogs \subseteq Nat /\ obsolete_gens \subseteq Nat
        /\ current_gen \in vlogs
        /\ \A g \in vlogs : g <= current_gen
        /\ \A g \in obsolete_gens : g < current_gen
    BY <1>1, Zenon DEF EngineInv, TypeOK, MemoryType, GensOK
  <2>4. \A g \in obsg : g \in Nat /\ g < current_gen
    BY <2>3
  <2> QED
    BY <2>2, <2>3, <2>4, Zenon
<1> HIDE DEF obs, obsg
<1>7. /\ FilesType' /\ obsolete' \subseteq Nat /\ obsolete_gens' \subseteq Nat
      /\ GensOK' /\ BoundsOK'
      /\ IdsOK' /\ FilesOK' /\ FreshOK' /\ CommitOK' /\ HeldOK'
  BY <1>1, <1>2, <1>3, <1>4, <1>5, <1>6, UnlinkInv
<1>8. TypeOK'
  <2>1. MemoryType'
    BY <1>2, <1>3, <1>4, <1>6, <1>7, Zenon DEF EngineInv, TypeOK, MemoryType
  <2> QED
    BY <1>2, <1>7, <2>1, TypeFrame DEF TypeOK
<1>9. LockOK'
  BY <1>1, <1>2, <1>3, Zenon DEF EngineInv, LockOK
<1>10. SlotOK'
  BY <1>1, <1>2, <1>3, Zenon DEF EngineInv, SlotOK
<1> QED
  BY <1>7, <1>8, <1>9, <1>10, Zenon DEF EngineInv

-----------------------------------------------------------------------------
\* Table files and why they are still there.

\* A merge has the table as an input; a reader has it in its snapshot, or a thread
\* that released the lock in its locals; it is finished and about to be listed.
Merging(i) == \E j \in Compactors : i \in TableIds(jobs[j].inputs)

Referred(i) ==
  \/ \E r \in Readers : i \in TableIds(rd[r].tables)
  \/ \E t \in Threads : i \in locals[t].tables

Finished(i) ==
  \/ flusher.pc = "built" /\ i = flusher.seq
  \/ \E j \in Compactors : jobs[j].pc = "built" /\ i = jobs[j].seq
  \/ mu.at \in {"flush_built", "gc_built"} /\ i = mu.seq

\* Every table file is listed, about to be, about to be marked obsolete, or
\* marked; and one that is marked is left only to those who still refer to it.
FilesWanted ==
  mode # "closed" =>
    \A i \in DOMAIN ssts : \/ i \in TableIds(sstables) \/ i \in mu.ids \/ i \in obsolete
                           \/ Merging(i) \/ Finished(i)

ObsoleteWanted ==
  \A i \in obsolete : i \in TableIds(sstables) \/ i \in mu.ids \/ Merging(i) \/ Referred(i)

\* What is left to do under the lock after a commit, and that a merge or a read
\* that is over holds no tables.
LockLeaves ==
  /\ mu.at # "gc_committed" => mu.ids = {}
  /\ mu.at = "flusher_committed" => flusher.seq \in TableIds(sstables)
  /\ mu.at = "merge_committed" => jobs[mu.by].seq \in TableIds(sstables)

IdleLeaves ==
  /\ \A j \in Compactors : jobs[j].pc = "idle" => TableIds(jobs[j].inputs) = {}
  /\ \A r \in Readers : rd[r].pc = "idle" => TableIds(rd[r].tables) = {}

\* The inductive invariant for NoLeak.
LeakInv == FilesWanted /\ ObsoleteWanted /\ LockLeaves /\ IdleLeaves

\* A step that marks nothing: old files keep their reason, a new one has its own.
LEMMA WantedGrows ==
  ASSUME LeakInv, mode # "closed", obsolete' = obsolete,
         \A i \in DOMAIN ssts' : i \in DOMAIN ssts \/ Finished(i)',
         \A i \in TableIds(sstables) : i \in TableIds(sstables') \/ i \in mu'.ids \/ Merging(i)',
         mu.ids \subseteq mu'.ids,
         \A i : (Merging(i) => Merging(i)') /\ (Referred(i) => Referred(i)'),
         \A i : Finished(i) => Finished(i)' \/ i \in TableIds(sstables')
  PROVE  FilesWanted' /\ ObsoleteWanted'
<1>1. FilesWanted'
  BY Zenon DEF LeakInv, FilesWanted
<1>2. ObsoleteWanted'
  BY Zenon DEF LeakInv, ObsoleteWanted
<1> QED
  BY <1>1, <1>2, Zenon

\* A step that unlinks: what stays marked is still referred to.
LEMMA WantedUnlink ==
  ASSUME LeakInv, mode # "closed", NEW obs, NEW obsg, NEW vl,
         Unlink(obs, obsg, sstables, vl, flusher', jobs', rd', locals'),
         obsolete \subseteq obs, sstables' = sstables,
         \A i \in mu.ids : i \in obs \/ i \in mu'.ids,
         \A i : Merging(i) => Merging(i)' \/ i \in obs,
         \A i : Finished(i) => Finished(i)' \/ i \in TableIds(sstables)
  PROVE  FilesWanted' /\ ObsoleteWanted'
<1> DEFINE t == UnheldTables(obs, sstables, jobs', rd', locals')
<1>1. DOMAIN ssts' \subseteq DOMAIN ssts /\ \A i \in DOMAIN ssts' : i \notin t
  BY Zenon DEF Unlink, Restrict
<1>2. obsolete' = obs \ t
  BY Zenon DEF Unlink
<1>3. \A i \in obs : i \notin t => i \in TableIds(sstables) \/ Merging(i)' \/ Referred(i)'
  BY Zenon DEF UnheldTables, Merging, Referred
<1> HIDE DEF t
<1>4. FilesWanted'
  BY <1>1, <1>2, Zenon DEF LeakInv, FilesWanted
<1>5. ObsoleteWanted'
  BY <1>2, <1>3, Zenon DEF ObsoleteWanted
<1> QED
  BY <1>4, <1>5, Zenon

\* A step that touches neither lists nor files.
LEMMA LeakSame ==
  ASSUME LeakInv, mode # "closed",
         UNCHANGED <<sstables, obsolete, jobs, rd, locals, ssts>>,
         mu.ids = {}, mu'.ids = {}, mu'.at \notin {"flusher_committed", "merge_committed"},
         mu.at \in {"flush_built", "gc_built"} => mu' = mu,
         flusher.pc = "built" => flusher' = flusher
  PROVE  LeakInv'
<1>1. \A i : (Merging(i) => Merging(i)') /\ (Referred(i) => Referred(i)')
  BY Zenon DEF Merging, Referred
<1>2. \A i : Finished(i) => Finished(i)'
  BY Zenon DEF Finished
<1>3. FilesWanted' /\ ObsoleteWanted'
  BY <1>1, <1>2, WantedGrows, Zenon
<1>4. LockLeaves'
  BY Zenon DEF LockLeaves
<1>5. IdleLeaves'
  BY Zenon DEF LeakInv, IdleLeaves
<1> QED
  BY <1>3, <1>4, <1>5, Zenon DEF LeakInv

\* What the engine's invariant says of the lock, in the terms used here.
LEMMA LeakLock ==
  ASSUME EngineInv, LeakInv
  PROVE  /\ mu.at # "free" => mode # "closed"
         /\ mu.at # "gc_committed" => mu.ids = {}
BY Zenon DEF EngineInv, LockOK, LeakInv, LockLeaves, TypeOK, MemoryType, LockType

\* Clients and the lock: nothing is built or listed.
LEMMA QuietLeak ==
  ASSUME EngineInv, LeakInv,
         \/ \E c, k, cell, sync : WriteRecord(c, k, cell, sync)
         \/ \E c : MaybeSeal(c)
         \/ Sync \/ Flush \/ GcValueLog \/ GcNothing
         \/ FlusherTake \/ FlushTruncate \/ OpenDropWal \/ OpenDone
  PROVE  LeakInv'
<1>1. ASSUME LockFree, UNCHANGED <<mu, sstables, obsolete, jobs, rd, locals, ssts>>,
             flusher.pc = "built" => flusher' = flusher
      PROVE  LeakInv'
  BY <1>1, LeakLock, LeakSame, Zenon DEF LockFree
<1>2. ASSUME LockFree \/ mu.at \in {"gc", "flush_committed", "drop_wal", "open_done"},
             UNCHANGED <<sstables, obsolete, jobs, rd, locals, ssts, flusher>>,
             mu'.ids = {}, mu'.at \notin {"flusher_committed", "merge_committed"}
      PROVE  LeakInv'
  BY <1>2, LeakLock, LeakSame, Zenon DEF LockFree
<1>3. ASSUME NEW c, NEW k, NEW cell, NEW sync, WriteRecord(c, k, cell, sync) PROVE LeakInv'
  BY <1>1, <1>3, Zenon DEF WriteRecord, tablefiles
<1>4. ASSUME NEW c, MaybeSeal(c) PROVE LeakInv'
  BY <1>1, <1>4, Zenon DEF MaybeSeal, tablefiles
<1>5. CASE Sync
  BY <1>1, <1>5, Zenon DEF Sync, memory, tablefiles
<1>6. CASE FlusherTake
  BY <1>1, <1>6, Zenon DEF FlusherTake, memory, tablefiles
<1>7. CASE Flush
  BY <1>2, <1>7, LockAt, Zenon DEF Flush, memory, tablefiles, Free
<1>8. CASE GcValueLog
  BY <1>2, <1>8, Zenon DEF GcValueLog, tablefiles, Free
<1>9. CASE GcNothing
  BY <1>2, <1>9, Zenon DEF GcNothing, tablefiles, Free
<1>10. CASE FlushTruncate
  <2>1. mu.by \in {"flush", "gc", "open"}
    BY <1>10, Zenon DEF FlushTruncate, EngineInv, LockOK
  <2>2. mu'.ids = {} /\ mu'.at \in {"free", "gc", "drop_wal"}
    BY <1>10, <2>1, AfterFlushLock, Zenon DEF FlushTruncate
  <2> QED
    BY <1>2, <1>10, <2>2, Zenon DEF FlushTruncate, tablefiles
<1>11. CASE OpenDropWal
  <2>1. mu'.ids = {} /\ mu'.at = "open_done"
    BY <1>11, LeakLock, Zenon DEF OpenDropWal, EngineInv, TypeOK, MemoryType, LockType
  <2> QED
    BY <1>2, <1>11, <2>1, Zenon DEF OpenDropWal, memory, tablefiles
<1>12. CASE OpenDone
  BY <1>2, <1>12, FreeLock, Zenon DEF OpenDone, memory
<1> QED
  BY <1>3, <1>4, <1>5, <1>6, <1>7, <1>8, <1>9, <1>10, <1>11, <1>12

\* A table is built: its number is one that is about to be listed.
LEMMA BuildLeak ==
  ASSUME EngineInv, LeakInv, mode # "closed",
         NEW id, NEW data, ssts' = WithFile(ssts, id, data), Finished(id)',
         \A i : Finished(i) => Finished(i)',
         \A i : Merging(i) => Merging(i)',
         mu'.ids = mu.ids, UNCHANGED <<sstables, obsolete, rd, locals>>
  PROVE  FilesWanted' /\ ObsoleteWanted'
<1>1. \A i \in DOMAIN ssts' : i \in DOMAIN ssts \/ Finished(i)'
  BY Zenon DEF WithFile
<1>2. \A i : Referred(i) => Referred(i)'
  BY Zenon DEF Referred
<1> QED
  BY <1>1, <1>2, WantedGrows, Zenon

\* flush_locked builds the table of the memtable.
LEMMA FlushBuildLeak ==
  ASSUME EngineInv, LeakInv, FlushBuild
  PROVE  LeakInv'
<1>0. mu.at = "flush" /\ mode # "closed" /\ mu.ids = {} /\ mu.by \in {"flush", "gc", "open"}
  BY LeakLock, Zenon DEF FlushBuild, EngineInv, LockOK
<1>1. UNCHANGED <<mode, sstables, obsolete, flusher, jobs, rd, locals>>
  BY Zenon DEF FlushBuild
<1>2. CASE memtable = Empty
  <2>1. mu' = AfterFlush(mu.by) /\ UNCHANGED ssts
    BY <1>2, Zenon DEF FlushBuild
  <2>2. mu'.ids = {} /\ mu'.at \in {"free", "gc", "drop_wal"}
    BY <1>0, <2>1, AfterFlushLock, Zenon
  <2> QED
    BY <1>0, <1>1, <2>1, <2>2, LeakSame, Zenon
<1>3. CASE memtable # Empty
  <2>1. PICK id, data : /\ ssts' = WithFile(ssts, id, data)
                        /\ mu' = [mu EXCEPT !.at = "flush_built", !.seq = id, !.data = data]
    BY <1>3, Zenon DEF FlushBuild
  <2>2. mu'.at = "flush_built" /\ mu'.seq = id /\ mu'.ids = mu.ids
    BY <2>1, Zenon DEF EngineInv, TypeOK, MemoryType, LockType
  <2>3. \A i : Merging(i) => Merging(i)'
    BY <1>1, Zenon DEF Merging
  <2>4. \A i : Finished(i) => Finished(i)'
    BY <1>0, <1>1, Zenon DEF Finished
  <2>5. Finished(id)'
    BY <2>2, Zenon DEF Finished
  <2>6. FilesWanted' /\ ObsoleteWanted'
    BY <1>0, <1>1, <2>1, <2>2, <2>3, <2>4, <2>5, BuildLeak
  <2>7. LockLeaves'
    BY <1>0, <2>2, Zenon DEF LockLeaves
  <2>8. IdleLeaves'
    BY <1>1, Zenon DEF LeakInv, IdleLeaves
  <2> QED
    BY <2>6, <2>7, <2>8, Zenon DEF LeakInv
<1> QED
  BY <1>2, <1>3, Zenon

\* The collection builds the one table that replaces all.
LEMMA GcBuildLeak ==
  ASSUME EngineInv, LeakInv, GcBuild
  PROVE  LeakInv'
<1>0. mu.at = "gc" /\ mode # "closed" /\ mu.ids = {}
  BY LeakLock, Zenon DEF GcBuild
<1>1. UNCHANGED <<mode, sstables, obsolete, flusher, jobs, rd, locals>>
  BY Zenon DEF GcBuild
<1>2. PICK id, data : /\ ssts' = WithFile(ssts, id, data)
                      /\ mu' = [mu EXCEPT !.at = "gc_built", !.seq = id, !.data = data]
  BY Zenon DEF GcBuild
<1>3. mu'.at = "gc_built" /\ mu'.seq = id /\ mu'.ids = mu.ids
  BY <1>2, Zenon DEF EngineInv, TypeOK, MemoryType, LockType
<1>4. \A i : Merging(i) => Merging(i)'
  BY <1>1, Zenon DEF Merging
<1>5. \A i : Finished(i) => Finished(i)'
  BY <1>0, <1>1, Zenon DEF Finished
<1>6. Finished(id)'
  BY <1>3, Zenon DEF Finished
<1>7. FilesWanted' /\ ObsoleteWanted'
  BY <1>0, <1>1, <1>2, <1>3, <1>4, <1>5, <1>6, BuildLeak
<1>8. LockLeaves'
  BY <1>0, <1>3, Zenon DEF LockLeaves
<1>9. IdleLeaves'
  BY <1>1, Zenon DEF LeakInv, IdleLeaves
<1> QED
  BY <1>7, <1>8, <1>9, Zenon DEF LeakInv

\* The flusher builds the table of the sealed memtable.
LEMMA FlusherBuildLeak ==
  ASSUME EngineInv, LeakInv, FlusherBuild
  PROVE  LeakInv'
<1>0. mode # "closed" /\ flusher.pc = "taken"
  BY Zenon DEF FlusherBuild, Open
<1>1. UNCHANGED <<mode, mu, sstables, obsolete, jobs, rd, locals>>
  BY Zenon DEF FlusherBuild, memory
<1>2. PICK id, data : /\ id = flusher.seq /\ ssts' = WithFile(ssts, id, data)
                      /\ flusher' = [flusher EXCEPT !.pc = "built", !.data = data]
  BY Zenon DEF FlusherBuild
<1>3. flusher'.pc = "built" /\ flusher'.seq = id
  BY <1>2, Zenon DEF EngineInv, TypeOK, ThreadsType
<1>4. \A i : Merging(i) => Merging(i)'
  BY <1>1, Zenon DEF Merging
<1>5. \A i : Finished(i) => Finished(i)'
  BY <1>0, <1>1, Zenon DEF Finished
<1>6. Finished(id)'
  BY <1>3, Zenon DEF Finished
<1>7. FilesWanted' /\ ObsoleteWanted'
  BY <1>0, <1>1, <1>2, <1>4, <1>5, <1>6, BuildLeak
<1>8. LockLeaves'
  BY <1>1, <1>2, <1>3, Zenon DEF LeakInv, LockLeaves
<1>9. IdleLeaves'
  BY <1>1, Zenon DEF LeakInv, IdleLeaves
<1> QED
  BY <1>7, <1>8, <1>9 DEF LeakInv

\* A merge builds its result.
LEMMA MergeBuildLeak ==
  ASSUME EngineInv, LeakInv, NEW j \in Compactors, MergeBuild(j)
  PROVE  LeakInv'
<1>0. mode # "closed" /\ jobs[j].pc = "picked"
  BY Zenon DEF MergeBuild, Open
<1>1. UNCHANGED <<mode, mu, sstables, obsolete, flusher, rd, locals>>
  BY Zenon DEF MergeBuild, memory
<1>2. PICK id, data : /\ id = jobs[j].seq /\ ssts' = WithFile(ssts, id, data)
                      /\ jobs' = [jobs EXCEPT ![j].pc = "built", ![j].data = data]
  BY Zenon DEF MergeBuild
<1>3. /\ jobs'[j].pc = "built" /\ jobs'[j].seq = jobs[j].seq
      /\ jobs'[j].inputs = jobs[j].inputs
      /\ \A i \in Compactors : i # j => jobs'[i] = jobs[i]
  BY <1>2 DEF EngineInv, TypeOK, ThreadsType, IsJob
<1>4. \A i : Merging(i) => Merging(i)'
  BY <1>3, Zenon DEF Merging
<1>5. \A i : Finished(i) => Finished(i)'
  BY <1>0, <1>1, <1>3, Zenon DEF Finished
<1>6. Finished(id)'
  BY <1>2, <1>3, Zenon DEF Finished
<1>7. FilesWanted' /\ ObsoleteWanted'
  BY <1>0, <1>1, <1>2, <1>4, <1>5, <1>6, BuildLeak
<1>8. LockLeaves'
  <2>1. mu.at = "merge_committed" => mu.by \in Compactors
    BY Zenon DEF EngineInv, LockOK
  <2>2. \A i \in Compactors : jobs'[i].seq = jobs[i].seq
    BY <1>3, Zenon
  <2> QED
    BY <1>1, <2>1, <2>2, Zenon DEF LeakInv, LockLeaves
<1>9. IdleLeaves'
  BY <1>1, <1>3, Zenon DEF LeakInv, IdleLeaves
<1> QED
  BY <1>7, <1>8, <1>9, Zenon DEF LeakInv

\* A table is listed first.
LEMMA FlushCommitLeak ==
  ASSUME EngineInv, LeakInv, FlushCommit
  PROVE  LeakInv'
<1>0. mu.at = "flush_built" /\ mode # "closed" /\ mu.ids = {}
  BY LeakLock, Zenon DEF FlushCommit
<1>1. UNCHANGED <<mode, obsolete, flusher, jobs, rd, locals, ssts>>
  BY Zenon DEF FlushCommit
<1>2. mu'.at = "flush_committed" /\ mu'.ids = {}
  BY <1>0, Zenon DEF FlushCommit, EngineInv, TypeOK, MemoryType, LockType
<1>3. TableIds(sstables') = TableIds(sstables) \cup {mu.seq}
  <2>1. /\ IsTables(sstables) /\ Bounded(DOMAIN sstables)
        /\ mu.seq \in Nat /\ mu.data \in Content
    BY Zenon DEF EngineInv, TypeOK, MemoryType, LockType, BoundsOK
  <2>2. sstables' = PushNewest(sstables, Table(mu.seq, mu.data))
    BY Zenon DEF FlushCommit
  <2> QED
    BY <2>1, <2>2, PushFinished, Zenon
<1>4. \A i : (Merging(i) => Merging(i)') /\ (Referred(i) => Referred(i)')
  BY <1>1, Zenon DEF Merging, Referred
<1>5. \A i : Finished(i) => Finished(i)' \/ i \in TableIds(sstables')
  BY <1>0, <1>1, <1>3, Zenon DEF Finished
<1>6. FilesWanted' /\ ObsoleteWanted'
  BY <1>0, <1>1, <1>2, <1>3, <1>4, <1>5, WantedGrows
<1>7. LockLeaves'
  BY <1>2, Zenon DEF LockLeaves
<1>8. IdleLeaves'
  BY <1>1, Zenon DEF LeakInv, IdleLeaves
<1> QED
  BY <1>6, <1>7, <1>8, Zenon DEF LeakInv

\* The flusher lists its table.
LEMMA FlusherCommitLeak ==
  ASSUME EngineInv, LeakInv, FlusherCommit
  PROVE  LeakInv'
<1>0. mu.at = "free" /\ mode # "closed" /\ mu.ids = {}
  BY LeakLock, Zenon DEF FlusherCommit, LockFree
<1>1. UNCHANGED <<mode, obsolete, flusher, jobs, rd, locals, ssts>>
  BY Zenon DEF FlusherCommit
<1>2. mu'.at = "flusher_committed" /\ mu'.ids = {}
  BY Zenon DEF FlusherCommit, Free
<1>3. TableIds(sstables') = TableIds(sstables) \cup {flusher.seq}
  <2>1. /\ IsTables(sstables) /\ Bounded(DOMAIN sstables)
        /\ flusher.seq \in Nat /\ flusher.data \in Content
    BY Zenon DEF EngineInv, TypeOK, MemoryType, ThreadsType, BoundsOK
  <2>2. sstables' = PushNewest(sstables, Table(flusher.seq, flusher.data))
    BY Zenon DEF FlusherCommit
  <2> QED
    BY <2>1, <2>2, PushFinished, Zenon
<1>4. \A i : (Merging(i) => Merging(i)') /\ (Referred(i) => Referred(i)')
  BY <1>1, Zenon DEF Merging, Referred
<1>5. \A i : Finished(i) => Finished(i)' \/ i \in TableIds(sstables')
  BY <1>0, <1>1, <1>3, Zenon DEF Finished
<1>6. FilesWanted' /\ ObsoleteWanted'
  BY <1>0, <1>1, <1>2, <1>3, <1>4, <1>5, WantedGrows
<1>7. LockLeaves'
  BY <1>1, <1>2, <1>3, Zenon DEF LockLeaves
<1>8. IdleLeaves'
  BY <1>1, Zenon DEF LeakInv, IdleLeaves
<1> QED
  BY <1>6, <1>7, <1>8, Zenon DEF LeakInv

\* The collection lists one table; those it replaces wait to be marked.
LEMMA GcCommitLeak ==
  ASSUME EngineInv, LeakInv, GcCommit
  PROVE  LeakInv'
<1>0. mu.at = "gc_built" /\ mode # "closed" /\ mu.ids = {}
  BY LeakLock, Zenon DEF GcCommit
<1>1. UNCHANGED <<mode, obsolete, flusher, jobs, rd, locals, ssts>>
  BY Zenon DEF GcCommit
<1>2. mu'.at = "gc_committed" /\ mu'.ids = TableIds(sstables)
  BY Zenon DEF GcCommit, EngineInv, TypeOK, MemoryType, LockType
<1>3. mu.seq \in TableIds(sstables')
  <2>1. IsTables(NoTables) /\ Bounded(DOMAIN NoTables)
    BY Zenon DEF IsTables, Bounded, NoTables
  <2>2. mu.seq \in Nat /\ mu.data \in Content
    BY Zenon DEF EngineInv, TypeOK, MemoryType, LockType
  <2> DEFINE none == NoTables
  <2>3. sstables' = PushNewest(none, Table(mu.seq, mu.data))
    BY Zenon DEF GcCommit
  <2>4. IsTables(none) /\ Bounded(DOMAIN none)
    BY <2>1, Zenon
  <2> HIDE DEF none
  <2>5. TableIds(sstables') = TableIds(none) \cup {mu.seq}
    BY <2>2, <2>3, <2>4, PushFinished, Zenon
  <2> QED
    BY <2>5, Zenon
<1>4. \A i : (Merging(i) => Merging(i)') /\ (Referred(i) => Referred(i)')
  BY <1>1, Zenon DEF Merging, Referred
<1>5. \A i : Finished(i) => Finished(i)' \/ i \in TableIds(sstables')
  BY <1>0, <1>1, <1>3, Zenon DEF Finished
<1>6. FilesWanted' /\ ObsoleteWanted'
  BY <1>0, <1>1, <1>2, <1>4, <1>5, WantedGrows
<1>7. LockLeaves'
  BY <1>2, Zenon DEF LockLeaves
<1>8. IdleLeaves'
  BY <1>1, Zenon DEF LeakInv, IdleLeaves
<1> QED
  BY <1>6, <1>7, <1>8, Zenon DEF LeakInv

\* A merge lists its result; its inputs leave the list and are still its inputs.
LEMMA MergeCommitLeak ==
  ASSUME EngineInv, LeakInv, NEW j \in Compactors, MergeCommit(j)
  PROVE  LeakInv'
<1>0. mu.at = "free" /\ mode # "closed" /\ mu.ids = {}
  BY LeakLock, Zenon DEF MergeCommit, LockFree
<1>1. UNCHANGED <<mode, obsolete, flusher, jobs, rd, locals, ssts>>
  BY Zenon DEF MergeCommit
<1>2. mu'.at = "merge_committed" /\ mu'.by = j /\ mu'.ids = {}
  BY Zenon DEF MergeCommit, Free
<1>3. /\ jobs[j].seq \in TableIds(sstables')
      /\ TableIds(sstables) \subseteq TableIds(sstables') \cup TableIds(jobs[j].inputs)
  <2>1. DOMAIN sstables \subseteq Int /\ Bounded(DOMAIN sstables)
    BY Zenon DEF EngineInv, TypeOK, MemoryType, IsTables, BoundsOK
  <2>2. sstables' = InstallMergeResult(sstables, TableIds(jobs[j].inputs),
                                       Table(jobs[j].seq, jobs[j].data))
    BY Zenon DEF MergeCommit
  <2>3. Table(jobs[j].seq, jobs[j].data).id = jobs[j].seq
    BY Zenon DEF Table
  <2> QED
    BY <2>1, <2>2, <2>3, InstallIds
<1>4. \A i : (Merging(i) => Merging(i)') /\ (Referred(i) => Referred(i)')
  BY <1>1, Zenon DEF Merging, Referred
<1>5. \A i : Finished(i) => Finished(i)' \/ i \in TableIds(sstables')
  BY <1>0, <1>1, Zenon DEF Finished
<1>6. \A i \in TableIds(sstables) : i \in TableIds(sstables') \/ Merging(i)'
  BY <1>1, <1>3, Zenon DEF Merging
<1>7. FilesWanted' /\ ObsoleteWanted'
  BY <1>0, <1>1, <1>2, <1>4, <1>5, <1>6, WantedGrows
<1>8. LockLeaves'
  BY <1>1, <1>2, <1>3, Zenon DEF LockLeaves
<1>9. IdleLeaves'
  BY <1>1, Zenon DEF LeakInv, IdleLeaves
<1> QED
  BY <1>7, <1>8, <1>9, Zenon DEF LeakInv

\* The end of a flush: the table is listed already.
LEMMA FlusherFinishLeak ==
  ASSUME EngineInv, LeakInv, FlusherFinish
  PROVE  LeakInv'
<1>0. mu.at = "flusher_committed" /\ mode # "closed" /\ mu.ids = {}
  BY LeakLock, Zenon DEF FlusherFinish
<1>1. mu' = Free /\ UNCHANGED <<mode, sstables, jobs, rd>>
  BY Zenon DEF FlusherFinish
<1>2. \A i : Merging(i) => Merging(i)'
  BY <1>1, Zenon DEF Merging
<1>3. \A i : Finished(i) => Finished(i)' \/ i \in TableIds(sstables)
  BY <1>0, <1>1, Zenon DEF Finished, LeakInv, LockLeaves
<1>4. Unlink(obsolete, obsolete_gens, sstables, vlogs, flusher', jobs', rd', locals')
  BY <1>1, Zenon DEF FlusherFinish
<1>5. FilesWanted' /\ ObsoleteWanted'
  BY <1>0, <1>1, <1>2, <1>3, <1>4, WantedUnlink
<1>6. LockLeaves'
  BY <1>1, FreeLock, Zenon DEF LockLeaves
<1>7. IdleLeaves'
  BY <1>1, Zenon DEF LeakInv, IdleLeaves
<1> QED
  BY <1>5, <1>6, <1>7, Zenon DEF LeakInv

\* The inputs of a merge become obsolete and lose their holder.
LEMMA MergeFinishLeak ==
  ASSUME EngineInv, LeakInv, NEW j \in Compactors, MergeFinish(j)
  PROVE  LeakInv'
<1>0. mu.at = "merge_committed" /\ mu.by = j /\ mode # "closed" /\ mu.ids = {}
  BY LeakLock, Zenon DEF MergeFinish, FinishMerge
<1>1. mu' = Free /\ UNCHANGED <<mode, sstables, flusher, rd>>
  BY Zenon DEF MergeFinish, FinishMerge
<1>2. jobs'[j] = IdleJob /\ \A i \in Compactors : i # j => jobs'[i] = jobs[i]
  BY Zenon DEF MergeFinish, FinishMerge, EngineInv, TypeOK, ThreadsType
<1> DEFINE obs == obsolete \cup TableIds(jobs[j].inputs)
<1>3. Unlink(obs, obsolete_gens, sstables, vlogs, flusher', jobs', rd', locals')
  BY <1>1, Zenon DEF MergeFinish, FinishMerge
<1>4. obsolete \subseteq obs /\ \A i : Merging(i) => Merging(i)' \/ i \in obs
  BY <1>2, Zenon DEF Merging
<1>5. \A i : Finished(i) => Finished(i)' \/ i \in TableIds(sstables)
  BY <1>0, <1>1, <1>2, Zenon DEF Finished, LeakInv, LockLeaves
<1> HIDE DEF obs
<1>6. FilesWanted' /\ ObsoleteWanted'
  BY <1>0, <1>1, <1>3, <1>4, <1>5, WantedUnlink
<1>7. LockLeaves'
  BY <1>1, FreeLock, Zenon DEF LockLeaves
<1>8. IdleLeaves'
  BY <1>1, <1>2, IdleHolds, Zenon DEF LeakInv, IdleLeaves
<1> QED
  BY <1>6, <1>7, <1>8, Zenon DEF LeakInv

\* The tables a collection replaced become obsolete.
LEMMA GcFinishLeak ==
  ASSUME EngineInv, LeakInv, GcFinish
  PROVE  LeakInv'
<1>0. mu.at = "gc_committed" /\ mode # "closed"
  BY LeakLock, Zenon DEF GcFinish
<1>1. mu' = Free /\ UNCHANGED <<mode, sstables, flusher, jobs, rd, locals>>
  BY Zenon DEF GcFinish
<1> DEFINE obs == obsolete \cup mu.ids
           obsg == obsolete_gens \cup (vlogs \ {current_gen})
<1>2. Unlink(obs, obsg, sstables, vlogs', flusher', jobs', rd', locals')
  BY <1>1, Zenon DEF GcFinish
<1>3. obsolete \subseteq obs /\ \A i \in mu.ids : i \in obs
  BY Zenon
<1>4. \A i : Merging(i) => Merging(i)'
  BY <1>1, Zenon DEF Merging
<1>5. \A i : Finished(i) => Finished(i)'
  BY <1>0, <1>1, Zenon DEF Finished
<1> HIDE DEF obs, obsg
<1>6. FilesWanted' /\ ObsoleteWanted'
  BY <1>0, <1>1, <1>2, <1>3, <1>4, <1>5, WantedUnlink
<1>7. LockLeaves'
  BY <1>1, FreeLock, Zenon DEF LockLeaves
<1>8. IdleLeaves'
  BY <1>1, Zenon DEF LeakInv, IdleLeaves
<1> QED
  BY <1>6, <1>7, <1>8, Zenon DEF LeakInv

\* A reader releases its snapshot.
LEMMA EndReadLeak ==
  ASSUME EngineInv, LeakInv, NEW r \in Readers, EndRead(r)
  PROVE  LeakInv'
<1>0. mode = "open"
  BY Zenon DEF EndRead, Open
<1>1. UNCHANGED <<mode, mu, sstables, flusher, jobs>>
  BY Zenon DEF EndRead
<1>2. rd'[r] = IdleRead /\ \A q \in Readers : q # r => rd'[q] = rd[q]
  BY Zenon DEF EndRead, EngineInv, TypeOK, ThreadsType
<1>3. Unlink(obsolete, obsolete_gens, sstables, vlogs, flusher', jobs', rd', locals')
  BY <1>1, Zenon DEF EndRead
<1>4. \A i : (Merging(i) => Merging(i)') /\ (Finished(i) => Finished(i)')
  BY <1>1, Zenon DEF Merging, Finished
<1>5. FilesWanted' /\ ObsoleteWanted'
  BY <1>0, <1>1, <1>3, <1>4, WantedUnlink
<1>6. LockLeaves'
  BY <1>1, Zenon DEF LeakInv, LockLeaves
<1>7. IdleLeaves'
  BY <1>1, <1>2, IdleHolds, Zenon DEF LeakInv, IdleLeaves
<1> QED
  BY <1>5, <1>6, <1>7 DEF LeakInv

\* The locals of a thread go out of scope.
LEMMA EndScopeLeak ==
  ASSUME EngineInv, LeakInv, NEW t \in Threads, EndScope(t)
  PROVE  LeakInv'
<1>0. mode = "open"
  BY Zenon DEF EndScope, Open
<1>1. UNCHANGED <<mode, mu, sstables, flusher, jobs, rd>>
  BY Zenon DEF EndScope
<1>2. Unlink(obsolete, obsolete_gens, sstables, vlogs, flusher', jobs', rd', locals')
  BY <1>1, Zenon DEF EndScope
<1>3. \A i : (Merging(i) => Merging(i)') /\ (Finished(i) => Finished(i)')
  BY <1>1, Zenon DEF Merging, Finished
<1>4. FilesWanted' /\ ObsoleteWanted'
  BY <1>0, <1>1, <1>2, <1>3, WantedUnlink
<1>5. LockLeaves'
  BY <1>1, Zenon DEF LeakInv, LockLeaves
<1>6. IdleLeaves'
  BY <1>1, Zenon DEF LeakInv, IdleLeaves
<1> QED
  BY <1>4, <1>5, <1>6, Zenon DEF LeakInv

\* A merge starts: its thread referred to nothing before.
LEMMA StartMergeLeak ==
  ASSUME EngineInv, LeakInv, LockFree, NEW j \in Compactors, jobs[j].pc = "idle",
         NEW R, NEW drop, StartMerge(j, R, drop)
  PROVE  LeakInv'
<1>0. mu.at = "free" /\ mode # "closed"
  BY Zenon DEF LockFree
<1>1. UNCHANGED <<mode, mu, sstables, obsolete, flusher, rd, locals, ssts>>
  BY Zenon DEF StartMerge, tablefiles
<1>2. jobs'[j].pc = "picked" /\ \A i \in Compactors : i # j => jobs'[i] = jobs[i]
  BY Zenon DEF StartMerge, EngineInv, TypeOK, ThreadsType
<1>3. TableIds(jobs[j].inputs) = {}
  BY Zenon DEF LeakInv, IdleLeaves
<1>4. \A i : (Merging(i) => Merging(i)') /\ (Referred(i) => Referred(i)')
  BY <1>1, <1>2, <1>3 DEF Merging, Referred
<1>5. \A i : Finished(i) => Finished(i)'
  BY <1>1, <1>2, Zenon DEF Finished
<1>6. FilesWanted' /\ ObsoleteWanted'
  BY <1>0, <1>1, <1>4, <1>5, WantedGrows
<1>7. LockLeaves'
  BY <1>0, <1>1, Zenon DEF LeakInv, LockLeaves
<1>8. IdleLeaves'
  BY <1>1, <1>2, Zenon DEF LeakInv, IdleLeaves
<1> QED
  BY <1>6, <1>7, <1>8, Zenon DEF LeakInv

\* A read takes its snapshot.
LEMMA SnapshotLeak ==
  ASSUME EngineInv, LeakInv, LockFree, NEW r \in Readers, rd[r].pc = "idle",
         NEW keys, NEW mem, Snapshot(r, keys, mem)
  PROVE  LeakInv'
<1>0. mode # "closed"
  BY Zenon DEF LockFree
<1>1. UNCHANGED <<mode, mu, sstables, obsolete, flusher, jobs, locals, ssts>>
  BY Zenon DEF Snapshot, memory, tablefiles
<1>2. rd'[r].pc = "reading" /\ \A q \in Readers : q # r => rd'[q] = rd[q]
  BY Zenon DEF Snapshot, EngineInv, TypeOK, ThreadsType
<1>3. TableIds(rd[r].tables) = {}
  BY Zenon DEF LeakInv, IdleLeaves
<1>4. \A i : (Merging(i) => Merging(i)') /\ (Referred(i) => Referred(i)')
  BY <1>1, <1>2, <1>3 DEF Merging, Referred
<1>5. \A i : Finished(i) => Finished(i)'
  BY <1>1, Zenon DEF Finished
<1>6. FilesWanted' /\ ObsoleteWanted'
  BY <1>0, <1>1, <1>4, <1>5, WantedGrows
<1>7. LockLeaves'
  BY <1>1, Zenon DEF LeakInv, LockLeaves
<1>8. IdleLeaves'
  BY <1>1, <1>2, Zenon DEF LeakInv, IdleLeaves
<1> QED
  BY <1>6, <1>7, <1>8 DEF LeakInv

\* The constructor removes every table file it does not load.
LEMMA OpenDBLeak ==
  ASSUME EngineInv, OpenDB
  PROVE  LeakInv'
<1>1. /\ obsolete' = {} /\ \A j \in Compactors : jobs'[j] = IdleJob
      /\ \A r \in Readers : rd'[r] = IdleRead
  BY Zenon DEF OpenDB, EngineInv, SlotOK
<1>2. mu'.at \in {"flush", "open_done"} /\ mu'.ids = {}
  BY Zenon DEF OpenDB, Free
<1>3. DOMAIN ssts' \subseteq TableIds(sstables')
  BY Zenon DEF OpenDB, CleanupOrphans, Restrict
<1>4. FilesWanted' /\ ObsoleteWanted'
  BY <1>1, <1>3, Zenon DEF FilesWanted, ObsoleteWanted
<1>5. LockLeaves'
  BY <1>2, Zenon DEF LockLeaves
<1>6. IdleLeaves'
  BY <1>1, IdleHolds, Zenon DEF IdleLeaves
<1> QED
  BY <1>4, <1>5, <1>6, Zenon DEF LeakInv

\* A directory nobody has open.
LEMMA ClosedLeak ==
  /\ mode = "closed" /\ mu = Free /\ obsolete = {}
  /\ jobs = [j \in Compactors |-> IdleJob] /\ rd = [r \in Readers |-> IdleRead]
  => LeakInv
BY FreeLock, IdleHolds, Zenon
DEF LeakInv, FilesWanted, ObsoleteWanted, LockLeaves, IdleLeaves

-----------------------------------------------------------------------------
\* The invariant is inductive: every step of every thread preserves it.
LEMMA NextInv ==
  ASSUME EngineInv, [Next]_vars
  PROVE  EngineInv'
<1>1. CASE ClientStep
  <2>1. ASSUME NEW c \in Clients, NEW k \in Keys, NEW sync \in SyncModes,
               NEW v \in Values, Put(c, k, v, sync)
        PROVE  EngineInv'
    BY <2>1, WriteRecordInv, LsmAssumption, Zenon DEF Put
  <2>2. ASSUME NEW c \in Clients, NEW k \in Keys, NEW sync \in SyncModes,
               Del(c, k, sync)
        PROVE  EngineInv'
    BY <2>2, WriteRecordInv, LsmAssumption, Zenon DEF Del
  <2>3. ASSUME NEW c \in Clients, MaybeSeal(c) PROVE EngineInv'
    BY <2>3, MaybeSealInv, Zenon
  <2>4. CASE Sync
    BY <2>4, SyncInv, Zenon
  <2>5. CASE Flush
    BY <2>5, FlushInv, Zenon
  <2>6. CASE GcValueLog
    BY <2>6, GcValueLogInv, Zenon
  <2>7. CASE CompactAll
    BY <2>7, CompactAllInv, Zenon
  <2> QED
    BY <1>1, <2>1, <2>2, <2>3, <2>4, <2>5, <2>6, <2>7 DEF ClientStep
<1>2. CASE ReadStep
  <2>1. PICK r \in Readers :
          \/ \E k \in Keys : Get(r, k)
          \/ \E from, to : Scan(r, from, to)
          \/ EndRead(r)
    BY <1>2, Zenon DEF ReadStep
  <2> QED
    BY <2>1, GetInv, ScanInv, EndReadInv
<1>3. CASE FlusherStep
  BY <1>3, FlusherTakeInv, FlusherBuildInv, FlusherCommitInv, FlusherFinishInv, EndScopeInv
  DEF FlusherStep, Threads
<1>4. CASE DoSizeTieredCompaction
  BY <1>4, DoSizeTieredCompactionInv, Zenon
<1>5. ASSUME NEW j \in Compactors, MergeStep(j) PROVE EngineInv'
  BY <1>5, MergeBuildInv, MergeCommitInv, MergeFinishInv, EndScopeInv DEF MergeStep, Threads
<1>6. CASE FlushLockedStep
  BY <1>6, FlushBuildInv, FlushCommitInv, FlushTruncateInv DEF FlushLockedStep
<1>7. CASE GcStep
  BY <1>7, GcNothingInv, GcBuildInv, GcCommitInv, GcFinishInv DEF GcStep
<1>8. CASE OpenStep
  BY <1>8, OpenDBInv, OpenDropWalInv, OpenDoneInv DEF OpenStep
<1>9. CASE Exit
  BY <1>9, ExitInv, Zenon
<1>10. CASE PowerLoss
  BY <1>10, PowerLossInv, Zenon
<1>11. CASE UNCHANGED vars
  <2>1. UNCHANGED <<mode, mu, memory, flusher, jobs, waiting, rd, locals, logfiles, pending,
                    tablefiles, ghost>>
    BY <1>11, Zenon DEF vars
  <2>2. TypeOK'
    <3>1. MemoryType'
      BY <2>1, Zenon DEF EngineInv, TypeOK, MemoryType, memory
    <3> QED
      BY <2>1, <3>1, TypeFrame DEF TypeOK
  <2>3. LockOK' /\ SlotOK' /\ GensOK' /\ BoundsOK'
    BY <2>1, Zenon DEF EngineInv, LockOK, SlotOK, GensOK, BoundsOK, memory, tablefiles
  <2>4. IdsOK'
    <3>1. Listed' = Listed /\ Old' = Old
      BY <2>1 DEF Listed, Old, memory
    <3> QED
      BY <2>1, <3>1, Zenon DEF EngineInv, IdsOK, memory
  <2>5. FilesOK' /\ FreshOK' /\ CommitOK' /\ HeldOK'
    BY <2>1, Zenon DEF EngineInv, FilesOK, FreshOK, CommitOK, HeldOK, memory, tablefiles
  <2> QED
    BY <2>2, <2>3, <2>4, <2>5 DEF EngineInv
<1> QED
  BY <1>1, <1>2, <1>3, <1>4, <1>5, <1>6, <1>7, <1>8, <1>9, <1>10, <1>11 DEF Next

\* The engine's invariant holds in every state the store can reach, with any
\* number of clients, readers and crashes, and with compact_all overlapping the
\* background compactor.
THEOREM EngineInvariant == Spec => []EngineInv
<1>1. EngineInv /\ [Next]_vars => EngineInv'
  BY NextInv, Zenon
<1> QED
  BY <1>1, InitInv, PTL DEF Spec

\* Every variable of DB, of its threads and of its directory keeps its type.
THEOREM TypeCorrect == Spec => []TypeOK
<1>1. EngineInv => TypeOK
  BY Zenon DEF EngineInv
<1> QED
  BY <1>1, EngineInvariant, PTL

\* While the flusher appends to the value log without the lock, nobody is inside
\* flush_locked: flush() and gc_value_log wait for the flushing slot, and no
\* seal can fill it while they hold the lock.
THEOREM SingleAppender == Spec => []OneAppender
<1>1. EngineInv => OneAppender
  <2> SUFFICES ASSUME EngineInv, flusher.pc # "idle"
               PROVE  mu.at \in {"free", "flusher_committed", "merge_committed"}
    BY Zenon DEF OneAppender
  <2>1. mu.by \notin {"flush", "gc", "open"}
    BY Zenon DEF EngineInv, SlotOK
  <2>2. mu.at \in LockPoints
    BY Zenon DEF EngineInv, TypeOK, MemoryType, LockType
  <2> QED
    BY <2>1, <2>2, Zenon DEF EngineInv, LockOK, LockPoints
<1> QED
  BY <1>1, EngineInvariant, PTL

\* No file is unlinked while a reader's snapshot or a merge still refers to it,
\* even if two merges of the same tables finish one after the other.
THEOREM FilesHeld == Spec => []HeldOK
<1>1. EngineInv => HeldOK
  BY Zenon DEF EngineInv
<1> QED
  BY <1>1, EngineInvariant, PTL

\* A step may add a table file or remove some; it never rewrites one.
FilesKept == \A i \in DOMAIN ssts \cap DOMAIN ssts' : ssts'[i] = ssts[i]

\* Unlinking leaves the other files as they are.
LEMMA UnlinkKeeps ==
  ASSUME NEW obs, NEW obsg, NEW tbls, NEW vl, NEW fl, NEW js, NEW rds, NEW loc,
         Unlink(obs, obsg, tbls, vl, fl, js, rds, loc)
  PROVE  FilesKept
BY Zenon DEF Unlink, Restrict, FilesKept

\* A file is only ever created under a number that is reserved and unused.
LEMMA NextKeeps ==
  ASSUME EngineInv, [Next]_vars
  PROVE  FilesKept
<1>1. ASSUME UNCHANGED ssts PROVE FilesKept
  BY <1>1, Zenon DEF FilesKept
<1>2. ASSUME NEW id, NEW data, id \notin DOMAIN ssts, ssts' = WithFile(ssts, id, data)
      PROVE  FilesKept
  BY <1>2, Zenon DEF FilesKept, WithFile
<1>3. mode # "closed" => next_seq \notin DOMAIN ssts
  BY DEF EngineInv, TypeOK, MemoryType, FilesType, FreshOK
<1>4. CASE ClientStep
  <2>1. ASSUME NEW c, NEW k, NEW cell, NEW sync, WriteRecord(c, k, cell, sync)
        PROVE  FilesKept
    BY <1>1, <2>1, Zenon DEF WriteRecord, tablefiles
  <2>2. ASSUME NEW c, MaybeSeal(c) PROVE FilesKept
    BY <1>1, <2>2, Zenon DEF MaybeSeal, tablefiles
  <2>3. CASE Sync \/ Flush \/ GcValueLog \/ CompactAll
    BY <1>1, <2>3, Zenon DEF Sync, Flush, GcValueLog, CompactAll, StartMerge, tablefiles
  <2> QED
    BY <1>4, <2>1, <2>2, <2>3, Zenon DEF ClientStep, Put, Del
<1>5. CASE ReadStep
  <2>1. ASSUME NEW r, NEW keys, NEW mem, Snapshot(r, keys, mem) PROVE FilesKept
    BY <1>1, <2>1, Zenon DEF Snapshot, tablefiles
  <2>2. ASSUME NEW r, EndRead(r) PROVE FilesKept
    BY <2>2, UnlinkKeeps, Zenon DEF EndRead
  <2> QED
    BY <1>5, <2>1, <2>2, Zenon DEF ReadStep, Get, Scan
<1>6. CASE FlusherStep
  <2>1. CASE FlusherTake \/ FlusherCommit
    BY <1>1, <2>1, Zenon DEF FlusherTake, FlusherCommit, tablefiles
  <2>2. CASE FlusherBuild
    <3>1. mode # "closed" /\ flusher.pc = "taken"
      BY <2>2, Zenon DEF FlusherBuild, Open
    <3>2. flusher.seq \notin DOMAIN ssts
      BY <3>1, Zenon DEF EngineInv, SlotOK, FreshOK
    <3> QED
      BY <1>2, <2>2, <3>2, Zenon DEF FlusherBuild
  <2>3. CASE FlusherFinish
    BY <2>3, UnlinkKeeps, Zenon DEF FlusherFinish
  <2>4. CASE EndScope("flusher")
    BY <2>4, UnlinkKeeps, Zenon DEF EndScope
  <2> QED
    BY <1>6, <2>1, <2>2, <2>3, <2>4, Zenon DEF FlusherStep
<1>7. CASE DoSizeTieredCompaction
  BY <1>1, <1>7, Zenon DEF DoSizeTieredCompaction, StartMerge, tablefiles
<1>8. ASSUME NEW j \in Compactors, MergeStep(j) PROVE FilesKept
  <2>1. CASE MergeBuild(j)
    <3>1. mode # "closed" /\ jobs[j].pc = "picked"
      BY <2>1, Zenon DEF MergeBuild, Open
    <3>2. jobs[j].seq \notin DOMAIN ssts
      BY <3>1, Zenon DEF EngineInv, FreshOK
    <3> QED
      BY <1>2, <2>1, <3>2, Zenon DEF MergeBuild
  <2>2. CASE MergeCommit(j)
    BY <1>1, <2>2, Zenon DEF MergeCommit
  <2>3. CASE MergeFinish(j)
    BY <2>3, UnlinkKeeps, Zenon DEF MergeFinish, FinishMerge
  <2>4. CASE EndScope(j)
    BY <2>4, UnlinkKeeps, Zenon DEF EndScope
  <2> QED
    BY <1>8, <2>1, <2>2, <2>3, <2>4, Zenon DEF MergeStep
<1>9. CASE FlushLockedStep
  <2>1. CASE FlushBuild
    <3>1. mode # "closed"
      BY <2>1, Zenon DEF FlushBuild, EngineInv, LockOK
    <3> QED
      BY <1>1, <1>2, <1>3, <2>1, <3>1 DEF FlushBuild
  <2>2. CASE FlushCommit \/ FlushTruncate
    BY <1>1, <2>2, Zenon DEF FlushCommit, FlushTruncate, tablefiles
  <2> QED
    BY <1>9, <2>1, <2>2, Zenon DEF FlushLockedStep
<1>10. CASE GcStep
  <2>1. CASE GcBuild
    <3>1. mode # "closed"
      BY <2>1, Zenon DEF GcBuild, EngineInv, LockOK
    <3> QED
      BY <1>2, <1>3, <2>1, <3>1, Zenon DEF GcBuild
  <2>2. CASE GcNothing \/ GcCommit
    BY <1>1, <2>2, Zenon DEF GcNothing, GcCommit, tablefiles
  <2>3. CASE GcFinish
    BY <2>3, UnlinkKeeps, Zenon DEF GcFinish
  <2> QED
    BY <1>10, <2>1, <2>2, <2>3 DEF GcStep
<1>11. CASE OpenStep
  <2>1. CASE OpenDB
    BY <2>1, Zenon DEF OpenDB, CleanupOrphans, Restrict, FilesKept
  <2>2. CASE OpenDropWal \/ OpenDone
    BY <1>1, <2>2, Zenon DEF OpenDropWal, OpenDone, tablefiles
  <2> QED
    BY <1>11, <2>1, <2>2, Zenon DEF OpenStep
<1>12. CASE Exit \/ PowerLoss \/ UNCHANGED vars
  BY <1>1, <1>12, Zenon DEF Exit, PowerLoss, vars, tablefiles
<1> QED
  BY <1>4, <1>5, <1>6, <1>7, <1>8, <1>9, <1>10, <1>11, <1>12 DEF Next

\* A table file is written once: the number a flush, a merge or a collection
\* writes to has no file yet, also when the store was reopened after a crash at
\* any point.
THEOREM TablesWrittenOnce == Spec => TablesImmutable
<1>1. EngineInv /\ [Next]_vars => FilesKept
  BY NextKeeps, Zenon
<1>2. FilesKept => [\A i \in DOMAIN ssts \cap DOMAIN ssts' : ssts'[i] = ssts[i]]_vars
  BY Zenon DEF FilesKept
<1> QED
  BY <1>1, <1>2, EngineInvariant, PTL DEF Spec, TablesImmutable

\* Every step of every thread preserves the invariant.
LEMMA NextLeak ==
  ASSUME EngineInv, LeakInv, [Next]_vars
  PROVE  LeakInv'
<1>1. CASE ClientStep
  <2>1. ASSUME NEW c, NEW k, NEW cell, NEW sync, WriteRecord(c, k, cell, sync)
        PROVE  LeakInv'
    BY <2>1, QuietLeak, Zenon
  <2>2. ASSUME NEW c, MaybeSeal(c) PROVE LeakInv'
    BY <2>2, QuietLeak, Zenon
  <2>3. CASE Sync \/ Flush \/ GcValueLog
    BY <2>3, QuietLeak, Zenon
  <2>4. CASE CompactAll
    BY <2>4, StartMergeLeak, Zenon DEF CompactAll
  <2> QED
    BY <1>1, <2>1, <2>2, <2>3, <2>4, Zenon DEF ClientStep, Put, Del
<1>2. CASE ReadStep
  <2>1. ASSUME NEW r \in Readers, NEW k, Get(r, k) PROVE LeakInv'
    BY <2>1, SnapshotLeak, Zenon DEF Get
  <2>2. ASSUME NEW r \in Readers, NEW from, NEW to, Scan(r, from, to) PROVE LeakInv'
    BY <2>2, SnapshotLeak, Zenon DEF Scan
  <2> QED
    BY <1>2, <2>1, <2>2, EndReadLeak, Zenon DEF ReadStep
<1>3. CASE FlusherStep
  BY <1>3, QuietLeak, FlusherBuildLeak, FlusherCommitLeak, FlusherFinishLeak, EndScopeLeak,
     Zenon DEF FlusherStep, Threads
<1>4. CASE DoSizeTieredCompaction
  <2>1. PICK R : StartMerge("compactor", R, ReachesOldest(sstables, R))
    BY <1>4, Zenon DEF DoSizeTieredCompaction
  <2> QED
    BY <1>4, <2>1, StartMergeLeak, Zenon DEF DoSizeTieredCompaction
<1>5. ASSUME NEW j \in Compactors, MergeStep(j) PROVE LeakInv'
  BY <1>5, MergeBuildLeak, MergeCommitLeak, MergeFinishLeak, EndScopeLeak, Zenon
  DEF MergeStep, Threads
<1>6. CASE FlushLockedStep
  BY <1>6, FlushBuildLeak, FlushCommitLeak, QuietLeak, Zenon DEF FlushLockedStep
<1>7. CASE GcStep
  BY <1>7, QuietLeak, GcBuildLeak, GcCommitLeak, GcFinishLeak DEF GcStep
<1>8. CASE OpenStep
  BY <1>8, OpenDBLeak, QuietLeak, Zenon DEF OpenStep
<1>9. CASE Exit \/ PowerLoss
  <2>1. (/\ mode = "closed" /\ mu = Free /\ obsolete = {}
         /\ jobs = [j \in Compactors |-> IdleJob] /\ rd = [r \in Readers |-> IdleRead])'
    BY <1>9, Zenon DEF Exit, PowerLoss, MemoryLost, Free, IdleJob, IdleRead, NoTables, Empty
  <2> QED
    BY <2>1, ClosedLeak, PTL
<1>10. CASE UNCHANGED vars
  <2>1. UNCHANGED <<mode, mu, sstables, obsolete, flusher, jobs, rd, locals, ssts>>
    BY <1>10, Zenon DEF vars, memory, tablefiles
  <2>2. FilesWanted' /\ ObsoleteWanted'
    BY <2>1, Zenon DEF LeakInv, FilesWanted, ObsoleteWanted, Merging, Referred, Finished
  <2>3. LockLeaves' /\ IdleLeaves'
    BY <2>1, Zenon DEF LeakInv, LockLeaves, IdleLeaves
  <2> QED
    BY <2>2, <2>3, Zenon DEF LeakInv
<1> QED
  BY <1>1, <1>2, <1>3, <1>4, <1>5, <1>6, <1>7, <1>8, <1>9, <1>10 DEF Next

\* No file outlives its last holder: also when two merges list and release the
\* same tables, when a flusher or a merge still has the table it listed or the
\* generation it filled after it released the lock, and when a crash leaves
\* files behind that were never listed. A table nobody lists, reads, merges or is
\* about to list, and a generation nobody lists, reads or has appended to, is
\* gone as soon as the lock is free.
THEOREM FilesReleased == Spec => []NoLeak
<1>1. Init => LeakInv /\ GenLeakInv
  BY ClosedLeak, ClosedGens, Zenon DEF Init
<1>2. EngineInv /\ LeakInv /\ GenLeakInv /\ [Next]_vars => LeakInv' /\ GenLeakInv'
  BY NextLeak, NextGens, Zenon
<1>3. EngineInv /\ LeakInv /\ GenLeakInv => NoLeak
  <2> SUFFICES ASSUME EngineInv, LeakInv, GenLeakInv, LockFree
               PROVE  NoLeak
    BY Zenon DEF NoLeak
  <2>1. mu.at = "free" /\ mode # "closed" /\ mu.ids = {}
    BY Zenon DEF LockFree, LeakInv, LockLeaves
  <2>2. \A i \in DOMAIN ssts :
          \/ i \in TableIds(sstables)
          \/ \E r \in Readers : i \in TableIds(rd[r].tables)
          \/ \E j \in Compactors : i \in TableIds(jobs[j].inputs)
          \/ \E t \in Threads : i \in locals[t].tables
          \/ flusher.pc = "built" /\ i = flusher.seq
          \/ \E j \in Compactors : jobs[j].pc = "built" /\ i = jobs[j].seq
    <3> SUFFICES ASSUME NEW i \in DOMAIN ssts
                 PROVE  i \in TableIds(sstables) \/ Merging(i) \/ Referred(i) \/ Finished(i)
      BY <2>1, Zenon DEF Merging, Referred, Finished
    <3> QED
      BY <2>1, Zenon DEF LeakInv, FilesWanted, ObsoleteWanted
  <2>3. \A g \in DOMAIN vfiles :
          \/ g \in vlogs
          \/ \E r \in Readers : g \in rd[r].gens
          \/ \E t \in Threads : g \in locals[t].gens
    <3>1. \A g \in DOMAIN vfiles : GenHeld(g)
      BY <2>1, Zenon DEF GenLeakInv, GensWanted, OldGensWanted, GenHeld
    <3>2. flusher.pc # "idle" => flusher.gen \in vlogs
      BY <2>1, Zenon DEF EngineInv, SlotOK, GensOK
    <3> QED
      BY <3>1, <3>2, Zenon DEF GenHeld
  <2> QED
    BY <2>2, <2>3, Zenon DEF NoLeak
<1> QED
  BY <1>1, <1>2, <1>3, InitInv, EngineInvariant, PTL DEF Spec
=============================================================================
