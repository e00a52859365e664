------------------------------- MODULE LsmDB --------------------------------
(***************************************************************************)
(* The size-tiered engine of class DB: client calls, the flusher thread,   *)
(* the compactor thread, compact_all, value-log garbage collection, reads  *)
(* from snapshots, the files they all write, a crash at any point and the  *)
(* recovery that follows.                                                  *)
(***************************************************************************)
EXTENDS LsmFlush, LsmCompact, LsmReads, LsmRecovery

ClientStep ==
  \/ \E c \in Clients, k \in Keys, sync \in SyncModes :
        \/ \E v \in Values : Put(c, k, v, sync)
        \/ Del(c, k, sync)
  \/ \E c \in Clients : MaybeSeal(c)
  \/ Sync
  \/ Flush
  \/ GcValueLog
  \/ CompactAll

Next ==
  \/ ClientStep
  \/ ReadStep
  \/ FlusherStep
  \/ DoSizeTieredCompaction
  \/ \E j \in Compactors : MergeStep(j)
  \/ FlushLockedStep
  \/ GcStep
  \/ OpenStep
  \/ Exit
  \/ PowerLoss

Spec == Init /\ [][Next]_vars

\* A thread that can run does, a caller that holds the lock goes on to release
\* it, a writer woken from maybe_seal proceeds.  Clients owe no call.
Fairness ==
  /\ WF_vars(FlusherStep)
  /\ WF_vars(DoSizeTieredCompaction)
  /\ \A j \in Compactors : WF_vars(MergeStep(j))
  /\ WF_vars(FlushLockedStep)
  /\ WF_vars(GcStep)
  /\ WF_vars(OpenStep)
  /\ \A c \in Clients : WF_vars(MaybeSeal(c))

FairSpec == Spec /\ Fairness

-----------------------------------------------------------------------------
\* Properties.

\* No flush, merge or collection changes what a get returns: at every step of
\* every thread, memtables and tables together hold exactly what clients wrote.
ViewOK == Open => Visible = kv

\* A read returns what the store held when the read took the lock, however
\* many tables and value-log generations are swapped out before it is done.
ReadOK ==
  \A r \in Readers : rd[r].pc = "reading" =>
     \A k \in rd[r].keys : Answer(r, k) = rd[r].want[k]

\* What the constructor would recover from the directory.
RecoveredView ==
  LET db  == Recovered
      mem == Replay(flushing_wal \o wal)
  IN  [k \in Keys |->
         AsValue(IF mem[k] # Absent THEN mem[k]
                 ELSE ReadCell(vfiles, db.gens, Lookup(db.tables, k)))]

\* After the process ends, recovery finds every write; after a power loss, per
\* key a value at least as new as the last one synced, sealed or flushed.
DurableOK ==
  mode = "closed" =>
     \A k \in Keys :
        RecoveredView[k] \in IF lost THEN allowed[k] ELSE {kv[k]}

\* Every file MANIFEST names is in the directory, and so is every value its
\* tables point to, on disk and not just written: the store can always be
\* opened and read after a crash at this very moment.
ManifestOK ==
  manifest.present =>
     \A s \in DOMAIN manifest.tables :
        /\ manifest.tables[s] \in DOMAIN ssts
        /\ \A k \in Keys :
             LET c == ssts[manifest.tables[s]][k]
             IN  c \in Ptr => /\ c.gen = manifest.gen
                              /\ Resolves(vfiles, c)
                              /\ c.batch <= vfiles[c.gen].synced

\* A merged-away table or a collected generation does not outlive its last
\* holder: with the lock free, the directory holds what is listed, what a reader
\* or a merge still reads, finished tables about to be listed, and what the
\* thread that listed or filled it has not let go of since its last unlock.
NoLeak ==
  LockFree =>
     /\ DOMAIN ssts \subseteq
          TableIds(sstables)
          \cup (UNION {TableIds(rd[r].tables) : r \in Readers})
          \cup (UNION {TableIds(jobs[j].inputs) : j \in Compactors})
          \cup (UNION {locals[t].tables : t \in Threads})
          \cup (IF flusher.pc = "built" THEN {flusher.seq} ELSE {})
          \cup {jobs[j].seq : j \in {i \in Compactors : jobs[i].pc = "built"}}
     /\ DOMAIN vfiles \subseteq
          vlogs
          \cup (UNION {rd[r].gens : r \in Readers})
          \cup (UNION {locals[t].gens : t \in Threads})

\* Whatever a listed table points to is in a generation vlogs_ still has: what
\* garbage collection drops is dead, no merge in flight brings it back.
PointersOK ==
  Open => \A s \in DOMAIN sstables, k \in Keys :
            LET c == sstables[s].data[k]
            IN  c \in Ptr => c.gen \in vlogs /\ Resolves(vfiles, c)

\* The value log has one writer: while the flusher works without the lock,
\* neither flush() nor garbage collection is inside flush_locked.
OneAppender ==
  flusher.pc # "idle" => mu.at \in {"free", "flusher_committed", "merge_committed"}

\* When wait_for_idle returns, no merge is running.
WaitForIdleOK ==
  LockFree /\ ~compacting /\ PickCompaction(sstables) = {} /\ ~has_flushing
    => \A j \in Compactors : jobs[j].pc = "idle"

\* A table file is written once: no sequence number is used again for a file
\* that exists, not even after a crash.
TablesImmutable ==
  [][\A i \in DOMAIN ssts \cap DOMAIN ssts' : ssts'[i] = ssts[i]]_vars

\* Nobody calls flush() or gc_value_log() for ever; mu_ is not fair, so such a
\* caller could keep every other thread out.  (The number of writes is bounded.)
CallersRest == <>[][~Flush /\ ~GcValueLog]_vars

\* A writer blocked because the flushing slot is taken gets on eventually.
WritersProceed ==
  CallersRest => \A c \in Clients : c \in waiting ~> c \notin waiting

\* Once clients make no more calls, flushing and compaction come to rest: a
\* wait_for_idle that is waiting returns.
EventuallyIdle ==
  CallersRest =>
    <>[](/\ Open /\ ~compacting /\ ~has_flushing
         /\ PickCompaction(sstables) = {})

\* The store implements the abstract map: its visible content changes only by
\* the writes of clients and, after a crash, to what they may rely on.
KV == INSTANCE KVStore WITH
        kv <- IF Open THEN Visible ELSE kv,
        up <- IF Open THEN "up" ELSE IF lost THEN "lost" ELSE "exited"
KVSpec == KV!KVSpec
=============================================================================
