---------------------------- MODULE LsmRecovery -----------------------------
(***************************************************************************)
(* Opening a directory, and the end of the process: destruction, a kill,   *)
(* or a loss of power.                                                     *)
(***************************************************************************)
EXTENDS LsmState

-----------------------------------------------------------------------------
\* Opening: the constructor, up to the start of the threads.

\* manifest_read: the listed tables in the order and the generation it names.
LoadManifest ==
  [tables |-> [s \in DOMAIN manifest.tables |->
                 Table(manifest.tables[s], ssts[manifest.tables[s]])],
   next_seq |-> manifest.next_seq, gen |-> manifest.gen, gens |-> {manifest.gen}]

\* load_sstables and load_vlogs: every file, ordered by sequence number.
LoadDirectory ==
  LET g == IF DOMAIN vfiles = {} THEN 0 ELSE Max(DOMAIN vfiles)
  IN  [tables |-> [s \in DOMAIN ssts |-> Table(s, ssts[s])],
       next_seq |-> IF DOMAIN ssts = {} THEN 0 ELSE Max(DOMAIN ssts) + 1,
       gen |-> g, gens |-> DOMAIN vfiles \cup {g}]

Recovered == IF manifest.present THEN LoadManifest ELSE LoadDirectory

\* The generations' files are created if need be, files not loaded go.
CleanupOrphans(db) ==
  /\ ssts' = Restrict(ssts, TableIds(db.tables))
  /\ vfiles' = [g \in db.gens |-> IF g \in DOMAIN vfiles THEN vfiles[g] ELSE NewLog]

\* Load the committed state, remove orphans, replay both logs.
OpenDB ==
  /\ mode = "closed"
  /\ mode' = "opening"
  /\ LET db == Recovered
     IN  /\ sstables' = db.tables
         /\ next_seq' = db.next_seq
         /\ current_gen' = db.gen
         /\ vlogs' = db.gens
         /\ CleanupOrphans(db)
  /\ memtable' = Replay(flushing_wal \o wal)
  /\ mu' = [Free EXCEPT !.at = IF flushing_wal # <<>> THEN "flush" ELSE "open_done",
                        !.by = "open"]
  /\ UNCHANGED <<flushing_memtable, has_flushing, flushing_seq, compacting,
                 obsolete, obsolete_gens, flusher, jobs, waiting, rd, locals,
                 logfiles, pending, manifest, ghost>>

\* After flush_locked: remove wal-flushing.log and sync the directory.
OpenDropWal ==
  /\ mu.at = "drop_wal"
  /\ flushing_wal' = <<>>
  /\ pending' = NothingPending
  /\ mu' = [mu EXCEPT !.at = "open_done"]
  /\ UNCHANGED <<mode, memory, flusher, jobs, waiting, rd, locals, wal,
                 wal_synced, tablefiles, ghost>>

\* A store that had no MANIFEST gets one; the threads start.
OpenDone ==
  /\ mu.at = "open_done"
  /\ manifest' = IF manifest.present THEN manifest
                 ELSE ManifestOf(sstables, next_seq, current_gen)
  /\ mode' = "open"
  /\ mu' = Free
  /\ kv' = Visible
  /\ allowed' = IF wal_synced = Len(wal) THEN Settled(kv') ELSE allowed
  /\ lost' = FALSE
  /\ UNCHANGED <<memory, flusher, jobs, waiting, rd, locals, logfiles, pending,
                 ssts, vfiles, writes, crashes>>

-----------------------------------------------------------------------------
\* The end of the process.

MemoryLost ==
  /\ mode' = "closed" /\ mu' = Free
  /\ memtable' = Empty /\ flushing_memtable' = Empty
  /\ has_flushing' = FALSE /\ flushing_seq' = 0
  /\ sstables' = NoTables /\ vlogs' = {} /\ current_gen' = 0 /\ next_seq' = 0
  /\ compacting' = FALSE /\ obsolete' = {} /\ obsolete_gens' = {}
  /\ flusher' = IdleFlusher
  /\ jobs' = [j \in Compactors |-> IdleJob]
  /\ waiting' = {}
  /\ rd' = [r \in Readers |-> IdleRead]
  /\ locals' = [t \in Threads |-> NoRefs]

MayCrash == mu.at \in CrashAt /\ crashes < MaxCrashes /\ crashes' = crashes + 1

\* ~DB at any time, or the process is killed: what the kernel was given stays,
\* synced or not.
Exit ==
  /\ mode # "closed" /\ MayCrash
  /\ MemoryLost
  /\ UNCHANGED <<logfiles, pending, tablefiles, kv, allowed, writes, lost>>

\* The machine stops.  Of wal.log some prefix survives that holds at least what
\* was synced, of a value log what was synced; the last directory operation is
\* undone if nothing was synced since.
PowerLoss ==
  /\ MayCrash
  /\ MemoryLost
  /\ \E undo \in BOOLEAN :
       LET untruncate == undo /\ pending.op = "truncate"
           log  == IF untruncate THEN pending.log ELSE wal
           kept == IF untruncate THEN pending.synced ELSE wal_synced
       IN  /\ undo => pending.op \in LostOps
           /\ \E n \in kept .. Len(log) :
                 wal' = SubSeq(log, 1, n) /\ wal_synced' = n
           /\ flushing_wal' = IF undo /\ pending.op = "remove" THEN pending.log
                              ELSE flushing_wal
  /\ vfiles' = [g \in DOMAIN vfiles |->
                  [vfiles[g] EXCEPT !.data = SubSeq(@, 1, vfiles[g].synced)]]
  /\ pending' = NothingPending
  /\ lost' = TRUE
  /\ UNCHANGED <<manifest, ssts, kv, allowed, writes>>

OpenStep == OpenDB \/ OpenDropWal \/ OpenDone
=============================================================================
