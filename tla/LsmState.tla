------------------------------ MODULE LsmState ------------------------------
(***************************************************************************)
(* The state of class DB, of its threads and of its directory, and what    *)
(* the operations in the other Lsm modules share.                          *)
(*                                                                         *)
(* mu_ is held across several disk operations, and a crash may fall between *)
(* any two of them; mu says who holds the lock exclusively and how far they *)
(* are.  Work done with the lock released (building a table) is a step of  *)
(* its own that needs no lock.                                             *)
(***************************************************************************)
EXTENDS Tables

CONSTANTS
  Clients,       \* threads that write
  Readers,       \* threads that read
  Compactors,    \* who merges: "compactor" (the thread), "compact_all" (a caller)
  SizeBytes(_),  \* Memtable::size_bytes
  Threshold,     \* threshold_
  SyncModes,     \* the values of the argument sync that clients pass
  CrashAt,       \* the points under the lock at which a crash may happen
  LostOps,       \* the unsynced directory operations a crash may undo
  MaxWrites, MaxGens, MaxCrashes  \* bounds of the model

ASSUME LsmAssumption ==
  /\ Compactors \subseteq {"compactor", "compact_all"}
  /\ SyncModes \subseteq BOOLEAN
  /\ LostOps \subseteq {"truncate", "remove"}
  /\ Threshold \in Nat
  /\ MaxWrites \in Nat /\ MaxGens \in Nat /\ MaxCrashes \in Nat

VARIABLES
  \* members of DB
  mode,                \* "closed", "opening" (in the constructor), "open"
  mu,                  \* mu_
  memtable, flushing_memtable, has_flushing, flushing_seq,
  sstables, vlogs, current_gen, next_seq, compacting,
  obsolete,            \* SSTables marked obsolete and still referenced
  obsolete_gens,       \* value-log generations, likewise
  \* threads
  flusher,             \* locals of flush_loop
  jobs,                \* locals of the merges
  waiting,             \* clients blocked in maybe_seal
  rd,                  \* locals of get and scan
  locals,              \* what a thread refers to after its last unlock
  \* the directory
  wal, wal_synced,     \* wal.log and the length of its prefix known to be on disk
  flushing_wal,        \* wal-flushing.log; <<>> when there is none
  pending,             \* a directory operation not yet on disk
  manifest,            \* MANIFEST
  ssts,                \* SSTable files: sequence number -> content
  vfiles,              \* value-log files: generation -> [data, synced]
  \* what a client may rely on (see KVStore), and the bounds
  kv, allowed, lost,   \* lost: power was lost since the store was last open
  writes, crashes

memory  == <<memtable, flushing_memtable, has_flushing, flushing_seq, sstables,
             vlogs, current_gen, next_seq, compacting, obsolete, obsolete_gens>>
logfiles == <<wal, wal_synced, flushing_wal>>
tablefiles == <<manifest, ssts, vfiles>>
ghost   == <<kv, allowed, writes, crashes, lost>>
vars == <<mode, mu, memory, flusher, jobs, waiting, rd, locals, logfiles,
          pending, tablefiles, ghost>>

-----------------------------------------------------------------------------
NoTables == [s \in {} |-> Empty]
Free     == [at |-> "free", by |-> "none", seq |-> 0, data |-> Empty, ids |-> {}]
IdleFlusher == [pc |-> "idle", data |-> Empty, gen |-> 0, seq |-> 0]
IdleJob  == [pc |-> "idle", inputs |-> NoTables, drop |-> FALSE, seq |-> 0,
             data |-> Empty]
IdleRead == [pc |-> "idle", keys |-> {}, mem |-> Empty, tables |-> NoTables,
             gens |-> {}, want |-> Empty]
Threads  == {"flusher"} \cup Compactors
NoRefs   == [tables |-> {}, gens |-> {}]
NothingPending == [op |-> "none", log |-> <<>>, synced |-> 0]
NewLog   == [data |-> <<>>, synced |-> 0]

Open     == mode = "open"
LockFree == mode = "open" /\ mu.at = "free"

Table(id, data) == [id |-> id, data |-> data]

WithFile(files, id, data) ==
  [i \in DOMAIN files \cup {id} |-> IF i = id THEN data ELSE files[i]]

\* As ManifestOf, but written before the newest table is listed.
ManifestStale(tables, seq, g) ==
  [present |-> TRUE, next_seq |-> seq, gen |-> g,
   tables |-> [s \in {t \in DOMAIN tables : \E u \in DOMAIN tables : u > t} |->
                 tables[s].id]]

\* As ManifestOf, with a sequence number that was handed out already.
ManifestOldSeq(tables, seq, g) ==
  [present |-> TRUE, next_seq |-> IF seq = 0 THEN 0 ELSE seq - 1, gen |-> g,
   tables |-> [s \in DOMAIN tables |-> tables[s].id]]

\* write_manifest_locked: what MANIFEST holds after it.
ManifestOf(tables, seq, g) ==
  [present |-> TRUE, next_seq |-> seq, gen |-> g,
   tables |-> [s \in DOMAIN tables |-> tables[s].id]]

Settled(m) == [k \in Keys |-> {m[k]}]

\* What a get would return for each key, were it to run now.
Visible ==
  [k \in Keys |->
     IF memtable[k] # Absent THEN AsValue(memtable[k])
     ELSE IF has_flushing /\ flushing_memtable[k] # Absent
          THEN AsValue(flushing_memtable[k])
     ELSE AsValue(ReadCell(vfiles, vlogs, Lookup(sstables, k)))]

\* As UnheldTables, but readers, or the end of their reads, do not count.
UnheldByEngine(obs, tbls, js, rds, loc) ==
  {i \in obs : /\ i \notin TableIds(tbls)
               /\ \A j \in Compactors : i \notin TableIds(js[j].inputs)}

UnheldInQuiet(obs, tbls, js, rds, loc) ==
  {i \in obs : /\ i \notin TableIds(tbls)
               /\ \A r \in Readers : rds[r].pc = "idle"}

\* ~SSTable and ~ValueLog: an obsolete file goes when nothing refers to it.
UnheldTables(obs, tbls, js, rds, loc) ==
  {i \in obs : /\ i \notin TableIds(tbls)
               /\ \A j \in Compactors : i \notin TableIds(js[j].inputs)
               /\ \A r \in Readers : i \notin TableIds(rds[r].tables)
               /\ \A t \in Threads : i \notin loc[t].tables}

\* As UnheldGens, but readers do not count.
GensUnheldByEngine(obs, vl, fl, rds, loc) == obs \ vl

UnheldGens(obs, vl, fl, rds, loc) ==
  {g \in obs : /\ g \notin vl
               /\ fl.pc = "idle" \/ fl.gen # g
               /\ \A r \in Readers : g \notin rds[r].gens
               /\ \A t \in Threads : g \notin loc[t].gens}

Unlink(obs, obsg, tbls, vl, fl, js, rds, loc) ==
  LET t == UnheldTables(obs, tbls, js, rds, loc)
      g == UnheldGens(obsg, vl, fl, rds, loc)
  IN  /\ ssts' = Restrict(ssts, DOMAIN ssts \ t)
      /\ obsolete' = obs \ t
      /\ vfiles' = Restrict(vfiles, DOMAIN vfiles \ g)
      /\ obsolete_gens' = obsg \ g

\* The locals of thread t go out of scope, after it has released the lock: the
\* table it listed last and, for the flusher, the generation it appended to.
EndScope(t) ==
  /\ Open /\ locals[t] # NoRefs
  /\ locals' = [locals EXCEPT ![t] = NoRefs]
  /\ Unlink(obsolete, obsolete_gens, sstables, vlogs, flusher, jobs, rd, locals')
  /\ UNCHANGED <<mode, mu, memtable, flushing_memtable, has_flushing,
                 flushing_seq, sstables, vlogs, current_gen, next_seq,
                 compacting, flusher, jobs, waiting, rd, logfiles, pending,
                 manifest, ghost>>

-----------------------------------------------------------------------------
Init ==
  /\ mode = "closed" /\ mu = Free
  /\ memtable = Empty /\ flushing_memtable = Empty
  /\ has_flushing = FALSE /\ flushing_seq = 0
  /\ sstables = NoTables /\ vlogs = {} /\ current_gen = 0 /\ next_seq = 0
  /\ compacting = FALSE /\ obsolete = {} /\ obsolete_gens = {}
  /\ flusher = IdleFlusher
  /\ jobs = [j \in Compactors |-> IdleJob]
  /\ waiting = {}
  /\ rd = [r \in Readers |-> IdleRead]
  /\ locals = [t \in Threads |-> NoRefs]
  /\ wal = <<>> /\ wal_synced = 0 /\ flushing_wal = <<>>
  /\ pending = NothingPending
  /\ manifest = [present |-> FALSE, next_seq |-> 0, gen |-> 0,
                 tables |-> NoTables]
  /\ ssts = NoTables /\ vfiles = NoTables
  /\ kv = Empty /\ allowed = Settled(kv) /\ lost = FALSE
  /\ writes = 0 /\ crashes = 0

-----------------------------------------------------------------------------
\* Types.

IsTables(tables) ==
  /\ tables = [s \in DOMAIN tables |-> tables[s]]
  /\ DOMAIN tables \subseteq Int
  /\ \A s \in DOMAIN tables : tables[s] \in [id : Nat, data : Content]

LockPoints ==
  {"free", "flush", "flush_built", "flush_committed", "flusher_committed",
   "merge_committed", "gc", "gc_built", "gc_committed", "drop_wal", "open_done"}

LockType ==
  [at : LockPoints, by : {"none", "flush", "gc", "open", "flusher"} \cup Compactors,
   seq : Nat, data : Content, ids : SUBSET Nat]

MemoryType ==
  /\ mode \in {"closed", "opening", "open"}
  /\ mu \in LockType
  /\ memtable \in MemContent /\ flushing_memtable \in MemContent
  /\ has_flushing \in BOOLEAN /\ flushing_seq \in Nat
  /\ IsTables(sstables)
  /\ vlogs \subseteq Nat /\ current_gen \in Nat /\ next_seq \in Nat
  /\ compacting \in BOOLEAN
  /\ obsolete \subseteq Nat /\ obsolete_gens \subseteq Nat

IsJob(job) ==
  /\ DOMAIN job = {"pc", "inputs", "drop", "seq", "data"}
  /\ job = [f \in DOMAIN job |-> job[f]]
  /\ job.pc \in {"idle", "picked", "built"}
  /\ IsTables(job.inputs) /\ job.drop \in BOOLEAN
  /\ job.seq \in Nat /\ job.data \in Content

IsRead(read) ==
  /\ read.pc \in {"idle", "reading"} /\ read.keys \subseteq Keys
  /\ read.mem \in MemContent /\ IsTables(read.tables)
  /\ read.gens \subseteq Nat /\ read.want \in Content

RefsType == [tables : SUBSET Nat, gens : SUBSET Nat]

ThreadsType ==
  /\ flusher \in [pc : {"idle", "taken", "built"}, data : Content, gen : Nat,
                  seq : Nat]
  /\ jobs = [j \in Compactors |-> jobs[j]] /\ \A j \in Compactors : IsJob(jobs[j])
  /\ rd = [r \in Readers |-> rd[r]] /\ \A r \in Readers : IsRead(rd[r])
  /\ locals \in [Threads -> RefsType]
  /\ waiting \subseteq Clients

IsPending(p) ==
  /\ p.op \in {"none", "truncate", "remove"}
  /\ p.log \in Seq(LogRecord) /\ p.synced \in 0 .. Len(p.log)

LogsType ==
  /\ wal \in Seq(LogRecord) /\ wal_synced \in 0 .. Len(wal)
  /\ flushing_wal \in Seq(LogRecord)
  /\ IsPending(pending)

IsManifest(m) ==
  /\ m.present \in BOOLEAN /\ m.next_seq \in Nat /\ m.gen \in Nat
  /\ m.tables = [s \in DOMAIN m.tables |-> m.tables[s]]
  /\ DOMAIN m.tables \subseteq Int
  /\ \A s \in DOMAIN m.tables : m.tables[s] \in Nat

FilesType ==
  /\ IsManifest(manifest)
  /\ DOMAIN ssts \subseteq Nat /\ \A i \in DOMAIN ssts : ssts[i] \in Content
  /\ DOMAIN vfiles \subseteq Nat /\ \A g \in DOMAIN vfiles : IsValueLog(vfiles[g])

GhostType ==
  /\ kv \in Content
  /\ allowed \in [Keys -> SUBSET Cell]
  /\ writes \in Nat /\ crashes \in Nat /\ lost \in BOOLEAN

\* The types of the variables: the state DB, its threads and its directory keep.
TypeOK == MemoryType /\ ThreadsType /\ LogsType /\ FilesType /\ GhostType

\* A table or generation a reader or a merge still holds is not unlinked.
HeldOK ==
  /\ \A r \in Readers : /\ TableIds(rd[r].tables) \subseteq DOMAIN ssts
                        /\ rd[r].gens \subseteq DOMAIN vfiles
  /\ \A j \in Compactors : TableIds(jobs[j].inputs) \subseteq DOMAIN ssts
=============================================================================
