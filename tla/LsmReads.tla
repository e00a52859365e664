------------------------------ MODULE LsmReads ------------------------------
(***************************************************************************)
(* get and scan, which search a snapshot with the lock released.           *)
(***************************************************************************)
EXTENDS LsmState

Snapshot(r, keys, mem) ==
  /\ rd' = [rd EXCEPT ![r] =
              [pc |-> "reading", keys |-> keys, mem |-> mem,
               tables |-> sstables, gens |-> vlogs, want |-> kv]]
  /\ UNCHANGED <<mode, mu, memory, flusher, jobs, waiting, locals, logfiles,
                 pending, tablefiles, ghost>>

InMemory ==
  [k \in Keys |-> IF memtable[k] # Absent \/ ~has_flushing THEN memtable[k]
                  ELSE flushing_memtable[k]]

\* get: the answer is in a memtable, or a snapshot of the tables is searched
\* with the lock released.  (An answer found in memory changes no state.)
Get(r, k) ==
  /\ LockFree /\ rd[r].pc = "idle"
  /\ InMemory[k] = Absent
  /\ Snapshot(r, {k}, Empty)

\* scan over [from, to): the memtables' part is copied under the lock too.
Scan(r, from, to) ==
  /\ LockFree /\ rd[r].pc = "idle"
  /\ LET range == {k \in Keys : from <= k /\ k < to}
     IN  Snapshot(r, range, [k \in Keys |-> IF k \in range THEN InMemory[k]
                                            ELSE Absent])

\* What the reader r answers for key k.
Answer(r, k) ==
  IF rd[r].mem[k] # Absent THEN AsValue(rd[r].mem[k])
  ELSE AsValue(ReadCell(vfiles, rd[r].gens, Lookup(rd[r].tables, k)))

\* The reader returns and releases its snapshot.
EndRead(r) ==
  /\ Open /\ rd[r].pc = "reading"
  /\ rd' = [rd EXCEPT ![r] = IdleRead]
  /\ Unlink(obsolete, obsolete_gens, sstables, vlogs, flusher, jobs, rd', locals)
  /\ UNCHANGED <<mode, mu, memtable, flushing_memtable, has_flushing,
                 flushing_seq, sstables, vlogs, current_gen, next_seq,
                 compacting, flusher, jobs, waiting, locals, logfiles,
                 pending, manifest, ghost>>

ReadStep ==
  \E r \in Readers :
     \/ \E k \in Keys : Get(r, k)
     \/ \E from \in Keys, to \in {k + 1 : k \in Keys} : Scan(r, from, to)
     \/ EndRead(r)
=============================================================================
