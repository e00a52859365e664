----------------------------- MODULE MCLeveled ------------------------------
(***************************************************************************)
(* A small instance of LeveledDB: every record and every file counts one   *)
(* per key, and the budgets are so small that a few flushes reach level 2. *)
(***************************************************************************)
EXTENDS LeveledDB

CONSTANT big

TwoKeys  == {1, 2}
BigOnly  == {big}

MCSizeBytes(m)  == Cardinality({k \in Keys : m[k] # Absent})
MCSizeBucket(d) == 0
MCRecordBytes(k, c) == 1

Compactor == {"compactor"}
OutsideDropWal == LockPoints \ {"drop_wal"}
=============================================================================
