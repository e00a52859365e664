------------------------------ MODULE MCLsmDB -------------------------------
(***************************************************************************)
(* Small instances of LsmDB for TLC.  A memtable's size is its number of   *)
(* entries; tables of at most one entry and larger ones are two buckets.   *)
(***************************************************************************)
EXTENDS LsmDB

CONSTANTS small, big

OneKey  == {1}
TwoKeys == {1, 2}
OneValue == {small}
BigOnly  == {big}

MCSizeBytes(m)    == Cardinality({k \in Keys : m[k] # Absent})
MCSizeBucket(d)   == IF Cardinality({k \in Keys : d[k] # Absent}) <= 1 THEN 0 ELSE 1

Compactor  == {"compactor"}
CompactAllOnly == {"compact_all"}
BothCompactors == {"compactor", "compact_all"}

Never == {}
Anytime == {"free", "flush", "flush_built", "flush_committed",
            "flusher_committed", "merge_committed", "gc", "gc_built",
            "gc_committed", "drop_wal", "open_done"}

OutsideDropWal == Anytime \ {"drop_wal"}
=============================================================================
