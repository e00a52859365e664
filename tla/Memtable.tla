------------------------------ MODULE Memtable ------------------------------
(***************************************************************************)
(* The memtable with its byte accounting.  Tables takes a memtable to be a *)
(* function from every key to a cell, and LsmDB takes its size to be a     *)
(* function of that content; Formats checks that both are so.              *)
(*                                                                         *)
(* A memtable is a record of entries_, a function from the keys it holds   *)
(* to cells, and size_bytes_.                                              *)
(***************************************************************************)
EXTENDS Tables, SequencesExt

CONSTANTS
  KeyBytes(_), ValueBytes(_),  \* lengths of keys and values
  SizeMod                      \* std::size_t counts modulo this

NewMemtable == [entries |-> [k \in {} |-> Absent], size |-> 0]

CellBytes(c) == IF c = Tomb THEN 0 ELSE ValueBytes(c)

EntryBytes(m, k) ==
  IF k \in DOMAIN m.entries THEN KeyBytes(k) + CellBytes(m.entries[k]) ELSE 0

\* put, and del for the cell Tomb: the old entry's bytes are taken off, if
\* there is one, and the new one's added.
Store(m, k, c) ==
  [entries |-> [x \in DOMAIN m.entries \cup {k} |->
                  IF x = k THEN c ELSE m.entries[x]],
   size |-> ((m.size - EntryBytes(m, k)) + KeyBytes(k) + CellBytes(c)) % SizeMod]

MemtablePut(m, k, v) == Store(m, k, v)

\* As MemtableDel, but the bytes of the value that goes are not taken off.
MemtableDelLeaks(m, k) ==
  [Store(m, k, Tomb) EXCEPT !.size =
     IF k \in DOMAIN m.entries THEN m.size ELSE (m.size + KeyBytes(k)) % SizeMod]

MemtableDel(m, k) == Store(m, k, Tomb)

\* get: the value of a live key, or nothing (Absent).
MemtableGet(m, k) ==
  IF k \in DOMAIN m.entries THEN AsValue(m.entries[k]) ELSE Absent

IsTombstone(m, k) == k \in DOMAIN m.entries /\ m.entries[k] = Tomb

\* The entries with the keys ks, as records in ascending key order.
RecordsOf(m, ks) ==
  LET sorted == SetToSortSeq(ks, <)
  IN  [i \in 1 .. Len(sorted) |-> [key |-> sorted[i], cell |-> m.entries[sorted[i]]]]

MemtableSnapshot(m) == RecordsOf(m, DOMAIN m.entries)

MemtableRange(m, from, to) ==
  RecordsOf(m, {k \in DOMAIN m.entries : from <= k /\ k < to})
=============================================================================
