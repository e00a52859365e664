----------------------------- MODULE MCFormats ------------------------------
(***************************************************************************)
(* A small instance of Formats.  Keys and values have different lengths,   *)
(* so that blocks hold one record or several; the Bloom filters are small  *)
(* enough to have false positives and to end within a byte.                *)
(***************************************************************************)
EXTENDS Formats

CONSTANTS small, big

MCKeys   == {1, 2, 3}
MCValues == {small, big}
MCBig    == {big}

MCKeyBytes(k)   == k
MCValueBytes(v) == IF v = big THEN 9 ELSE 2

\* append_record: an op byte, two lengths, the key, and the value or a pointer.
MCRecordBytes(r) ==
  9 + KeyBytes(r.key) + (IF r.cell \in Ptr THEN 12 ELSE CellBytes(r.cell))

MCHash1(k) == 5 * k
MCHash2(k) == 3 + 4 * k
MCNumBits(n)   == 4 * n + 1
MCNumHashes(n) == 2

MCSizeBucket(d) == 0
=============================================================================
