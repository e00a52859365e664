------------------------------ MODULE SSTable -------------------------------
(***************************************************************************)
(* The inside of an SSTable: records in blocks cut by size, a sparse index *)
(* with the first key of every block, a Bloom filter, lookups, range reads *)
(* and the cursor that the k-way merge of a compaction advances.           *)
(*                                                                         *)
(* The data region is the sequence of its records; offsets and lengths are *)
(* those of their encodings.                                               *)
(***************************************************************************)
EXTENDS Tables, SequencesExt

CONSTANTS
  RecordBytes(_),         \* the length of an encoded record
  BlockSize,              \* kBlockSize
  Hash1(_), Hash2(_),     \* fnv1a with the two seeds
  HashMod,                \* hashes count modulo this
  NumBits(_), NumHashes(_)  \* optimal_bits and optimal_hashes for n keys

-----------------------------------------------------------------------------
\* The Bloom filter.  bits is the vector of bytes, a byte the set of its bits.

NewBloom(bits, k) ==
  [num_bits |-> Max({bits, 1}), k |-> Max({k, 1}),
   bits |-> [i \in 0 .. ((Max({bits, 1}) + 7) \div 8) - 1 |-> {}]]

Odd(h) == IF h % 2 = 0 THEN h + 1 ELSE h

Positions(bf, key) ==
  {((Hash1(key) + i * Odd(Hash2(key))) % HashMod) % bf.num_bits :
     i \in 0 .. bf.k - 1}

BloomAdd(bf, key) ==
  [bf EXCEPT !.bits =
     [b \in DOMAIN @ |-> @[b] \cup {p % 8 : p \in {q \in Positions(bf, key) :
                                                     q \div 8 = b}}]]

MaybeContains(bf, key) ==
  \A p \in Positions(bf, key) : p % 8 \in bf.bits[p \div 8]

\* The filter is written as its two parameters and the bytes, and read back.
Serialize(bf) ==
  [num_bits |-> bf.num_bits, k |-> bf.k,
   bytes |-> [i \in 1 .. Cardinality(DOMAIN bf.bits) |-> bf.bits[i - 1]]]

\* As Deserialize, but the last byte is not copied.
DeserializeShort(data) ==
  LET bf == NewBloom(data.num_bits, data.k)
  IN  [bf EXCEPT !.bits =
         [b \in DOMAIN @ |-> IF b + 1 < Len(data.bytes) THEN data.bytes[b + 1]
                             ELSE {}]]

Deserialize(data) ==
  LET bf == NewBloom(data.num_bits, data.k)
  IN  [bf EXCEPT !.bits = [b \in DOMAIN @ |-> data.bytes[b + 1]]]

-----------------------------------------------------------------------------
\* SSTable::build.

DataSize(recs) == FoldLeft(LAMBDA n, r : n + RecordBytes(r), 0, recs)

IndexEntry(key, start, end) ==
  [first_key |-> key, offset |-> start, length |-> end - start]

\* One record is appended, in a new block if none is open; a block that has
\* reached the target size is closed.
AddRecord(b, r) ==
  LET start == IF b.open THEN b.start ELSE DataSize(b.data)
      first == IF b.open THEN b.first_key ELSE r.key
      data  == Append(b.data, r)
      full  == DataSize(data) - start >= BlockSize
  IN  [data |-> data, open |-> ~full, start |-> start, first_key |-> first,
       index |-> IF full THEN Append(b.index, IndexEntry(first, start, DataSize(data)))
                 ELSE b.index]

Build(sorted) ==
  LET empty == [data |-> <<>>, open |-> FALSE, start |-> 0, first_key |-> 0,
                index |-> <<>>]
      b == FoldLeft(AddRecord, empty, sorted)
      n == Max({Len(sorted), 1})
  IN  [data  |-> b.data,
       index |-> IF b.open
                 THEN Append(b.index, IndexEntry(b.first_key, b.start, DataSize(b.data)))
                 ELSE b.index,
       bloom |-> Serialize(FoldLeft(LAMBDA f, r : BloomAdd(f, r.key),
                                    NewBloom(NumBits(n), NumHashes(n)), sorted))]

-----------------------------------------------------------------------------
\* Reading.  t is a file; block numbers start at 1.

\* read_block_records: the records between the block's offset and its end.
ReadBlock(t, i) ==
  LET Start(j) == DataSize(SubSeq(t.data, 1, j - 1))
      e  == t.index[i]
      js == {j \in DOMAIN t.data : e.offset <= Start(j)
                                   /\ Start(j) < e.offset + e.length}
  IN  IF js = {} THEN <<>> ELSE SubSeq(t.data, Min(js), Max(js))

\* The constructor caches the key range; "" (0) when there is no record.
MinKey(t) == IF t.index = <<>> THEN 0 ELSE t.index[1].first_key
MaxKey(t) == IF t.index = <<>> THEN 0 ELSE Last(ReadBlock(t, Len(t.index))).key

MayContain(t, k) == MaybeContains(Deserialize(t.bloom), k)

\* As LastBlockAt, but a block that starts with k is left out.
LastBlockBelow(t, k) == Cardinality({i \in DOMAIN t.index : t.index[i].first_key < k})

\* The last block whose first key is at most k, by upper_bound; 0 when k
\* precedes them all.
LastBlockAt(t, k) == Cardinality({i \in DOMAIN t.index : t.index[i].first_key <= k})

\* get_no_bloom.
GetNoBloom(t, k) ==
  IF LastBlockAt(t, k) = 0 THEN Absent
  ELSE LET recs == ReadBlock(t, LastBlockAt(t, k))
           at   == SelectInSeq(recs, LAMBDA r : r.key >= k)
       IN  IF at # 0 /\ recs[at].key = k THEN recs[at].cell ELSE Absent

\* As TableRange, but from the first block that starts past from.
TableRangeAfter(t, from, to) ==
  LET bis  == {i \in DOMAIN t.index : from < t.index[i].first_key}
      recs == FlattenSeq([i \in 1 .. Len(t.index) |->
                            IF i \in bis THEN ReadBlock(t, i) ELSE <<>>])
  IN  SelectSeq(recs, LAMBDA r : r.key < to)

\* range: from the block that may hold from, up to the first block or record
\* at or past to.
TableRange(t, from, to) ==
  IF t.index = <<>> \/ ~(from < to) THEN <<>>
  ELSE LET bi   == Max({LastBlockAt(t, from), 1})
           stop == {i \in bi .. Len(t.index) : t.index[i].first_key >= to}
           last == IF stop = {} THEN Len(t.index) ELSE Min(stop) - 1
           recs == FlattenSeq([i \in 1 .. last - bi + 1 |-> ReadBlock(t, bi + i - 1)])
           past == SelectInSeq(recs, LAMBDA r : r.key >= to)
           kept == IF past = 0 THEN recs ELSE SubSeq(recs, 1, past - 1)
       IN  SelectSeq(kept, LAMBDA r : r.key >= from)

-----------------------------------------------------------------------------
\* The cursor SSTable::Iterator and the merge of merge_records.

LoadBlock(t, i) == [block_idx |-> i, pos |-> 1, block |-> ReadBlock(t, i)]

FirstCursor(t) ==
  IF t.index = <<>> THEN [block_idx |-> 1, pos |-> 1, block |-> <<>>]
  ELSE LoadBlock(t, 1)

Valid(t, c) == c.block_idx <= Len(t.index) /\ c.pos <= Len(c.block)

\* As NextCursor, but the first block is the last.
NextCursorStays(t, c) ==
  IF c.pos + 1 <= Len(c.block) THEN [c EXCEPT !.pos = @ + 1]
  ELSE [c EXCEPT !.block_idx = Len(t.index) + 1]

NextCursor(t, c) ==
  IF c.pos + 1 <= Len(c.block) THEN [c EXCEPT !.pos = @ + 1]
  ELSE IF c.block_idx + 1 <= Len(t.index) THEN LoadBlock(t, c.block_idx + 1)
  ELSE [c EXCEPT !.block_idx = Len(t.index) + 1]

\* The rounds of merge_records: the smallest key under a cursor, from the first
\* (newest) input that has it, which every input then moves past.
RECURSIVE MergeFrom(_, _, _)
MergeFrom(inputs, cursor, drop) ==
  LET Key(j) == cursor[j].block[cursor[j].pos].key
      valid  == {j \in DOMAIN inputs : Valid(inputs[j], cursor[j])}
  IN  IF valid = {} THEN <<>>
      ELSE LET least  == Min({Key(j) : j \in valid})
               having == {j \in valid : Key(j) = least}
               rec    == cursor[Min(having)].block[cursor[Min(having)].pos]
               moved  == [j \in DOMAIN inputs |->
                            IF j \in having THEN NextCursor(inputs[j], cursor[j])
                            ELSE cursor[j]]
           IN  (IF drop /\ rec.cell = Tomb THEN <<>> ELSE <<rec>>)
               \o MergeFrom(inputs, moved, drop)

MergeTables(inputs, drop) ==
  MergeFrom(inputs, [j \in DOMAIN inputs |-> FirstCursor(inputs[j])], drop)
=============================================================================
