------------------------------ MODULE Formats -------------------------------
(***************************************************************************)
(* The path of a record through the data structures of the store: into the *)
(* memtable, through a flush into the blocks of an SSTable, through merges *)
(* into other SSTables, and back to a client by get and scan.              *)
(*                                                                         *)
(* Nothing runs concurrently here; that is the subject of LsmDB, which     *)
(* takes a memtable and an SSTable to be functions from keys to cells.     *)
(* contents holds those functions, computed with the operators of Tables,  *)
(* and the properties say that the structures agree with them.             *)
(***************************************************************************)
EXTENDS Memtable, SSTable

CONSTANTS MaxStores  \* bound of the model

VARIABLES
  active, sealed,  \* memtable_ and flushing_memtable_
  files,           \* sstables_, newest first
  vlog,            \* the value log
  contents,        \* what the files stand for
  map,             \* what clients stored
  stores           \* number of put and del

fvars == <<active, sealed, files, vlog, contents, map, stores>>

-----------------------------------------------------------------------------
FInit ==
  /\ active = NewMemtable /\ sealed = NewMemtable
  /\ files = <<>> /\ vlog = [data |-> <<>>, synced |-> 0]
  /\ contents = <<>> /\ map = Empty /\ stores = 0

FPut(k, v) ==
  /\ stores < MaxStores
  /\ active' = MemtablePut(active, k, v)
  /\ map' = [map EXCEPT ![k] = v]
  /\ stores' = stores + 1
  /\ UNCHANGED <<sealed, files, vlog, contents>>

FDel(k) ==
  /\ stores < MaxStores
  /\ active' = MemtableDel(active, k)
  /\ map' = [map EXCEPT ![k] = Absent]
  /\ stores' = stores + 1
  /\ UNCHANGED <<sealed, files, vlog, contents>>

FSeal ==
  /\ sealed = NewMemtable /\ active # NewMemtable
  /\ sealed' = active
  /\ active' = NewMemtable
  /\ UNCHANGED <<files, vlog, contents, map, stores>>

\* What Tables takes a memtable to be.
AsContent(m) ==
  [k \in Keys |-> IF k \in DOMAIN m.entries THEN m.entries[k] ELSE Absent]

\* The flusher: large values go to the value log, the records to a new table.
FFlush ==
  /\ sealed # NewMemtable
  /\ LET c    == AsContent(sealed)
         out  == Separated(c, 0, Len(vlog.data) + 1)
         snap == MemtableSnapshot(sealed)
     IN  /\ vlog' = AppendSynced(vlog, c)
         /\ files' = <<Build([i \in DOMAIN snap |->
                                [snap[i] EXCEPT !.cell = out[snap[i].key]]])>>
                     \o files
         /\ contents' = <<out>> \o contents
  /\ sealed' = NewMemtable
  /\ UNCHANGED <<active, map, stores>>

\* A list of contents, newest first, with the slots of Tables.
AsTables(cs) == [s \in 1 .. Len(cs) |-> [data |-> cs[Len(cs) + 1 - s]]]

\* The tables from i to j are merged; tombstones go when j is the oldest.
FMerge(i, j) ==
  LET drop == j = Len(files)
      inputs == SubSeq(files, i, j)
  IN  /\ files' = ReplaceSubSeqAt(i, <<Build(MergeTables(inputs, drop))>>, inputs,
                                  files)
      /\ contents' = SubSeq(contents, 1, i - 1)
                     \o <<MergeRecords(AsTables(SubSeq(contents, i, j)), drop)>>
                     \o SubSeq(contents, j + 1, Len(contents))
      /\ UNCHANGED <<active, sealed, vlog, map, stores>>

FNext ==
  \/ \E k \in Keys : (\E v \in Values : FPut(k, v)) \/ FDel(k)
  \/ FSeal
  \/ FFlush
  \/ \E i, j \in DOMAIN files : i < j /\ FMerge(i, j)

FSpec == FInit /\ [][FNext]_fvars

-----------------------------------------------------------------------------
\* get and scan.

\* The cell of a record, with a value that was separated read from its log.
Resolve(c) == AsValue(ReadCell([g \in {0} |-> vlog], {0}, c))

\* DB::get, with or without the Bloom filters.
DBGet(k, use_bloom) ==
  LET searched == SelectSeq(files, LAMBDA t : ~use_bloom \/ MayContain(t, k))
      hit == SelectInSeq(searched, LAMBDA t : GetNoBloom(t, k) # Absent)
  IN  IF MemtableGet(active, k) # Absent THEN MemtableGet(active, k)
      ELSE IF IsTombstone(active, k) THEN Absent
      ELSE IF MemtableGet(sealed, k) # Absent THEN MemtableGet(sealed, k)
      ELSE IF IsTombstone(sealed, k) \/ hit = 0 THEN Absent
      ELSE Resolve(GetNoBloom(searched[hit], k))

\* The rounds of DB::scan's merge; of every source, what is left of it.
RECURSIVE ScanFrom(_)
ScanFrom(sources) ==
  LET valid == {j \in DOMAIN sources : sources[j] # <<>>}
  IN  IF valid = {} THEN <<>>
      ELSE LET least  == Min({sources[j][1].key : j \in valid})
               having == {j \in valid : sources[j][1].key = least}
               rec    == sources[Min(having)][1]
               moved  == [j \in DOMAIN sources |->
                            IF j \in having THEN Tail(sources[j]) ELSE sources[j]]
           IN  (IF rec.cell = Tomb THEN <<>> ELSE <<<<rec.key, Resolve(rec.cell)>>>>)
               \o ScanFrom(moved)

DBScan(from, to) ==
  ScanFrom(<<MemtableRange(active, from, to), MemtableRange(sealed, from, to)>>
           \o [i \in DOMAIN files |-> TableRange(files[i], from, to)])

-----------------------------------------------------------------------------
\* Properties.

SizeOf(m) == MapThenSumSet(LAMBDA k : EntryBytes(m, k), DOMAIN m.entries)

\* size_bytes_, kept by differences over puts, overwrites and deletes, is the
\* size of the entries: it has not drifted and has not wrapped below zero.
SizeOK == active.size = SizeOf(active) /\ sealed.size = SizeOf(sealed)

\* An SSTable holds what LsmDB takes it to hold: the lookup through the sparse
\* index finds every record and no other, after any flushes and merges, and
\* the key range it reports is that of its records.
TablesOK ==
  \A i \in DOMAIN files :
     LET ks == {k \in Keys : contents[i][k] # Absent}
     IN  /\ \A k \in Keys : GetNoBloom(files[i], k) = contents[i][k]
         /\ ks # {} => MinKey(files[i]) = Min(ks) /\ MaxKey(files[i]) = Max(ks)

\* get returns what was stored last, and the Bloom filters only save work:
\* with and without them the answer is the same.
GetOK == \A k \in Keys, use_bloom \in BOOLEAN : DBGet(k, use_bloom) = map[k]

\* scan returns the live keys of [from, to) in ascending order, once each, with
\* what was stored last, wherever from and to fall between blocks and tables.
ScanOK ==
  \A from, to \in Keys \cup {Max(Keys) + 1} :
     LET live == SetToSortSeq({k \in Keys : from <= k /\ k < to /\ map[k] # Absent}, <)
     IN  DBScan(from, to) = [i \in DOMAIN live |-> <<live[i], map[live[i]]>>]
=============================================================================
