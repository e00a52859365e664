--------------------------- MODULE LsmStateProofs ---------------------------
(***************************************************************************)
(* Facts about the operators of Tables: what looking a key up in a         *)
(* newest-first list returns, that merging a run of age-adjacent tables    *)
(* does not change it, what replaying a log yields.  Then the inductive    *)
(* invariant of LsmDB that holds whatever the compactors do, and what      *)
(* follows from it for steps that do the same things.                      *)
(***************************************************************************)
EXTENDS LsmRecovery, TLAPS, WellFoundedInduction

\* Any slots taken from S, if there are any, have a newest and an oldest one.
Bounded(S) ==
  \A T \in SUBSET S : T # {} => /\ \E x \in T : \A y \in T : x >= y
                               /\ \E x \in T : \A y \in T : x =< y

\* A list of tables: what sstables_ and its copies are.
IsList(tables) ==
  /\ DOMAIN tables \subseteq Int
  /\ Bounded(DOMAIN tables)
  /\ \A s \in DOMAIN tables : tables[s].data \in Content

-----------------------------------------------------------------------------
\* A bounded set of slots has a newest and an oldest one.
LEMMA MaxMin ==
  ASSUME NEW S, S \subseteq Int, Bounded(S), S # {}
  PROVE  /\ Max(S) \in S /\ \A s \in S : s <= Max(S)
         /\ Min(S) \in S /\ \A s \in S : Min(S) <= s
<1>1. /\ \E x \in S : \A y \in S : x >= y
      /\ \E x \in S : \A y \in S : x =< y
  BY Zenon DEF Bounded
<1>2. Max(S) \in S /\ \A s \in S : Max(S) >= s
  BY <1>1, Zenon DEF Max
<1>3. Min(S) \in S /\ \A s \in S : Min(S) =< s
  BY <1>1, Zenon DEF Min
<1> QED
  BY <1>2, <1>3, Zenon

\* Part of a bounded set is bounded, and so is a bounded set with one more slot.
LEMMA BoundedSubset ==
  ASSUME NEW S, NEW T, Bounded(S), T \subseteq S
  PROVE  Bounded(T)
BY Zenon DEF Bounded

\* One more slot keeps a list bounded.
LEMMA BoundedAdd ==
  ASSUME NEW S, S \subseteq Int, Bounded(S), NEW x \in Int
  PROVE  Bounded(S \cup {x})
<1> SUFFICES ASSUME NEW T, T \subseteq S \cup {x}, T # {}
             PROVE  /\ \E a \in T : \A y \in T : a >= y
                    /\ \E a \in T : \A y \in T : a =< y
  BY Zenon DEF Bounded
<1> DEFINE U == T \ {x}
<1>1. U \subseteq S /\ U \subseteq Int /\ T \subseteq U \cup {x} /\ U \subseteq T
  BY Zenon
<1>2. CASE U = {}
  <2>1. x \in T /\ \A y \in T : y = x
    BY <1>1, <1>2, Zenon
  <2>2. x >= x /\ x =< x
    OBVIOUS
  <2> QED
    BY <2>1, <2>2, Zenon
<1>3. CASE U # {}
  <2>1. PICK hi \in U, lo \in U : \A y \in U : hi >= y /\ lo =< y
    <3> HIDE DEF U
    <3> QED
      BY <1>1, <1>3, Zenon DEF Bounded
  <2>2. CASE x \in T
    BY <1>1, <2>1, <2>2
  <2>3. CASE x \notin T
    BY <1>1, <2>1, <2>3, Zenon
  <2> QED
    BY <2>2, <2>3, Zenon
<1> QED
  BY <1>2, <1>3, Zenon

\* The empty list is bounded.
LEMMA BoundedEmpty == Bounded({})
BY Zenon DEF Bounded

-----------------------------------------------------------------------------
\* get's walk through the tables: the first record it meets, coming from the
\* newest table, is the answer.
LEMMA LookupNewest ==
  ASSUME NEW tables, IsList(tables), NEW k \in Keys, NEW m \in DOMAIN tables,
         tables[m].data[k] # Absent,
         \A s \in DOMAIN tables : s > m => tables[s].data[k] = Absent
  PROVE  Lookup(tables, k) = tables[m].data[k]
<1> DEFINE H == Holding(tables, k)
<1>1. H \subseteq Int /\ Bounded(H) /\ m \in H
  BY BoundedSubset, Zenon DEF IsList, Holding
<1>2. Max(H) \in H /\ m <= Max(H)
  BY <1>1, MaxMin, Zenon
<1>3. Max(H) = m
  BY <1>1, <1>2 DEF Holding
<1> QED
  BY <1>1, <1>3, Zenon DEF Lookup

\* A key no table holds is absent.
LEMMA LookupNone ==
  ASSUME NEW tables, NEW k \in Keys,
         \A s \in DOMAIN tables : tables[s].data[k] = Absent
  PROVE  Lookup(tables, k) = Absent
BY Zenon DEF Lookup, Holding

\* Conversely, what is found is the record of a table, or no table has one.
LEMMA LookupCases ==
  ASSUME NEW tables, IsList(tables), NEW k \in Keys
  PROVE  \/ /\ \A s \in DOMAIN tables : tables[s].data[k] = Absent
            /\ Lookup(tables, k) = Absent
         \/ \E m \in DOMAIN tables :
              /\ tables[m].data[k] # Absent
              /\ \A s \in DOMAIN tables : s > m => tables[s].data[k] = Absent
              /\ Lookup(tables, k) = tables[m].data[k]
<1> DEFINE H == Holding(tables, k)
<1>1. CASE H = {}
  BY <1>1, LookupNone, Zenon DEF Holding
<1>2. CASE H # {}
  <2>1. H \subseteq Int /\ Bounded(H)
    BY BoundedSubset, Zenon DEF IsList, Holding
  <2>2. Max(H) \in H /\ \A s \in H : s <= Max(H)
    BY <1>2, <2>1, MaxMin, Zenon
  <2>3. \A s \in DOMAIN tables : s > Max(H) => tables[s].data[k] = Absent
    BY <2>1, <2>2 DEF IsList, Holding
  <2>4. Max(H) \in DOMAIN tables /\ tables[Max(H)].data[k] # Absent
    BY <2>2, Zenon DEF Holding
  <2>5. Lookup(tables, k) = tables[Max(H)].data[k]
    BY <1>2, Zenon DEF Lookup
  <2> QED
    BY <2>3, <2>4, <2>5, Zenon
<1> QED
  BY <1>1, <1>2, Zenon

\* What get finds in the tables is a cell.
LEMMA LookupCell ==
  ASSUME NEW tables, IsList(tables), NEW k \in Keys
  PROVE  Lookup(tables, k) \in Cell
BY LookupCases DEF IsList, Content, Cell, MemCell

\* merge_records writes the content of a table.
LEMMA MergeContent ==
  ASSUME NEW tables, IsList(tables), NEW drop
  PROVE  MergeRecords(tables, drop) \in Content
BY LookupCell, Zenon DEF MergeRecords, Content, Cell, MemCell

-----------------------------------------------------------------------------
\* The slot in front of the newest table.
Top(tables) == IF DOMAIN tables = {} THEN 1 ELSE Max(DOMAIN tables) + 1

\* A flushed table becomes the newest of the list.
LEMMA PushNewestSlot ==
  ASSUME NEW tables, DOMAIN tables \subseteq Int, Bounded(DOMAIN tables), NEW t
  PROVE  /\ Top(tables) \in Int /\ Top(tables) \notin DOMAIN tables
         /\ \A s \in DOMAIN tables : s < Top(tables)
         /\ DOMAIN PushNewest(tables, t) = DOMAIN tables \cup {Top(tables)}
         /\ PushNewest(tables, t)[Top(tables)] = t
         /\ \A s \in DOMAIN tables : PushNewest(tables, t)[s] = tables[s]
<1>1. Top(tables) \in Int /\ \A s \in DOMAIN tables : s < Top(tables)
  <2>1. CASE DOMAIN tables = {}
    BY <2>1 DEF Top
  <2>2. CASE DOMAIN tables # {}
    BY <2>2, MaxMin DEF Top
  <2> QED
    BY <2>1, <2>2, Zenon
<1>2. Top(tables) \notin DOMAIN tables
  BY <1>1
<1>3. PushNewest(tables, t) =
        [s \in DOMAIN tables \cup {Top(tables)} |->
           IF s = Top(tables) THEN t ELSE tables[s]]
  BY Zenon DEF PushNewest, Top
<1> QED
  BY <1>1, <1>2, <1>3, Zenon

\* Inserting at the front leaves a list of tables.
LEMMA PushNewestList ==
  ASSUME NEW tables, IsList(tables), NEW t, t.data \in Content
  PROVE  IsList(PushNewest(tables, t))
<1>1. Bounded(DOMAIN tables \cup {Top(tables)})
  BY PushNewestSlot, BoundedAdd, Zenon DEF IsList
<1> QED
  BY <1>1, PushNewestSlot DEF IsList

\* It hides the older records of the keys it holds, and of no other key.
LEMMA PushNewestLookup ==
  ASSUME NEW tables, IsList(tables), NEW t, t.data \in Content, NEW k \in Keys
  PROVE  Lookup(PushNewest(tables, t), k) =
           IF t.data[k] # Absent THEN t.data[k] ELSE Lookup(tables, k)
<1> DEFINE P == PushNewest(tables, t)
<1> DEFINE top == Top(tables)
<1>1. IsList(P)
  BY PushNewestList, Zenon
<1>2. \A s \in DOMAIN tables : s < top
  BY PushNewestSlot, Zenon DEF IsList
<1>3. /\ DOMAIN P = DOMAIN tables \cup {top} /\ P[top] = t /\ top \in Int
      /\ \A s \in DOMAIN tables : P[s] = tables[s] /\ s \in Int
  BY PushNewestSlot DEF IsList
<1> HIDE DEF P, top
<1>4. CASE t.data[k] # Absent
  <2>1. \A s \in DOMAIN P : s > top => P[s].data[k] = Absent
    BY <1>2, <1>3
  <2> QED
    BY <1>1, <1>3, <1>4, <2>1, LookupNewest DEF P
<1>5. CASE t.data[k] = Absent
  <2>1. CASE \A s \in DOMAIN tables : tables[s].data[k] = Absent
    <3>1. Lookup(tables, k) = Absent
      BY <2>1, LookupNone, Zenon
    <3>2. Lookup(P, k) = Absent
      BY <2>1, <1>3, <1>5, LookupNone, Zenon
    <3> QED
      BY <3>1, <3>2, <1>5, Zenon DEF P
  <2>2. ASSUME NEW m \in DOMAIN tables, tables[m].data[k] # Absent,
               \A s \in DOMAIN tables : s > m => tables[s].data[k] = Absent,
               Lookup(tables, k) = tables[m].data[k]
        PROVE  Lookup(P, k) = Lookup(tables, k)
    <3>1. \A s \in DOMAIN P : s > m => P[s].data[k] = Absent
      BY <2>2, <1>3, <1>5, Zenon
    <3>2. m \in DOMAIN P /\ P[m].data[k] = tables[m].data[k]
      BY <1>3, Zenon
    <3> QED
      BY <1>1, <2>2, <3>1, <3>2, LookupNewest, Zenon
  <2> QED
    BY <1>5, <2>1, <2>2, LookupCases, Zenon DEF P
<1> QED
  BY <1>4, <1>5, Zenon

-----------------------------------------------------------------------------
\* The slots of the tables with these ids.
Hit(tables, ids) == {s \in DOMAIN tables : tables[s].id \in ids}

\* install_merge_result when the inputs are still listed: the output takes the
\* newest input's slot and the other inputs go.
LEMMA InstallSlots ==
  ASSUME NEW tables, DOMAIN tables \subseteq Int, Bounded(DOMAIN tables),
         NEW R, R \subseteq DOMAIN tables, R # {}, NEW ids, NEW out,
         Hit(tables, ids) = R
  PROVE  /\ Max(R) \in R /\ \A s \in R : s <= Max(R)
         /\ DOMAIN InstallMergeResult(tables, ids, out) =
              (DOMAIN tables \ R) \cup {Max(R)}
         /\ InstallMergeResult(tables, ids, out)[Max(R)] = out
         /\ \A s \in DOMAIN tables \ R :
              InstallMergeResult(tables, ids, out)[s] = tables[s]
<1>1. Max(R) \in R /\ \A s \in R : s <= Max(R)
  BY BoundedSubset, MaxMin, Zenon
<1>2. InstallMergeResult(tables, ids, out) =
        [s \in (DOMAIN tables \ R) \cup {Max(R)} |->
           IF s = Max(R) THEN out ELSE tables[s]]
  BY Zenon DEF InstallMergeResult, Hit
<1> QED
  BY <1>1, <1>2, Zenon

\* install_merge_result leaves a list of tables.
LEMMA InstallList ==
  ASSUME NEW tables, IsList(tables), NEW R, R \subseteq DOMAIN tables, R # {},
         NEW ids, Hit(tables, ids) = R,
         NEW out, out.data \in Content
  PROVE  IsList(InstallMergeResult(tables, ids, out))
<1> DEFINE T == InstallMergeResult(tables, ids, out)
<1>1. /\ Max(R) \in R /\ DOMAIN T = (DOMAIN tables \ R) \cup {Max(R)}
      /\ T[Max(R)] = out /\ \A s \in DOMAIN tables \ R : T[s] = tables[s]
  BY InstallSlots DEF IsList
<1> HIDE DEF T
<1>2. DOMAIN T \subseteq DOMAIN tables
  BY <1>1, Zenon
<1>3. Bounded(DOMAIN T) /\ DOMAIN T \subseteq Int
  BY <1>2, BoundedSubset, Zenon DEF IsList
<1>4. \A s \in DOMAIN T : T[s].data \in Content
  BY <1>1, Zenon DEF IsList
<1> QED
  BY <1>3, <1>4, Zenon DEF IsList, T

\* The output of a merge of age-adjacent tables, put where the newest of them
\* was, answers every lookup as the inputs did; only a tombstone may go, and
\* only if no table is older than the inputs.
LEMMA InstallLookup ==
  ASSUME NEW tables, IsList(tables), NEW R, R \subseteq DOMAIN tables, R # {},
         NEW ids, Hit(tables, ids) = R,
         AgeContiguous(tables, R),
         NEW inputs, DOMAIN inputs = R, \A s \in R : inputs[s] = tables[s],
         NEW drop \in BOOLEAN,
         drop => \A s \in DOMAIN tables \ R, a \in R : a < s,
         NEW out, out.data = MergeRecords(inputs, drop),
         NEW k \in Keys
  PROVE  \/ Lookup(InstallMergeResult(tables, ids, out), k) = Lookup(tables, k)
         \/ /\ drop /\ Lookup(tables, k) = Tomb
            /\ Lookup(InstallMergeResult(tables, ids, out), k) = Absent
<1> DEFINE T == InstallMergeResult(tables, ids, out)
           top == Max(R)
<1>1. IsList(inputs)
  BY BoundedSubset, Zenon DEF IsList
<1>2. out.data \in Content
  BY <1>1, MergeContent, Zenon
<1>3. IsList(T)
  BY <1>2, InstallList, Zenon
<1>4. /\ top \in R /\ \A s \in R : s <= top
      /\ DOMAIN T = (DOMAIN tables \ R) \cup {top}
      /\ T[top] = out /\ \A s \in DOMAIN tables \ R : T[s] = tables[s]
  BY InstallSlots DEF IsList
<1>5. DOMAIN tables \subseteq Int
  BY Zenon DEF IsList
<1>6. out.data[k] = IF drop /\ Lookup(inputs, k) = Tomb THEN Absent
                    ELSE Lookup(inputs, k)
  BY Zenon DEF MergeRecords
<1>7. \A s \in DOMAIN tables \ R : (\A a \in R : a < s) \/ (\A a \in R : s < a)
  BY <1>5 DEF AgeContiguous
<1> HIDE DEF T, top
<1>8. CASE \A s \in DOMAIN tables : tables[s].data[k] = Absent
  <2>1. Lookup(tables, k) = Absent /\ Lookup(inputs, k) = Absent
    BY <1>8, LookupNone
  <2>2. \A s \in DOMAIN T : T[s].data[k] = Absent
    BY <1>8, <1>4, <1>6, <2>1, Zenon
  <2> QED
    BY <2>1, <2>2, LookupNone, Zenon DEF T
<1>9. ASSUME NEW m \in DOMAIN tables, tables[m].data[k] # Absent,
             \A s \in DOMAIN tables : s > m => tables[s].data[k] = Absent,
             Lookup(tables, k) = tables[m].data[k]
      PROVE  \/ Lookup(T, k) = Lookup(tables, k)
             \/ drop /\ Lookup(tables, k) = Tomb /\ Lookup(T, k) = Absent
  <2>1. CASE m \in R
    <3>1. Lookup(inputs, k) = tables[m].data[k]
      BY <1>1, <1>9, <2>1, LookupNewest
    <3>2. \A s \in DOMAIN T : s > top => T[s].data[k] = Absent
      BY <1>4, <1>5, <1>9, <2>1
    <3>3. CASE out.data[k] # Absent
      <4>1. Lookup(T, k) = out.data[k]
        BY <1>3, <1>4, <3>2, <3>3, LookupNewest
      <4> QED
        BY <1>6, <1>9, <3>1, <3>3, <4>1, Zenon
    <3>4. CASE out.data[k] = Absent
      <4>1. drop /\ tables[m].data[k] = Tomb
        BY <1>6, <1>9, <3>1, <3>4, Zenon
      <4>2. \A s \in DOMAIN T : T[s].data[k] = Absent
        BY <1>4, <1>5, <1>9, <2>1, <3>4, <4>1, Zenon
      <4> QED
        BY <1>9, <4>1, <4>2, LookupNone, Zenon
    <3> QED
      BY <3>3, <3>4, Zenon
  <2>2. CASE m \notin R /\ \A a \in R : a < m
    <3>1. m \in DOMAIN T /\ T[m].data[k] = tables[m].data[k]
      BY <1>4, <2>2, Zenon
    <3>2. \A s \in DOMAIN T : s > m => T[s].data[k] = Absent
      BY <1>4, <1>5, <1>9, <2>2
    <3> QED
      BY <1>3, <1>9, <3>1, <3>2, LookupNewest, Zenon
  <2>3. CASE m \notin R /\ \A a \in R : m < a
    <3>1. \A s \in R : tables[s].data[k] = Absent
      BY <1>5, <1>9, <2>3, Zenon
    <3>2. Lookup(inputs, k) = Absent
      BY <3>1, LookupNone
    <3>3. m \in DOMAIN T /\ T[m].data[k] = tables[m].data[k]
      BY <1>4, <2>3, Zenon
    <3>4. \A s \in DOMAIN T : s > m => T[s].data[k] = Absent
      BY <1>4, <1>6, <1>9, <3>2, Zenon
    <3> QED
      BY <1>3, <1>9, <3>3, <3>4, LookupNewest, Zenon
  <2> QED
    BY <1>7, <2>1, <2>2, <2>3, Zenon
<1> QED
  BY <1>8, <1>9, LookupCases, Zenon DEF T
-----------------------------------------------------------------------------
\* Whatever is listed, the output of a merge is listed afterwards, and every
\* other table of the new list was in the old one, in the same slot.
LEMMA InstallAny ==
  ASSUME NEW tables, DOMAIN tables \subseteq Int, Bounded(DOMAIN tables),
         NEW ids, NEW out
  PROVE  LET T == InstallMergeResult(tables, ids, out)
         IN  /\ T = [s \in DOMAIN T |-> T[s]]
             /\ DOMAIN T \subseteq Int /\ Bounded(DOMAIN T)
             /\ \A s \in DOMAIN T : T[s] = out \/ (s \in DOMAIN tables /\ T[s] = tables[s])
<1> DEFINE hit == Hit(tables, ids)
           slot == IF hit # {} THEN Max(hit)
                   ELSE IF DOMAIN tables = {} THEN 1 ELSE Min(DOMAIN tables) - 1
           T == InstallMergeResult(tables, ids, out)
<1>1. slot \in Int
  <2>1. CASE hit # {}
    <3>1. hit \subseteq Int /\ Bounded(hit)
      BY BoundedSubset, Zenon DEF Hit
    <3> QED
      BY <2>1, <3>1, MaxMin, Zenon
  <2>2. CASE hit = {} /\ DOMAIN tables # {}
    BY <2>2, MaxMin
  <2> QED
    BY <2>1, <2>2
<1>2. T = [s \in (DOMAIN tables \ hit) \cup {slot} |-> IF s = slot THEN out ELSE tables[s]]
  BY Zenon DEF InstallMergeResult, Hit
<1> HIDE DEF hit, slot
<1>3. Bounded(DOMAIN tables \cup {slot})
  BY <1>1, BoundedAdd, Zenon
<1>4. Bounded((DOMAIN tables \ hit) \cup {slot})
  BY <1>3, BoundedSubset, Zenon
<1> QED
  BY <1>1, <1>2, <1>4, Zenon

\* No table leaves the list but the inputs of the merge.
LEMMA InstallIds ==
  ASSUME NEW tables, DOMAIN tables \subseteq Int, Bounded(DOMAIN tables),
         NEW ids, NEW out
  PROVE  LET T == InstallMergeResult(tables, ids, out)
         IN  out.id \in TableIds(T) /\ TableIds(tables) \subseteq TableIds(T) \cup ids
<1> DEFINE hit == Hit(tables, ids)
           slot == IF hit # {} THEN Max(hit)
                   ELSE IF DOMAIN tables = {} THEN 1 ELSE Min(DOMAIN tables) - 1
           T == InstallMergeResult(tables, ids, out)
<1>1. slot \notin DOMAIN tables \ hit
  <2>1. CASE hit # {}
    <3>1. hit \subseteq Int /\ Bounded(hit)
      BY BoundedSubset, Zenon DEF Hit
    <3> QED
      BY <2>1, <3>1, MaxMin, Zenon
  <2>2. CASE hit = {} /\ DOMAIN tables # {}
    BY <2>2, MaxMin
  <2> QED
    BY <2>1, <2>2, Zenon
<1>2. T = [s \in (DOMAIN tables \ hit) \cup {slot} |-> IF s = slot THEN out ELSE tables[s]]
  BY Zenon DEF InstallMergeResult, Hit
<1>3. \A s \in hit : tables[s].id \in ids
  BY Zenon DEF Hit
<1> HIDE DEF hit, slot, T
<1>4. T[slot] = out /\ slot \in DOMAIN T
  BY <1>2, Zenon
<1>5. \A s \in DOMAIN tables \ hit : s \in DOMAIN T /\ T[s] = tables[s]
  BY <1>1, <1>2, Zenon
<1>6. out.id \in TableIds(T)
  BY <1>4, Zenon DEF TableIds
<1>7. TableIds(tables) \subseteq TableIds(T) \cup ids
  BY <1>3, <1>5, Zenon DEF TableIds
<1> QED
  BY <1>6, <1>7, Zenon DEF T

-----------------------------------------------------------------------------
\* Separating the large values of a memtable yields the content of a table.
LEMMA SeparatedContent ==
  ASSUME NEW m \in Content, NEW g \in Nat, NEW b \in Nat
  PROVE  Separated(m, g, b) \in Content /\ SeparatedBatch(m) \in Content
BY Zenon DEF Separated, SeparatedBatch, Content, Cell, MemCell, Ptr

\* A memtable is content a table may have.
LEMMA MemIsContent ==
  ASSUME NEW m \in MemContent
  PROVE  m \in Content
BY Zenon DEF MemContent, Content, Cell

\* An append keeps a value log one.
LEMMA AppendSyncedLog ==
  ASSUME NEW log, IsValueLog(log), NEW m \in Content
  PROVE  IsValueLog(AppendSynced(log, m))
<1>1. SeparatedBatch(m) \in Content
  BY SeparatedContent, Zenon
<1> QED
  BY <1>1 DEF AppendSynced, IsValueLog

\* Replaying a log yields a memtable.
LEMMA ReplayContent ==
  ASSUME NEW log \in Seq(LogRecord)
  PROVE  Replay(log) \in MemContent
<1> DEFINE last(k) == {i \in DOMAIN log : /\ log[i].key = k
                                         /\ \A j \in i + 1 .. Len(log) : log[j].key # k}
           cell(k) == IF last(k) = {} THEN Absent ELSE log[CHOOSE i \in last(k) : TRUE].cell
<1>1. \A i \in DOMAIN log : log[i].cell \in Values \cup {Tomb}
  <2>1. \A i \in DOMAIN log : log[i] \in LogRecord
    OBVIOUS
  <2>2. \A r \in LogRecord : r.cell \in Values \cup {Tomb}
    BY Zenon DEF LogRecord
  <2> QED
    BY <2>1, <2>2, Zenon
<1>2. ASSUME NEW k \in Keys PROVE cell(k) \in MemCell
  <2>1. last(k) \subseteq DOMAIN log
    BY Zenon
  <2> HIDE DEF last
  <2>2. last(k) # {} => (CHOOSE i \in last(k) : TRUE) \in last(k)
    BY Zenon
  <2> QED
    BY <1>1, <2>1, <2>2, Zenon DEF MemCell
<1>3. Replay(log) = [k \in Keys |-> cell(k)]
  BY Zenon DEF Replay
<1> HIDE DEF cell
<1> QED
  BY <1>2, <1>3, Zenon DEF MemContent

\* The two logs recovery replays make one log.
LEMMA TwoLogs ==
  ASSUME NEW S, NEW old \in Seq(S), NEW new \in Seq(S)
  PROVE  old \o new \in Seq(S)
BY SMT

\* What a power loss leaves of a log is a log.
LEMMA PrefixOfLog ==
  ASSUME NEW S, NEW log \in Seq(S), NEW n \in 0 .. Len(log)
  PROVE  SubSeq(log, 1, n) \in Seq(S) /\ Len(SubSeq(log, 1, n)) = n
<1>1. SubSeq(log, 1, n) \in Seq(S)
  BY SMT
<1>2. Len(SubSeq(log, 1, n)) = n
  BY SMT
<1> QED
  BY <1>1, <1>2, Zenon

-----------------------------------------------------------------------------
\* The pointer c leads to a value that is on disk.
OnDisk(files, c) ==
  /\ c.gen \in DOMAIN files
  /\ c.batch \in 1 .. files[c.gen].synced
  /\ files[c.gen].data[c.batch][c.key] \in Values

\* So do all pointers of a table, into one generation.
PointsInto(files, g, data) ==
  \A k \in Keys : data[k] \in Ptr => data[k].gen = g /\ OnDisk(files, data[k])

\* What a cell stands for.
ValueOf(files, c) == IF c \in Ptr THEN files[c.gen].data[c.batch][c.key] ELSE c

\* A table with the records of the memtable m.
Written(files, g, data, m) ==
  PointsInto(files, g, data) /\ \A k \in Keys : ValueOf(files, data[k]) = m[k]

\* What was on disk of a value log stays.
FileKept(old, new, g) ==
  /\ g \in DOMAIN new /\ new[g].synced >= old[g].synced
  /\ \A b \in 1 .. old[g].synced : new[g].data[b] = old[g].data[b]

\* A pointer to a value on disk reads as that value.
LEMMA ReadOnDisk ==
  ASSUME NEW files, NEW gens, NEW c,
         \A g \in DOMAIN files : IsValueLog(files[g]),
         c \in Ptr => c.gen \in gens /\ OnDisk(files, c)
  PROVE  ReadCell(files, gens, c) = ValueOf(files, c)
<1>1. CASE c \in Ptr
  <2>1. c.gen \in DOMAIN files /\ IsValueLog(files[c.gen])
    BY <1>1, Zenon DEF OnDisk
  <2>2. c.batch \in 1 .. Len(files[c.gen].data)
    BY <1>1, <2>1 DEF OnDisk, IsValueLog
  <2> QED
    BY <1>1, <2>1, <2>2, Zenon DEF OnDisk, ReadCell, ValueOf, Resolves
<1>2. CASE c \notin Ptr
  BY <1>2, Zenon DEF ReadCell, ValueOf
<1> QED
  BY <1>1, <1>2, Zenon

\* A pointer to a value on disk keeps it while its log is kept.
LEMMA OnDiskKept ==
  ASSUME NEW old, NEW new, NEW c, c \in Ptr => OnDisk(old, c) /\ FileKept(old, new, c.gen),
         \A g \in DOMAIN old : IsValueLog(old[g]), \A g \in DOMAIN new : IsValueLog(new[g])
  PROVE  /\ c \in Ptr => OnDisk(new, c)
         /\ ValueOf(new, c) = ValueOf(old, c)
<1>1. CASE c \in Ptr
  <2>1. new[c.gen].data[c.batch] = old[c.gen].data[c.batch] /\ c.gen \in DOMAIN new
    BY <1>1, Zenon DEF OnDisk, FileKept
  <2>2. c.batch \in 1 .. new[c.gen].synced
    BY <1>1 DEF OnDisk, FileKept, IsValueLog
  <2> QED
    BY <1>1, <2>1, <2>2, Zenon DEF OnDisk, ValueOf
<1>2. CASE c \notin Ptr
  BY <1>2, Zenon DEF ValueOf
<1> QED
  BY <1>1, <1>2, Zenon

\* So do all pointers of a table.
LEMMA PointsKept ==
  ASSUME NEW old, NEW new, NEW g, FileKept(old, new, g), NEW data, PointsInto(old, g, data),
         \A h \in DOMAIN old : IsValueLog(old[h]), \A h \in DOMAIN new : IsValueLog(new[h])
  PROVE  /\ PointsInto(new, g, data)
         /\ \A k \in Keys : ValueOf(new, data[k]) = ValueOf(old, data[k])
<1> SUFFICES ASSUME NEW k \in Keys
             PROVE  /\ data[k] \in Ptr => data[k].gen = g /\ OnDisk(new, data[k])
                    /\ ValueOf(new, data[k]) = ValueOf(old, data[k])
  BY Zenon DEF PointsInto
<1>1. data[k] \in Ptr => data[k].gen = g /\ OnDisk(old, data[k])
  BY Zenon DEF PointsInto
<1> QED
  BY <1>1, OnDiskKept, Zenon

\* A file that is not touched is kept.
LEMMA SameFile ==
  ASSUME NEW old, NEW new, NEW g, g \in DOMAIN old, g \in DOMAIN new, new[g] = old[g],
         IsValueLog(old[g])
  PROVE  FileKept(old, new, g)
BY DEF FileKept, IsValueLog

\* What a flush appends leaves the logs as they were.
LEMMA AppendKeeps ==
  ASSUME NEW old, NEW g \in DOMAIN old, NEW m \in Content,
         \A h \in DOMAIN old : IsValueLog(old[h]), NEW h \in DOMAIN old
  PROVE  FileKept(old, [old EXCEPT ![g] = AppendSynced(old[g], m)], h)
<1> DEFINE log == AppendSynced(old[g], m)
           new == [old EXCEPT ![g] = log]
<1>1. CASE h # g \/ BigKeys(m) = {}
  <2>1. h \in DOMAIN new /\ new[h] = old[h]
    BY <1>1, Zenon DEF AppendSynced
  <2> QED
    BY <2>1, SameFile, Zenon
<1>2. CASE h = g /\ BigKeys(m) # {}
  <2>1. h \in DOMAIN new /\ new[h] = log
    BY <1>2, Zenon
  <2>2. /\ log.data = Append(old[g].data, SeparatedBatch(m))
        /\ log.synced = Len(old[g].data) + 1
    BY <1>2, Zenon DEF AppendSynced
  <2>3. /\ old[g].data \in Seq(Content) /\ old[g].synced \in Nat
        /\ old[g].synced <= Len(old[g].data) /\ SeparatedBatch(m) \in Content
    BY SeparatedContent, Zenon DEF IsValueLog
  <2>4. /\ log.synced >= old[g].synced
        /\ \A b \in 1 .. old[g].synced : log.data[b] = old[g].data[b]
    BY <2>2, <2>3
  <2> QED
    BY <1>2, <2>1, <2>4, Zenon DEF FileKept
<1> QED
  BY <1>1, <1>2, Zenon

\* The table a flush writes holds the memtable, its large values on disk.
LEMMA SeparatedWritten ==
  ASSUME NEW old, NEW g \in DOMAIN old, NEW m \in MemContent, g \in Nat,
         \A h \in DOMAIN old : IsValueLog(old[h])
  PROVE  Written([old EXCEPT ![g] = AppendSynced(old[g], m)], g,
                 Separated(m, g, Len(old[g].data) + 1), m)
<1> DEFINE log == AppendSynced(old[g], m)
           new == [old EXCEPT ![g] = log]
           b == Len(old[g].data) + 1
           out == Separated(m, g, b)
<1>1. g \in DOMAIN new /\ new[g] = log /\ b \in Nat /\ b >= 1
  BY DEF IsValueLog
<1>2. ASSUME NEW k \in Keys, m[k] \in Big
      PROVE  /\ out[k] \in Ptr /\ out[k].gen = g /\ OnDisk(new, out[k])
             /\ ValueOf(new, out[k]) = m[k]
  <2>1. /\ out[k] \in Ptr /\ out[k].gen = g /\ out[k].batch = b /\ out[k].key = k
    BY <1>1, <1>2, Zenon DEF Separated, Ptr
  <2>2. log.synced = b /\ log.data = Append(old[g].data, SeparatedBatch(m))
    BY <1>2, Zenon DEF AppendSynced, BigKeys
  <2>3. SeparatedBatch(m) \in Content /\ SeparatedBatch(m)[k] = m[k]
    BY <1>2, MemIsContent, SeparatedContent, <1>1, Zenon DEF SeparatedBatch
  <2>4. log.data[b] = SeparatedBatch(m)
    BY <2>2, <2>3 DEF IsValueLog
  <2>5. m[k] \in Values /\ b \in 1 .. log.synced
    BY <1>1, <1>2, <2>2, TablesAssumption
  <2> HIDE DEF log, new, b, out
  <2> QED
    BY <1>1, <2>1, <2>3, <2>4, <2>5, Zenon DEF OnDisk, ValueOf
<1>3. ASSUME NEW k \in Keys, m[k] \notin Big
      PROVE  out[k] \notin Ptr /\ ValueOf(new, out[k]) = m[k]
  <2>1. out[k] = m[k]
    BY <1>3, Zenon DEF Separated
  <2>2. m[k] \notin Ptr
    BY TablesAssumption, Zenon DEF MemContent
  <2> QED
    BY <2>1, <2>2, Zenon DEF ValueOf
<1> HIDE DEF new, out
<1>4. PointsInto(new, g, out)
  BY <1>2, <1>3, Zenon DEF PointsInto
<1>5. \A k \in Keys : ValueOf(new, out[k]) = m[k]
  BY <1>2, <1>3, Zenon
<1> QED
  BY <1>4, <1>5, Zenon DEF Written, new, out

\* A table that holds the memtable's records has a record for the same keys.
LEMMA WrittenAbsent ==
  ASSUME NEW files, NEW g, NEW data, NEW m \in MemContent, Written(files, g, data, m),
         NEW k \in Keys
  PROVE  data[k] = Absent <=> m[k] = Absent
<1>1. Absent \notin Ptr /\ Absent \notin Values
  BY TablesAssumption, Zenon DEF MemCell
<1>2. ValueOf(files, data[k]) = m[k]
  BY Zenon DEF Written
<1>3. data[k] \in Ptr => ValueOf(files, data[k]) \in Values
  BY Zenon DEF Written, PointsInto, OnDisk, ValueOf
<1> QED
  BY <1>1, <1>2, <1>3, Zenon DEF ValueOf

\* What a merge writes points where its inputs do.
LEMMA MergePoints ==
  ASSUME NEW tables, IsList(tables), NEW files, NEW g,
         \A s \in DOMAIN tables : PointsInto(files, g, tables[s].data), NEW drop,
         NEW k \in Keys
  PROVE  /\ Lookup(tables, k) \in Ptr => Lookup(tables, k).gen = g /\ OnDisk(files, Lookup(tables, k))
         /\ MergeRecords(tables, drop)[k] \in Ptr =>
              /\ MergeRecords(tables, drop)[k].gen = g
              /\ OnDisk(files, MergeRecords(tables, drop)[k])
<1>1. Absent \notin Ptr
  BY TablesAssumption, Zenon DEF MemCell
<1>2. Lookup(tables, k) \in Ptr => Lookup(tables, k).gen = g /\ OnDisk(files, Lookup(tables, k))
  <2>1. \/ Lookup(tables, k) = Absent
        \/ \E m \in DOMAIN tables : Lookup(tables, k) = tables[m].data[k]
    BY LookupCases, Zenon
  <2> QED
    BY <1>1, <2>1, Zenon DEF PointsInto
<1>3. MergeRecords(tables, drop)[k] \in {Absent, Lookup(tables, k)}
  BY Zenon DEF MergeRecords
<1> QED
  BY <1>1, <1>2, <1>3, Zenon

-----------------------------------------------------------------------------
\* No table is listed twice.
Distinct(tables) ==
  \A s, t \in DOMAIN tables : tables[s].id = tables[t].id => s = t

\* The inputs of a merge are a run of the list, down to the oldest table if
\* tombstones are to be dropped.
StillListed(tables, inputs, drop) ==
  /\ DOMAIN inputs \subseteq DOMAIN tables
  /\ \A s \in DOMAIN inputs : inputs[s] = tables[s]
  /\ AgeContiguous(tables, DOMAIN inputs)
  /\ drop => \A s \in DOMAIN tables \ DOMAIN inputs, a \in DOMAIN inputs : a < s

\* The tables install_merge_result takes out are the inputs.
LEMMA HitInputs ==
  ASSUME NEW tables, Distinct(tables), NEW inputs, NEW drop,
         StillListed(tables, inputs, drop)
  PROVE  Hit(tables, TableIds(inputs)) = DOMAIN inputs
<1>1. ASSUME NEW s \in DOMAIN inputs PROVE s \in Hit(tables, TableIds(inputs))
  BY Zenon DEF StillListed, Hit, TableIds
<1>2. ASSUME NEW s \in Hit(tables, TableIds(inputs)) PROVE s \in DOMAIN inputs
  <2>1. PICK t \in DOMAIN inputs : tables[s].id = inputs[t].id
    BY <1>2, Zenon DEF Hit, TableIds
  <2> QED
    BY <1>2, <2>1, Zenon DEF StillListed, Distinct, Hit
<1> QED
  BY <1>1, <1>2, Zenon

\* After install_merge_result every key looks as it did, except that a
\* tombstone may be gone.
LEMMA InstallShows ==
  ASSUME NEW tables, IsList(tables), Distinct(tables),
         NEW inputs, DOMAIN inputs # {}, NEW drop \in BOOLEAN,
         StillListed(tables, inputs, drop),
         NEW out, out.data = MergeRecords(inputs, drop),
         NEW k \in Keys
  PROVE  LET T == InstallMergeResult(tables, TableIds(inputs), out)
         IN  \/ Lookup(T, k) = Lookup(tables, k)
             \/ Lookup(tables, k) = Tomb /\ Lookup(T, k) = Absent
<1> DEFINE R == DOMAIN inputs
<1>1. Hit(tables, TableIds(inputs)) = R
  BY HitInputs, Zenon
<1>2. /\ R \subseteq DOMAIN tables /\ AgeContiguous(tables, R)
      /\ \A s \in R : inputs[s] = tables[s]
      /\ drop => \A s \in DOMAIN tables \ R, a \in R : a < s
  BY Zenon DEF StillListed
<1> HIDE DEF R
<1>3. R = DOMAIN inputs
  BY Zenon DEF R
<1> QED
  BY <1>1, <1>2, <1>3, InstallLookup

\* A newer table does not come between the inputs, nor under them.
LEMMA PushListed ==
  ASSUME NEW tables, DOMAIN tables \subseteq Int, Bounded(DOMAIN tables), NEW t,
         NEW inputs, NEW drop, StillListed(tables, inputs, drop)
  PROVE  StillListed(PushNewest(tables, t), inputs, drop)
<1> DEFINE P == PushNewest(tables, t)
           top == Top(tables)
<1>1. /\ top \in Int /\ \A s \in DOMAIN tables : s < top /\ s \in Int
      /\ DOMAIN P = DOMAIN tables \cup {top}
      /\ \A s \in DOMAIN tables : P[s] = tables[s]
  BY PushNewestSlot, Zenon
<1> HIDE DEF P, top
<1>2. DOMAIN inputs \subseteq DOMAIN P /\ \A s \in DOMAIN inputs : inputs[s] = P[s]
  BY <1>1, Zenon DEF StillListed
<1>3. AgeContiguous(P, DOMAIN inputs)
  <2>1. ASSUME NEW s \in DOMAIN P, NEW a \in DOMAIN inputs, NEW b \in DOMAIN inputs,
               a <= s, s <= b
        PROVE  s \in DOMAIN inputs
    <3>1. s \in DOMAIN tables
      BY <1>1, <2>1 DEF StillListed
    <3> QED
      BY <2>1, <3>1, Zenon DEF StillListed, AgeContiguous
  <2> QED
    BY <2>1, Zenon DEF AgeContiguous
<1>4. drop => \A s \in DOMAIN P \ DOMAIN inputs, a \in DOMAIN inputs : a < s
  BY <1>1, Zenon DEF StillListed
<1> QED
  BY <1>2, <1>3, <1>4, Zenon DEF StillListed, P

\* A table with a number of its own may be inserted, or take its inputs' place.
LEMMA PushDistinct ==
  ASSUME NEW tables, DOMAIN tables \subseteq Int, Bounded(DOMAIN tables), Distinct(tables),
         NEW t, t.id \notin TableIds(tables)
  PROVE  Distinct(PushNewest(tables, t))
<1> DEFINE P == PushNewest(tables, t)
           top == Top(tables)
<1>1. /\ DOMAIN P = DOMAIN tables \cup {top} /\ P[top] = t
      /\ \A s \in DOMAIN tables : P[s] = tables[s]
  BY PushNewestSlot, Zenon
<1>2. \A s \in DOMAIN tables : tables[s].id # t.id
  BY Zenon DEF TableIds
<1> HIDE DEF P, top
<1>3. Distinct(P)
  BY <1>1, <1>2, Zenon DEF Distinct
<1> QED
  BY <1>3, Zenon DEF P

\* So may the output of a merge.
LEMMA InstallDistinct ==
  ASSUME NEW tables, DOMAIN tables \subseteq Int, Bounded(DOMAIN tables), Distinct(tables),
         NEW ids, NEW out, out.id \notin TableIds(tables)
  PROVE  Distinct(InstallMergeResult(tables, ids, out))
<1> DEFINE hit == Hit(tables, ids)
           slot == IF hit # {} THEN Max(hit)
                   ELSE IF DOMAIN tables = {} THEN 1 ELSE Min(DOMAIN tables) - 1
           T == InstallMergeResult(tables, ids, out)
<1>1. T = [s \in (DOMAIN tables \ hit) \cup {slot} |-> IF s = slot THEN out ELSE tables[s]]
  BY Zenon DEF InstallMergeResult, Hit
<1>2. \A s \in DOMAIN tables : tables[s].id # out.id
  BY Zenon DEF TableIds
<1> HIDE DEF hit, slot, T
<1>3. /\ DOMAIN T \subseteq DOMAIN tables \cup {slot}
      /\ \A s \in DOMAIN T : (s = slot /\ T[s] = out) \/ (s # slot /\ s \in DOMAIN tables /\ T[s] = tables[s])
  BY <1>1, Zenon
<1>4. Distinct(T)
  BY <1>2, <1>3, Zenon DEF Distinct
<1> QED
  BY <1>4, Zenon DEF T

\* A run that includes the oldest table has nothing under it.
LEMMA OldestUnder ==
  ASSUME NEW tables, DOMAIN tables \subseteq Int, Bounded(DOMAIN tables),
         NEW R, R \subseteq DOMAIN tables, AgeContiguous(tables, R), ReachesOldest(tables, R),
         NEW s \in DOMAIN tables \ R, NEW a \in R
  PROVE  a < s
<1>1. Min(DOMAIN tables) <= s /\ Min(DOMAIN tables) \in R /\ Min(DOMAIN tables) \in Int
  BY MaxMin, Zenon DEF ReachesOldest
<1>2. ~(s <= a)
  BY <1>1, Zenon DEF AgeContiguous
<1> QED
  BY <1>2

-----------------------------------------------------------------------------
\* A set of naturals has a least element.
LEMMA LeastNat ==
  ASSUME NEW T, T \subseteq Nat, T # {}
  PROVE  \E x \in T : \A y \in T : x <= y
<1> DEFINE R == {p \in Nat \X Nat : p[1] < p[2]}
<1>1. IsWellFoundedOn(R, Nat)
  BY NatLessThanWellFounded, Zenon DEF OpToRel
<1>2. \E x \in T : \A y \in T : <<y, x>> \notin R
  <2> HIDE DEF R
  <2> QED
    BY <1>1, WFMin, Zenon
<1>3. \A x, y \in T : <<y, x>> \notin R => x <= y
  OBVIOUS
<1> QED
  BY <1>2, <1>3, Zenon

\* A log that mentions a key mentions it for a last time.
LEMMA LastRecord ==
  ASSUME NEW log \in Seq(LogRecord), NEW k, NEW i \in DOMAIN log, log[i].key = k
  PROVE  \E j \in DOMAIN log : /\ log[j].key = k
                               /\ \A h \in DOMAIN log : h > j => log[h].key # k
<1> DEFINE n == Len(log)
           T == {m \in 0 .. n : n - m \in DOMAIN log /\ log[n - m].key = k}
<1>0. DOMAIN log = 1 .. n /\ n \in Nat
  OBVIOUS
<1> HIDE DEF n
<1>1. n - i \in T
  <2>1. n - i \in 0 .. n /\ n - (n - i) = i
    BY <1>0
  <2> QED
    BY <2>1, Zenon
<1>2. T \subseteq Nat /\ T # {}
  BY <1>0, <1>1
<1>3. PICK m \in T : \A y \in T : m <= y
  BY <1>2, LeastNat, Zenon
<1>4. ASSUME NEW h \in DOMAIN log, h > n - m, log[h].key = k
      PROVE  FALSE
  <2>1. n - h \in 0 .. n /\ n - (n - h) = h /\ n - h < m
    BY <1>0, <1>3, <1>4
  <2>2. n - h \in T
    BY <1>4, <2>1, Zenon
  <2>3. m <= n - h /\ m \in 0 .. n
    BY <1>3, <2>2, Zenon
  <2> QED
    BY <1>0, <2>1, <2>3
<1> QED
  BY <1>3, <1>4, Zenon

\* Replay keeps the last record of a key.
LEMMA ReplayLast ==
  ASSUME NEW log \in Seq(LogRecord), NEW k \in Keys, NEW j \in DOMAIN log,
         log[j].key = k, \A h \in DOMAIN log : h > j => log[h].key # k
  PROVE  Replay(log)[k] = log[j].cell /\ Replay(log)[k] # Absent
<1> DEFINE last == {i \in DOMAIN log : /\ log[i].key = k
                                      /\ \A h \in i + 1 .. Len(log) : log[h].key # k}
<1>1. \A i \in last : i = j
  BY DEF last
<1>2. j \in last
  BY DEF last
<1>3. Replay(log)[k] = IF last = {} THEN Absent ELSE log[CHOOSE i \in last : TRUE].cell
  BY Zenon DEF Replay
<1>4. log[j].cell # Absent
  <2>1. log[j] \in LogRecord
    OBVIOUS
  <2> QED
    BY <2>1, TablesAssumption, Zenon DEF LogRecord
<1> HIDE DEF last
<1>5. (CHOOSE i \in last : TRUE) = j
  BY <1>1, <1>2, Zenon
<1> QED
  BY <1>2, <1>3, <1>4, <1>5, Zenon

\* A key that the log does not mention stays out.
LEMMA ReplayNone ==
  ASSUME NEW log, NEW k \in Keys, \A j \in DOMAIN log : log[j].key # k
  PROVE  Replay(log)[k] = Absent
<1> DEFINE last == {i \in DOMAIN log : /\ log[i].key = k
                                      /\ \A h \in i + 1 .. Len(log) : log[h].key # k}
<1>1. last = {}
  BY Zenon
<1>2. Replay(log)[k] = IF last = {} THEN Absent ELSE log[CHOOSE i \in last : TRUE].cell
  BY Zenon DEF Replay
<1> HIDE DEF last
<1> QED
  BY <1>1, <1>2, Zenon

\* Replaying one log after the other: the records of the second win.
LEMMA ReplayConcat ==
  ASSUME NEW a \in Seq(LogRecord), NEW b \in Seq(LogRecord), NEW k \in Keys
  PROVE  Replay(a \o b)[k] = IF Replay(b)[k] # Absent THEN Replay(b)[k] ELSE Replay(a)[k]
<1> DEFINE c == a \o b
<1>0. /\ c \in Seq(LogRecord) /\ Len(c) = Len(a) + Len(b)
      /\ \A i \in DOMAIN a : i \in DOMAIN c /\ c[i] = a[i]
      /\ \A i \in DOMAIN b : Len(a) + i \in DOMAIN c /\ c[Len(a) + i] = b[i]
      /\ \A i \in DOMAIN c : i \in DOMAIN a \/ (i - Len(a) \in DOMAIN b /\ i > Len(a))
      /\ Len(a) \in Nat /\ Len(b) \in Nat
      /\ DOMAIN a = 1 .. Len(a) /\ DOMAIN b = 1 .. Len(b)
  OBVIOUS
<1> HIDE DEF c
<1>1. CASE \E i \in DOMAIN b : b[i].key = k
  <2>1. PICK j \in DOMAIN b : b[j].key = k /\ \A h \in DOMAIN b : h > j => b[h].key # k
    BY <1>1, LastRecord, Zenon
  <2>2. Replay(b)[k] = b[j].cell /\ Replay(b)[k] # Absent
    BY <2>1, ReplayLast, Zenon
  <2>3. Len(a) + j \in DOMAIN c /\ c[Len(a) + j].key = k /\ c[Len(a) + j].cell = b[j].cell
    BY <1>0, <2>1, Zenon
  <2>4. ASSUME NEW h \in DOMAIN c, h > Len(a) + j PROVE c[h].key # k
    <3>1. h - Len(a) \in DOMAIN b /\ h - Len(a) > j /\ Len(a) + (h - Len(a)) = h
      BY <1>0, <2>1, <2>4
    <3>2. c[h] = b[h - Len(a)]
      BY <1>0, <3>1, Zenon
    <3> QED
      BY <2>1, <3>1, <3>2, Zenon
  <2>5. Replay(c)[k] = b[j].cell
    BY <1>0, <2>3, <2>4, ReplayLast, Zenon
  <2> QED
    BY <2>2, <2>5, Zenon DEF c
<1>2. CASE ~(\E i \in DOMAIN b : b[i].key = k) /\ \E i \in DOMAIN a : a[i].key = k
  <2>1. PICK j \in DOMAIN a : a[j].key = k /\ \A h \in DOMAIN a : h > j => a[h].key # k
    BY <1>2, LastRecord, Zenon
  <2>2. Replay(a)[k] = a[j].cell
    BY <2>1, ReplayLast, Zenon
  <2>3. Replay(b)[k] = Absent
    BY <1>2, ReplayNone, Zenon
  <2>4. ASSUME NEW h \in DOMAIN c, h > j PROVE c[h].key # k
    <3>1. CASE h \in DOMAIN a
      BY <1>0, <2>1, <2>4, <3>1, Zenon
    <3>2. CASE h - Len(a) \in DOMAIN b /\ h > Len(a)
      <4>1. h \in Int /\ Len(a) + (h - Len(a)) = h
        BY <1>0
      <4> QED
        BY <1>0, <1>2, <3>2, <4>1
    <3> QED
      BY <1>0, <3>1, <3>2, Zenon
  <2>5. Replay(c)[k] = a[j].cell
    <3>1. c \in Seq(LogRecord) /\ j \in DOMAIN c /\ c[j].key = k /\ c[j].cell = a[j].cell
      BY <1>0, <2>1, Zenon
    <3>2. \A h \in DOMAIN c : h > j => c[h].key # k
      BY <2>4, Zenon
    <3> QED
      BY <3>1, <3>2, ReplayLast, Zenon
  <2> QED
    BY <2>2, <2>3, <2>5, Zenon DEF c
<1>3. CASE ~(\E i \in DOMAIN b : b[i].key = k) /\ ~\E i \in DOMAIN a : a[i].key = k
  <2>1. \A i \in DOMAIN c : c[i].key # k
    <3>1. ASSUME NEW i \in DOMAIN c, i \notin DOMAIN a PROVE c[i].key # k
      <4>1. i - Len(a) \in DOMAIN b /\ i \in Int
        BY <1>0, <3>1
      <4>2. c[Len(a) + (i - Len(a))] = b[i - Len(a)] /\ Len(a) + (i - Len(a)) = i
        BY <1>0, <4>1
      <4> QED
        BY <1>3, <4>1, <4>2, Zenon
    <3> QED
      BY <1>0, <1>3, <3>1, Zenon
  <2> QED
    BY <1>3, <2>1, ReplayNone, Zenon DEF c
<1> QED
  BY <1>1, <1>2, <1>3, Zenon

\* Replaying one more record puts it.
LEMMA ReplayAppend ==
  ASSUME NEW log \in Seq(LogRecord), NEW r \in LogRecord
  PROVE  Replay(Append(log, r)) = MemPut(Replay(log), r.key, r.cell)
<1>1. <<r>> \in Seq(LogRecord) /\ Append(log, r) = log \o <<r>>
  OBVIOUS
<1>2. r.key \in Keys
  BY Zenon DEF LogRecord
<1>3. Replay(<<r>>)[r.key] = r.cell /\ r.cell # Absent
  <2>1. <<r>>[1] = r /\ DOMAIN <<r>> = {1}
    OBVIOUS
  <2>2. 1 \in DOMAIN <<r>> /\ <<r>>[1].key = r.key /\ \A h \in DOMAIN <<r>> : h > 1 => <<r>>[h].key # r.key
    BY <2>1
  <2>3. Replay(<<r>>)[r.key] = <<r>>[1].cell /\ Replay(<<r>>)[r.key] # Absent
    BY <1>1, <1>2, <2>2, ReplayLast, Zenon
  <2> QED
    BY <2>1, <2>3, Zenon
<1>4. ASSUME NEW k \in Keys, k # r.key PROVE Replay(<<r>>)[k] = Absent
  <2>1. \A j \in DOMAIN <<r>> : <<r>>[j].key # k
    BY <1>4
  <2> QED
    BY <2>1, ReplayNone, Zenon
<1>5. \A k \in Keys : Replay(Append(log, r))[k] = IF k = r.key THEN r.cell ELSE Replay(log)[k]
  <2> DEFINE new == <<r>>
  <2>1. new \in Seq(LogRecord) /\ Append(log, r) = log \o new
    BY <1>1, Zenon
  <2> HIDE DEF new
  <2>2. \A k \in Keys : Replay(log \o new)[k] = IF Replay(new)[k] # Absent THEN Replay(new)[k]
                                              ELSE Replay(log)[k]
    BY <2>1, ReplayConcat, Zenon
  <2> QED
    BY <1>3, <1>4, <2>1, <2>2, Zenon DEF new
<1>6. Replay(Append(log, r)) \in MemContent /\ Replay(log) \in MemContent
  <2> DEFINE new == Append(log, r)
  <2>1. new \in Seq(LogRecord)
    OBVIOUS
  <2> HIDE DEF new
  <2>2. Replay(new) \in MemContent /\ Replay(log) \in MemContent
    BY <2>1, ReplayContent, Zenon
  <2> QED
    BY <2>2, Zenon DEF new
<1> QED
  BY <1>2, <1>5, <1>6, Zenon DEF MemPut, MemContent

\* Replaying nothing leaves the memtable empty.
LEMMA ReplayEmpty == Replay(<<>>) = Empty
<1>1. \A k \in Keys : Replay(<<>>)[k] = Absent
  BY ReplayNone
<1>2. Replay(<<>>) \in MemContent
  <2>1. <<>> \in Seq(LogRecord)
    OBVIOUS
  <2> QED
    BY <2>1, ReplayContent, Zenon
<1> QED
  BY <1>1, <1>2, Zenon DEF Empty, MemContent

\* Prefixes of a log.
LEMMA Prefixes ==
  ASSUME NEW S, NEW log \in Seq(S)
  PROVE  /\ SubSeq(log, 1, Len(log)) = log
         /\ SubSeq(log, 1, 0) = <<>>
         /\ <<>> \o log = log /\ log \o <<>> = log
         /\ \A r \in S, n \in 0 .. Len(log) : SubSeq(Append(log, r), 1, n) = SubSeq(log, 1, n)
<1>1. SubSeq(log, 1, Len(log)) = log
  OBVIOUS
<1>2. SubSeq(log, 1, 0) = <<>>
  OBVIOUS
<1>3. <<>> \o log = log /\ log \o <<>> = log
  OBVIOUS
<1>4. ASSUME NEW r \in S, NEW n \in 0 .. Len(log)
      PROVE  SubSeq(Append(log, r), 1, n) = SubSeq(log, 1, n)
  OBVIOUS
<1> QED
  BY <1>1, <1>2, <1>3, <1>4, Zenon

-----------------------------------------------------------------------------
\* Who holds the lock, at which point.
LockOK ==
  /\ mu.at = "free" => mu.by = "none"
  /\ mu.at \in {"flush", "flush_built", "flush_committed"} =>
       mu.by \in {"flush", "gc", "open"}
  /\ mu.at \in {"gc", "gc_built", "gc_committed"} => mu.by = "gc"
  /\ mu.at \in {"drop_wal", "open_done"} => mu.by = "open"
  /\ mu.at = "flusher_committed" => mu.by = "flusher" /\ flusher.pc = "built"
  /\ mu.at = "merge_committed" => mu.by \in Compactors /\ jobs[mu.by].pc = "built"
  /\ mode = "closed" => mu.at = "free"
  /\ mode = "opening" <=> mu.by = "open"

\* The flushing slot: taken while the flusher works, free while somebody is in
\* flush_locked or collects garbage; and nothing runs while the store is not open.
SlotOK ==
  /\ mu.by \in {"flush", "gc", "open"} => ~has_flushing
  /\ flusher.pc # "idle" => /\ has_flushing
                            /\ flusher.gen = current_gen
                            /\ flusher.seq = flushing_seq
  /\ flusher.pc = "taken" => flusher.data = flushing_memtable
  /\ mode # "open" => /\ ~has_flushing /\ obsolete = {} /\ obsolete_gens = {}
                      /\ \A j \in Compactors : jobs[j] = IdleJob
                      /\ \A r \in Readers : rd[r] = IdleRead

\* The value-log files of the generations in use exist.
GensOK ==
  /\ mode # "closed" => current_gen \in vlogs
  /\ vlogs \subseteq DOMAIN vfiles
  /\ \A g \in vlogs : g <= current_gen
  /\ \A g \in obsolete_gens : g < current_gen
  /\ mu.at = "gc_built" => (current_gen + 1) \in DOMAIN vfiles

\* Every list of tables has a newest and an oldest slot.
BoundsOK ==
  /\ Bounded(DOMAIN sstables)
  /\ \A j \in Compactors : Bounded(DOMAIN jobs[j].inputs)
  /\ Bounded(DOMAIN manifest.tables)
  /\ Bounded(DOMAIN ssts) /\ Bounded(DOMAIN vfiles)

\* The ids of tables that were listed once and may still be referred to, and
\* those together with the listed ones.
Old ==
  {i \in Nat : \/ i \in obsolete \cup mu.ids
              \/ \E j \in Compactors : i \in TableIds(jobs[j].inputs)}

Listed == TableIds(sstables) \cup Old

\* A sequence number reserved for a table under way belongs to no other table.
IdsOK ==
  /\ \A i \in Listed : i < next_seq
  /\ has_flushing =>
       /\ flushing_seq < next_seq /\ flushing_seq \notin Old
       /\ mu.at # "flusher_committed" => flushing_seq \notin Listed
  /\ \A j \in Compactors : jobs[j].pc # "idle" =>
       /\ jobs[j].seq < next_seq /\ jobs[j].seq \notin Old
       /\ ~(mu.at = "merge_committed" /\ mu.by = j) => jobs[j].seq \notin Listed
       /\ has_flushing => jobs[j].seq # flushing_seq
       /\ \A i \in Compactors : i # j /\ jobs[i].pc # "idle" => jobs[i].seq # jobs[j].seq
  /\ mu.at \in {"flush_built", "gc_built"} =>
       /\ mu.seq < next_seq /\ mu.seq \notin Listed
       /\ \A j \in Compactors : jobs[j].pc # "idle" => jobs[j].seq # mu.seq

\* Every listed table, and every finished one about to be listed, is on disk.
FilesOK ==
  /\ \A s \in DOMAIN sstables : /\ sstables[s].id \in DOMAIN ssts
                                /\ ssts[sstables[s].id] = sstables[s].data
  /\ flusher.pc = "built" => /\ flusher.seq \in DOMAIN ssts
                             /\ ssts[flusher.seq] = flusher.data
  /\ \A j \in Compactors : jobs[j].pc = "built" =>
       jobs[j].seq \in DOMAIN ssts /\ ssts[jobs[j].seq] = jobs[j].data
  /\ mu.at \in {"flush_built", "gc_built"} =>
       mu.seq \in DOMAIN ssts /\ ssts[mu.seq] = mu.data

\* A number that is reserved and not yet used, or not reserved, has no file.
FreshOK ==
  mode # "closed" =>
    /\ \A i \in DOMAIN ssts : i < next_seq
    /\ has_flushing /\ flusher.pc # "built" => flushing_seq \notin DOMAIN ssts
    /\ \A j \in Compactors : jobs[j].pc = "picked" => jobs[j].seq \notin DOMAIN ssts

\* MANIFEST is what the store in memory is, and its tables are on disk.
CommitOK ==
  /\ manifest.present => \A s \in DOMAIN manifest.tables :
       manifest.tables[s] \in DOMAIN ssts /\ manifest.tables[s] < manifest.next_seq
  /\ mode # "closed" /\ manifest.present =>
       /\ manifest.tables = [s \in DOMAIN sstables |-> sstables[s].id]
       /\ manifest.gen = current_gen /\ manifest.next_seq <= next_seq
  /\ mode = "open" => manifest.present

EngineInv ==
  /\ TypeOK
  /\ LockOK /\ SlotOK /\ GensOK /\ BoundsOK
  /\ IdsOK /\ FilesOK /\ FreshOK /\ CommitOK /\ HeldOK

-----------------------------------------------------------------------------

\* The types of what a step leaves alone.
LEMMA TypeFrame ==
  ASSUME EngineInv
  PROVE  /\ UNCHANGED <<flusher, jobs, waiting, rd, locals>> => ThreadsType'
         /\ UNCHANGED <<logfiles, pending>> => LogsType'
         /\ UNCHANGED tablefiles => FilesType'
         /\ UNCHANGED ghost => GhostType'
BY Zenon DEF EngineInv, TypeOK, ThreadsType, LogsType, FilesType, GhostType, logfiles,
   tablefiles, ghost

\* What a thread refers to as it releases the lock is a set of files.
LEMMA LocalsSet ==
  ASSUME ThreadsType, NEW t \in Threads, NEW refs \in RefsType
  PROVE  [locals EXCEPT ![t] = refs] \in [Threads -> RefsType]
BY Zenon DEF ThreadsType

\* A thread whose locals are gone refers to nothing.
LEMMA NoRefsType ==
  NoRefs \in RefsType /\ NoRefs.tables = {} /\ NoRefs.gens = {}
BY Zenon DEF NoRefs, RefsType

\* Sequence numbers in use were handed out.
LEMMA ListedNat ==
  ASSUME EngineInv
  PROVE  Old \subseteq Listed /\ \A i \in Listed : i \in Nat /\ i < next_seq
<1>1. TableIds(sstables) \subseteq Nat
  BY Zenon DEF EngineInv, TypeOK, MemoryType, IsTables, TableIds
<1>2. Old \subseteq Nat
  BY Zenon DEF Old
<1> QED
  BY <1>1, <1>2, Zenon DEF EngineInv, IdsOK, Listed

\* No pending directory operation is one of the cases of pending.
LEMMA NothingIsPending == IsPending(NothingPending)
BY DEF IsPending, NothingPending

\* A step of the caller that holds the lock, or takes it, between two writes.
LEMMA MuMoves ==
  ASSUME EngineInv, LockOK', SlotOK',
         mu.at \notin {"flusher_committed", "merge_committed", "gc_committed"},
         mu'.at \notin {"flush_built", "gc_built"}, mu'.ids \subseteq mu.ids,
         UNCHANGED <<mode, sstables, vlogs, current_gen, next_seq, obsolete,
                     obsolete_gens, has_flushing, flushing_seq, flusher, jobs, rd,
                     tablefiles>>
  PROVE  GensOK' /\ BoundsOK' /\ IdsOK' /\ FilesOK' /\ FreshOK' /\ CommitOK' /\ HeldOK'
<1>1. GensOK' /\ BoundsOK'
  BY Zenon DEF EngineInv, GensOK, BoundsOK, tablefiles
<1>2. Listed' \subseteq Listed /\ Old' \subseteq Old
  BY Zenon DEF Listed, Old
<1>3. IdsOK'
  BY <1>2, Zenon DEF EngineInv, IdsOK
<1>4. FilesOK' /\ CommitOK' /\ HeldOK' /\ FreshOK'
  BY Zenon DEF EngineInv, FilesOK, CommitOK, HeldOK, FreshOK, tablefiles
<1> QED
  BY <1>1, <1>3, <1>4, Zenon

\* The lock, when it is free, and where the caller of flush_locked goes on.
LEMMA FreeLock ==
  /\ Free \in LockType /\ Free.at = "free" /\ Free.by = "none" /\ Free.ids = {}
BY Zenon DEF Free, LockType, LockPoints, Empty, Content, Cell, MemCell

\* An idle thread refers to nothing.
LEMMA IdleHolds ==
  /\ IdleJob.pc = "idle" /\ IdleRead.pc = "idle"
  /\ TableIds(IdleJob.inputs) = {} /\ DOMAIN IdleJob.inputs = {}
  /\ TableIds(IdleRead.tables) = {} /\ IdleRead.gens = {}
  /\ IsJob(IdleJob) /\ IsRead(IdleRead)
<1>1. Empty \in Content /\ Empty \in MemContent
  BY Zenon DEF Empty, Content, MemContent, Cell, MemCell
<1>2. DOMAIN NoTables = {} /\ NoTables = [s \in DOMAIN NoTables |-> NoTables[s]]
  BY Zenon DEF NoTables
<1>3. TableIds(NoTables) = {} /\ IsTables(NoTables)
  BY <1>2, Zenon DEF TableIds, IsTables
<1>4. IsJob(IdleJob)
  BY <1>1, <1>3, Zenon DEF IsJob, IdleJob
<1>5. IsRead(IdleRead)
  BY <1>1, <1>3, Zenon DEF IsRead, IdleRead
<1> QED
  BY <1>2, <1>3, <1>4, <1>5, Zenon DEF IdleJob, IdleRead

\* What unlinking leaves: the files of the tables and value logs that are not
\* obsolete or that somebody still refers to.
Unlinked(obs, obsg) ==
  /\ DOMAIN ssts' \subseteq DOMAIN ssts /\ obsolete' \subseteq obs
  /\ \A i \in DOMAIN ssts' : ssts'[i] = ssts[i]
  /\ \A i \in DOMAIN ssts :
       \/ i \notin obs \/ i \in TableIds(sstables)
       \/ \E j \in Compactors : i \in TableIds(jobs'[j].inputs)
       \/ \E r \in Readers : i \in TableIds(rd'[r].tables)
       => i \in DOMAIN ssts'
  /\ DOMAIN vfiles' \subseteq DOMAIN vfiles /\ obsolete_gens' \subseteq obsg
  /\ \A g \in DOMAIN vfiles' : vfiles'[g] = vfiles[g]
  /\ \A g \in DOMAIN vfiles :
       (g \notin obsg \/ g \in vlogs' \/ \E r \in Readers : g \in rd'[r].gens)
       => g \in DOMAIN vfiles'

\* A step may end a merge and release the lock; it starts neither.
Releases ==
  /\ has_flushing' => has_flushing /\ flusher' = flusher
  /\ \A j \in Compactors : /\ TableIds(jobs'[j].inputs) \subseteq TableIds(jobs[j].inputs)
                           /\ jobs'[j].pc # "idle" => jobs'[j] = jobs[j]
                           /\ Bounded(DOMAIN jobs'[j].inputs)
  /\ mu'.ids \subseteq mu.ids /\ (mu'.at # "free" => mu' = mu)
  /\ mu.at = "flusher_committed" => mu' = mu \/ ~has_flushing'
  /\ mu.at = "merge_committed" => mu' = mu \/ jobs'[mu.by].pc = "idle"

\* obsolete_ after a pass keeps only files still referred to.
LEMMA UnlinkFiles ==
  ASSUME NEW obs, NEW obsg, Unlink(obs, obsg, sstables, vlogs', flusher', jobs', rd', locals')
  PROVE  Unlinked(obs, obsg)
<1>1. /\ DOMAIN ssts' \subseteq DOMAIN ssts /\ obsolete' \subseteq obs
      /\ \A i \in DOMAIN ssts' : ssts'[i] = ssts[i]
      /\ \A i \in DOMAIN ssts :
           \/ i \notin obs \/ i \in TableIds(sstables)
           \/ \E j \in Compactors : i \in TableIds(jobs'[j].inputs)
           \/ \E r \in Readers : i \in TableIds(rd'[r].tables)
           => i \in DOMAIN ssts'
  BY Zenon DEF Unlink, UnheldTables, Restrict
<1>2. /\ DOMAIN vfiles' \subseteq DOMAIN vfiles /\ obsolete_gens' \subseteq obsg
      /\ \A g \in DOMAIN vfiles' : vfiles'[g] = vfiles[g]
      /\ \A g \in DOMAIN vfiles :
           (g \notin obsg \/ g \in vlogs' \/ \E r \in Readers : g \in rd'[r].gens)
           => g \in DOMAIN vfiles'
  BY Zenon DEF Unlink, UnheldGens, Restrict
<1> QED
  BY <1>1, <1>2, Zenon DEF Unlinked

\* Numbers stay reserved for one table when references are dropped.
LEMMA ReleaseIds ==
  ASSUME EngineInv, Releases, Listed' \subseteq Listed, Old' \subseteq Old,
         UNCHANGED <<next_seq, flushing_seq>>
  PROVE  IdsOK'
<1>0. IdsOK
  BY Zenon DEF EngineInv
<1>1. \A i \in Listed' : i < next_seq'
  BY <1>0, Zenon DEF IdsOK
<1>2. has_flushing' =>
        /\ flushing_seq' < next_seq' /\ flushing_seq' \notin Old'
        /\ mu'.at # "flusher_committed" => flushing_seq' \notin Listed'
  <2>1. SUFFICES ASSUME has_flushing'
                 PROVE  /\ flushing_seq < next_seq /\ flushing_seq \notin Old
                        /\ mu'.at # "flusher_committed" => flushing_seq \notin Listed
    BY Zenon
  <2>2. has_flushing /\ (mu.at = "flusher_committed" => mu' = mu)
    BY <2>1, Zenon DEF Releases
  <2> QED
    BY <1>0, <2>2, Zenon DEF IdsOK
<1>3. ASSUME NEW j \in Compactors, jobs'[j].pc # "idle"
      PROVE  /\ jobs'[j].seq < next_seq' /\ jobs'[j].seq \notin Old'
             /\ ~(mu'.at = "merge_committed" /\ mu'.by = j) => jobs'[j].seq \notin Listed'
             /\ has_flushing' => jobs'[j].seq # flushing_seq'
             /\ \A i \in Compactors : i # j /\ jobs'[i].pc # "idle" => jobs'[i].seq # jobs'[j].seq
  <2>1. jobs'[j] = jobs[j] /\ jobs[j].pc # "idle"
    BY <1>3, Zenon DEF Releases
  <2>2. \A i \in Compactors : jobs'[i].pc # "idle" => jobs'[i] = jobs[i]
    BY Zenon DEF Releases
  <2>3. mu.at = "merge_committed" /\ mu.by = j => mu' = mu
    BY <1>3, Zenon DEF Releases
  <2>4. has_flushing' => has_flushing
    BY Zenon DEF Releases
  <2>5. /\ jobs[j].seq < next_seq /\ jobs[j].seq \notin Old
        /\ ~(mu.at = "merge_committed" /\ mu.by = j) => jobs[j].seq \notin Listed
        /\ has_flushing => jobs[j].seq # flushing_seq
        /\ \A i \in Compactors : i # j /\ jobs[i].pc # "idle" => jobs[i].seq # jobs[j].seq
    BY <1>0, <2>1, Zenon DEF IdsOK
  <2>6. ~(mu'.at = "merge_committed" /\ mu'.by = j) => jobs'[j].seq \notin Listed'
    BY <2>1, <2>3, <2>5, Zenon
  <2>7. \A i \in Compactors : i # j /\ jobs'[i].pc # "idle" => jobs'[i].seq # jobs'[j].seq
    BY <2>1, <2>2, <2>5, Zenon
  <2> QED
    BY <2>1, <2>4, <2>5, <2>6, <2>7, Zenon
<1>4. mu'.at \in {"flush_built", "gc_built"} =>
        /\ mu'.seq < next_seq' /\ mu'.seq \notin Listed'
        /\ \A j \in Compactors : jobs'[j].pc # "idle" => jobs'[j].seq # mu'.seq
  <2>1. SUFFICES ASSUME mu'.at \in {"flush_built", "gc_built"}
                 PROVE  /\ mu'.seq < next_seq /\ mu'.seq \notin Listed
                        /\ \A j \in Compactors : jobs'[j].pc # "idle" => jobs'[j].seq # mu'.seq
    BY Zenon
  <2>2. mu' = mu /\ \A j \in Compactors : jobs'[j].pc # "idle" => jobs'[j] = jobs[j]
    BY <2>1, Zenon DEF Releases
  <2>3. /\ mu.seq < next_seq /\ mu.seq \notin Listed
        /\ \A j \in Compactors : jobs[j].pc # "idle" => jobs[j].seq # mu.seq
    BY <1>0, <2>1, <2>2, Zenon DEF IdsOK
  <2> QED
    BY <2>2, <2>3, Zenon
<1> QED
  BY <1>1, <1>2, <1>3, <1>4, Zenon DEF IdsOK

\* The files of listed and finished tables survive an unlink of old ones.
LEMMA UnlinkFilesOK ==
  ASSUME EngineInv, Releases, NEW obs, NEW obsg, Unlinked(obs, obsg), obs \subseteq Old,
         flusher' = flusher \/ flusher'.pc = "idle", UNCHANGED <<sstables, next_seq>>
  PROVE  FilesOK'
<1>1. /\ \A i \in DOMAIN ssts' : ssts'[i] = ssts[i]
      /\ \A i \in DOMAIN ssts : i \notin Old \/ i \in TableIds(sstables) => i \in DOMAIN ssts'
  BY Zenon DEF Unlinked
<1>2. \A s \in DOMAIN sstables' : /\ sstables'[s].id \in DOMAIN ssts'
                                  /\ ssts'[sstables'[s].id] = sstables'[s].data
  <2>1. \A s \in DOMAIN sstables : sstables[s].id \in TableIds(sstables)
    BY Zenon DEF TableIds
  <2> QED
    BY <1>1, <2>1, Zenon DEF EngineInv, FilesOK
<1>3. flusher'.pc = "built" => /\ flusher'.seq \in DOMAIN ssts'
                               /\ ssts'[flusher'.seq] = flusher'.data
  <2>1. SUFFICES ASSUME flusher'.pc = "built"
                 PROVE  flusher'.seq \in DOMAIN ssts' /\ ssts'[flusher'.seq] = flusher'.data
    BY Zenon
  <2>2. flusher' = flusher
    BY <2>1, Zenon
  <2>3. has_flushing /\ flusher.seq = flushing_seq
    BY <2>1, <2>2, Zenon DEF EngineInv, SlotOK
  <2>4. /\ flusher.seq \notin Old
        /\ flusher.seq \in DOMAIN ssts /\ ssts[flusher.seq] = flusher.data
    BY <2>1, <2>2, <2>3, Zenon DEF EngineInv, FilesOK, IdsOK
  <2> QED
    BY <1>1, <2>2, <2>4, Zenon
<1>4. \A j \in Compactors : jobs'[j].pc = "built" =>
        jobs'[j].seq \in DOMAIN ssts' /\ ssts'[jobs'[j].seq] = jobs'[j].data
  <2>1. SUFFICES ASSUME NEW j \in Compactors, jobs'[j].pc = "built"
                 PROVE  jobs'[j].seq \in DOMAIN ssts' /\ ssts'[jobs'[j].seq] = jobs'[j].data
    BY Zenon
  <2>2. jobs'[j] = jobs[j] /\ jobs[j].pc = "built" /\ jobs[j].pc # "idle"
    BY <2>1, Zenon DEF Releases
  <2>3. /\ jobs[j].seq \notin Old
        /\ jobs[j].seq \in DOMAIN ssts /\ ssts[jobs[j].seq] = jobs[j].data
    BY <2>2, Zenon DEF EngineInv, FilesOK, IdsOK
  <2> QED
    BY <1>1, <2>2, <2>3, Zenon
<1>5. mu'.at \in {"flush_built", "gc_built"} =>
        mu'.seq \in DOMAIN ssts' /\ ssts'[mu'.seq] = mu'.data
  <2>1. SUFFICES ASSUME mu'.at \in {"flush_built", "gc_built"}
                 PROVE  mu'.seq \in DOMAIN ssts' /\ ssts'[mu'.seq] = mu'.data
    BY Zenon
  <2>2. mu' = mu
    BY <2>1, Zenon DEF Releases
  <2>3. mu.seq \notin Old /\ mu.seq \in DOMAIN ssts /\ ssts[mu.seq] = mu.data
    BY <2>1, <2>2, ListedNat, Zenon DEF EngineInv, FilesOK, IdsOK
  <2> QED
    BY <1>1, <2>2, <2>3, Zenon
<1> QED
  BY <1>2, <1>3, <1>4, <1>5, Zenon DEF FilesOK

\* A step that drops references and unlinks what became unreferenced.
LEMMA UnlinkInv ==
  ASSUME EngineInv, mode = "open",
         NEW obs, NEW obsg,
         Unlink(obs, obsg, sstables, vlogs', flusher', jobs', rd', locals'),
         obs \subseteq Old, \A g \in obsg : g \in Nat /\ g < current_gen',
         current_gen \in vlogs', vlogs' \subseteq vlogs,
         flusher' = flusher \/ flusher'.pc = "idle",
         has_flushing' => has_flushing /\ flusher' = flusher,
         \A j \in Compactors : jobs'[j] = jobs[j] \/ jobs'[j] = IdleJob,
         \A r \in Readers : rd'[r] = rd[r] \/ rd'[r] = IdleRead,
         \/ mu' = mu
         \/ /\ mu' = Free
            /\ mu.at = "flusher_committed" => ~has_flushing'
            /\ mu.at = "merge_committed" => jobs'[mu.by] = IdleJob,
         UNCHANGED <<mode, sstables, current_gen, next_seq, flushing_seq, manifest>>
  PROVE  /\ FilesType' /\ obsolete' \subseteq Nat /\ obsolete_gens' \subseteq Nat
         /\ GensOK' /\ BoundsOK'
         /\ IdsOK' /\ FilesOK' /\ FreshOK' /\ CommitOK' /\ HeldOK'
<1>1. Unlinked(obs, obsg)
  BY UnlinkFiles, Zenon
<1>2. Releases
  <2>1. \A j \in Compactors :
          /\ TableIds(jobs'[j].inputs) \subseteq TableIds(jobs[j].inputs)
          /\ jobs'[j].pc # "idle" => jobs'[j] = jobs[j]
          /\ Bounded(DOMAIN jobs'[j].inputs)
    BY IdleHolds, BoundedEmpty, Zenon DEF EngineInv, BoundsOK
  <2>2. mu'.ids \subseteq mu.ids /\ (mu'.at # "free" => mu' = mu)
    BY FreeLock, Zenon
  <2>3. /\ mu.at = "flusher_committed" => mu' = mu \/ ~has_flushing'
        /\ mu.at = "merge_committed" => mu' = mu \/ jobs'[mu.by].pc = "idle"
    BY IdleHolds, Zenon
  <2> QED
    BY <2>1, <2>2, <2>3, Zenon DEF Releases
<1>3. Listed' \subseteq Listed /\ Old' \subseteq Old /\ obsolete' \subseteq Nat
  BY <1>1, <1>2, Zenon DEF Releases, Unlinked, Listed, Old
<1>4. FilesType' /\ obsolete_gens' \subseteq Nat
  BY <1>1, Zenon DEF Unlinked, EngineInv, TypeOK, FilesType
<1>5. GensOK'
  <2>1. current_gen \in Nat
    BY Zenon DEF EngineInv, TypeOK, MemoryType
  <2>2. mu'.at = "gc_built" => (current_gen + 1) \in DOMAIN vfiles'
    BY <1>1, <1>2, <2>1 DEF Unlinked, Releases, EngineInv, GensOK
  <2> QED
    BY <1>1, <2>1, <2>2, Zenon DEF Unlinked, EngineInv, GensOK
<1>6. BoundsOK'
  <2>1. DOMAIN ssts' \subseteq DOMAIN ssts /\ DOMAIN vfiles' \subseteq DOMAIN vfiles
    BY <1>1, Zenon DEF Unlinked
  <2>2. Bounded(DOMAIN ssts') /\ Bounded(DOMAIN vfiles')
    BY <2>1, BoundedSubset, Zenon DEF EngineInv, BoundsOK
  <2> QED
    BY <1>2, <2>2, Zenon DEF Releases, EngineInv, BoundsOK
<1>7. IdsOK'
  BY <1>2, <1>3, ReleaseIds, Zenon
<1>8. FilesOK'
  BY <1>1, <1>2, UnlinkFilesOK, Zenon
<1>9. FreshOK'
  <2>1. \A j \in Compactors : jobs'[j].pc = "picked" => jobs'[j] = jobs[j]
    BY <1>2, Zenon DEF Releases
  <2> QED
    BY <1>1, <2>1, Zenon DEF Unlinked, EngineInv, FreshOK
<1>10. CommitOK'
  <2>1. manifest.tables = [s \in DOMAIN sstables |-> sstables[s].id] /\ manifest.present
    BY Zenon DEF EngineInv, CommitOK
  <2>2. \A s \in DOMAIN manifest.tables : manifest.tables[s] \in TableIds(sstables)
    BY <2>1 DEF TableIds
  <2> QED
    BY <1>1, <2>1, <2>2, Zenon DEF Unlinked, EngineInv, CommitOK
<1>11. HeldOK'
  BY <1>1, IdleHolds, Zenon DEF Unlinked, EngineInv, HeldOK
<1> QED
  BY <1>3, <1>4, <1>5, <1>6, <1>7, <1>8, <1>9, <1>10, <1>11, Zenon

\* Taking the lock at a point gives a value of its type.
LEMMA LockAt ==
  ASSUME NEW at \in LockPoints,
         NEW by \in {"flush", "gc", "open", "flusher"} \cup Compactors
  PROVE  LET m == [Free EXCEPT !.at = at, !.by = by]
         IN  m \in LockType /\ m.at = at /\ m.by = by /\ m.ids = {}
<1>1. Empty \in Content
  BY Zenon DEF Empty, Content, Cell, MemCell
<1> QED
  BY <1>1, Zenon DEF Free, LockType, LockPoints

\* Appending to the value log of generation g.
LEMMA AppendType ==
  ASSUME EngineInv, NEW g \in DOMAIN vfiles, NEW m \in Content,
         vfiles' = [vfiles EXCEPT ![g] = AppendSynced(vfiles[g], m)]
  PROVE  /\ DOMAIN vfiles' = DOMAIN vfiles
         /\ \A h \in DOMAIN vfiles' : IsValueLog(vfiles'[h])
         /\ Len(vfiles[g].data) + 1 \in Nat
<1>1. IsValueLog(vfiles[g])
  BY Zenon DEF EngineInv, TypeOK, FilesType
<1>2. IsValueLog(AppendSynced(vfiles[g], m))
  BY <1>1, AppendSyncedLog, Zenon
<1>3. Len(vfiles[g].data) \in Nat
  BY <1>1 DEF IsValueLog
<1> QED
  BY <1>2, <1>3 DEF EngineInv, TypeOK, FilesType

\* A list of tables, each of which is on disk, becomes the committed one.
LEMMA CommitList ==
  ASSUME EngineInv, IsTables(sstables'), Bounded(DOMAIN sstables'),
         \A s \in DOMAIN sstables' : /\ sstables'[s].id \in DOMAIN ssts
                                     /\ sstables'[s].id < next_seq,
         current_gen' \in Nat,
         manifest' = ManifestOf(sstables', next_seq, current_gen'),
         UNCHANGED <<ssts, next_seq>>
  PROVE  IsManifest(manifest') /\ CommitOK' /\ Bounded(DOMAIN manifest'.tables)
<1>1. /\ manifest'.present = TRUE /\ manifest'.next_seq = next_seq
      /\ manifest'.gen = current_gen'
      /\ manifest'.tables = [s \in DOMAIN sstables' |-> sstables'[s].id]
  BY Zenon DEF ManifestOf
<1>2. IsManifest(manifest')
  BY <1>1, Zenon DEF IsManifest, IsTables, EngineInv, TypeOK, MemoryType
<1>3. CommitOK'
  BY <1>1 DEF CommitOK, EngineInv, TypeOK, MemoryType
<1> QED
  BY <1>1, <1>2, <1>3, Zenon

\* The tables, and their ids, after a table is listed first.
LEMMA PushNewestTables ==
  ASSUME NEW tables, IsTables(tables), Bounded(DOMAIN tables),
         NEW id \in Nat, NEW data \in Content,
         NEW T, T = PushNewest(tables, Table(id, data))
  PROVE  /\ IsTables(T) /\ Bounded(DOMAIN T)
         /\ \A s \in DOMAIN T : \/ T[s].id = id /\ T[s].data = data
                                \/ s \in DOMAIN tables /\ T[s] = tables[s]
         /\ TableIds(T) = TableIds(tables) \cup {id}
<1> DEFINE t == Table(id, data)
<1>1. t.id = id /\ t.data = data /\ t \in [id : Nat, data : Content]
  BY Zenon DEF Table
<1>2. T = PushNewest(tables, t) /\ DOMAIN tables \subseteq Int
  BY Zenon DEF IsTables
<1> HIDE DEF t
<1>3. /\ Top(tables) \in Int /\ DOMAIN PushNewest(tables, t) = DOMAIN tables \cup {Top(tables)}
      /\ PushNewest(tables, t)[Top(tables)] = t
      /\ \A s \in DOMAIN tables : PushNewest(tables, t)[s] = tables[s]
  BY <1>2, PushNewestSlot, Zenon
<1>4. /\ DOMAIN T = DOMAIN tables \cup {Top(tables)} /\ T[Top(tables)] = t
      /\ \A s \in DOMAIN tables : T[s] = tables[s]
  BY <1>2, <1>3, Zenon
<1>5. T = [s \in DOMAIN T |-> T[s]]
  BY <1>2, Zenon DEF PushNewest
<1>6. Bounded(DOMAIN T)
  BY <1>2, <1>3, <1>4, BoundedAdd, Zenon
<1>7. IsTables(T)
  BY <1>1, <1>3, <1>4, <1>5, Zenon DEF IsTables
<1>8. TableIds(T) = TableIds(tables) \cup {id}
  BY <1>1, <1>4 DEF TableIds
<1> QED
  BY <1>1, <1>4, <1>6, <1>7, <1>8, Zenon

\* The same for the table a step has finished, in the record r it keeps.
LEMMA PushFinished ==
  ASSUME NEW tables, IsTables(tables), Bounded(DOMAIN tables),
         NEW r, r.seq \in Nat, r.data \in Content,
         NEW T, T = PushNewest(tables, Table(r.seq, r.data))
  PROVE  /\ IsTables(T) /\ Bounded(DOMAIN T)
         /\ \A s \in DOMAIN T : \/ T[s].id = r.seq /\ T[s].data = r.data
                                \/ s \in DOMAIN tables /\ T[s] = tables[s]
         /\ TableIds(T) = TableIds(tables) \cup {r.seq}
<1> DEFINE id == r.seq
           data == r.data
<1>1. id \in Nat /\ data \in Content /\ T = PushNewest(tables, Table(id, data))
  BY Zenon
<1> HIDE DEF id, data
<1>2. /\ IsTables(T) /\ Bounded(DOMAIN T)
      /\ \A s \in DOMAIN T : \/ T[s].id = id /\ T[s].data = data
                             \/ s \in DOMAIN tables /\ T[s] = tables[s]
      /\ TableIds(T) = TableIds(tables) \cup {id}
  BY <1>1, PushNewestTables, Zenon
<1> QED
  BY <1>2, Zenon DEF id, data

\* What a cell reads as is a cell.
LEMMA ReadCellCell ==
  ASSUME NEW logs, NEW gens, NEW c \in Cell
  PROVE  ReadCell(logs, gens, c) \in Cell
BY Zenon DEF ReadCell, Resolves, Cell, MemCell

\* What the constructor loads is a list of tables whose files exist, numbered
\* below the next sequence number, and value logs up to the current one.
LEMMA RecoveredTables ==
  ASSUME EngineInv, NEW db, db = Recovered
  PROVE  /\ IsTables(db.tables) /\ Bounded(DOMAIN db.tables)
         /\ \A s \in DOMAIN db.tables : /\ db.tables[s].id \in DOMAIN ssts
                                        /\ ssts[db.tables[s].id] = db.tables[s].data
                                        /\ db.tables[s].id < db.next_seq
         /\ db.next_seq \in Nat /\ db.gen \in Nat
         /\ db.gens \subseteq Nat /\ Bounded(db.gens)
         /\ db.gen \in db.gens /\ \A g \in db.gens : g <= db.gen
         /\ manifest.present =>
              /\ manifest.tables = [s \in DOMAIN db.tables |-> db.tables[s].id]
              /\ manifest.gen = db.gen /\ manifest.next_seq = db.next_seq
<1>0. /\ DOMAIN ssts \subseteq Nat /\ \A i \in DOMAIN ssts : ssts[i] \in Content
      /\ DOMAIN vfiles \subseteq Nat
      /\ Bounded(DOMAIN ssts) /\ Bounded(DOMAIN vfiles)
  BY Zenon DEF EngineInv, TypeOK, FilesType, BoundsOK
<1>1. CASE manifest.present
  <2>1. db = LoadManifest
    BY <1>1, Zenon DEF Recovered
  <2>2. /\ manifest.next_seq \in Nat /\ manifest.gen \in Nat
        /\ manifest.tables = [s \in DOMAIN manifest.tables |-> manifest.tables[s]]
        /\ DOMAIN manifest.tables \subseteq Int /\ Bounded(DOMAIN manifest.tables)
        /\ \A s \in DOMAIN manifest.tables :
             /\ manifest.tables[s] \in Nat /\ manifest.tables[s] \in DOMAIN ssts
             /\ manifest.tables[s] < manifest.next_seq
    BY <1>1, Zenon DEF EngineInv, TypeOK, FilesType, IsManifest, BoundsOK, CommitOK
  <2>3. /\ db.tables = [s \in DOMAIN manifest.tables |->
                          Table(manifest.tables[s], ssts[manifest.tables[s]])]
        /\ db.next_seq = manifest.next_seq /\ db.gen = manifest.gen
        /\ db.gens = {manifest.gen}
    BY <2>1 DEF LoadManifest
  <2>4. /\ DOMAIN db.tables = DOMAIN manifest.tables
        /\ db.tables = [s \in DOMAIN db.tables |-> db.tables[s]]
        /\ \A s \in DOMAIN db.tables : /\ db.tables[s].id = manifest.tables[s]
                                       /\ db.tables[s].data = ssts[manifest.tables[s]]
                                       /\ db.tables[s] \in [id : Nat, data : Content]
    BY <1>0, <2>2, <2>3 DEF Table
  <2>5. IsTables(db.tables)
    BY <2>2, <2>4, Zenon DEF IsTables
  <2>6. manifest.tables = [s \in DOMAIN db.tables |-> db.tables[s].id]
    BY <2>2, <2>4, Zenon
  <2>7. Bounded(db.gens)
    <3>1. manifest.gen \in Int /\ db.gens = {} \cup {manifest.gen}
      BY <2>2, <2>3
    <3> QED
      BY <3>1, BoundedEmpty, BoundedAdd
  <2>8. \A s \in DOMAIN db.tables : /\ db.tables[s].id \in DOMAIN ssts
                                    /\ ssts[db.tables[s].id] = db.tables[s].data
                                    /\ db.tables[s].id < db.next_seq
    <3> SUFFICES ASSUME NEW s \in DOMAIN db.tables
                 PROVE  /\ db.tables[s].id \in DOMAIN ssts
                        /\ ssts[db.tables[s].id] = db.tables[s].data
                        /\ db.tables[s].id < db.next_seq
      BY Zenon
    <3>1. s \in DOMAIN manifest.tables /\ db.tables[s].id = manifest.tables[s]
      BY <2>4, Zenon
    <3>2. db.tables[s].data = ssts[manifest.tables[s]]
      BY <2>4, Zenon
    <3>3. db.next_seq = manifest.next_seq
      BY <2>3, Zenon
    <3> QED
      BY <2>2, <3>1, <3>2, <3>3, Zenon
  <2>9. Bounded(DOMAIN db.tables)
    BY <2>2, <2>4, Zenon
  <2>10. /\ db.next_seq \in Nat /\ db.gen \in Nat /\ db.gens \subseteq Nat
         /\ db.gen \in db.gens /\ \A g \in db.gens : g <= db.gen
         /\ manifest.gen = db.gen /\ manifest.next_seq = db.next_seq
    BY <2>2, <2>3
  <2> QED
    BY <2>5, <2>6, <2>7, <2>8, <2>9, <2>10, Zenon
<1>2. CASE ~manifest.present
  <2>1. db = LoadDirectory
    BY <1>2, Zenon DEF Recovered
  <2> DEFINE g == IF DOMAIN vfiles = {} THEN 0 ELSE Max(DOMAIN vfiles)
             n == IF DOMAIN ssts = {} THEN 0 ELSE Max(DOMAIN ssts) + 1
  <2>2. /\ db.tables = [s \in DOMAIN ssts |-> Table(s, ssts[s])]
        /\ db.next_seq = n /\ db.gen = g /\ db.gens = DOMAIN vfiles \cup {g}
    BY <2>1 DEF LoadDirectory
  <2>3. /\ DOMAIN db.tables = DOMAIN ssts
        /\ db.tables = [s \in DOMAIN db.tables |-> db.tables[s]]
        /\ \A s \in DOMAIN db.tables : /\ db.tables[s].id = s
                                       /\ db.tables[s].data = ssts[s]
                                       /\ db.tables[s] \in [id : Nat, data : Content]
    BY <1>0, <2>2 DEF Table
  <2>4. IsTables(db.tables)
    BY <1>0, <2>3 DEF IsTables
  <2>5. n \in Nat /\ \A i \in DOMAIN ssts : i < n
    <3>1. CASE DOMAIN ssts = {}
      BY <3>1, Zenon
    <3>2. CASE DOMAIN ssts # {}
      <4>1. /\ Max(DOMAIN ssts) \in DOMAIN ssts
            /\ \A i \in DOMAIN ssts : i <= Max(DOMAIN ssts)
        BY <1>0, <3>2, MaxMin
      <4> QED
        BY <1>0, <3>2, <4>1
    <3> QED
      BY <3>1, <3>2, Zenon
  <2>6. g \in Nat /\ \A h \in DOMAIN vfiles \cup {g} : h <= g
    <3>1. CASE DOMAIN vfiles = {}
      BY <3>1
    <3>2. CASE DOMAIN vfiles # {}
      <4>1. /\ Max(DOMAIN vfiles) \in DOMAIN vfiles
            /\ \A i \in DOMAIN vfiles : i <= Max(DOMAIN vfiles)
        BY <1>0, <3>2, MaxMin
      <4> QED
        BY <1>0, <3>2, <4>1, Zenon
    <3> QED
      BY <3>1, <3>2, Zenon
  <2> HIDE DEF g, n
  <2>7. Bounded(DOMAIN vfiles \cup {g})
    BY <1>0, <2>6, BoundedAdd
  <2> QED
    BY <1>0, <1>2, <2>2, <2>3, <2>4, <2>5, <2>6, <2>7
<1> QED
  BY <1>1, <1>2, Zenon

=============================================================================
